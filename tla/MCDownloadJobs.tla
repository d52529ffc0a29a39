--------------------------- MODULE MCDownloadJobs ---------------------------
(* Small instances of DownloadJobs for TLC. *)
EXTENDS DownloadJobs, TLC

CONSTANTS p1, p2, s1, s2, s3

\* Two containers of one slot each.
TwoProcesses == s1 :> p1 @@ s2 :> p2

\* A container with two slots on one event loop, and one with a single slot.
SharedLoop == s1 :> p1 @@ s2 :> p1 @@ s3 :> p2

\* All processes configured alike, or p1 with a shorter lease than p2, as while
\* a changed setting is rolled out.
SameLease  == [p \in Processes |-> MaxLease]
MixedLease == [p \in Processes |-> IF p = p1 THEN MaxLease - 2 ELSE MaxLease]

Symmetric == Permutations(JobIds) \cup Permutations(Keys)
-----------------------------------------------------------------------------
(* What the documents say of the worker, against what its code does. *)

\* The environment behaves: no crash, no stop, no database error.  Downloads may
\* make blocking calls.
Healthy ==
    \/ \E j \in JobIds : Arrive(j)
    \/ \E k \in Keys, j \in JobIds : Enqueue(k, j)
    \/ \E s \in Slots : \/ ClaimNext(s)
                        \/ RenewLease(s)
                        \/ FinishDownload(s)
                        \/ MarkSucceeded(s)
                        \/ MarkFailed(s)
    \/ \E p \in Processes : Block(p) \/ Unblock(p)
    \/ Tick
HealthySpec == Init /\ [][Healthy]_vars

\* develop/android-package-service-version-catalog-design.md:223: a worker that
\* executes normally renews its lease, lest a long download be claimed by
\* mistake.  No job is taken over while the slot that claimed it still runs it.
OnlyCrashedWorkersLoseJobs ==
    [][\A j \in JobIds : status[j] = "running" /\ worker'[j] # worker[j] =>
          job[worker[j]] # j]_vars
=============================================================================
