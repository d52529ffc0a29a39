---------------------------- MODULE DownloadJobs ----------------------------
(***************************************************************************)
(* The asynchronous download queue: the download_jobs table of             *)
(* app/download/jobs.py and the worker processes of app/download/worker.py *)
(* that claim its rows.                                                    *)
(*                                                                         *)
(* Every database call of the code is one transaction and one action here. *)
(* A worker process is one asyncio event loop that runs several slots; a   *)
(* synchronous call made by one slot's download (wget, a file copy, an     *)
(* upload, unzipping) stops the whole loop, heartbeats included.           *)
(*                                                                         *)
(* Time.  The columns lease_expires and updated_at are kept relative to    *)
(* the present: lease = lease_expires - now, idle = now - updated_at.      *)
(* Tick lets one unit pass.  Both saturate one past the last value a guard *)
(* tells apart, so no bound on the length of a behaviour is needed.        *)
(***************************************************************************)
EXTENDS Integers

CONSTANTS
    Processes,  \* worker processes (containers)
    Slots,      \* worker ids "host:pid:slot"
    ProcOf,     \* the process a slot runs in
    Keys,       \* request keys: package, version, preferred provider
    JobIds,     \* bound: rows a behaviour may create
    Lease,      \* DOWNLOAD_JOB_LEASE_SECONDS, as each process is configured
    MaxLease,   \* the longest of them
    Slack,      \* the longest an unblocked loop takes to make a write that is
                \* due, and the greatest age of the clock value it writes
    MaxFaults,  \* bound: blocking calls, database errors and crashes, together
    None

ASSUME ConstantsAssumption ==
    /\ ProcOf \in [Slots -> Processes]
    /\ MaxLease \in Nat \ {0}
    /\ Lease \in [Processes -> 1..MaxLease]
    /\ Slack \in Nat
    /\ MaxFaults \in Nat
    /\ None \notin Slots \cup Keys \cup JobIds

VARIABLES
    status,     \* column status; "none" is a row that does not exist
    reqKey,     \* column request_key
    worker,     \* column worker
    lease,      \* column lease_expires, minus now
    idle,       \* now, minus column updated_at
    created,    \* column created_at, as the number of the clock reading
    lastCreated,\* the number of the latest clock reading
    ahead,      \* history: the rows there were when a request read the clock
    proc,       \* "up", "blocked" in a synchronous call, or "down"
    pc,         \* where the slot's coroutine is
    job,        \* the job the slot runs
    beating,    \* the slot's heartbeat task is alive
    due,        \* time until the slot's next write is due
    faults      \* faults so far

rowVars  == <<status, reqKey, worker, lease, idle, created, lastCreated, ahead>>
slotVars == <<pc, job, beating, due>>
vars     == <<rowVars, proc, slotVars, faults>>

-----------------------------------------------------------------------------
Terminal == {"succeeded", "failed"}
Status   == {"none", "queued", "running"} \cup Terminal

Active(j) == status[j] \in {"queued", "running"}

\* Mutation: the lease is multiplied where it is divided.
BeatTooSlow(p) == 3 * Lease[p]

\* The heartbeat's sleep: max(1, lease / 3).
Beat(p) == IF Lease[p] \div 3 > 1 THEN Lease[p] \div 3 ELSE 1

\* Saturation points of the relative clocks.
Late    == -(Slack + 1)
MaxIdle == MaxLease + Slack + 1

TypeOK ==
    /\ status \in [JobIds -> Status]
    /\ reqKey \in [JobIds -> Keys \cup {None}]
    /\ worker \in [JobIds -> Slots \cup {None}]
    /\ lease \in [JobIds -> Late..MaxLease]
    /\ idle \in [JobIds -> 0..MaxIdle]
    /\ created \in [JobIds -> Nat]
    /\ lastCreated \in Nat
    /\ ahead \in [JobIds -> SUBSET JobIds]
    /\ proc \in [Processes -> {"up", "blocked", "down"}]
    /\ pc \in [Slots -> {"idle", "downloading", "succeeding", "failing"}]
    /\ job \in [Slots -> JobIds \cup {None}]
    /\ beating \in [Slots -> BOOLEAN]
    /\ due \in [Slots -> Late..MaxLease]
    /\ faults \in 0..MaxFaults
    /\ \A s \in Slots : pc[s] # "idle" => job[s] \in JobIds

Init ==
    /\ status = [j \in JobIds |-> "none"]
    /\ reqKey = [j \in JobIds |-> None]
    /\ worker = [j \in JobIds |-> None]
    /\ lease = [j \in JobIds |-> 0]
    /\ idle = [j \in JobIds |-> 0]
    /\ created = [j \in JobIds |-> 0]
    /\ lastCreated = 0
    /\ ahead = [j \in JobIds |-> {}]
    /\ proc = [p \in Processes |-> "up"]
    /\ pc = [s \in Slots |-> "idle"]
    /\ job = [s \in Slots |-> None]
    /\ beating = [s \in Slots |-> FALSE]
    /\ due = [s \in Slots |-> 0]
    /\ faults = 0

-----------------------------------------------------------------------------
(***************************************************************************)
(* Parts the actions share.                                                *)
(***************************************************************************)
Running(s, where) == proc[ProcOf[s]] = "up" /\ pc[s] = where

\* Mutations: the worker, or the whole guard, is missing from the updates.
OwnsIfRunning(s) == status[job[s]] = "running"
OwnsAlways(s) == TRUE

\* The fence of every write a slot makes to its job's row.
Owns(s) == status[job[s]] = "running" /\ worker[job[s]] = s

Fault == /\ faults < MaxFaults
         /\ faults' = faults + 1

\* Mutation: updated_at is not written.
StampLeaseOnly(j, p, d) ==
    /\ lease' = [lease EXCEPT ![j] = Lease[p] - d]
    /\ UNCHANGED idle

\* Process p writes lease_expires and updated_at from a clock value d old.
Stamp(j, p, d) ==
    /\ lease' = [lease EXCEPT ![j] = Lease[p] - d]
    /\ idle' = [idle EXCEPT ![j] = d]

\* The slot returns to its polling loop.
Release(s) ==
    /\ pc' = [pc EXCEPT ![s] = "idle"]
    /\ job' = [job EXCEPT ![s] = None]
    /\ beating' = [beating EXCEPT ![s] = FALSE]
    /\ due' = [due EXCEPT ![s] = 0]

\* The process ends: its coroutines vanish, its rows stay as they are.
Die(p) ==
    LET mine(s) == ProcOf[s] = p IN
    /\ proc' = [proc EXCEPT ![p] = "down"]
    /\ pc' = [s \in Slots |-> IF mine(s) THEN "idle" ELSE pc[s]]
    /\ job' = [s \in Slots |-> IF mine(s) THEN None ELSE job[s]]
    /\ beating' = [s \in Slots |-> IF mine(s) THEN FALSE ELSE beating[s]]
    /\ due' = [s \in Slots |-> IF mine(s) THEN 0 ELSE due[s]]
    /\ UNCHANGED rowVars

-----------------------------------------------------------------------------
(***************************************************************************)
(* The web workers.                                                        *)
(***************************************************************************)
\* Mutation: a running job is not recognised as the request's own.
HasQueuedJob(k) == \E i \in JobIds : status[i] = "queued" /\ reqKey[i] = k

HasActiveJob(k) == \E i \in JobIds : Active(i) /\ reqKey[i] = k

\* /download found no artifact: enqueue reads the clock before it opens its
\* transaction, so requests may insert their rows in another order.
Arrive(j) ==
    /\ status[j] = "none"
    /\ created[j] = 0
    /\ lastCreated' = lastCreated + 1
    /\ created' = [created EXCEPT ![j] = lastCreated + 1]
    /\ ahead' = [ahead EXCEPT ![j] = {i \in JobIds : status[i] # "none"}]
    /\ UNCHANGED <<status, reqKey, worker, lease, idle, proc, slotVars, faults>>

\* The transaction.  An active job of the same request is returned as it is,
\* which changes nothing; otherwise the row is inserted.
Enqueue(k, j) ==
    /\ status[j] = "none"
    /\ created[j] # 0
    /\ ~HasActiveJob(k)
    /\ status' = [status EXCEPT ![j] = "queued"]
    /\ reqKey' = [reqKey EXCEPT ![j] = k]
    /\ UNCHANGED <<worker, lease, idle, created, lastCreated, ahead, proc,
                   slotVars, faults>>

-----------------------------------------------------------------------------
(***************************************************************************)
(* The slots of a worker process.                                          *)
(***************************************************************************)
\* Mutations: a failed job is tried again; a lease never expires.
ClaimableFailed(j, p, d) == status[j] \in {"queued", "failed"}
ClaimableOnce(j, p, d) == status[j] = "queued"

\* The rows claim_next selects for process p with a clock value d units old:
\* queued, or running with an expired lease, or running and not updated for
\* longer than the lease p itself is configured with.
Claimable(j, p, d) ==
    \/ status[j] = "queued"
    \/ /\ status[j] = "running"
       /\ lease[j] < -d \/ idle[j] > Lease[p] + d

\* Mutation: the rows are sorted the other way round.
Youngest(j, p, d) ==
    \A i \in JobIds : Claimable(i, p, d) => created[j] >= created[i]

Oldest(j, p, d) ==
    \A i \in JobIds : Claimable(i, p, d) => created[j] <= created[i]

\* An idle slot takes the oldest claimable row and starts its heartbeat.
ClaimNext(s) ==
    /\ Running(s, "idle")
    /\ \E d \in 0..Slack, j \in JobIds :
        /\ Claimable(j, ProcOf[s], d)
        /\ Oldest(j, ProcOf[s], d)
        /\ status' = [status EXCEPT ![j] = "running"]
        /\ worker' = [worker EXCEPT ![j] = s]
        /\ Stamp(j, ProcOf[s], d)
        /\ job' = [job EXCEPT ![s] = j]
    /\ pc' = [pc EXCEPT ![s] = "downloading"]
    /\ beating' = [beating EXCEPT ![s] = TRUE]
    /\ due' = [due EXCEPT ![s] = Beat(ProcOf[s])]
    /\ UNCHANGED <<reqKey, created, lastCreated, ahead, proc, faults>>

\* The heartbeat wakes up.  If the row is no longer the slot's, the heartbeat
\* ends and the download goes on without one.
RenewLease(s) ==
    /\ Running(s, "downloading")
    /\ beating[s]
    /\ due[s] <= 0
    /\ \/ /\ Owns(s)
          /\ \E d \in 0..Slack : Stamp(job[s], ProcOf[s], d)
          /\ due' = [due EXCEPT ![s] = Beat(ProcOf[s])]
          /\ UNCHANGED beating
       \/ /\ ~Owns(s)
          /\ beating' = [beating EXCEPT ![s] = FALSE]
          /\ due' = [due EXCEPT ![s] = Late]
          /\ UNCHANGED <<lease, idle>>
    /\ UNCHANGED <<status, reqKey, worker, created, lastCreated, ahead, proc, pc,
                   job, faults>>

\* The update raises: the exception stays in the heartbeat task, which ends.
RenewRaises(s) ==
    /\ Running(s, "downloading")
    /\ beating[s]
    /\ due[s] <= 0
    /\ Fault
    /\ beating' = [beating EXCEPT ![s] = FALSE]
    /\ due' = [due EXCEPT ![s] = Late]
    /\ UNCHANGED <<rowVars, proc, pc, job>>

\* orchestrator.download returns or raises; the heartbeat is cancelled.
FinishDownload(s) ==
    /\ Running(s, "downloading")
    /\ \E outcome \in {"succeeding", "failing"} :
          pc' = [pc EXCEPT ![s] = outcome]
    /\ beating' = [beating EXCEPT ![s] = FALSE]
    /\ due' = [due EXCEPT ![s] = IF @ > 0 THEN 0 ELSE @]
    /\ UNCHANGED <<rowVars, proc, job, faults>>

\* Records an outcome, unless the row is no longer the slot's: the stale
\* result is then dropped.
Record(s, outcome) ==
    /\ \/ /\ Owns(s)
          /\ status' = [status EXCEPT ![job[s]] = outcome]
          /\ lease' = [lease EXCEPT ![job[s]] = 0]
          /\ idle' = [idle EXCEPT ![job[s]] = 0]
       \/ /\ ~Owns(s)
          /\ UNCHANGED <<status, lease, idle>>
    /\ Release(s)
    /\ UNCHANGED <<reqKey, worker, created, lastCreated, ahead, proc, faults>>

MarkSucceeded(s) ==
    /\ Running(s, "succeeding")
    /\ Record(s, "succeeded")

\* mark_succeeded raises inside the try block: the handler marks the job failed.
MarkSucceededRaises(s) ==
    /\ Running(s, "succeeding")
    /\ Fault
    /\ pc' = [pc EXCEPT ![s] = "failing"]
    /\ UNCHANGED <<rowVars, proc, job, beating, due>>

MarkFailed(s) ==
    /\ Running(s, "failing")
    /\ Record(s, "failed")

\* mark_failed or claim_next raises: no handler is left to catch it, so the
\* gather of run_forever raises and the process ends with all its slots.
MarkFailedRaises(s) ==
    /\ Running(s, "failing")
    /\ Fault
    /\ Die(ProcOf[s])

ClaimRaises(s) ==
    /\ Running(s, "idle")
    /\ Fault
    /\ Die(ProcOf[s])

-----------------------------------------------------------------------------
(***************************************************************************)
(* The processes and the clock.                                            *)
(***************************************************************************)
\* A download makes a synchronous call and the loop stops until it returns.
Block(p) ==
    /\ proc[p] = "up"
    /\ \E s \in Slots : ProcOf[s] = p /\ pc[s] = "downloading"
    /\ Fault
    /\ proc' = [proc EXCEPT ![p] = "blocked"]
    /\ UNCHANGED <<rowVars, slotVars>>

Unblock(p) ==
    /\ proc[p] = "blocked"
    /\ proc' = [proc EXCEPT ![p] = "up"]
    /\ UNCHANGED <<rowVars, slotVars, faults>>

\* A crash, or a stop: nothing handles SIGTERM or CancelledError.
Crash(p) ==
    /\ proc[p] # "down"
    /\ Fault
    /\ Die(p)

\* The container is restarted, with the host name and pid it had.
Restart(p) ==
    /\ proc[p] = "down"
    /\ proc' = [proc EXCEPT ![p] = "up"]
    /\ UNCHANGED <<rowVars, slotVars, faults>>

\* Time passes, but not over the deadline of a slot whose loop is free.
Tick ==
    LET left(t) == IF t > Late THEN t - 1 ELSE t
        busy(s) == pc[s] # "idle"
    IN
    /\ \A s \in Slots : ~(busy(s) /\ proc[ProcOf[s]] = "up" /\ due[s] = -Slack)
    /\ lease' = [j \in JobIds |->
                    IF status[j] = "running" THEN left(lease[j]) ELSE lease[j]]
    /\ idle' = [j \in JobIds |->
                    IF status[j] = "running" /\ idle[j] < MaxIdle
                    THEN idle[j] + 1 ELSE idle[j]]
    /\ due' = [s \in Slots |-> IF busy(s) THEN left(due[s]) ELSE due[s]]
    /\ UNCHANGED <<status, reqKey, worker, created, lastCreated, ahead, proc, pc,
                   job, beating, faults>>

-----------------------------------------------------------------------------
SlotStep(s) ==
    \/ ClaimNext(s)
    \/ RenewLease(s)
    \/ RenewRaises(s)
    \/ FinishDownload(s)
    \/ MarkSucceeded(s)
    \/ MarkSucceededRaises(s)
    \/ MarkFailed(s)
    \/ MarkFailedRaises(s)
    \/ ClaimRaises(s)

ProcessStep(p) ==
    \/ Block(p)
    \/ Unblock(p)
    \/ Crash(p)
    \/ Restart(p)

Next ==
    \/ \E j \in JobIds : Arrive(j)
    \/ \E k \in Keys, j \in JobIds : Enqueue(k, j)
    \/ \E s \in Slots : SlotStep(s)
    \/ \E p \in Processes : ProcessStep(p)
    \/ Tick

Spec == Init /\ [][Next]_vars

(***************************************************************************)
(* Fairness: asyncio runs a ready coroutine; a download ends, because its  *)
(* size, its retries, its providers and its read timeout are all bounded;  *)
(* a blocking call returns for the same reasons; the container is declared *)
(* "restart: unless-stopped"; and time passes.  No request, fault or crash *)
(* is fair.                                                                *)
(***************************************************************************)
Fairness ==
    /\ \A s \in Slots : /\ WF_vars(ClaimNext(s))
                        /\ WF_vars(RenewLease(s))
                        /\ WF_vars(FinishDownload(s))
                        /\ WF_vars(MarkSucceeded(s))
                        /\ WF_vars(MarkFailed(s))
    /\ \A p \in Processes : WF_vars(Unblock(p)) /\ WF_vars(Restart(p))
    /\ WF_vars(Tick)

FairSpec == Spec /\ Fairness

-----------------------------------------------------------------------------
(***************************************************************************)
(* Properties.                                                             *)
(***************************************************************************)
\* A request never has two active jobs: enqueue looks before it inserts, and
\* no row returns to the queue once it has left it.
OneActiveJobPerRequest ==
    \A i, j \in JobIds :
        Active(i) /\ Active(j) /\ reqKey[i] = reqKey[j] => i = j

\* First come, first served: a job whose request arrived when another row was
\* in the table already is not started while that row waits in the queue, even
\* though expired jobs come back between them and rows that were timed at the
\* same time are inserted in any order.
FirstComeFirstServed ==
    \A j \in JobIds : \A i \in ahead[j] :
        status[i] = "queued" => status[j] \in {"none", "queued"}

\* A slot that has made each of its writes in time.
OnTime(s) == pc[s] # "idle" /\ due[s] >= -Slack

\* The lease outlasts a heartbeat that is as late as it may be: what
\* max(1, lease / 3) is for.  A process's heartbeat has to fit the lease of
\* every other process, for claim_next judges updated_at by its own setting.
LeaseCoversHeartbeat ==
    \A p, q \in Processes : Beat(p) + 2 * Slack <= Lease[q]

\* No job is taken from a slot that keeps time: as long as its loop is not
\* blocked and its heartbeat does not fail, the row stays its own until it
\* has reported, so its download is never done twice nor its result dropped.
WorkIsOwned ==
    \A s \in Slots :
        OnTime(s) => status[job[s]] = "running" /\ worker[job[s]] = s

\* An outcome, once a client has seen it, is never taken back, whatever a
\* slot that lost the job still reports.
OutcomeIsFinal ==
    [][\A j \in JobIds : status[j] \in Terminal =>
          /\ status'[j] = status[j]
          /\ worker'[j] = worker[j]]_vars

\* A job ends only by the report of the slot that claimed it last; that slot
\* is at that moment running this job, not another one.
OnlyTheOwnerReports ==
    [][\A j \in JobIds : status[j] = "running" /\ status'[j] \in Terminal =>
          \E s \in Slots : /\ worker[j] = s
                           /\ job[s] = j
                           /\ pc[s] \in {"succeeding", "failing"}
                           /\ pc'[s] = "idle"]_vars

\* The queue keeps its promise to the clients, as JobQueue states it.
Promise == INSTANCE JobQueue WITH status <- status, reqKey <- reqKey
KeepsPromise == Promise!Spec

\* Every accepted request gets an answer, through crashes, lost leases,
\* blocked loops and database errors, as long as these are finitely many.
EveryJobEnds ==
    \A j \in JobIds : status[j] = "queued" ~> status[j] \in Terminal
=============================================================================
