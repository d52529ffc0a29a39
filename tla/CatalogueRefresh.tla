-------------------------- MODULE CatalogueRefresh --------------------------
(***************************************************************************)
(* The periodic refresh: CatalogRefreshScheduler, of which one process at  *)
(* a time should lead, asks the catalogue for every tracked package in     *)
(* turn; the versions an increment finds go to CatalogArchiver, which has  *)
(* DownloadOrchestrator fetch them from the first provider that can, some  *)
(* at a time.  A package's turn ends with its last download.               *)
(*                                                                         *)
(* What a collection does is CatalogCollection's subject, what a fetched   *)
(* artifact goes through is ArtifactDownload's; here both are one step.    *)
(* Time is relative, saturated one tick after a lease has expired.         *)
(***************************************************************************)
EXTENDS Integers, FiniteSets

CONSTANTS
    Schedulers,     \* processes that run a scheduler
    Packages,       \* packages collected before: their first list is there
    Versions,       \* versions that sources may come to list
    PackageOf,      \* the package of a version
    NProviders,     \* enabled providers, 1 being the one of highest priority
    Lease,          \* ticks of the leadership lease
    Concurrency,    \* archive_concurrency, at least 1
    MaxRetries,     \* archive_max_retries
    NetworkRetries, \* NETWORK_ERROR_RETRIES
    MaxFaults,      \* bound: crashes, failing sources, tables and hooks
    None

ASSUME RefreshAssumption ==
    /\ PackageOf \in [Versions -> Packages]
    /\ IsFiniteSet(Versions)
    /\ {NProviders, Concurrency} \subseteq Nat \ {0}
    /\ {Lease, MaxRetries, NetworkRetries, MaxFaults} \subseteq Nat
    /\ None \notin Schedulers \cup Packages

VARIABLES
    lock,       \* scheduler_lock's owner, None if there is no row
    left,       \* ticks until it expires
    at,         \* where a scheduler is
    term,       \* ticks of the leadership it took, within its round
    todo,       \* packages left in its round
    current,    \* the package whose new versions it archives
    announced,  \* versions without a row that the known-only source lists
    fate,       \* what has become of a version
    by,         \* the scheduler that archives it
    provider,   \* orchestrator.download: the provider it is at,
    retry,      \*   the retries there,
    attempt,    \*   and the attempts of the archiver before this one
    faults      \* crashes and failures so far

leadVars  == <<lock, left, term>>
roundVars == <<at, todo, current>>
tryVars   == <<provider, retry, attempt>>
vars      == <<leadVars, roundVars, announced, fate, by, tryVars, faults>>

-----------------------------------------------------------------------------
Providers == 1..NProviders
Expiry == -1

TypeOK ==
    /\ lock \in Schedulers \cup {None}
    /\ left \in Expiry..Lease
    /\ at \in [Schedulers -> {"idle", "leading", "round", "down"}]
    /\ term \in [Schedulers -> Expiry..Lease]
    /\ todo \in [Schedulers -> SUBSET Packages]
    /\ current \in [Schedulers -> Packages \cup {None}]
    /\ announced \in SUBSET Versions
    /\ fate \in [Versions -> {"future", "published", "new", "active",
                              "archived", "failed", "lost", "missed"}]
    /\ by \in [Versions -> Schedulers \cup {None}]
    /\ provider \in [Versions -> Providers]
    /\ retry \in [Versions -> 0..NetworkRetries]
    /\ attempt \in [Versions -> 0..MaxRetries]
    /\ faults \in 0..MaxFaults

Init ==
    /\ lock = None
    /\ left = Expiry
    /\ at = [s \in Schedulers |-> "idle"]
    /\ term = [s \in Schedulers |-> Expiry]
    /\ todo = [s \in Schedulers |-> {}]
    /\ current = [s \in Schedulers |-> None]
    /\ announced = {}
    /\ fate = [v \in Versions |-> "future"]
    /\ by = [v \in Versions |-> None]
    /\ provider = [v \in Versions |-> 1]
    /\ retry = [v \in Versions |-> 0]
    /\ attempt = [v \in Versions |-> 0]
    /\ faults = 0

Fault == faults < MaxFaults /\ faults' = faults + 1

\* The versions that are in no row of the catalogue.
Unwritten == {v \in Versions : fate[v] \in {"future", "published"}}

\* A source with files lists the version.
Publish(v) ==
    /\ fate[v] = "future"
    /\ fate' = [fate EXCEPT ![v] = "published"]
    /\ UNCHANGED <<leadVars, roundVars, announced, by, tryVars, faults>>

\* The known-only source lists it, before or after them.
Announce(v) ==
    /\ v \in Unwritten \ announced
    /\ announced' = announced \cup {v}
    /\ UNCHANGED <<leadVars, roundVars, fate, by, tryVars, faults>>

-----------------------------------------------------------------------------
(* CatalogRefreshScheduler. *)

ExpiredEarly == left <= 0
Expired == left < 0

\* _acquire_leadership: one row, read and written under one write lock.
MayLead(s) == lock \in {None, s} \/ Expired

\* The interval is over.  Who may not lead skips the round, as does who cannot
\* read the row.
Wake(s) ==
    /\ at[s] = "idle"
    /\ MayLead(s)
    /\ lock' = s
    /\ left' = Lease
    /\ term' = [term EXCEPT ![s] = Lease]
    /\ at' = [at EXCEPT ![s] = "leading"]
    /\ UNCHANGED <<todo, current, announced, fate, by, tryVars, faults>>

\* _tracked_packages.  An exception of it ends the round.
ListPackages(s) ==
    /\ at[s] = "leading"
    /\ \/ /\ at' = [at EXCEPT ![s] = "round"]
          /\ todo' = [todo EXCEPT ![s] = Packages]
          /\ UNCHANGED <<term, faults>>
       \/ /\ at' = [at EXCEPT ![s] = "idle"]
          /\ term' = [term EXCEPT ![s] = Expiry]
          /\ Fault
          /\ UNCHANGED todo
    /\ UNCHANGED <<lock, left, current, announced, fate, by, tryVars>>

\* The collection lease of a package is another scheduler's.
Collecting(p, s) == \E t \in Schedulers \ {s} : current[t] = p

\* _persist: what the answers add to the table.  To be archived is what had no
\* row and a source with files lists; what only the known-only source's answer
\* has gets its row all the same, and is not new when files come up.
Sources == {"files", "known-only"}
FoundUnannounced(p, heard) == {v \in Unwritten : /\ PackageOf[v] = p
                                                /\ fate[v] = "published"
                                                /\ "files" \in heard
                                                /\ v \notin announced}
Found(p, heard) == {v \in Unwritten : /\ PackageOf[v] = p
                                      /\ fate[v] = "published"
                                      /\ "files" \in heard}
Missed(p, heard) == {v \in Unwritten \ Found(p, heard) : /\ PackageOf[v] = p
                                                          /\ v \in announced
                                                          /\ "known-only" \in heard}

\* The table is written; end is what becomes of the versions to be archived.
Persist(p, heard, end) ==
    /\ fate' = [v \in Versions |-> IF v \in Found(p, heard) THEN end
                                   ELSE IF v \in Missed(p, heard) THEN "missed"
                                   ELSE fate[v]]
    /\ announced' = announced \ (Found(p, heard) \cup Missed(p, heard))

\* ensure_collected(force=True): each source answers or fails, and what is new is
\* handed to the archiver within the collection; an exception of that hook, whose
\* orchestrator cannot be built, is logged and the versions are not new again.
\* It is skipped while another process collects, unless that one's lease is over.
\* An exception counts as a failed package and writes as much as no answer does.
Refresh(s, p) ==
    /\ at[s] = "round"
    /\ current[s] = None
    /\ p \in todo[s]
    /\ \/ \E heard \in SUBSET Sources :
             /\ IF heard = Sources THEN UNCHANGED faults ELSE Fault
             /\ Persist(p, heard, "new")
             /\ by' = [v \in Versions |-> IF v \in Found(p, heard) THEN s ELSE by[v]]
             /\ IF Found(p, heard) # {}
                   THEN current' = [current EXCEPT ![s] = p] /\ UNCHANGED todo
                   ELSE todo' = [todo EXCEPT ![s] = @ \ {p}] /\ UNCHANGED current
       \/ /\ Found(p, Sources) # {}
          /\ Fault
          /\ Persist(p, Sources, "lost")
          /\ todo' = [todo EXCEPT ![s] = @ \ {p}]
          /\ UNCHANGED <<current, by>>
       \/ /\ Collecting(p, s)
          /\ todo' = [todo EXCEPT ![s] = @ \ {p}]
          /\ UNCHANGED <<current, announced, fate, by, faults>>
    /\ UNCHANGED <<leadVars, at, tryVars>>

\* The versions this scheduler has under way.
Pass(s) == {v \in Versions : by[v] = s /\ fate[v] \in {"new", "active"}}

\* asyncio.gather of the archiver: all of them.
GatheredActive(s) == \A v \in Pass(s) : fate[v] # "active"
Gathered(s) == Pass(s) = {}

PackageDone(s) ==
    /\ current[s] # None
    /\ Gathered(s)
    /\ todo' = [todo EXCEPT ![s] = @ \ {current[s]}]
    /\ current' = [current EXCEPT ![s] = None]
    /\ UNCHANGED <<leadVars, at, announced, fate, by, tryVars, faults>>

RoundDone(s) ==
    /\ at[s] = "round"
    /\ todo[s] = {}
    /\ at' = [at EXCEPT ![s] = "idle"]
    /\ term' = [term EXCEPT ![s] = Expiry]
    /\ UNCHANGED <<lock, left, todo, current, announced, fate, by, tryVars, faults>>

\* The process ends; the versions it was to archive are listed already, and no
\* increment finds them again.
Crash(s) ==
    /\ Fault
    /\ at[s] # "down"
    /\ at' = [at EXCEPT ![s] = "down"]
    /\ term' = [term EXCEPT ![s] = Expiry]
    /\ todo' = [todo EXCEPT ![s] = {}]
    /\ current' = [current EXCEPT ![s] = None]
    /\ fate' = [v \in Versions |-> IF v \in Pass(s) THEN "lost" ELSE fate[v]]
    /\ by' = [v \in Versions |-> IF v \in Pass(s) THEN None ELSE by[v]]
    /\ provider' = [v \in Versions |-> IF v \in Pass(s) THEN 1 ELSE provider[v]]
    /\ retry' = [v \in Versions |-> IF v \in Pass(s) THEN 0 ELSE retry[v]]
    /\ UNCHANGED <<lock, left, announced, attempt>>

Restart(s) ==
    /\ at[s] = "down"
    /\ at' = [at EXCEPT ![s] = "idle"]
    /\ UNCHANGED <<leadVars, todo, current, announced, fate, by, tryVars, faults>>

-----------------------------------------------------------------------------
(* CatalogArchiver and DownloadOrchestrator.download. *)

Active(s) == {v \in Versions : by[v] = s /\ fate[v] = "active"}

\* The semaphore of one pass.
OneMoreSlot(s) == Cardinality(Active(s)) <= Concurrency
SlotFree(s) == Cardinality(Active(s)) < Concurrency

Try(v, p, r, a) ==
    /\ provider' = [provider EXCEPT ![v] = p]
    /\ retry' = [retry EXCEPT ![v] = r]
    /\ attempt' = [attempt EXCEPT ![v] = a]

Start(v) ==
    /\ fate[v] = "new"
    /\ SlotFree(by[v])
    /\ fate' = [fate EXCEPT ![v] = "active"]
    /\ UNCHANGED <<leadVars, roundVars, announced, by, tryVars, faults>>

\* The version's task ends.
Settle(v, end) == /\ fate' = [fate EXCEPT ![v] = end]
                  /\ by' = [by EXCEPT ![v] = None]
                  /\ Try(v, 1, 0, attempt[v])

\* An artifact of this provider is stored already, or it delivers one.
Succeed(v) ==
    /\ fate[v] = "active"
    /\ Settle(v, "archived")
    /\ UNCHANGED <<leadVars, roundVars, announced, faults>>

MayTryOnceMore(v) == attempt[v] <= MaxRetries
MayTryAgain(v) == attempt[v] < MaxRetries

\* _archive_one: an exception of any kind, AggregateProviderError among them.
AttemptFails(v) ==
    IF MayTryAgain(v)
       THEN Try(v, 1, 0, attempt[v] + 1) /\ UNCHANGED <<fate, by>>
       ELSE Settle(v, "failed")

\* The provider answers with an error: a network error is tried again, the last
\* one and every other provider error leave it for the next provider, and any
\* other exception leaves the loop.
Fail(v) ==
    /\ fate[v] = "active"
    /\ \/ /\ retry[v] < NetworkRetries
          /\ Try(v, provider[v], retry[v] + 1, attempt[v])
          /\ UNCHANGED <<fate, by>>
       \/ /\ provider[v] < NProviders
          /\ Try(v, provider[v] + 1, 0, attempt[v])
          /\ UNCHANGED <<fate, by>>
       \/ AttemptFails(v)
    /\ UNCHANGED <<leadVars, roundVars, announced, faults>>

-----------------------------------------------------------------------------
\* One tick: leases run down.
Tick ==
    /\ left # Expiry \/ \E s \in Schedulers : term[s] # Expiry
    /\ left' = IF left = Expiry THEN left ELSE left - 1
    /\ term' = [s \in Schedulers |-> IF term[s] = Expiry THEN term[s] ELSE term[s] - 1]
    /\ UNCHANGED <<lock, roundVars, announced, fate, by, tryVars, faults>>

Round(s) == Wake(s) \/ ListPackages(s) \/ PackageDone(s) \/ RoundDone(s)
Archive(v) == Start(v) \/ Succeed(v) \/ Fail(v)

Next ==
    \/ \E s \in Schedulers : \/ Round(s) \/ Crash(s) \/ Restart(s)
                             \/ \E p \in Packages : Refresh(s, p)
    \/ \E v \in Versions : Publish(v) \/ Announce(v) \/ Archive(v)
    \/ Tick

\* The event loops run, providers answer or time out, clocks go on, and containers
\* are restarted unless stopped.  Nobody has to publish or to announce anything.
Fairness ==
    /\ \A s \in Schedulers : /\ WF_vars(Round(s)) /\ WF_vars(Restart(s))
                             /\ \A p \in Packages : WF_vars(Refresh(s, p))
    /\ \A v \in Versions : WF_vars(Archive(v))
    /\ WF_vars(Tick)

Spec == Init /\ [][Next]_vars /\ Fairness

-----------------------------------------------------------------------------
(* Properties. *)

\* scheduler_lock: of the schedulers that are in a round, at most one is within
\* the lease it took.  A round may outlast that, and then a second one leads.
OneLeader ==
    \A s, t \in Schedulers :
       /\ {at[s], at[t]} \subseteq {"leading", "round"}
       /\ term[s] >= 0 /\ term[t] >= 0
       => s = t

\* archive_new: a pass never has more downloads under way than configured, and
\* all downloads under way belong to the package whose turn it is.
ArchiveBounded ==
    \A s \in Schedulers :
       /\ Cardinality(Active(s)) <= Concurrency
       /\ \A v \in Active(s) : current[s] = PackageOf[v]

\* A refresh leaves no version behind: what it has handed to the archiver and
\* is neither stored nor given up belongs to a pass that waits for it, and what
\* is given up has had all of its attempts.
NoneLeftBehind ==
    \A v \in Versions :
       /\ fate[v] \in {"new", "active"} => current[by[v]] = PackageOf[v]
       /\ fate[v] = "failed" => attempt[v] = MaxRetries

Settled(v) == fate[v] \in {"archived", "failed"}
LostByFault(v) == fate[v] \in {"lost", "missed"} /\ faults > 0

\* A version that a source with files lists before the table has it is archived or
\* given up in the end, through lost leaders and failing rounds as long as these
\* are finitely many.  Nothing less than a fault loses it: a crash, a hook that
\* raises, or the failure of the source with files in the round in which the
\* known-only source's list gets it a row.  One that the known-only source's list
\* gets a row before any file is offered is never archived, and not meant here.
EventuallySettled ==
    \A v \in Versions : fate[v] = "published" ~> Settled(v) \/ LostByFault(v)
=============================================================================
