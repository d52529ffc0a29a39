-------------------------- MODULE CatalogCollection --------------------------
(***************************************************************************)
(* The collection of one package's versions: ensure_collected and what it  *)
(* calls in app/catalog/catalog.py, as the web workers and the refresh     *)
(* scheduler use it.                                                       *)
(*                                                                         *)
(* A request finds the package's collection task in its process's          *)
(* _inflight table and awaits it, or creates one.  The task takes the      *)
(* package's lease in collection_state, asks every source, writes what it  *)
(* got in one transaction, hands versions that are new to the archive hook *)
(* and releases the lease.  The lease is not renewed and nothing checks it *)
(* when the result is written.                                             *)
(*                                                                         *)
(* A task is named by the request that created it; so is the owner of its  *)
(* lease: a request builds a VersionCatalog whose owner id holds its id(). *)
(* As in DownloadJobs, lease is lease_expires minus now.                   *)
(***************************************************************************)
EXTENDS Integers

CONSTANTS
    Workers,        \* processes: web workers and the scheduler
    Requests,       \* bound: requests under way at a time
    WorkerOf,       \* the process that serves a request
    Sources,        \* collectors
    Downloadable,   \* the sources whose versions can be downloaded
    Versions,       \* version names of the package
    Lease,          \* CATALOG_COLLECTION_LEASE_SECONDS
    Slack,          \* the greatest age of a clock value when it is used
    MaxFaults,      \* bound: crashes, failing sources, database errors
    None

ASSUME CollectionAssumption ==
    /\ WorkerOf \in [Requests -> Workers]
    /\ Downloadable \subseteq Sources
    /\ Lease \in Nat
    /\ Slack \in Nat
    /\ MaxFaults \in Nat
    /\ None \notin Requests

VARIABLES
    published,      \* what each source would list now
    listed,         \* rows of the table versions
    loadable,       \* those of them with downloadable = 1
    lastFull,       \* column last_full_at is set
    owner,          \* column collecting_owner
    lease,          \* column lease_expires, minus now
    inflight,       \* each process's _inflight entry for the package
    waits,          \* the task a request awaits
    task,           \* how far a task is
    full,           \* the task's flag: no full collection yet, when it looked
    batch,          \* what the sources answered it: pairs of source and version
    new,            \* the versions its transaction found to be new
    left,           \* the lease's end, minus now, as the task set it
    reported,       \* how often the archive hook was given a version
    baseline,       \* history: the versions a full collection found first
    faults          \* faults so far

dbVars   == <<listed, loadable, lastFull, owner, lease>>
taskVars == <<task, full, batch, new, left>>
history  == <<reported, baseline>>
vars     == <<published, dbVars, inflight, waits, taskVars, history, faults>>

-----------------------------------------------------------------------------
Ended == {"none", "done"}
\* The stages in which a task believes it holds the lease.
Holding == {"leased", "gathering", "gathered", "new", "archiving", "releasing"}
Stage == Ended \cup {"start"} \cup Holding

\* Saturation point of the relative clocks.
Over == -(Slack + 1)

TypeOK ==
    /\ published \in [Sources -> SUBSET Versions]
    /\ listed \in SUBSET Versions
    /\ loadable \in SUBSET listed
    /\ lastFull \in BOOLEAN
    /\ owner \in Requests \cup {None}
    /\ lease \in Over..Lease
    /\ inflight \in [Workers -> Requests \cup {None}]
    /\ waits \in [Requests -> Requests \cup {None}]
    /\ task \in [Requests -> Stage]
    /\ full \in [Requests -> BOOLEAN]
    /\ batch \in [Requests -> SUBSET (Sources \X Versions)]
    /\ new \in [Requests -> SUBSET Versions]
    /\ left \in [Requests -> Over..Lease]
    /\ reported \in [Versions -> Nat]
    /\ baseline \in SUBSET Versions
    /\ faults \in 0..MaxFaults

Init ==
    /\ published \in [Sources -> SUBSET Versions]
    /\ listed = {}
    /\ loadable = {}
    /\ lastFull = FALSE
    /\ owner = None
    /\ lease = 0
    /\ inflight = [w \in Workers |-> None]
    /\ waits = [r \in Requests |-> None]
    /\ task = [r \in Requests |-> "none"]
    /\ full = [r \in Requests |-> FALSE]
    /\ batch = [r \in Requests |-> {}]
    /\ new = [r \in Requests |-> {}]
    /\ left = [r \in Requests |-> 0]
    /\ reported = [v \in Versions |-> 0]
    /\ baseline = {}
    /\ faults = 0

Fault == /\ faults < MaxFaults
         /\ faults' = faults + 1

Goto(r, stage) == task' = [task EXCEPT ![r] = stage]

-----------------------------------------------------------------------------
(***************************************************************************)
(* Requests: GET /versions, the background collection of GET /download     *)
(* with a version, and the scheduler's forced refresh.                     *)
(***************************************************************************)
\* r has no call of ensure_collected under way and its last task is gone.
Free(r) == /\ waits[r] = None
           /\ task[r] \in Ended
           /\ \A q \in Requests : waits[q] # r

UnderWay(t) == t \in Requests /\ task[t] \notin Ended

\* ensure_collected.  A read needs a collection only if there never was one, a
\* download also when the last one is older than the TTL, a refresh always: so
\* r may need one in every state, and when it needs none nothing changes.
Ask(r) ==
    LET w == WorkerOf[r]
        t == inflight[w]
    IN
    /\ Free(r)
    /\ \/ /\ UnderWay(t)
          /\ waits' = [waits EXCEPT ![r] = t]
          /\ UNCHANGED <<inflight, task>>
       \/ /\ ~UnderWay(t)
          /\ waits' = [waits EXCEPT ![r] = r]
          /\ inflight' = [inflight EXCEPT ![w] = r]
          /\ Goto(r, "start")
    /\ UNCHANGED <<published, dbVars, full, batch, new, left, history,
                   faults>>

\* Mutation: a waiter clears the entry whoever's it is.
PopAny(w, t) == inflight' = [inflight EXCEPT ![w] = None]

\* A waiter clears the entry only if it is still that of the task it awaited.
Pop(w, t) ==
    inflight' = [inflight EXCEPT ![w] = IF @ = t THEN None ELSE @]

\* The awaited task has ended and the waiter goes on.
Wake(r) ==
    /\ waits[r] # None
    /\ task[waits[r]] = "done"
    /\ Pop(WorkerOf[r], waits[r])
    /\ waits' = [waits EXCEPT ![r] = None]
    /\ UNCHANGED <<published, dbVars, taskVars, history, faults>>

-----------------------------------------------------------------------------
(***************************************************************************)
(* The collection task, _collect_once.                                     *)
(***************************************************************************)
\* The task ends, with what it had gathered.
Forget(r) ==
    /\ Goto(r, "done")
    /\ full' = [full EXCEPT ![r] = FALSE]
    /\ batch' = [batch EXCEPT ![r] = {}]
    /\ left' = [left EXCEPT ![r] = 0]

\* Mutation: a lease never expires.
ExpiredNever(d) == FALSE

\* d is the age of the clock value the lease is compared with.
Expired(d) == lease < -d

\* Mutation: the lease is added to one that is just beginning.
LeaseTwice(d) == 2 * Lease - d

LeaseFrom(d) == Lease - d

\* The task that took the lease is over and left it behind, by a crash or a
\* failed release: its catalog's id() may be that of r's catalog, or may not.
IdMayMatch(r) == /\ owner \in Requests
                 /\ WorkerOf[owner] = WorkerOf[r]
                 /\ task[owner] \notin Holding

MayAcquire(r, d) == owner = None \/ Expired(d) \/ IdMayMatch(r)
MayBeRefused(d) == owner # None /\ ~Expired(d)

Acquire(r) ==
    /\ task[r] = "start"
    /\ \E d \in 0..Slack :
        /\ MayAcquire(r, d)
        /\ lease' = LeaseFrom(d)
        /\ left' = [left EXCEPT ![r] = LeaseFrom(d)]
    /\ owner' = r
    /\ Goto(r, "leased")
    /\ UNCHANGED <<published, listed, loadable, lastFull, inflight, waits, full,
                   batch, new, history, faults>>

\* Another process holds the lease: the task ends, and its waiters go on as if
\* the package had been collected.
Skip(r) ==
    /\ task[r] = "start"
    /\ \E d \in 0..Slack : MayBeRefused(d)
    /\ Goto(r, "done")
    /\ UNCHANGED <<published, dbVars, inflight, waits, full, batch, new,
                   left, history, faults>>

\* _is_first_time
ReadFirstTime(r) ==
    /\ task[r] = "leased"
    /\ full' = [full EXCEPT ![r] = ~lastFull]
    /\ Goto(r, "gathering")
    /\ UNCHANGED <<published, dbVars, inflight, waits, batch, new, left,
                   history, faults>>

\* A transaction raises and is rolled back.  Once the lease is taken the finally
\* block releases it; a failing release leaves it to expire.
DatabaseRaises(r) ==
    /\ Fault
    /\ \/ /\ task[r] = "start"
          /\ Goto(r, "done")
          /\ UNCHANGED <<full, batch, left>>
       \/ /\ task[r] \in {"leased", "gathered"}
          /\ Goto(r, "releasing")
          /\ UNCHANGED <<full, batch, left>>
       \/ /\ task[r] = "releasing"
          /\ Forget(r)
    /\ UNCHANGED <<published, dbVars, inflight, waits, new, history>>

\* _gather: a source that raises is left out.  Full or incremental, a source
\* returns all it lists: no collector overrides collect_recent.
Gather(r) ==
    /\ task[r] = "gathering"
    /\ \E answering \in SUBSET Sources :
        /\ IF answering = Sources THEN UNCHANGED faults ELSE Fault
        /\ batch' = [batch EXCEPT ![r] =
              {e \in answering \X Versions : e[2] \in published[e[1]]}]
        \* Nothing is written if every source failed.
        /\ Goto(r, IF answering = {} THEN "releasing" ELSE "gathered")
    /\ UNCHANGED <<published, dbVars, inflight, waits, full, new, left, history>>

\* Mutations: an incremental collection clears last_full_at; rows the table has
\* already count as new.
FullAfterOnly(r) == full[r]
NewRegardless(r, names) == names

\* The upserts only ever add a name, and only ever raise downloadable.
Merged(old, names) == old \cup names
FullAfter(r) == full[r] \/ lastFull
NewAmong(r, names) == names \ listed

\* _persist: one transaction upserts the rows, sets the package's state and
\* tells which downloadable versions had no row before.
Persist(r) ==
    LET names      == {e[2] : e \in batch[r]}
        loadables  == {e[2] : e \in {p \in batch[r] : p[1] \in Downloadable}}
    IN
    /\ task[r] = "gathered"
    /\ new' = [new EXCEPT ![r] = NewAmong(r, loadables)]
    /\ listed' = Merged(listed, names)
    /\ loadable' = Merged(loadable, loadables)
    /\ lastFull' = FullAfter(r)
    /\ baseline' = baseline \cup IF full[r] THEN names \ listed ELSE {}
    /\ Goto(r, "new")
    /\ UNCHANGED <<published, owner, lease, inflight, waits, full, batch,
                   left, reported, faults>>

\* Mutation: the first collection is handed to the hook as well.
ToArchiveAlways(r) == new[r]

\* What the archive hook is to be given: nothing after a full collection.
ToArchive(r) == IF full[r] THEN {} ELSE new[r]

\* The transaction has returned: the hook is called, still under the lease.
Report(r) ==
    /\ task[r] = "new"
    /\ reported' = [v \in Versions |->
                       reported[v] + IF v \in ToArchive(r) THEN 1 ELSE 0]
    /\ new' = [new EXCEPT ![r] = {}]
    /\ Goto(r, IF ToArchive(r) = {} THEN "releasing" ELSE "archiving")
    /\ UNCHANGED <<published, dbVars, inflight, waits, full, batch, left,
                   baseline, faults>>

\* The hook has downloaded what it could; its failures are swallowed.
ArchiveEnds(r) ==
    /\ task[r] = "archiving"
    /\ Goto(r, "releasing")
    /\ UNCHANGED <<published, dbVars, inflight, waits, full, batch, new,
                   left, history, faults>>

\* Mutation: whoever owns the lease, it is cleared.
MayClearAny(r) == TRUE

MayClear(r) == owner = r

\* _release_lease, in the finally block.
Release(r) ==
    /\ task[r] = "releasing"
    /\ owner' = IF MayClear(r) THEN None ELSE owner
    /\ lease' = IF MayClear(r) THEN 0 ELSE lease
    /\ Forget(r)
    /\ UNCHANGED <<published, listed, loadable, lastFull, inflight, waits, new,
                   history, faults>>

-----------------------------------------------------------------------------
(***************************************************************************)
(* The environment.                                                        *)
(***************************************************************************)
\* A source lists one more version.
Publish(s, v) ==
    /\ published' = [published EXCEPT ![s] = @ \cup {v}]
    /\ UNCHANGED <<dbVars, inflight, waits, taskVars, history, faults>>

\* A process dies with its tasks and its _inflight table, and is respawned.
Crash(w) ==
    LET mine(r) == WorkerOf[r] = w IN
    /\ Fault
    /\ inflight' = [inflight EXCEPT ![w] = None]
    /\ waits' = [r \in Requests |-> IF mine(r) THEN None ELSE waits[r]]
    /\ task' = [r \in Requests |-> IF mine(r) THEN "none" ELSE task[r]]
    /\ full' = [r \in Requests |-> IF mine(r) THEN FALSE ELSE full[r]]
    /\ batch' = [r \in Requests |-> IF mine(r) THEN {} ELSE batch[r]]
    /\ new' = [r \in Requests |-> IF mine(r) THEN {} ELSE new[r]]
    /\ left' = [r \in Requests |-> IF mine(r) THEN 0 ELSE left[r]]
    /\ UNCHANGED <<published, dbVars, history>>

Tick ==
    LET less(t) == IF t > Over THEN t - 1 ELSE t IN
    /\ owner # None
    /\ lease' = less(lease)
    /\ left' = [r \in Requests |->
                  IF task[r] \in Holding THEN less(left[r]) ELSE left[r]]
    /\ UNCHANGED <<published, listed, loadable, lastFull, owner, inflight, waits,
                   task, full, batch, new, history, faults>>

-----------------------------------------------------------------------------
TaskStep(r) ==
    \/ Acquire(r)
    \/ Skip(r)
    \/ ReadFirstTime(r)
    \/ Gather(r)
    \/ Persist(r)
    \/ Report(r)
    \/ ArchiveEnds(r)
    \/ Release(r)
    \/ DatabaseRaises(r)

Next ==
    \/ \E r \in Requests : Ask(r) \/ Wake(r) \/ TaskStep(r)
    \/ \E s \in Sources, v \in Versions : Publish(s, v)
    \/ \E w \in Workers : Crash(w)
    \/ Tick

Spec == Init /\ [][Next]_vars

(***************************************************************************)
(* Fairness: the loop runs a ready coroutine, every collector's requests   *)
(* and every archive download have timeouts, and time passes.  No fault is *)
(* fair.                                                                   *)
(***************************************************************************)
FairSpec ==
    /\ Spec
    /\ \A r \in Requests : /\ WF_vars(Wake(r))
                           /\ WF_vars(UNCHANGED faults /\ TaskStep(r))
    /\ WF_vars(Tick)

-----------------------------------------------------------------------------
(***************************************************************************)
(* Properties.                                                             *)
(***************************************************************************)
\* A process never runs two collections of the package: late waiters clear the
\* table only of the task they awaited, so they cannot make room for a second
\* one while a newer one is running.
SingleFlight ==
    \A p, q \in Requests :
        /\ WorkerOf[p] = WorkerOf[q]
        /\ task[p] \notin Ended
        /\ task[q] \notin Ended
        => p = q

\* A task whose lease has not run out owns the package: nobody else acquires
\* it early, and a task that overstayed its own lease does not release the
\* lease of the one that took over.
LeaseExclusive ==
    \A r \in Requests :
        task[r] \in Holding /\ left[r] >= 0 => owner = r /\ lease = left[r]

\* A version is given to the archive at most once, by whichever task sees it
\* first, although a task that lost its lease still writes what it gathered.
ReportedOnce == \A v \in Versions : reported[v] <= 1

\* What a first, full collection found is the base line and is not archived,
\* not even if tasks that believe to be the first overlap with later ones.
BaselineNotArchived == \A v \in baseline : reported[v] = 0

\* No write takes anything away: a version once known, or once downloadable,
\* stays so, and a package once collected in full is never again taken for a
\* new one, whatever a stale task still writes.
NothingForgotten ==
    [][/\ listed \subseteq listed'
       /\ loadable \subseteq loadable'
       /\ lastFull => lastFull']_vars

\* The package is asked for again and again: by clients until it was collected
\* in full, by the scheduler's rounds from then on.
AskedSpec == FairSpec /\ \A r \in Requests : WF_vars(Ask(r))

\* "The catalogue is filled in the end": a version that some source lists gets
\* into the table, through crashes that leave the lease behind, tasks that find
\* it taken, failing sources and database errors, if these are finitely many.
EventuallyListed ==
    \A s \in Sources, v \in Versions : v \in published[s] ~> v \in listed
=============================================================================
