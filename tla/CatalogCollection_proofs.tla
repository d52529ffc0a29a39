---------------------- MODULE CatalogCollection_proofs ----------------------
(***************************************************************************)
(* Proofs about CatalogCollection, for any number of processes, requests,  *)
(* sources and versions, any lease and any number of faults.               *)
(***************************************************************************)
EXTENDS CatalogCollection, TLAPS

USE CollectionAssumption

-----------------------------------------------------------------------------
\* No request is under way at first and every table has its type.
LEMMA TypeInit == Init => TypeOK
<1> SUFFICES ASSUME Init
             PROVE  TypeOK
  OBVIOUS
<1>1. lease \in Over..Lease /\ left \in [Requests -> Over..Lease]
  BY DEF Init, Over
<1>2. batch \in [Requests -> SUBSET (Sources \X Versions)]
  BY Zenon DEF Init
<1>3. full \in [Requests -> BOOLEAN] /\ lastFull \in BOOLEAN
  BY Zenon DEF Init
<1> QED
  BY <1>1, <1>2, <1>3 DEF Init, TypeOK, Stage, Ended

\* A task that is forgotten leaves the tables of the requests typed.
LEMMA ForgetType ==
  ASSUME TypeOK, NEW r \in Requests, Forget(r)
  PROVE  /\ task' \in [Requests -> Stage]
         /\ full' \in [Requests -> BOOLEAN]
         /\ batch' \in [Requests -> SUBSET (Sources \X Versions)]
         /\ left' \in [Requests -> Over..Lease]
<1>1. task' \in [Requests -> Stage] /\ left' \in [Requests -> Over..Lease]
  BY DEF Forget, Goto, TypeOK, Stage, Ended, Over
<1>2. full' \in [Requests -> BOOLEAN]
  BY Zenon DEF Forget, TypeOK
<1>3. batch' \in [Requests -> SUBSET (Sources \X Versions)]
  BY Zenon DEF Forget, TypeOK
<1> QED
  BY <1>1, <1>2, <1>3

(* One step of a task, of its waiters or of the environment keeps every    *)
(* variable in its type.                                                   *)
LEMMA TypeStep == TypeOK /\ [Next]_vars => TypeOK'
<1> SUFFICES ASSUME TypeOK, [Next]_vars
             PROVE  TypeOK'
  OBVIOUS
<1> USE DEF TypeOK, dbVars, taskVars, history, Goto, Fault, Stage, Ended, Holding
<1>1. ASSUME NEW r \in Requests, Ask(r)
      PROVE  TypeOK'
  BY <1>1 DEF Ask, UnderWay
<1>2. ASSUME NEW r \in Requests, Wake(r)
      PROVE  TypeOK'
  BY <1>2 DEF Wake, Pop
<1>3. ASSUME NEW r \in Requests, TaskStep(r)
      PROVE  TypeOK'
  <2>1. CASE Acquire(r)
    BY <2>1 DEF Acquire, LeaseFrom, Over
  <2>2. CASE Skip(r)
    BY <2>2 DEF Skip
  <2>3. CASE ReadFirstTime(r)
    BY <2>3 DEF ReadFirstTime
  <2>4. CASE Gather(r)
    <3>1. PICK answering \in SUBSET Sources :
              /\ IF answering = Sources THEN UNCHANGED faults ELSE Fault
              /\ batch' = [batch EXCEPT ![r] =
                    {e \in answering \X Versions : e[2] \in published[e[1]]}]
              /\ Goto(r, IF answering = {} THEN "releasing" ELSE "gathered")
      BY <2>4 DEF Gather
    <3>2. {e \in answering \X Versions : e[2] \in published[e[1]]}
             \in SUBSET (Sources \X Versions)
      OBVIOUS
    <3>3. batch' \in [Requests -> SUBSET (Sources \X Versions)]
      BY <3>1, <3>2
    <3>4. faults' \in 0..MaxFaults
      BY <3>1
    <3>5. task' \in [Requests -> Stage]
      BY <3>1
    <3> QED
      BY <2>4, <3>3, <3>4, <3>5 DEF Gather
  <2>5. CASE Persist(r)
    <3>1. /\ {e[2] : e \in batch[r]} \subseteq Versions
          /\ {e[2] : e \in {p \in batch[r] : p[1] \in Downloadable}} \subseteq {e[2] : e \in batch[r]}
      OBVIOUS
    <3>2. /\ listed' \in SUBSET Versions
          /\ loadable' \in SUBSET listed'
          /\ baseline' \in SUBSET Versions
          /\ new' \in [Requests -> SUBSET Versions]
      BY <2>5, <3>1 DEF Persist, Merged, NewAmong
    <3>3. lastFull' \in BOOLEAN
      BY <2>5 DEF Persist, FullAfter
    <3> QED
      BY <2>5, <3>2, <3>3 DEF Persist
  <2>6. CASE DatabaseRaises(r)
    BY <2>6, ForgetType DEF DatabaseRaises
  <2>7. CASE Report(r)
    BY <2>7 DEF Report, ToArchive
  <2>8. CASE ArchiveEnds(r)
    BY <2>8 DEF ArchiveEnds
  <2>9. CASE Release(r)
    BY <2>9, ForgetType DEF Release, Over
  <2> QED
    BY <1>3, <2>1, <2>2, <2>3, <2>4, <2>5, <2>6, <2>7, <2>8, <2>9 DEF TaskStep
<1>4. ASSUME NEW s \in Sources, NEW v \in Versions, Publish(s, v)
      PROVE  TypeOK'
  BY <1>4 DEF Publish
<1>5. ASSUME NEW w \in Workers, Crash(w)
      PROVE  TypeOK'
  <2>1. full' \in [Requests -> BOOLEAN]
    BY <1>5, Zenon DEF Crash
  <2>2. batch' \in [Requests -> SUBSET (Sources \X Versions)]
    BY <1>5, Zenon DEF Crash
  <2>3. task' \in [Requests -> Stage] /\ new' \in [Requests -> SUBSET Versions]
    BY <1>5 DEF Crash
  <2>4. left' \in [Requests -> Over..Lease]
    BY <1>5 DEF Crash, Over
  <2>5. waits' \in [Requests -> Requests \cup {None}]
    BY <1>5 DEF Crash
  <2>6. inflight' \in [Workers -> Requests \cup {None}]
    BY <1>5 DEF Crash
  <2>7. UNCHANGED <<published, dbVars, history>> /\ faults' \in 0..MaxFaults
    BY <1>5 DEF Crash
  <2> QED
    BY <2>1, <2>2, <2>3, <2>4, <2>5, <2>6, <2>7
<1>6. CASE Tick
  BY <1>6 DEF Tick, Over
<1>7. CASE UNCHANGED vars
  BY <1>7 DEF vars
<1> QED
  BY <1>1, <1>2, <1>3, <1>4, <1>5, <1>6, <1>7 DEF Next

(* The type invariant of the collection model.                             *)
THEOREM TypeCorrect == Spec => []TypeOK
<1> QED
  BY TypeInit, TypeStep, PTL DEF Spec
-----------------------------------------------------------------------------
(***************************************************************************)
(* Single flight.  The invariant is that a task under way is the one its   *)
(* process's table names, and so the only one.                             *)
(***************************************************************************)
TableInv == \A r \in Requests : task[r] \notin Ended => inflight[WorkerOf[r]] = r

\* A task under way is the one its process's table names, whatever step comes.
LEMMA TableStep == TypeOK /\ TableInv /\ [Next]_vars => TableInv'
<1> SUFFICES ASSUME TypeOK, TableInv, [Next]_vars
             PROVE  TableInv'
  OBVIOUS
<1> USE DEF TypeOK, TableInv, dbVars, taskVars, history, Goto, Ended
<1>1. ASSUME NEW r \in Requests, Ask(r)
      PROVE  TableInv'
  BY <1>1 DEF Ask, UnderWay
<1>2. ASSUME NEW r \in Requests, Wake(r)
      PROVE  TableInv'
  BY <1>2 DEF Wake, Pop
<1>3. ASSUME NEW r \in Requests, TaskStep(r)
      PROVE  TableInv'
  <2>1. UNCHANGED inflight
    BY <1>3 DEF TaskStep, Acquire, Skip, ReadFirstTime, Gather, Persist, DatabaseRaises,
                Report, ArchiveEnds, Release
  <2>2. task[r] \notin Ended /\ \A q \in Requests \ {r} : task'[q] = task[q]
    BY <1>3 DEF TaskStep, Acquire, Skip, ReadFirstTime, Gather, Persist, DatabaseRaises,
                Report, ArchiveEnds, Release, Forget
  <2> QED
    BY <2>1, <2>2
<1>4. ASSUME NEW w \in Workers, Crash(w)
      PROVE  TableInv'
  BY <1>4 DEF Crash
<1>5. CASE Tick \/ UNCHANGED vars \/ \E s \in Sources, v \in Versions : Publish(s, v)
  BY <1>5 DEF Tick, vars, Publish
<1> QED
  BY <1>1, <1>2, <1>3, <1>4, <1>5 DEF Next

(* ensure_collected never starts a collection next to one of its process.  *)
THEOREM OneTaskPerProcess == Spec => []SingleFlight
<1>1. Init => TableInv
  BY DEF Init, TableInv, Ended
<1>2. TableInv => SingleFlight
  BY DEF TableInv, SingleFlight
<1> QED
  BY <1>1, <1>2, TableStep, TypeCorrect, PTL DEF Spec

-----------------------------------------------------------------------------
(***************************************************************************)
(* The lease.  LeaseExclusive is inductive: who holds an unexpired lease   *)
(* is the owner, so no guard of _acquire_lease lets another in, and the    *)
(* owner column keeps _release_lease from clearing it.                     *)
(***************************************************************************)
LEMMA LeaseKept ==
  ASSUME TypeOK, LeaseExclusive, UNCHANGED <<owner, lease>>,
         \A r \in Requests : task'[r] \in Holding => task[r] \in Holding /\ left'[r] = left[r]
  PROVE  LeaseExclusive'
BY DEF LeaseExclusive

\* Who holds the lease of a package holds it alone, whatever step comes.
LEMMA LeaseStep == TypeOK /\ LeaseExclusive /\ [Next]_vars => LeaseExclusive'
<1> SUFFICES ASSUME TypeOK, LeaseExclusive, [Next]_vars
             PROVE  LeaseExclusive'
  OBVIOUS
<1> USE DEF TypeOK, dbVars, taskVars, history, Goto, Holding
<1>1. ASSUME NEW r \in Requests, Ask(r) \/ Wake(r)
      PROVE  LeaseExclusive'
  BY <1>1, LeaseKept DEF Ask, Wake
<1>2. ASSUME NEW r \in Requests, Acquire(r)
      PROVE  LeaseExclusive'
  <2>1. PICK d \in 0..Slack : /\ MayAcquire(r, d)
                              /\ lease' = LeaseFrom(d)
                              /\ left' = [left EXCEPT ![r] = LeaseFrom(d)]
    BY <1>2 DEF Acquire
  <2>2. owner' = r /\ task' = [task EXCEPT ![r] = "leased"] /\ task[r] = "start"
    BY <1>2 DEF Acquire
  <2>3. \A q \in Requests \ {r} : ~(task[q] \in Holding /\ left[q] >= 0)
    BY <2>1 DEF MayAcquire, IdMayMatch, Expired, LeaseExclusive, Over
  <2> QED
    BY <2>1, <2>2, <2>3 DEF LeaseExclusive
<1>3. ASSUME NEW r \in Requests,
             Skip(r) \/ ReadFirstTime(r) \/ Gather(r) \/ Persist(r) \/ Report(r) \/ ArchiveEnds(r)
      PROVE  LeaseExclusive'
  <2>1. UNCHANGED <<owner, lease, left>>
    BY <1>3 DEF Skip, ReadFirstTime, Gather, Persist, Report, ArchiveEnds
  <2>2. \A q \in Requests : task'[q] \in Holding => task[q] \in Holding
    BY <1>3 DEF Skip, ReadFirstTime, Gather, Persist, Report, ArchiveEnds
  <2> QED
    BY <2>1, <2>2, LeaseKept
<1>4. ASSUME NEW r \in Requests, DatabaseRaises(r)
      PROVE  LeaseExclusive'
  BY <1>4, LeaseKept DEF DatabaseRaises, Forget
<1>5. ASSUME NEW r \in Requests, Release(r)
      PROVE  LeaseExclusive'
  <2>1. /\ task'[r] = "done"
        /\ \A q \in Requests \ {r} : task'[q] = task[q] /\ left'[q] = left[q]
    BY <1>5 DEF Release, Forget
  <2>2. owner # r => UNCHANGED <<owner, lease>>
    BY <1>5 DEF Release, MayClear
  <2> QED
    BY <2>1, <2>2 DEF LeaseExclusive
<1>6. ASSUME NEW w \in Workers, Crash(w)
      PROVE  LeaseExclusive'
  BY <1>6, LeaseKept DEF Crash
<1>7. CASE Tick
  <2>1. UNCHANGED <<owner, task>>
    BY <1>7 DEF Tick
  <2>2. ASSUME NEW r \in Requests, task[r] \in Holding, left'[r] >= 0
        PROVE  left[r] >= 0 /\ left'[r] = left[r] - 1
    BY <1>7, <2>2 DEF Tick, Over
  <2>3. lease \in Int /\ lease >= 0 => lease' = lease - 1
    BY <1>7 DEF Tick, Over
  <2> QED
    BY <2>1, <2>2, <2>3 DEF LeaseExclusive, Over
<1>8. CASE UNCHANGED vars \/ \E s \in Sources, v \in Versions : Publish(s, v)
  BY <1>8, LeaseKept DEF vars, Publish
<1> QED
  BY <1>1, <1>2, <1>3, <1>4, <1>5, <1>6, <1>7, <1>8 DEF Next, TaskStep

(* Until its lease runs out, a task owns the package, whoever else tries.  *)
THEOREM ExclusiveLease == Spec => []LeaseExclusive
<1>1. Init => LeaseExclusive
  BY DEF Init, LeaseExclusive, Holding
<1> QED
  BY <1>1, LeaseStep, TypeCorrect, PTL DEF Spec
-----------------------------------------------------------------------------
(***************************************************************************)
(* What is given to the archive.  A version found new by a task is in the  *)
(* table from then on, so no other task can find it new; it is on its way  *)
(* to one report or, if the task's collection is a full one, to none.      *)
(***************************************************************************)
NewInv ==
    /\ \A r \in Requests : new[r] # {} => task[r] = "new"
    /\ \A r \in Requests : \A v \in new[r] :
          /\ v \in listed
          /\ reported[v] = 0
          /\ full[r] \/ v \notin baseline
          /\ \A q \in Requests : v \in new[q] => q = r

ReportInv ==
    /\ NewInv
    /\ \A v \in Versions : reported[v] <= 1 /\ (reported[v] > 0 => v \in listed)
    /\ \A v \in baseline : v \in listed /\ reported[v] = 0

\* A step that writes no row and reports nothing, and that leaves a task with
\* new versions alone or ends it.
Quiet(r) == \/ new'[r] = {}
            \/ new'[r] = new[r] /\ full'[r] = full[r] /\ task'[r] = task[r]

\* A step that lists and reports nothing, with every request quiet, keeps ReportInv.
LEMMA ReportKept ==
  ASSUME ReportInv, UNCHANGED <<listed, reported, baseline>>,
         \A r \in Requests : Quiet(r)
  PROVE  ReportInv'
BY DEF ReportInv, NewInv, Quiet

\* So does a request that writes its rows,
LEMMA PersistKeepsReport ==
  ASSUME TypeOK, ReportInv, NEW r \in Requests, Persist(r)
  PROVE  ReportInv'
<1> DEFINE names == {e[2] : e \in batch[r]}
           fresh == new'[r]
<1> USE DEF TypeOK, ReportInv, NewInv
<1>1. fresh \subseteq names \ listed
  BY DEF Persist, NewAmong
<1>2. /\ \A q \in Requests \ {r} : new'[q] = new[q] /\ task'[q] = task[q]
      /\ task'[r] = "new"
      /\ listed' = listed \cup names
      /\ baseline' = baseline \cup IF full[r] THEN names \ listed ELSE {}
      /\ UNCHANGED <<reported, full>>
  BY DEF Persist, Merged, NewAmong, Goto
<1>3. names \subseteq Versions
  OBVIOUS
<1>4. \A v \in names \ listed : reported[v] = 0 /\ v \notin baseline
  BY <1>3
<1> HIDE DEF fresh, names
<1>5. \A v \in Versions : reported'[v] <= 1 /\ (reported'[v] > 0 => v \in listed')
  BY <1>2
<1>6. \A v \in baseline' : v \in listed' /\ reported'[v] = 0
  BY <1>2, <1>4
<1>7. \A q \in Requests : new'[q] # {} => task'[q] = "new"
  BY <1>2
<1>8. ASSUME NEW q \in Requests, NEW v \in new'[q]
      PROVE  /\ v \in listed'
             /\ reported'[v] = 0
             /\ full'[q] \/ v \notin baseline'
             /\ \A p \in Requests : v \in new'[p] => p = q
  <2>1. CASE q = r
    <3>1. v \in names \ listed
      BY <1>1, <2>1, <1>8 DEF fresh
    <3>2. \A p \in Requests \ {r} : v \notin new'[p]
      BY <3>1, <1>2
    <3> QED
      BY <3>1, <3>2, <2>1, <1>2, <1>4
  <2>2. CASE q # r
    <3>1. v \in new[q] /\ v \in listed /\ reported[v] = 0
      BY <2>2, <1>2, <1>8
    <3>2. v \notin new'[r]
      BY <3>1, <1>1 DEF fresh
    <3> QED
      BY <3>1, <3>2, <2>2, <1>2
  <2> QED
    BY <2>1, <2>2
<1> QED
  BY <1>5, <1>6, <1>7, <1>8

\* and one that reports what it wrote.
LEMMA HookKeepsReport ==
  ASSUME TypeOK, ReportInv, NEW r \in Requests, Report(r)
  PROVE  ReportInv'
<1> USE DEF TypeOK, ReportInv, NewInv
<1>1. /\ UNCHANGED <<listed, baseline, full>>
      /\ \A q \in Requests \ {r} : new'[q] = new[q] /\ task'[q] = task[q]
      /\ new'[r] = {}
  BY DEF Report, Goto, dbVars
<1>2. ASSUME NEW v \in Versions, v \in ToArchive(r)
      PROVE  /\ reported'[v] = 1 /\ v \in listed /\ v \notin baseline
             /\ \A q \in Requests : v \notin new'[q]
  <2>1. v \in new[r] /\ ~full[r]
    BY <1>2 DEF ToArchive
  <2>2. reported'[v] = reported[v] + 1
    BY <1>2 DEF Report
  <2> QED
    BY <1>1, <2>1, <2>2
<1>3. ASSUME NEW v \in Versions, v \notin ToArchive(r)
      PROVE  reported'[v] = reported[v]
  BY <1>3 DEF Report
<1>4. \A v \in Versions : reported'[v] <= 1 /\ (reported'[v] > 0 => v \in listed')
  BY <1>1, <1>2, <1>3
<1>5. \A v \in baseline' : v \in listed' /\ reported'[v] = 0
  BY <1>1, <1>2, <1>3
<1>6. \A q \in Requests : new'[q] # {} => task'[q] = "new"
  BY <1>1
<1>7. ASSUME NEW q \in Requests, NEW v \in new'[q]
      PROVE  /\ v \in listed'
             /\ reported'[v] = 0
             /\ full'[q] \/ v \notin baseline'
             /\ \A p \in Requests : v \in new'[p] => p = q
  <2>1. q # r /\ v \in new[q] /\ v \in Versions
    BY <1>1, <1>7
  <2>2. v \notin ToArchive(r)
    BY <1>2, <1>7, <2>1
  <2> QED
    BY <1>1, <1>3, <2>1, <2>2
<1> QED
  BY <1>4, <1>5, <1>6, <1>7

\* What is reported is listed and reported by one request, whatever step comes.
LEMMA ReportStep == TypeOK /\ ReportInv /\ [Next]_vars => ReportInv'
<1> SUFFICES ASSUME TypeOK, ReportInv, [Next]_vars
             PROVE  ReportInv'
  OBVIOUS
<1> USE DEF dbVars, taskVars, history, Goto
<1>0. \A r \in Requests : task[r] # "new" => new[r] = {}
  BY DEF ReportInv, NewInv
<1>1. ASSUME NEW r \in Requests, Ask(r)
      PROVE  ReportInv'
  <2>1. task[r] # "new"
    BY <1>1 DEF Ask, Free, Ended
  <2> QED
    <3>1. /\ UNCHANGED <<listed, reported, baseline, new, full>>
          /\ \A q \in Requests \ {r} : task'[q] = task[q]
      BY <1>1 DEF Ask, TypeOK
    <3>2. \A q \in Requests : Quiet(q)
      BY <1>0, <2>1, <3>1 DEF Quiet
    <3> QED
      BY <3>1, <3>2, ReportKept
<1>2. ASSUME NEW r \in Requests, Wake(r)
      PROVE  ReportInv'
  BY <1>2, ReportKept DEF Wake, Quiet
<1>3. ASSUME NEW r \in Requests, TaskStep(r), ~Persist(r), ~Report(r)
      PROVE  ReportInv'
  <2>1. task[r] # "new" /\ UNCHANGED <<listed, reported, baseline, new>>
    BY <1>3 DEF TaskStep, Acquire, Skip, ReadFirstTime, Gather, DatabaseRaises,
                ArchiveEnds, Release
  <2>2. \A q \in Requests \ {r} : task'[q] = task[q] /\ full'[q] = full[q]
    BY <1>3 DEF TaskStep, Acquire, Skip, ReadFirstTime, Gather, DatabaseRaises,
                ArchiveEnds, Release, Forget, TypeOK
  <2>3. new'[r] = {}
    BY <1>0, <2>1
  <2>4. \A q \in Requests : Quiet(q)
    BY <2>1, <2>2, <2>3 DEF Quiet
  <2> QED
    BY <2>1, <2>4, ReportKept
<1>4. ASSUME NEW w \in Workers, Crash(w)
      PROVE  ReportInv'
  <2>1. \A q \in Requests : Quiet(q)
    BY <1>4 DEF Crash, Quiet
  <2>2. UNCHANGED <<listed, reported, baseline>>
    BY <1>4 DEF Crash
  <2> QED
    BY <2>1, <2>2, ReportKept
<1>5. CASE Tick \/ UNCHANGED vars \/ \E s \in Sources, v \in Versions : Publish(s, v)
  BY <1>5, ReportKept DEF Tick, vars, Publish, Quiet
<1> QED
  BY <1>1, <1>2, <1>3, <1>4, <1>5, PersistKeepsReport, HookKeepsReport DEF Next

\* It holds throughout.
LEMMA ReportInvariant == Spec => []ReportInv
<1>1. Init => ReportInv
  BY DEF Init, ReportInv, NewInv
<1> QED
  BY <1>1, ReportStep, TypeCorrect, PTL DEF Spec

(* Overlapping collections, one of which has lost its lease, do not hand a *)
(* version to the archive twice: the transaction of _persist decides.      *)
THEOREM NoDoubleReport == Spec => []ReportedOnce
<1>1. ReportInv => ReportedOnce
  BY DEF ReportInv, ReportedOnce
<1> QED
  BY <1>1, ReportInvariant, PTL

(* The versions of a full collection are never handed to the archive.      *)
THEOREM NoBaselineReport == Spec => []BaselineNotArchived
<1>1. ReportInv => BaselineNotArchived
  BY DEF ReportInv, BaselineNotArchived
<1> QED
  BY <1>1, ReportInvariant, PTL

-----------------------------------------------------------------------------
(* Nothing the table knew is lost by a write, whichever task makes it.     *)
THEOREM Monotonic == Spec => NothingForgotten
<1>1. [Next]_vars => [/\ listed \subseteq listed'
                      /\ loadable \subseteq loadable'
                      /\ lastFull => lastFull']_vars
  <2> SUFFICES ASSUME [Next]_vars
               PROVE  /\ listed \subseteq listed'
                      /\ loadable \subseteq loadable'
                      /\ lastFull => lastFull'
    OBVIOUS
  <2> USE DEF dbVars
  <2>1. ASSUME NEW r \in Requests, Persist(r)
        PROVE  /\ listed \subseteq listed'
               /\ loadable \subseteq loadable'
               /\ lastFull => lastFull'
    BY <2>1 DEF Persist, Merged, FullAfter
  <2>2. ASSUME NEW r \in Requests, TaskStep(r), ~Persist(r)
        PROVE  UNCHANGED <<listed, loadable, lastFull>>
    BY <2>2 DEF TaskStep, Acquire, Skip, ReadFirstTime, Gather, DatabaseRaises,
                Report, ArchiveEnds, Release
  <2>3. ASSUME NEW r \in Requests, Ask(r) \/ Wake(r)
        PROVE  UNCHANGED <<listed, loadable, lastFull>>
    BY <2>3 DEF Ask, Wake
  <2>4. CASE Tick \/ UNCHANGED vars \/ \E s \in Sources, v \in Versions : Publish(s, v)
    BY <2>4 DEF Tick, vars, Publish
  <2>5. ASSUME NEW w \in Workers, Crash(w)
        PROVE  UNCHANGED <<listed, loadable, lastFull>>
    BY <2>5 DEF Crash
  <2> QED
    BY <2>1, <2>2, <2>3, <2>4, <2>5 DEF Next
<1> QED
  BY <1>1, PTL DEF Spec, NothingForgotten
=============================================================================
