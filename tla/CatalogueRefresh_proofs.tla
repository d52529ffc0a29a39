----------------------- MODULE CatalogueRefresh_proofs ----------------------
(* Proofs about CatalogueRefresh, for any number of schedulers, packages,  *)
(* versions and providers and any lease, retries and concurrency.          *)
EXTENDS CatalogueRefresh, FiniteSetTheorems, TLAPS

\* What keeps schedulers apart: within the lease it took, a round's scheduler is
\* the owner in the row, and the row's lease runs down with its own.
Led ==
    \A s \in Schedulers :
       at[s] \in {"leading", "round"} /\ term[s] >= 0 => lock = s /\ left = term[s]

\* A version under way belongs to a scheduler.
Owned == \A v \in Versions : fate[v] \in {"new", "active"} => by[v] \in Schedulers

Slots == \A s \in Schedulers : Cardinality(Active(s)) <= Concurrency

Inv == TypeOK /\ Led /\ Owned /\ NoneLeftBehind /\ Slots

\* The scheduler starts with the invariant.
LEMMA Initially == Init => Inv
<1> SUFFICES ASSUME Init PROVE Inv
  OBVIOUS
<1> USE RefreshAssumption DEF Init
<1>1. TypeOK /\ Led /\ Owned /\ NoneLeftBehind
  BY DEF TypeOK, Led, Owned, NoneLeftBehind, Expiry, Providers
<1>2. ASSUME NEW s \in Schedulers PROVE Cardinality(Active(s)) <= Concurrency
  <2>1. Active(s) = {}
    BY DEF Active
  <2>2. QED
    BY <2>1, FS_EmptySet
<1>3. QED
  BY <1>1, <1>2 DEF Inv, Slots

\* Every action keeps the types.
LEMMA TypeKept == ASSUME TypeOK, [Next]_vars PROVE TypeOK'
<1> USE RefreshAssumption DEF TypeOK, leadVars, roundVars, tryVars, Expiry, Providers, Fault
<1>1. ASSUME NEW s \in Schedulers, Wake(s) PROVE TypeOK'
  BY <1>1 DEF Wake
<1>2. ASSUME NEW s \in Schedulers, ListPackages(s) PROVE TypeOK'
  BY <1>2 DEF ListPackages
<1>3. ASSUME NEW s \in Schedulers, PackageDone(s) PROVE TypeOK'
  BY <1>3 DEF PackageDone
<1>4. ASSUME NEW s \in Schedulers, RoundDone(s) PROVE TypeOK'
  BY <1>4 DEF RoundDone
<1>5. ASSUME NEW s \in Schedulers, Crash(s) PROVE TypeOK'
  BY <1>5 DEF Crash
<1>6. ASSUME NEW s \in Schedulers, Restart(s) PROVE TypeOK'
  BY <1>6 DEF Restart
<1>7. ASSUME NEW s \in Schedulers, NEW p \in Packages, Refresh(s, p) PROVE TypeOK'
  BY <1>7 DEF Refresh, Persist, Unwritten
<1>8. ASSUME NEW v \in Versions, Publish(v) \/ Announce(v) PROVE TypeOK'
  BY <1>8 DEF Publish, Announce, Unwritten
<1>9. ASSUME NEW v \in Versions, Start(v) PROVE TypeOK'
  BY <1>9 DEF Start
<1>10. ASSUME NEW v \in Versions, Succeed(v) PROVE TypeOK'
  BY <1>10 DEF Succeed, Settle, Try
<1>11. ASSUME NEW v \in Versions, Fail(v) PROVE TypeOK'
  BY <1>11 DEF Fail, AttemptFails, MayTryAgain, Try, Settle
<1>12. CASE Tick
  BY <1>12 DEF Tick
<1>13. CASE UNCHANGED vars
  BY <1>13 DEF vars
<1>14. QED
  BY <1>1, <1>2, <1>3, <1>4, <1>5, <1>6, <1>7, <1>8, <1>9, <1>10, <1>11, <1>12, <1>13
  DEF Next, Round, Archive

\* Every action keeps the leader alone within its lease.
LEMMA LedKept == ASSUME TypeOK, Led, [Next]_vars PROVE Led'
<1> USE RefreshAssumption DEF TypeOK, Led, leadVars, roundVars, tryVars, Expiry
<1>1. ASSUME NEW s \in Schedulers, Wake(s) PROVE Led'
  BY <1>1 DEF Wake, MayLead, Expired
<1>2. ASSUME NEW s \in Schedulers, ListPackages(s) PROVE Led'
  BY <1>2 DEF ListPackages
<1>3. ASSUME NEW s \in Schedulers, PackageDone(s) PROVE Led'
  BY <1>3 DEF PackageDone
<1>4. ASSUME NEW s \in Schedulers, RoundDone(s) PROVE Led'
  BY <1>4 DEF RoundDone
<1>5. ASSUME NEW s \in Schedulers, Crash(s) PROVE Led'
  BY <1>5 DEF Crash
<1>6. ASSUME NEW s \in Schedulers, Restart(s) PROVE Led'
  BY <1>6 DEF Restart
<1>7. ASSUME NEW s \in Schedulers, NEW p \in Packages, Refresh(s, p) PROVE Led'
  BY <1>7 DEF Refresh
<1>8. ASSUME NEW v \in Versions, Publish(v) \/ Announce(v) \/ Archive(v) PROVE Led'
  BY <1>8 DEF Publish, Announce, Archive, Start, Succeed, Fail
<1>9. CASE Tick
  BY <1>9 DEF Tick
<1>10. CASE UNCHANGED vars
  BY <1>10 DEF vars
<1>11. QED
  BY <1>1, <1>2, <1>3, <1>4, <1>5, <1>6, <1>7, <1>8, <1>9, <1>10 DEF Next, Round

\* Every action keeps the versions under way with a pass that waits for them.
LEMMA PassKept ==
    ASSUME TypeOK, Owned, NoneLeftBehind, [Next]_vars PROVE Owned' /\ NoneLeftBehind'
<1> DEFINE Kept == Owned' /\ NoneLeftBehind'
<1> USE RefreshAssumption DEF TypeOK, Owned, NoneLeftBehind, leadVars, roundVars, tryVars
<1>1. ASSUME NEW s \in Schedulers, Wake(s) \/ ListPackages(s) \/ RoundDone(s) \/ Restart(s)
      PROVE Kept
  BY <1>1 DEF Wake, ListPackages, RoundDone, Restart
<1>2. ASSUME NEW s \in Schedulers, PackageDone(s) PROVE Kept
  BY <1>2 DEF PackageDone, Gathered, Pass
<1>3. ASSUME NEW s \in Schedulers, Crash(s) PROVE Kept
  BY <1>3 DEF Crash, Pass
<1>4. ASSUME NEW s \in Schedulers, NEW p \in Packages, Refresh(s, p) PROVE Kept
  BY <1>4 DEF Refresh, Persist, Found, Missed, Unwritten
<1>5. ASSUME NEW v \in Versions, Publish(v) \/ Announce(v) PROVE Kept
  BY <1>5 DEF Publish, Announce
<1>6. ASSUME NEW v \in Versions, Start(v) PROVE Kept
  BY <1>6 DEF Start
<1>7. ASSUME NEW v \in Versions, Succeed(v) PROVE Kept
  BY <1>7 DEF Succeed, Settle, Try
<1>8. ASSUME NEW v \in Versions, Fail(v) PROVE Kept
  BY <1>8 DEF Fail, AttemptFails, MayTryAgain, Try, Settle
<1>9. CASE Tick \/ UNCHANGED vars
  BY <1>9 DEF Tick, vars
<1>10. QED
  BY <1>1, <1>2, <1>3, <1>4, <1>5, <1>6, <1>7, <1>8, <1>9 DEF Next, Round, Archive

\* Only a start adds to the downloads under way, and it finds a slot free.
LEMMA SlotsKept == ASSUME TypeOK, Owned, Slots, [Next]_vars PROVE Slots'
<1> SUFFICES ASSUME NEW s \in Schedulers PROVE Cardinality(Active(s)') <= Concurrency
  BY DEF Slots, Active
<1> USE RefreshAssumption
<1>1. /\ IsFiniteSet(Active(s))
      /\ IsFiniteSet(Active(s)')
      /\ Cardinality(Active(s)) \in Nat
      /\ Cardinality(Active(s)') \in Nat
  <2>1. Active(s) \subseteq Versions /\ Active(s)' \subseteq Versions
    BY DEF Active
  <2>2. QED
    BY <2>1, FS_Subset, FS_CardinalityType
<1>2. ASSUME Active(s)' \subseteq Active(s) PROVE Cardinality(Active(s)') <= Concurrency
  <2>1. Cardinality(Active(s)') <= Cardinality(Active(s))
    BY <1>1, <1>2, FS_Subset
  <2>2. QED
    BY <2>1, <1>1 DEF Slots
<1>3. ASSUME NEW v \in Versions, Start(v) PROVE Cardinality(Active(s)') <= Concurrency
  <2>1. CASE by[v] = s
    <3>1. Active(s)' = Active(s) \cup {v} /\ v \notin Active(s)
      BY <1>3, <2>1 DEF Start, Active, TypeOK
    <3>2. Cardinality(Active(s)') = Cardinality(Active(s)) + 1
      BY <3>1, <1>1, FS_AddElement
    <3>3. QED
      BY <3>2, <1>1, <1>3, <2>1 DEF Start, SlotFree
  <2>2. CASE by[v] # s
    BY <2>2, <1>2, <1>3 DEF Start, Active, TypeOK
  <2>3. QED
    BY <2>1, <2>2
<1>4. CASE ~ \E v \in Versions : Start(v)
  <2> USE DEF Active, TypeOK, leadVars, roundVars, tryVars
  <2>1. ASSUME NEW t \in Schedulers,
               Wake(t) \/ ListPackages(t) \/ PackageDone(t) \/ RoundDone(t) \/ Restart(t)
        PROVE Active(s)' \subseteq Active(s)
    BY <2>1 DEF Wake, ListPackages, PackageDone, RoundDone, Restart
  <2>2. ASSUME NEW t \in Schedulers, Crash(t) PROVE Active(s)' \subseteq Active(s)
    BY <2>2 DEF Crash
  <2>3. ASSUME NEW t \in Schedulers, NEW p \in Packages, Refresh(t, p)
        PROVE Active(s)' \subseteq Active(s)
    BY <2>3 DEF Refresh, Persist, Found, Unwritten
  <2>4. ASSUME NEW v \in Versions, Publish(v) \/ Announce(v) PROVE Active(s)' \subseteq Active(s)
    BY <2>4 DEF Publish, Announce
  <2>5. ASSUME NEW v \in Versions, Succeed(v) \/ Fail(v)
        PROVE Active(s)' \subseteq Active(s)
    <3>1. UNCHANGED <<fate, by>> \/ \E end \in {"archived", "failed"} : Settle(v, end)
      BY <2>5 DEF Succeed, Fail, AttemptFails
    <3>2. QED
      BY <3>1 DEF Settle
  <2>6. ASSUME Tick PROVE Active(s)' \subseteq Active(s)
    BY <2>6 DEF Tick
  <2>7. ASSUME UNCHANGED vars PROVE Active(s)' \subseteq Active(s)
    BY <2>7 DEF vars
  <2> HIDE DEF Active, TypeOK, leadVars, roundVars, tryVars
  <2>8. Active(s)' \subseteq Active(s)
    BY <1>4, <2>1, <2>2, <2>3, <2>4, <2>5, <2>6, <2>7 DEF Next, Round, Archive
  <2>9. QED
    BY <2>8, <1>2
<1>5. QED
  BY <1>3, <1>4

\* Each step of it keeps the invariant.
LEMMA InvariantHolds == Spec => []Inv
<1>1. Inv /\ [Next]_vars => Inv'
  BY TypeKept, LedKept, PassKept, SlotsKept DEF Inv
<1>2. QED
  BY Initially, <1>1, PTL DEF Spec

-----------------------------------------------------------------------------
\* Every variable keeps its type; retries and attempts stay within their bounds.
THEOREM TypeCorrect == Spec => []TypeOK
<1>1. Inv => TypeOK
  BY DEF Inv
<1>2. QED
  BY InvariantHolds, <1>1, PTL

\* Within the leases they took, two schedulers are never in a round together.
THEOREM LeadersExclude == Spec => []OneLeader
<1>1. Inv => OneLeader
  BY DEF Inv, Led, OneLeader, TypeOK, Expiry
<1>2. QED
  BY InvariantHolds, <1>1, PTL

\* A version handed to the archiver stays with a pass that waits for it until it
\* is archived or has had all of its attempts.
THEOREM NothingLeftBehind == Spec => []NoneLeftBehind
<1>1. Inv => NoneLeftBehind
  BY DEF Inv
<1>2. QED
  BY InvariantHolds, <1>1, PTL

\* A pass never has more downloads under way than configured.
THEOREM BoundedPasses == Spec => []ArchiveBounded
<1>1. Inv => ArchiveBounded
  BY DEF Inv, Slots, NoneLeftBehind, ArchiveBounded, Active
<1>2. QED
  BY InvariantHolds, <1>1, PTL
=============================================================================
