------------------------- MODULE MCCatalogCollection -------------------------
(* Small instances of CatalogCollection for TLC. *)
EXTENDS CatalogCollection, TLC

CONSTANTS w1, w2, r1, r2, r3, r4

\* Three requests of one process and one of another.
ThreeAndOne == r1 :> w1 @@ r2 :> w1 @@ r3 :> w1 @@ r4 :> w2

\* One request in each of two processes.
OneEach == r1 :> w1 @@ r2 :> w2

\* The requests of one process are alike.
Alike == Permutations({r1, r2, r3})
-----------------------------------------------------------------------------
(* What the documents say of collections, against what the code does. *)

\* Nothing fails and nothing crashes.
Quiet == faults' = faults

\* Nor does a collection outlast its lease.
Swift == \A r \in Requests : task'[r] \in Holding => left'[r] >= 0

SwiftSpec == Init /\ [][Next /\ Quiet /\ Swift]_vars

\* develop/android-package-service-version-catalog-design.md:124: the first
\* GET /versions of a package awaits its collection, for it needs data to
\* answer.  A call that had to wait goes on only once there was a collection.
FirstReadHasData ==
    [][\A r \in Requests :
          waits[r] # None /\ waits'[r] = None => lastFull]_vars
=============================================================================
