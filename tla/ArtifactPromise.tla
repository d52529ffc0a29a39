--------------------------- MODULE ArtifactPromise ---------------------------
(***************************************************************************)
(* What PackageDownloader.download and existing promise to their callers,  *)
(* with no locks, no temporary files and no loop: an artifact is stored    *)
(* under one of the names of its version or it is not, and a call that is  *)
(* given an artifact is given a complete one, which is stored right then   *)
(* and stays.                                                              *)
(***************************************************************************)
CONSTANTS
    Calls,      \* callers
    Keys        \* version keys: the ways to name the version

VARIABLES
    stored,     \* keys under which a complete artifact would be found
    answer      \* what a call was told last

vars == <<stored, answer>>

Init == /\ stored = {}
        /\ answer = [c \in Calls |-> "none"]

Store(k) == /\ stored' = stored \cup {k}
            /\ UNCHANGED answer

\* A new call, or the end of the process that served some.
Forget(C) == /\ answer' = [c \in Calls |-> IF c \in C THEN "none" ELSE answer[c]]
             /\ UNCHANGED stored

Deliver(c) == /\ stored # {}
              /\ answer' = [answer EXCEPT ![c] = "whole"]
              /\ UNCHANGED stored

Refuse(c) == /\ answer' = [answer EXCEPT ![c] = "failed"]
             /\ UNCHANGED stored

Next == \/ \E k \in Keys : Store(k)
        \/ \E C \in SUBSET Calls : Forget(C)
        \/ \E c \in Calls : Deliver(c) \/ Refuse(c)

Spec == Init /\ [][Next]_vars
=============================================================================
