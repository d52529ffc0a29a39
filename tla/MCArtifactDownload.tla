-------------------------- MODULE MCArtifactDownload --------------------------
(* Small instances of ArtifactDownload for TLC. *)
EXTENDS ArtifactDownload, TLC

CONSTANTS w1, w2, byName, byCode, latest

\* The three ways to ask for the version, in one process or in two.
OneProcess == [c \in Calls |-> w1]
TwoProcesses == [c \in Calls |-> IF c = byName THEN w1 ELSE w2]
Forms == byName :> "name" @@ byCode :> "code" @@ latest :> "latest"
FormOf == [c \in Calls |-> Forms[c]]
=============================================================================
