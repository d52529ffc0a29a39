------------------------------ MODULE JobQueue ------------------------------
(***************************************************************************)
(* What the download queue promises to the clients of GET /download and    *)
(* GET /downloads/{id}, with no workers, no leases and no clock: a request *)
(* gets a job, a job is worked on, and it ends once, for good.             *)
(***************************************************************************)
CONSTANTS
    JobIds,     \* the ids a job can be given
    Keys,       \* request keys: package, version, preferred provider
    None        \* the key of a job that does not exist yet

VARIABLES
    status,     \* what a client polling the job sees
    reqKey      \* the request the job was created for

vars == <<status, reqKey>>

Outcome == {"succeeded", "failed"}

Active(j) == status[j] \in {"queued", "running"}

Init == /\ status = [j \in JobIds |-> "none"]
        /\ reqKey = [j \in JobIds |-> None]

\* A request without an active job gets a new one.
Submit(k, j) ==
    /\ status[j] = "none"
    /\ \A i \in JobIds : Active(i) => reqKey[i] # k
    /\ status' = [status EXCEPT ![j] = "queued"]
    /\ reqKey' = [reqKey EXCEPT ![j] = k]

Start(j) ==
    /\ status[j] = "queued"
    /\ status' = [status EXCEPT ![j] = "running"]
    /\ UNCHANGED reqKey

\* The only way to an outcome is from "running", and there is no way back.
Finish(j, outcome) ==
    /\ status[j] = "running"
    /\ status' = [status EXCEPT ![j] = outcome]
    /\ UNCHANGED reqKey

Next == \E j \in JobIds :
           \/ \E k \in Keys : Submit(k, j)
           \/ Start(j)
           \/ \E outcome \in Outcome : Finish(j, outcome)

Spec == Init /\ [][Next]_vars
=============================================================================
