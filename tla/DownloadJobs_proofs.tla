------------------------ MODULE DownloadJobs_proofs ------------------------
(***************************************************************************)
(* Proofs about DownloadJobs, for any number of processes, slots, requests *)
(* and jobs, any lease settings and any number of faults.                  *)
(***************************************************************************)
EXTENDS DownloadJobs, TLAPS

USE ConstantsAssumption

-----------------------------------------------------------------------------
(* The heartbeat's sleep is a whole number no longer than the lease. *)
LEMMA BeatType == \A p \in Processes : Beat(p) \in 1..MaxLease
<1> SUFFICES ASSUME NEW p \in Processes
             PROVE  Beat(p) \in 1..MaxLease
  OBVIOUS
<1>1. Lease[p] \in 1..MaxLease
  OBVIOUS
<1>2. Lease[p] \div 3 \in Int /\ Lease[p] \div 3 <= Lease[p]
  BY <1>1
<1> QED
  BY <1>1, <1>2 DEF Beat

(* Every variable keeps its type; a slot that is not idle has a job. *)
LEMMA TypeInit == Init => TypeOK
BY DEF Init, TypeOK, Status, Terminal, Late, MaxIdle

\* A process that dies leaves the rows and the slots typed.
LEMMA DieType ==
  ASSUME TypeOK, NEW p \in Processes, Die(p), faults' \in 0..MaxFaults
  PROVE  TypeOK'
<1>1. UNCHANGED <<status, reqKey, worker, lease, idle, created, lastCreated, ahead>>
  BY DEF Die, rowVars
<1>2. proc' \in [Processes -> {"up", "blocked", "down"}]
  BY DEF Die, TypeOK
<1>3. pc' \in [Slots -> {"idle", "downloading", "succeeding", "failing"}]
  BY DEF Die, TypeOK
<1>4. job' \in [Slots -> JobIds \cup {None}]
  BY DEF Die, TypeOK
<1>5. beating' \in [Slots -> BOOLEAN]
  BY Zenon DEF Die, TypeOK
<1>6. due' \in [Slots -> Late..MaxLease]
  BY DEF Die, TypeOK, Late
<1>7. \A s \in Slots : pc'[s] # "idle" => job'[s] \in JobIds
  BY DEF Die, TypeOK
<1> QED
  BY <1>1, <1>2, <1>3, <1>4, <1>5, <1>6, <1>7 DEF TypeOK

\* Each step of a process keeps the types.
LEMMA TypeStep == TypeOK /\ [Next]_vars => TypeOK'
<1> SUFFICES ASSUME TypeOK, [Next]_vars
             PROVE  TypeOK'
  OBVIOUS
<1> USE DEF TypeOK, rowVars, slotVars
<1>1. ASSUME NEW k \in Keys, NEW j \in JobIds, Enqueue(k, j)
      PROVE  TypeOK'
  BY <1>1 DEF Enqueue, Status
<1>6. ASSUME NEW j \in JobIds, Arrive(j)
      PROVE  TypeOK'
  BY <1>6 DEF Arrive
<1>2. ASSUME NEW s \in Slots, SlotStep(s)
      PROVE  TypeOK'
  <2>0. ProcOf[s] \in Processes /\ Beat(ProcOf[s]) \in 1..MaxLease
    BY BeatType
  <2>1. CASE ClaimNext(s)
    BY <2>1, <2>0 DEF ClaimNext, Stamp, Status, Late, MaxIdle
  <2>2. CASE RenewLease(s)
    <3>1. job[s] \in JobIds
      BY <2>2 DEF RenewLease, Running
    <3>2. lease' \in [JobIds -> Late..MaxLease] /\ idle' \in [JobIds -> 0..MaxIdle]
      BY <2>2, <2>0, <3>1 DEF RenewLease, Stamp, Late, MaxIdle
    <3>3. due' \in [Slots -> Late..MaxLease]
      BY <2>2, <2>0 DEF RenewLease, Late
    <3>4. beating' \in [Slots -> BOOLEAN]
      BY <2>2 DEF RenewLease
    <3> QED
      BY <2>2, <3>2, <3>3, <3>4 DEF RenewLease
  <2>3. CASE RenewRaises(s)
    BY <2>3 DEF RenewRaises, Fault, Late
  <2>4. CASE FinishDownload(s)
    BY <2>4 DEF FinishDownload, Running, Late
  <2>5. CASE MarkSucceeded(s)
    BY <2>5 DEF MarkSucceeded, Record, Release, Running, Status, Terminal, Late, MaxIdle
  <2>6. CASE MarkSucceededRaises(s)
    BY <2>6 DEF MarkSucceededRaises, Running, Fault
  <2>7. CASE MarkFailed(s)
    BY <2>7 DEF MarkFailed, Record, Release, Running, Status, Terminal, Late, MaxIdle
  <2>8. CASE MarkFailedRaises(s)
    BY <2>8, <2>0, DieType DEF MarkFailedRaises, Fault
  <2>9. CASE ClaimRaises(s)
    BY <2>9, <2>0, DieType DEF ClaimRaises, Fault
  <2> QED
    BY <1>2, <2>1, <2>2, <2>3, <2>4, <2>5, <2>6, <2>7, <2>8, <2>9 DEF SlotStep
<1>3. ASSUME NEW p \in Processes, ProcessStep(p)
      PROVE  TypeOK'
  <2>1. CASE Block(p)
    BY <2>1 DEF Block, Fault
  <2>2. CASE Unblock(p)
    BY <2>2 DEF Unblock
  <2>3. CASE Crash(p)
    BY <2>3, DieType DEF Crash, Fault
  <2>4. CASE Restart(p)
    BY <2>4 DEF Restart
  <2> QED
    BY <1>3, <2>1, <2>2, <2>3, <2>4 DEF ProcessStep
<1>4. CASE Tick
  BY <1>4 DEF Tick, Late, MaxIdle
<1>5. CASE UNCHANGED vars
  BY <1>5 DEF vars
<1> QED
  BY <1>1, <1>2, <1>3, <1>4, <1>5, <1>6 DEF Next

\* The rows of download_jobs and what each worker process holds have their types:
\* no handler writes a status, a worker or an attempt that is none.
THEOREM TypeCorrect == Spec => []TypeOK
<1> QED
  BY TypeInit, TypeStep, PTL DEF Spec
-----------------------------------------------------------------------------
(***************************************************************************)
(* Refinement.  Seen through status and reqKey, every step is a step of    *)
(* JobQueue or leaves both alone: only a queued row is started, only a     *)
(* running one ends, and taking over a running row shows nothing.          *)
(***************************************************************************)
LEMMA RecordRefines ==
  ASSUME TypeOK, NEW s \in Slots, NEW where \in {"succeeding", "failing"},
         Running(s, where), NEW outcome \in Terminal, Record(s, outcome)
  PROVE  [Promise!Next]_(Promise!vars)
<1>1. job[s] \in JobIds
  BY DEF Running, TypeOK
<1>2. CASE Owns(s) /\ status' = [status EXCEPT ![job[s]] = outcome]
  <2>1. Promise!Finish(job[s], outcome)
    BY <1>2 DEF Owns, Record, Promise!Finish
  <2> QED
    BY <1>1, <2>1 DEF Promise!Next, Promise!Outcome, Terminal
<1>3. CASE UNCHANGED status
  BY <1>3 DEF Record, Promise!vars
<1> QED
  BY <1>2, <1>3 DEF Record

\* Each step of the processes is one of the promised queue's, or a stutter.
LEMMA StepRefines == TypeOK /\ [Next]_vars => [Promise!Next]_(Promise!vars)
<1> SUFFICES ASSUME TypeOK, [Next]_vars
             PROVE  [Promise!Next]_(Promise!vars)
  OBVIOUS
<1> USE DEF rowVars, slotVars, Promise!vars
<1>1. ASSUME NEW k \in Keys, NEW j \in JobIds, Enqueue(k, j)
      PROVE  Promise!Next
  BY <1>1 DEF Enqueue, HasActiveJob, Active, Promise!Next, Promise!Submit, Promise!Active
<1>6. ASSUME NEW j \in JobIds, Arrive(j)
      PROVE  UNCHANGED <<status, reqKey>>
  BY <1>6 DEF Arrive
<1>2. ASSUME NEW s \in Slots, SlotStep(s)
      PROVE  [Promise!Next]_(Promise!vars)
  <2>1. CASE ClaimNext(s)
    <3>1. PICK j \in JobIds, d \in 0..Slack :
              /\ Claimable(j, ProcOf[s], d)
              /\ status' = [status EXCEPT ![j] = "running"]
      BY <2>1 DEF ClaimNext
    <3>2. UNCHANGED reqKey
      BY <2>1 DEF ClaimNext
    <3>3. CASE status[j] = "queued"
      BY <3>1, <3>2, <3>3 DEF Promise!Next, Promise!Start
    <3>4. CASE status[j] = "running"
      <4>1. status' = status
        BY <3>1, <3>4 DEF TypeOK
      <4> QED
        BY <4>1, <3>2
    <3> QED
      BY <3>1, <3>3, <3>4 DEF Claimable
  <2>2. CASE RenewLease(s) \/ RenewRaises(s) \/ FinishDownload(s)
                \/ MarkSucceededRaises(s)
    BY <2>2 DEF RenewLease, RenewRaises, FinishDownload, MarkSucceededRaises
  <2>3. CASE MarkSucceeded(s)
    BY <2>3, RecordRefines DEF MarkSucceeded, Terminal
  <2>4. CASE MarkFailed(s)
    BY <2>4, RecordRefines DEF MarkFailed, Terminal
  <2>5. CASE MarkFailedRaises(s) \/ ClaimRaises(s)
    BY <2>5 DEF MarkFailedRaises, ClaimRaises, Die
  <2> QED
    BY <1>2, <2>1, <2>2, <2>3, <2>4, <2>5 DEF SlotStep
<1>3. ASSUME NEW p \in Processes, ProcessStep(p)
      PROVE  UNCHANGED <<status, reqKey>>
  BY <1>3 DEF ProcessStep, Block, Unblock, Crash, Restart, Die
<1>4. CASE Tick
  BY <1>4 DEF Tick
<1>5. CASE UNCHANGED vars
  BY <1>5 DEF vars
<1> QED
  BY <1>1, <1>2, <1>3, <1>4, <1>5, <1>6 DEF Next

(* The worker and lease machinery of jobs.py and worker.py keeps the       *)
(* promise JobQueue makes to the clients.                                  *)
THEOREM Refinement == Spec => KeepsPromise
<1>1. Init => Promise!Init
  BY DEF Init, Promise!Init
<1> QED
  BY <1>1, StepRefines, TypeCorrect, PTL DEF Spec, KeepsPromise, Promise!Spec

-----------------------------------------------------------------------------
(* enqueue's select-then-insert transaction and the fenced updates leave   *)
(* at most one active job to a request, in every reachable state.          *)
THEOREM OneActiveJob == Spec => []OneActiveJobPerRequest
<1> USE DEF OneActiveJobPerRequest, Active
<1>1. Init => OneActiveJobPerRequest
  BY DEF Init
<1>2. TypeOK /\ OneActiveJobPerRequest /\ [Next]_vars => OneActiveJobPerRequest'
  <2> SUFFICES ASSUME TypeOK, OneActiveJobPerRequest, [Promise!Next]_(Promise!vars)
               PROVE  OneActiveJobPerRequest'
    BY StepRefines
  <2> USE DEF TypeOK
  <2>1. ASSUME NEW j \in JobIds, NEW k \in Keys, Promise!Submit(k, j)
        PROVE  OneActiveJobPerRequest'
    BY <2>1 DEF Promise!Submit, Promise!Active
  <2>2. ASSUME NEW j \in JobIds, Promise!Start(j)
        PROVE  OneActiveJobPerRequest'
    BY <2>2 DEF Promise!Start
  <2>3. ASSUME NEW j \in JobIds, NEW o \in Promise!Outcome, Promise!Finish(j, o)
        PROVE  OneActiveJobPerRequest'
    BY <2>3 DEF Promise!Finish, Promise!Outcome
  <2>4. CASE UNCHANGED Promise!vars
    BY <2>4 DEF Promise!vars
  <2> QED
    BY <2>1, <2>2, <2>3, <2>4 DEF Promise!Next
<1> QED
  BY <1>1, <1>2, TypeCorrect, PTL DEF Spec
-----------------------------------------------------------------------------
(***************************************************************************)
(* What one step may do to a row: start the oldest claimable one, end one  *)
(* its slot owns, or leave status and worker alone.                        *)
(***************************************************************************)
Starts(s, j) ==
    /\ Running(s, "idle")
    /\ status[j] \in {"queued", "running"}
    /\ \A i \in JobIds : status[i] = "queued" => created[j] <= created[i]
    /\ status' = [status EXCEPT ![j] = "running"]
    /\ worker' = [worker EXCEPT ![j] = s]

Ends(s) ==
    /\ pc[s] \in {"succeeding", "failing"}
    /\ pc'[s] = "idle"
    /\ Owns(s)
    /\ \E outcome \in Terminal : status' = [status EXCEPT ![job[s]] = outcome]
    /\ worker' = worker

\* What a step does to the rows: one is added or arrives, or one starts or ends.
LEMMA RowStep ==
  ASSUME TypeOK, [Next]_vars
  PROVE  \/ \E k \in Keys, j \in JobIds : Enqueue(k, j)
         \/ \E j \in JobIds : Arrive(j)
         \/ /\ UNCHANGED <<created, lastCreated, ahead>>
            /\ \/ \E s \in Slots, j \in JobIds : Starts(s, j)
               \/ \E s \in Slots : Ends(s)
               \/ UNCHANGED <<status, worker>>
<1> USE DEF rowVars, slotVars
<1>1. ASSUME NEW s \in Slots, ClaimNext(s)
      PROVE  UNCHANGED <<created, lastCreated, ahead>> /\ \E j \in JobIds : Starts(s, j)
  BY <1>1 DEF ClaimNext, Oldest, Claimable, Starts
<1>2. ASSUME NEW s \in Slots, NEW where \in {"succeeding", "failing"},
             NEW outcome \in Terminal, Running(s, where), Record(s, outcome)
      PROVE  /\ UNCHANGED <<created, lastCreated, ahead>>
             /\ Ends(s) \/ UNCHANGED <<status, worker>>
  <2>1. pc'[s] = "idle"
    BY <1>2 DEF Record, Release, TypeOK
  <2> QED
    BY <1>2, <2>1 DEF Record, Ends, Running
<1>3. ASSUME NEW s \in Slots, SlotStep(s), ~ClaimNext(s), ~MarkSucceeded(s), ~MarkFailed(s)
      PROVE  UNCHANGED <<status, worker, created, lastCreated, ahead>>
  BY <1>3 DEF SlotStep, RenewLease, RenewRaises, FinishDownload,
              MarkSucceededRaises, MarkFailedRaises, ClaimRaises, Die
<1>4. ASSUME NEW p \in Processes, ProcessStep(p)
      PROVE  UNCHANGED <<status, worker, created, lastCreated, ahead>>
  BY <1>4 DEF ProcessStep, Block, Unblock, Crash, Restart, Die
<1>5. CASE Tick \/ UNCHANGED vars
  BY <1>5 DEF Tick, vars
<1> QED
  BY <1>1, <1>2, <1>3, <1>4, <1>5 DEF Next, MarkSucceeded, MarkFailed, Terminal

(* The outcome a client has seen is never taken back: claim_next skips     *)
(* ended rows and a report needs a running one.                            *)
THEOREM FinalOutcome == Spec => OutcomeIsFinal
<1>1. TypeOK /\ [Next]_vars =>
        [\A j \in JobIds : status[j] \in Terminal =>
            /\ status'[j] = status[j]
            /\ worker'[j] = worker[j]]_vars
  <2> SUFFICES ASSUME TypeOK, [Next]_vars,
                      NEW j \in JobIds, status[j] \in Terminal
               PROVE  status'[j] = status[j] /\ worker'[j] = worker[j]
    OBVIOUS
  <2> USE DEF TypeOK, Terminal
  <2>1. ASSUME NEW k \in Keys, NEW i \in JobIds, Enqueue(k, i)
        PROVE  status'[j] = status[j] /\ worker'[j] = worker[j]
    BY <2>1 DEF Enqueue
  <2>2. ASSUME NEW s \in Slots, NEW i \in JobIds, Starts(s, i)
        PROVE  status'[j] = status[j] /\ worker'[j] = worker[j]
    BY <2>2 DEF Starts
  <2>3. ASSUME NEW s \in Slots, Ends(s)
        PROVE  status'[j] = status[j] /\ worker'[j] = worker[j]
    BY <2>3 DEF Ends, Owns
  <2>4. ASSUME NEW i \in JobIds, Arrive(i)
        PROVE  status'[j] = status[j] /\ worker'[j] = worker[j]
    BY <2>4 DEF Arrive
  <2> QED
    BY <2>1, <2>2, <2>3, <2>4, RowStep
<1> QED
  BY <1>1, TypeCorrect, PTL DEF Spec, OutcomeIsFinal

(* A job ends only by the report of its latest claimer, which is running   *)
(* that very job: the worker column alone fences every stale result.       *)
THEOREM OwnerReports == Spec => OnlyTheOwnerReports
<1>1. TypeOK /\ [Next]_vars =>
        [\A j \in JobIds : status[j] = "running" /\ status'[j] \in Terminal =>
            \E s \in Slots : /\ worker[j] = s
                             /\ job[s] = j
                             /\ pc[s] \in {"succeeding", "failing"}
                             /\ pc'[s] = "idle"]_vars
  <2> SUFFICES ASSUME TypeOK, [Next]_vars, NEW j \in JobIds,
                      status[j] = "running", status'[j] \in Terminal
               PROVE  \E s \in Slots : /\ worker[j] = s
                                       /\ job[s] = j
                                       /\ pc[s] \in {"succeeding", "failing"}
                                       /\ pc'[s] = "idle"
    OBVIOUS
  <2> USE DEF TypeOK, Terminal
  <2>1. ASSUME NEW k \in Keys, NEW i \in JobIds, Enqueue(k, i)
        PROVE  FALSE
    BY <2>1 DEF Enqueue
  <2>2. ASSUME NEW s \in Slots, NEW i \in JobIds, Starts(s, i)
        PROVE  FALSE
    BY <2>2 DEF Starts
  <2>5. ASSUME NEW i \in JobIds, Arrive(i)
        PROVE  FALSE
    BY <2>5 DEF Arrive
  <2>3. PICK s \in Slots : Ends(s)
    BY <2>1, <2>2, <2>5, RowStep
  <2>4. job[s] = j
    BY <2>3 DEF Ends, Owns
  <2> QED
    BY <2>3, <2>4 DEF Ends, Owns
<1> QED
  BY <1>1, TypeCorrect, PTL DEF Spec, OnlyTheOwnerReports
-----------------------------------------------------------------------------
(***************************************************************************)
(* First come, first served.  The invariant adds that the rows ahead of a  *)
(* request exist and have a smaller created_at, for lastCreated is the     *)
(* latest there is.                                                        *)
(***************************************************************************)
QueueInv ==
    /\ FirstComeFirstServed
    /\ \A j \in JobIds : created[j] <= lastCreated
    /\ \A j \in JobIds : \A i \in ahead[j] :
          status[i] # "none" /\ created[i] < created[j]

\* claim_next takes the jobs in the order of created_at: none starts while one that
\* was queued before it still waits.
THEOREM FifoQueue == Spec => []FirstComeFirstServed
<1> USE DEF QueueInv, FirstComeFirstServed
<1>1. Init => QueueInv
  BY DEF Init
<1>2. TypeOK /\ QueueInv /\ [Next]_vars => QueueInv'
  <2> SUFFICES ASSUME TypeOK, QueueInv, [Next]_vars
               PROVE  QueueInv'
    OBVIOUS
  <2> USE DEF TypeOK
  <2>1. ASSUME NEW k \in Keys, NEW j \in JobIds, Enqueue(k, j)
        PROVE  QueueInv'
    BY <2>1 DEF Enqueue
  <2>2. ASSUME NEW j \in JobIds, Arrive(j)
        PROVE  QueueInv'
    <3>1. /\ UNCHANGED status
          /\ lastCreated' = lastCreated + 1
          /\ created'[j] = lastCreated + 1
          /\ ahead'[j] = {i \in JobIds : status[i] # "none"}
          /\ \A i \in JobIds \ {j} : created'[i] = created[i] /\ ahead'[i] = ahead[i]
      BY <2>2 DEF Arrive
    <3>2. \A m \in JobIds : j \notin ahead[m]
      BY <2>2 DEF Arrive
    <3> QED
      BY <2>2, <3>1, <3>2 DEF Arrive
  <2>3. ASSUME NEW s \in Slots, NEW j \in JobIds, Starts(s, j),
               UNCHANGED <<created, lastCreated, ahead>>
        PROVE  QueueInv'
    BY <2>3 DEF Starts
  <2>4. ASSUME NEW s \in Slots, Ends(s), UNCHANGED <<created, lastCreated, ahead>>
        PROVE  QueueInv'
    BY <2>4 DEF Ends, Owns, Terminal
  <2>5. CASE UNCHANGED <<status, worker, created, lastCreated, ahead>>
    BY <2>5
  <2> QED
    BY <2>1, <2>2, <2>3, <2>4, <2>5, RowStep
<1> QED
  BY <1>1, <1>2, TypeCorrect, PTL DEF Spec

-----------------------------------------------------------------------------
(***************************************************************************)
(* A slot that keeps time keeps its job.  WorkIsOwned alone is not         *)
(* inductive: that nobody else may claim the row rests on how far the      *)
(* lease reaches, and how fresh updated_at is, when the next write is due. *)
(***************************************************************************)
Held(s) ==
    /\ status[job[s]] = "running"
    /\ worker[job[s]] = s
    /\ lease[job[s]] >= due[s] + Slack
    /\ idle[job[s]] + due[s] <= Beat(ProcOf[s]) + Slack

LeaseInv == \A s \in Slots : OnTime(s) => Held(s)

(* No process may claim the row of a slot that keeps time. *)
LEMMA HeldNotClaimable ==
  ASSUME LeaseCoversHeartbeat, TypeOK, LeaseInv, NEW s \in Slots, OnTime(s),
         NEW p \in Processes, NEW d \in 0..Slack
  PROVE  ~Claimable(job[s], p, d)
<1>1. Held(s)
  BY DEF LeaseInv
<1>2. job[s] \in JobIds /\ due[s] \in Int /\ due[s] >= -Slack
  BY DEF OnTime, TypeOK, Late
<1>3. lease[job[s]] \in Int /\ idle[job[s]] \in Int
  BY <1>2 DEF TypeOK, Late, MaxIdle
<1>4. ~(lease[job[s]] < -d)
  BY <1>1, <1>2, <1>3 DEF Held
<1>5. Beat(ProcOf[s]) + 2 * Slack <= Lease[p] /\ Beat(ProcOf[s]) \in Int /\ Lease[p] \in Int
  BY BeatType DEF LeaseCoversHeartbeat
<1>6. ~(idle[job[s]] > Lease[p] + d)
  BY <1>1, <1>2, <1>3, <1>5 DEF Held
<1> QED
  BY <1>1, <1>4, <1>6 DEF Claimable, Held

(* A slot whose own state and row a step leaves alone is held as before. *)
LEMMA HeldKept ==
  ASSUME TypeOK, LeaseInv, NEW s \in Slots,
         pc'[s] = pc[s], job'[s] = job[s], due'[s] = due[s],
         OnTime(s) => /\ status'[job[s]] = status[job[s]]
                      /\ worker'[job[s]] = worker[job[s]]
                      /\ lease'[job[s]] = lease[job[s]]
                      /\ idle'[job[s]] = idle[job[s]]
  PROVE  OnTime(s)' => Held(s)'
BY DEF OnTime, Held, LeaseInv

(* A slot that is not held has to be idle or late. *)
LEMMA NotOnTime ==
  ASSUME NEW s \in Slots, pc'[s] = "idle" \/ due'[s] = Late
  PROVE  ~OnTime(s)'
BY DEF OnTime, Late

\* A death keeps the leases of the others,
LEMMA DieKeepsLease ==
  ASSUME TypeOK, LeaseInv, NEW p \in Processes, Die(p)
  PROVE  LeaseInv'
<1> SUFFICES ASSUME NEW s \in Slots
             PROVE  OnTime(s)' => Held(s)'
  BY DEF LeaseInv
<1>1. CASE ProcOf[s] = p
  BY <1>1, NotOnTime DEF Die
<1>2. CASE ProcOf[s] # p
  <2>1. pc'[s] = pc[s] /\ job'[s] = job[s] /\ due'[s] = due[s]
    BY <1>2 DEF Die
  <2>2. UNCHANGED <<status, worker, lease, idle>>
    BY DEF Die, rowVars
  <2> QED
    BY <2>1, <2>2, HeldKept
<1> QED
  BY <1>1, <1>2

\* a claim takes no lease that is kept up,
LEMMA ClaimKeepsLease ==
  ASSUME LeaseCoversHeartbeat, TypeOK, LeaseInv, NEW s \in Slots, ClaimNext(s)
  PROVE  LeaseInv'
<1> SUFFICES ASSUME NEW t \in Slots
             PROVE  OnTime(t)' => Held(t)'
  BY DEF LeaseInv
<1>1. PICK d \in 0..Slack, j \in JobIds :
          /\ Claimable(j, ProcOf[s], d)
          /\ status' = [status EXCEPT ![j] = "running"]
          /\ worker' = [worker EXCEPT ![j] = s]
          /\ lease' = [lease EXCEPT ![j] = Lease[ProcOf[s]] - d]
          /\ idle' = [idle EXCEPT ![j] = d]
          /\ job' = [job EXCEPT ![s] = j]
  BY DEF ClaimNext, Stamp
<1>2. /\ pc' = [pc EXCEPT ![s] = "downloading"]
      /\ due' = [due EXCEPT ![s] = Beat(ProcOf[s])]
  BY DEF ClaimNext
<1>3. CASE t = s
  <2>1. /\ job'[s] = j /\ due'[s] = Beat(ProcOf[s])
        /\ status'[j] = "running" /\ worker'[j] = s
        /\ lease'[j] = Lease[ProcOf[s]] - d /\ idle'[j] = d
    BY <1>1, <1>2 DEF TypeOK
  <2>2. ProcOf[s] \in Processes
    OBVIOUS
  <2>3. /\ Beat(ProcOf[s]) \in Int /\ Lease[ProcOf[s]] \in Int
        /\ Beat(ProcOf[s]) + 2 * Slack <= Lease[ProcOf[s]]
    BY <2>2, BeatType DEF LeaseCoversHeartbeat
  <2>4. /\ Lease[ProcOf[s]] - d >= Beat(ProcOf[s]) + Slack
        /\ d + Beat(ProcOf[s]) <= Beat(ProcOf[s]) + Slack
    BY <2>3
  <2> QED
    BY <1>3, <2>1, <2>4 DEF Held
<1>4. CASE t # s
  <2>1. pc'[t] = pc[t] /\ job'[t] = job[t] /\ due'[t] = due[t]
    BY <1>1, <1>2, <1>4 DEF TypeOK
  <2>2. OnTime(t) => job[t] \in JobIds /\ job[t] # j
    BY <1>1, HeldNotClaimable DEF OnTime, TypeOK
  <2>3. OnTime(t) => /\ status'[job[t]] = status[job[t]]
                     /\ worker'[job[t]] = worker[job[t]]
                     /\ lease'[job[t]] = lease[job[t]]
                     /\ idle'[job[t]] = idle[job[t]]
    BY <1>1, <2>2 DEF TypeOK
  <2> QED
    BY <2>1, <2>3, HeldKept
<1> QED
  BY <1>3, <1>4

\* a heartbeat renews its own,
LEMMA RenewKeepsLease ==
  ASSUME LeaseCoversHeartbeat, TypeOK, LeaseInv, NEW s \in Slots, RenewLease(s)
  PROVE  LeaseInv'
<1> SUFFICES ASSUME NEW t \in Slots
             PROVE  OnTime(t)' => Held(t)'
  BY DEF LeaseInv
<1>1. UNCHANGED <<status, worker, pc, job>>
  BY DEF RenewLease
<1>2. CASE ~Owns(s)
  <2>1. UNCHANGED <<lease, idle>> /\ due' = [due EXCEPT ![s] = Late]
    BY <1>2 DEF RenewLease
  <2>2. CASE t = s
    BY <2>1, <2>2, NotOnTime DEF TypeOK
  <2>3. CASE t # s
    BY <1>1, <2>1, <2>3, HeldKept DEF TypeOK
  <2> QED
    BY <2>2, <2>3
<1>3. CASE Owns(s)
  <2>1. PICK d \in 0..Slack :
            /\ lease' = [lease EXCEPT ![job[s]] = Lease[ProcOf[s]] - d]
            /\ idle' = [idle EXCEPT ![job[s]] = d]
    BY <1>3 DEF RenewLease, Stamp
  <2>2. due' = [due EXCEPT ![s] = Beat(ProcOf[s])]
    BY <1>3 DEF RenewLease
  <2>3. job[s] \in JobIds
    BY DEF RenewLease, Running, TypeOK
  <2>4. CASE t = s
    <3>1. /\ due'[s] = Beat(ProcOf[s])
          /\ lease'[job[s]] = Lease[ProcOf[s]] - d /\ idle'[job[s]] = d
      BY <2>1, <2>2, <2>3 DEF TypeOK
    <3>2. /\ Beat(ProcOf[s]) \in Int /\ Lease[ProcOf[s]] \in Int
          /\ Beat(ProcOf[s]) + 2 * Slack <= Lease[ProcOf[s]]
      BY BeatType DEF LeaseCoversHeartbeat
    <3>3. /\ Lease[ProcOf[s]] - d >= Beat(ProcOf[s]) + Slack
          /\ d + Beat(ProcOf[s]) <= Beat(ProcOf[s]) + Slack
      BY <3>2
    <3> QED
      BY <1>1, <1>3, <2>4, <3>1, <3>3 DEF Held, Owns
  <2>5. CASE t # s
    <3>1. due'[t] = due[t]
      BY <2>2, <2>5 DEF TypeOK
    <3>2. OnTime(t) => job[t] \in JobIds /\ job[t] # job[s]
      BY <1>3, <2>5 DEF OnTime, TypeOK, LeaseInv, Held, Owns
    <3> QED
      BY <1>1, <2>1, <3>1, <3>2, HeldKept DEF TypeOK
  <2> QED
    BY <2>4, <2>5
<1> QED
  BY <1>2, <1>3

\* an outcome ends its own,
LEMMA RecordKeepsLease ==
  ASSUME TypeOK, LeaseInv, NEW s \in Slots, NEW where \in {"succeeding", "failing"},
         Running(s, where), NEW outcome \in Terminal, Record(s, outcome)
  PROVE  LeaseInv'
<1> SUFFICES ASSUME NEW t \in Slots
             PROVE  OnTime(t)' => Held(t)'
  BY DEF LeaseInv
<1>1. /\ pc' = [pc EXCEPT ![s] = "idle"]
      /\ job' = [job EXCEPT ![s] = None]
      /\ due' = [due EXCEPT ![s] = 0]
      /\ worker' = worker
  BY DEF Record, Release
<1>2. CASE t = s
  BY <1>1, <1>2, NotOnTime DEF TypeOK
<1>3. CASE t # s
  <2>1. pc'[t] = pc[t] /\ job'[t] = job[t] /\ due'[t] = due[t]
    BY <1>1, <1>3 DEF TypeOK
  <2>2. OnTime(t) /\ Owns(s) => job[t] \in JobIds /\ job[t] # job[s]
    BY <1>3 DEF OnTime, TypeOK, LeaseInv, Held, Owns
  <2>3. OnTime(t) => /\ status'[job[t]] = status[job[t]]
                     /\ lease'[job[t]] = lease[job[t]]
                     /\ idle'[job[t]] = idle[job[t]]
    BY <2>2 DEF Record, TypeOK
  <2> QED
    BY <1>1, <2>1, <2>3, HeldKept
<1> QED
  BY <1>2, <1>3

\* and no lease that is kept up ends with time.
LEMMA TickKeepsLease ==
  ASSUME TypeOK, LeaseInv, Tick
  PROVE  LeaseInv'
<1> SUFFICES ASSUME NEW s \in Slots, OnTime(s)'
             PROVE  Held(s)'
  BY DEF LeaseInv
<1>1. UNCHANGED <<status, worker, pc, job>>
  BY DEF Tick
<1>2. pc[s] # "idle" /\ due[s] \in Int /\ due'[s] >= -Slack
  BY <1>1 DEF OnTime, TypeOK, Late
<1>3. due'[s] = due[s] - 1
  BY <1>2 DEF Tick, Late
<1>4. Held(s) /\ job[s] \in JobIds
  BY <1>2, <1>3 DEF OnTime, LeaseInv, TypeOK
<1>5. lease[job[s]] \in Int /\ idle[job[s]] \in Int /\ Beat(ProcOf[s]) \in Int
  BY <1>4, BeatType DEF TypeOK, Late, MaxIdle
<1>6. lease[job[s]] > Late
  BY <1>2, <1>3, <1>4, <1>5 DEF Held, Late
<1>7. lease'[job[s]] = lease[job[s]] - 1
  BY <1>4, <1>6 DEF Tick, Held
<1>8. idle'[job[s]] <= idle[job[s]] + 1 /\ idle'[job[s]] \in Int
  BY <1>4, <1>5 DEF Tick, Held
<1> QED
  BY <1>1, <1>2, <1>3, <1>4, <1>5, <1>7, <1>8 DEF Held

\* The leases cover the work, whatever step comes.
LEMMA LeaseStep ==
  ASSUME LeaseCoversHeartbeat, TypeOK, LeaseInv, [Next]_vars
  PROVE  LeaseInv'
<1> USE DEF rowVars, slotVars
<1>1. ASSUME NEW k \in Keys, NEW j \in JobIds, Enqueue(k, j)
      PROVE  LeaseInv'
  <2>1. \A s \in Slots : OnTime(s) => job[s] \in JobIds /\ job[s] # j
    BY <1>1 DEF Enqueue, OnTime, LeaseInv, Held, TypeOK
  <2> QED
    BY <1>1, <2>1, HeldKept DEF Enqueue, TypeOK, LeaseInv
<1>5. ASSUME NEW j \in JobIds, Arrive(j)
      PROVE  LeaseInv'
  BY <1>5 DEF Arrive, LeaseInv, OnTime, Held
<1>2. ASSUME NEW s \in Slots, SlotStep(s)
      PROVE  LeaseInv'
  <2>1. CASE RenewRaises(s)
    BY <2>1, HeldKept, NotOnTime DEF RenewRaises, TypeOK, LeaseInv
  <2>2. CASE FinishDownload(s)
    <3> SUFFICES ASSUME NEW t \in Slots
                 PROVE  OnTime(t)' => Held(t)'
      BY DEF LeaseInv
    <3>1. CASE t = s
      <4>1. UNCHANGED <<status, worker, lease, idle, job>>
        BY <2>2 DEF FinishDownload
      <4>2. pc[s] = "downloading" /\ due[s] \in Int /\ job[s] \in JobIds
        BY <2>2 DEF FinishDownload, Running, TypeOK, Late
      <4>3. due'[s] \in Int /\ due'[s] <= due[s]
        BY <2>2, <4>2 DEF FinishDownload, TypeOK
      <4>4. OnTime(s)' => OnTime(s)
        BY <4>2, <4>3 DEF OnTime
      <4>5. lease[job[s]] \in Int /\ idle[job[s]] \in Int /\ Beat(ProcOf[s]) \in Int
        BY <4>2, BeatType DEF TypeOK, Late, MaxIdle
      <4> QED
        BY <3>1, <4>1, <4>2, <4>3, <4>4, <4>5 DEF LeaseInv, Held
    <3>2. CASE t # s
      BY <2>2, <3>2, HeldKept DEF FinishDownload, TypeOK
    <3> QED
      BY <3>1, <3>2
  <2>3. CASE MarkSucceededRaises(s)
    BY <2>3 DEF MarkSucceededRaises, Running, TypeOK, LeaseInv, OnTime, Held
  <2>4. CASE MarkSucceeded(s)
    BY <2>4, RecordKeepsLease DEF MarkSucceeded, Terminal
  <2>5. CASE MarkFailed(s)
    BY <2>5, RecordKeepsLease DEF MarkFailed, Terminal
  <2>6. CASE MarkFailedRaises(s) \/ ClaimRaises(s)
    BY <2>6, DieKeepsLease DEF MarkFailedRaises, ClaimRaises
  <2> QED
    BY <1>2, <2>1, <2>2, <2>3, <2>4, <2>5, <2>6, ClaimKeepsLease, RenewKeepsLease DEF SlotStep
<1>3. ASSUME NEW p \in Processes, ProcessStep(p)
      PROVE  LeaseInv'
  <2>1. CASE Crash(p)
    BY <2>1, DieKeepsLease DEF Crash
  <2>2. CASE Block(p) \/ Unblock(p) \/ Restart(p)
    BY <2>2 DEF Block, Unblock, Restart, LeaseInv, OnTime, Held
  <2> QED
    BY <1>3, <2>1, <2>2 DEF ProcessStep
<1>4. CASE UNCHANGED vars
  BY <1>4 DEF vars, LeaseInv, OnTime, Held
<1> QED
  BY <1>1, <1>2, <1>3, <1>4, <1>5, TickKeepsLease DEF Next

(* If every lease outlasts every heartbeat as late as it may be, a worker  *)
(* that keeps time never loses its job, whatever the others do.            *)
THEOREM OwnedWork == LeaseCoversHeartbeat => (Spec => []WorkIsOwned)
<1> SUFFICES ASSUME LeaseCoversHeartbeat
             PROVE  Spec => []WorkIsOwned
  OBVIOUS
<1>1. Init => LeaseInv
  BY DEF Init, LeaseInv, OnTime
<1>2. TypeOK /\ LeaseInv /\ [Next]_vars => LeaseInv'
  BY LeaseStep
<1>3. LeaseInv => WorkIsOwned
  BY DEF LeaseInv, WorkIsOwned, Held
<1> QED
  BY <1>1, <1>2, <1>3, TypeCorrect, PTL DEF Spec
=============================================================================
