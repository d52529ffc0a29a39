----------------------- MODULE ArtifactDownload_proofs -----------------------
(***************************************************************************)
(* Proofs about ArtifactDownload, for any number of processes and calls.   *)
(***************************************************************************)
EXTENDS ArtifactDownload, TLAPS

USE DownloadAssumption

-----------------------------------------------------------------------------
(* Types. *)

\* No call is under way at first and every table has its type.
LEMMA TypeInit == Init => TypeOK
<1> SUFFICES ASSUME Init
             PROVE  TypeOK
  OBVIOUS
<1>1. /\ dir \in [Keys -> BOOLEAN]
      /\ known \in BOOLEAN
      /\ ref \in [Calls -> SUBSET Keys]
      /\ build \in [Keys -> SUBSET Files]
  BY Zenon DEF Init
<1>2. part \in [Keys -> [Files -> Inode]] /\ target \in [Keys -> [Files -> {"none", "short", "whole"}]]
  BY DEF Init, Empty, Absent, Inode, NoTargets
<1> QED
  BY <1>1, <1>2 DEF Init, TypeOK, Keys, Stage, Files, Size

\* What a call that returns, raises or goes on leaves in its locals.
LEMMA ResetType ==
  ASSUME TypeOK, NEW C, Reset(C)
  PROVE  /\ ref' \in [Calls -> SUBSET Keys]
         /\ shape' \in [Calls -> {"single", "split", "bundle"}]
         /\ key' \in [Calls -> Keys]
         /\ vkey' \in [Calls -> Keys]
         /\ file' \in [Calls -> Files]
<1>1. ref' \in [Calls -> SUBSET Keys]
  BY Zenon DEF Reset, TypeOK
<1> QED
  BY <1>1 DEF Reset, TypeOK, Keys, Files

\* A call that returns leaves the tables of the calls typed.
LEMMA ReturnType ==
  ASSUME TypeOK, NEW c \in Calls, NEW from, NEW told \in {"none", "failed", "short", "whole"},
         Return(c, from, told)
  PROVE  /\ stage' \in [Calls -> Stage]
         /\ ref' \in [Calls -> SUBSET Keys]
         /\ shape' \in [Calls -> {"single", "split", "bundle"}]
         /\ key' \in [Calls -> Keys]
         /\ vkey' \in [Calls -> Keys]
         /\ file' \in [Calls -> Files]
         /\ result' \in [Calls -> {"none", "failed", "short", "whole"}]
<1>1. Reset({c})
  BY DEF Return
<1>2. /\ stage' \in [Calls -> Stage]
      /\ result' \in [Calls -> {"none", "failed", "short", "whole"}]
  BY DEF Return, Move, TypeOK, Stage
<1> QED
  BY <1>1, <1>2, ResetType

\* So does one that goes on to its next stage,
LEMMA MoveType ==
  ASSUME TypeOK, NEW c \in Calls, NEW from, NEW to \in Stage, Move(c, from, to)
  PROVE  stage' \in [Calls -> Stage]
BY DEF Move, TypeOK

\* and one that raises, which keeps its locals.
LEMMA RaiseType ==
  ASSUME TypeOK, NEW c \in Calls, NEW from, Raise(c, from)
  PROVE  /\ stage' \in [Calls -> Stage]
         /\ result' \in [Calls -> {"none", "failed", "short", "whole"}]
         /\ UNCHANGED locals
<1>1. "leaving" \in Stage
  BY DEF Stage
<1> QED
  BY <1>1, MoveType DEF Raise, TypeOK

\* A directory that is cleared is left typed.
LEMMA ClearType ==
  ASSUME TypeOK, NEW k \in Keys, NEW made \in BOOLEAN, Clear(k, made)
  PROVE  /\ dir' \in [Keys -> BOOLEAN]
         /\ part' \in [Keys -> [Files -> Inode]]
         /\ target' \in [Keys -> [Files -> {"none", "short", "whole"}]]
         /\ out' \in [Keys -> {"none", "short", "whole"}]
<1>1. dir' \in [Keys -> BOOLEAN]
  BY Zenon DEF Clear, TypeOK
<1>2. Empty \in [Files -> Inode] /\ NoTargets \in [Files -> {"none", "short", "whole"}]
  BY DEF Empty, Absent, Inode, NoTargets
<1> QED
  BY <1>1, <1>2 DEF Clear, TypeOK

\* What is being uploaded has a size, which was taken before.
Made == \A c \in Calls : stage[c] \in {"uploading", "uploaded"} => result[c] \in {"short", "whole"}

\* Each step of a call keeps the types.
LEMMA TypeStep == TypeOK /\ Made /\ [Next]_vars => TypeOK'
<1> SUFFICES ASSUME TypeOK, Made, [Next]_vars
             PROVE  TypeOK'
  OBVIOUS
<1> USE DEF dirVars, storeVars, callVars, locals
<1>0. \A k \in Keys : Existing(k) => object[k].size \in {"short", "whole"}
  BY DEF Existing, TypeOK, Size
<1>1. ASSUME NEW c \in Calls, Ask(c)
      PROVE  TypeOK'
  <2>1. Completed(c) \subseteq Keys
    BY DEF Completed, Keys
  <2>2. ASSUME NEW k \in Cached(c), Return(c, "idle", object[k].size)
        PROVE  TypeOK'
    <3>1. object[k].size \in {"none", "failed", "short", "whole"}
      BY <1>0, <2>1, <2>2 DEF Cached
    <3> QED
      BY <1>1, <2>2, <3>1, ReturnType DEF Ask, TypeOK
  <2>3. CASE /\ Move(c, "idle", "planning")
             /\ ref' = [ref EXCEPT ![c] = Completed(c)]
             /\ result' = [result EXCEPT ![c] = "none"]
             /\ UNCHANGED <<shape, key, vkey, file>>
    <3>1. ref' \in [Calls -> SUBSET Keys]
      BY Zenon, <2>1, <2>3 DEF TypeOK
    <3> QED
      BY <1>1, <2>3, <3>1 DEF Ask, Move, TypeOK, Stage
  <2> QED
    BY <1>1, <2>2, <2>3 DEF Ask
<1>2. ASSUME NEW c \in Calls, Plan(c)
      PROVE  TypeOK'
  <2>1. PlanKeys(c) \subseteq Keys
    BY DEF PlanKeys, Keys
  <2> QED
    BY <1>2, <2>1 DEF Plan, Move, TypeOK, Stage
<1>3. ASSUME NEW c \in Calls, PlanFails(c)
      PROVE  TypeOK'
  BY <1>3, ReturnType DEF PlanFails, TypeOK
<1>4. ASSUME NEW c \in Calls, Enter(c)
      PROVE  TypeOK'
  <2>1. key[c] \in Keys
    BY DEF TypeOK
  <2>2. CASE Existing(key[c])
    <3>1. object[key[c]].size \in {"none", "failed", "short", "whole"}
      BY <1>0, <2>1, <2>2
    <3>2. Return(c, "waiting", object[key[c]].size)
      BY <1>4, <2>2 DEF Enter
    <3> HIDE DEF Existing
    <3> QED
      BY <1>4, <2>2, <3>1, <3>2, ReturnType DEF Enter, TypeOK
  <2>3. CASE ~Existing(key[c])
    <3>1. Clear(key[c], TRUE) /\ Move(c, "waiting", "opening")
      BY <1>4, <2>3 DEF Enter
    <3> QED
      BY <1>4, <2>1, <2>3, <3>1, ClearType DEF Enter, Move, TypeOK, Stage
  <2> QED
    BY <2>2, <2>3
<1>5. ASSUME NEW c \in Calls, Fetching(c)
      PROVE  TypeOK'
  <2>1. key[c] \in Keys /\ file[c] \in Files /\ Absent \in Inode
    BY DEF TypeOK, Absent, Inode
  <2>2. CASE Open(c)
    BY <2>1, <2>2 DEF Open, Move, TypeOK, Stage, Inode
  <2>3. CASE UrlFails(c)
    BY <2>1, <2>3 DEF UrlFails, Raise, Move, TypeOK, Stage
  <2>4. CASE Close(c)
    <3>1. PICK right \in BOOLEAN : LET found == IF part[key[c]][file[c]].by = c THEN [by |-> c, whole |-> right]
                                                ELSE part[key[c]][file[c]] IN
             /\ part' = [part EXCEPT ![key[c]][file[c]] = found]
             /\ IF Rejects(found)
                   THEN Raise(c, "writing")
                   ELSE /\ Move(c, "writing", "verified")
                        /\ UNCHANGED <<locals, result>>
             /\ UNCHANGED <<dir, target, out, build, storeVars>>
      BY <2>4 DEF Close
    <3>2. (IF part[key[c]][file[c]].by = c THEN [by |-> c, whole |-> right] ELSE part[key[c]][file[c]]) \in Inode
      BY <2>1 DEF TypeOK, Inode
    <3>3. part' \in [Keys -> [Files -> Inode]]
      BY <2>1, <3>1, <3>2 DEF TypeOK
    <3>4. CASE Raise(c, "writing")
      <4>1. UNCHANGED <<dir, target, out, build, storeVars>>
        BY <3>1
      <4> QED
        BY <3>3, <3>4, <4>1, RaiseType DEF TypeOK, storeVars, locals
    <3>5. CASE Move(c, "writing", "verified") /\ UNCHANGED <<locals, result>>
      <4>1. UNCHANGED <<dir, target, out, build, storeVars>>
        BY <3>1
      <4>2. stage' \in [Calls -> Stage]
        BY <3>5, MoveType DEF Stage
      <4> QED
        BY <3>3, <3>5, <4>1, <4>2 DEF TypeOK, storeVars, locals
    <3> QED
      BY <3>1, <3>4, <3>5
  <2>5. CASE Replace(c)
    <3>1. CASE part[key[c]][file[c]] = Absent
      BY <2>5, <3>1, RaiseType DEF Replace, TypeOK
    <3>2. CASE part[key[c]][file[c]] # Absent
      <4>1. target' \in [Keys -> [Files -> {"none", "short", "whole"}]]
        <5>1. \E v \in {"none", "short", "whole"} : target' = [target EXCEPT ![key[c]][file[c]] = v]
          BY <2>5, <3>2 DEF Replace
        <5> QED
          BY <2>1, <5>1 DEF TypeOK
      <4>2. CASE file[c] < Last(c)
        <5>1. file[c] + 1 \in Files /\ "opening" \in Stage
          BY <2>1, <4>2 DEF Last, Files, Stage
        <5>2. /\ Move(c, "verified", "opening")
              /\ file' = [file EXCEPT ![c] = @ + 1]
              /\ part' = [part EXCEPT ![key[c]][file[c]] = Absent,
                                      ![key[c]][file[c] + 1] = Absent]
          BY <2>5, <3>2, <4>2 DEF Replace
        <5>3. file' \in [Calls -> Files] /\ part' \in [Keys -> [Files -> Inode]]
          BY <2>1, <5>1, <5>2 DEF TypeOK
        <5>4. stage' \in [Calls -> Stage]
          BY <5>1, <5>2, MoveType
        <5> QED
          BY <2>5, <3>2, <4>1, <5>3, <5>4 DEF Replace, TypeOK
      <4>3. CASE ~(file[c] < Last(c))
        <5>1. "fetched" \in Stage
          BY DEF Stage
        <5>2. /\ Move(c, "verified", "fetched")
              /\ part' = [part EXCEPT ![key[c]][file[c]] = Absent]
              /\ UNCHANGED file
          BY <2>5, <3>2, <4>3 DEF Replace
        <5>3. part' \in [Keys -> [Files -> Inode]]
          BY <2>1, <5>2 DEF TypeOK
        <5>4. stage' \in [Calls -> Stage]
          BY <5>1, <5>2, MoveType
        <5> QED
          BY <2>5, <3>2, <4>1, <5>2, <5>3, <5>4 DEF Replace, TypeOK
      <4> QED
        BY <4>2, <4>3
    <3> QED
      BY <3>1, <3>2
  <2> QED
    BY <1>5, <2>2, <2>3, <2>4, <2>5 DEF Fetching
<1>6. ASSUME NEW c \in Calls, Packing(c)
      PROVE  TypeOK'
  <2>1. key[c] \in Keys /\ file[c] \in Files /\ vkey[c] \in Keys
    BY DEF TypeOK
  <2>2. CASE Finalize(c)
    <3>1. CASE target[key[c]][1] = "none"
      BY <2>2, <3>1, RaiseType DEF Finalize, TypeOK
    <3>2. CASE target[key[c]][1] # "none"
      <4>1. "packed" \in Stage /\ Move(c, "fetched", "packed")
        BY <2>2, <3>2 DEF Finalize, Stage
      <4>2. stage' \in [Calls -> Stage]
        BY <4>1, MoveType
      <4>3. target[key[c]][1] \in {"none", "short", "whole"}
        BY <2>1 DEF TypeOK, Files
      <4>4. out' \in [Keys -> {"none", "short", "whole"}]
        BY <2>2, <3>2, <4>3 DEF Finalize, TypeOK
      <4> QED
        BY <2>2, <3>2, <4>2, <4>4 DEF Finalize, TypeOK
    <3> QED
      BY <3>1, <3>2
  <2>3. CASE StartPacking(c)
    <3>1. CASE Bundle(c) /\ target[key[c]][1] # "whole" /\ Raise(c, "fetched") /\ UNCHANGED build
      BY <2>3, <3>1, RaiseType DEF StartPacking, TypeOK
    <3>2. ASSUME NEW new \in IF Bundle(c) THEN {key[c], "code"} ELSE {key[c]},
                 Move(c, "fetched", "packing"),
                 file' = [file EXCEPT ![c] = 1],
                 vkey' = [vkey EXCEPT ![c] = new],
                 build' = [build EXCEPT ![new] = {}],
                 UNCHANGED <<ref, shape, key, result>>
          PROVE  TypeOK'
      <4>1. new \in Keys /\ 1 \in Files /\ "packing" \in Stage
        BY <2>1, <3>2 DEF Keys, Files, Stage
      <4>2. stage' \in [Calls -> Stage]
        BY <3>2, <4>1, MoveType
      <4>3. build' \in [Keys -> SUBSET Files]
        BY <3>2, <4>1 DEF TypeOK
      <4> QED
        BY <2>3, <3>2, <4>1, <4>2, <4>3 DEF StartPacking, TypeOK
    <3> QED
      BY <2>3, <3>1, <3>2 DEF StartPacking
  <2>4. CASE Pack(c)
    <3>1. build' \in [Keys -> SUBSET Files]
      <4>1. \A new \in SUBSET Files : [build EXCEPT ![vkey[c]] = new] \in [Keys -> SUBSET Files]
        BY <2>1 DEF TypeOK
      <4>2. build[vkey[c]] \in SUBSET Files
        BY <2>1 DEF TypeOK
      <4>3. {} \in SUBSET Files /\ build[vkey[c]] \cup {file[c]} \in SUBSET Files
            /\ build[vkey[c]] \ {file[c]} \in SUBSET Files
        BY <2>1, <4>2
      <4>4. \E new \in SUBSET Files : build' = [build EXCEPT ![vkey[c]] = new]
        BY <2>4, <4>3 DEF Pack
      <4> QED
        BY <4>1, <4>4
    <3>2. CASE target[key[c]][file[c]] = "none"
      BY <2>4, <3>1, <3>2, RaiseType DEF Pack, TypeOK
    <3>3. CASE target[key[c]][file[c]] # "none"
      <4>1. file[c] + 1 \in Files /\ "packing" \in Stage
        BY <2>1, <2>4, <3>3 DEF Pack, Last, Files, Stage
      <4>2. Move(c, "packing", "packing") /\ file' = [file EXCEPT ![c] = file[c] + 1]
        BY <2>4, <3>3 DEF Pack
      <4>3. stage' \in [Calls -> Stage] /\ file' \in [Calls -> Files]
        BY <4>1, <4>2, MoveType DEF TypeOK
      <4> QED
        BY <2>4, <3>1, <3>3, <4>3 DEF Pack, TypeOK
    <3> QED
      BY <3>2, <3>3
  <2>5. CASE Zip(c)
    <3>1. build' \in [Keys -> SUBSET Files]
      BY <2>1, <2>5 DEF Zip, TypeOK
    <3> QED
      BY <2>1, <2>5, <3>1 DEF Zip, Move, TypeOK, Stage
  <2> QED
    BY <1>6, <2>2, <2>3, <2>4, <2>5 DEF Packing
<1>7. ASSUME NEW c \in Calls, Commit(c)
      PROVE  TypeOK'
  <2>1. key[c] \in Keys /\ vkey[c] \in Keys
    BY DEF TypeOK
  <2>2. CASE Mismatch(c) \/ UploadFails(c)
    BY <2>2 DEF Mismatch, UploadFails, Raise, Move, TypeOK, Stage
  <2>3. CASE StartUpload(c)
    <3>1. CASE out[key[c]] = "none"
      BY <2>3, <3>1, RaiseType DEF StartUpload, TypeOK
    <3>2. CASE out[key[c]] # "none"
      <4>1. "uploading" \in Stage /\ Move(c, "packed", "uploading")
        BY <2>3, <3>2 DEF StartUpload, Stage
      <4>2. stage' \in [Calls -> Stage]
        BY <4>1, MoveType
      <4>3. result' \in [Calls -> {"none", "failed", "short", "whole"}]
        <5>1. out[key[c]] \in {"none", "failed", "short", "whole"}
          BY <2>1 DEF TypeOK
        <5>2. result' = [result EXCEPT ![c] = out[key[c]]]
          BY <2>3, <3>2 DEF StartUpload
        <5> QED
          BY <5>1, <5>2 DEF TypeOK
      <4>4. object' \in [Keys -> [by : Calls \cup {None}, size : Size]]
        <5>1. [by |-> c, size |-> "torn"] \in [by : Calls \cup {None}, size : Size]
          BY DEF Size
        <5>2. \/ object' = object
              \/ object' = [object EXCEPT ![vkey[c]] = [by |-> c, size |-> "torn"]]
          BY <2>3, <3>2 DEF StartUpload, ObjectKey
        <5> QED
          BY <2>1, <5>1, <5>2 DEF TypeOK
      <4> QED
        BY <2>3, <3>2, <4>2, <4>3, <4>4 DEF StartUpload, TypeOK
    <3> QED
      BY <3>1, <3>2
  <2>4. CASE EndUpload(c)
    <3>1. "uploaded" \in Stage /\ Move(c, "uploading", "uploaded") /\ result[c] \in {"short", "whole"}
      BY <2>4 DEF EndUpload, Move, Stage, Made
    <3>2. stage' \in [Calls -> Stage]
      BY <3>1, MoveType
    <3>3. object' \in [Keys -> [by : Calls \cup {None}, size : Size]]
      <4>1. [by |-> None, size |-> result[c]] \in [by : Calls \cup {None}, size : Size]
        BY <3>1 DEF Size
      <4>2. \/ object' = object
            \/ object' = [object EXCEPT ![vkey[c]] = [by |-> None, size |-> result[c]]]
        BY <2>4 DEF EndUpload, ObjectKey
      <4> QED
        BY <2>1, <4>1, <4>2 DEF TypeOK
    <3> QED
      BY <2>4, <3>2, <3>3 DEF EndUpload, TypeOK
  <2>5. CASE PutMetadata(c)
    <3>1. "committed" \in Stage /\ Move(c, "uploaded", "committed") /\ result[c] \in {"short", "whole"}
      BY <2>5 DEF PutMetadata, Move, Stage, Made
    <3>2. stage' \in [Calls -> Stage]
      BY <3>1, MoveType
    <3>3. meta' \in [Keys -> Size \ {"torn"}]
      BY <2>1, <2>5, <3>1 DEF PutMetadata, TypeOK, Size
    <3> QED
      BY <2>5, <3>2, <3>3 DEF PutMetadata, TypeOK
  <2> QED
    BY <1>7, <2>2, <2>3, <2>4, <2>5 DEF Commit
<1>8. ASSUME NEW c \in Calls, Backfill(c)
      PROVE  TypeOK'
  <2>1. known' \in BOOLEAN
    BY Zenon, <1>8 DEF Backfill, TypeOK
  <2> QED
    BY <1>8, <2>1 DEF Backfill, Move, TypeOK, Stage
<1>9. ASSUME NEW c \in Calls, Leave(c)
      PROVE  TypeOK'
  <2>1. key[c] \in Keys /\ result[c] \in {"none", "failed", "short", "whole"}
    BY DEF TypeOK
  <2>2. Return(c, "leaving", result[c]) /\ Clear(key[c], FALSE)
    BY <1>9 DEF Leave
  <2>3. /\ dir' \in [Keys -> BOOLEAN]
        /\ part' \in [Keys -> [Files -> Inode]]
        /\ target' \in [Keys -> [Files -> {"none", "short", "whole"}]]
        /\ out' \in [Keys -> {"none", "short", "whole"}]
    BY <2>1, <2>2, ClearType
  <2> QED
    BY <1>9, <2>1, <2>2, <2>3, ReturnType DEF Leave, TypeOK
<1>10. ASSUME NEW w \in Workers, Crash(w)
       PROVE  TypeOK'
  <2>1. Reset({c \in Calls : WorkerOf[c] = w})
    BY <1>10 DEF Crash
  <2> QED
    BY <1>10, <2>1, ResetType DEF Crash, TypeOK, Stage
<1>11. CASE Learn
  BY <1>11 DEF Learn, TypeOK
<1>12. CASE UNCHANGED vars
  BY <1>12 DEF vars, TypeOK
<1> QED
  BY <1>1, <1>2, <1>3, <1>4, <1>5, <1>6, <1>7, <1>8, <1>9, <1>10, <1>11, <1>12
     DEF Next, Continue

\* A step of one call leaves the locals of the others alone.
LEMMA Frame ==
  ASSUME TypeOK, NEW c \in Calls, Ask(c) \/ Continue(c), NEW d \in Calls, c # d
  PROVE  /\ stage'[d] = stage[d]
         /\ result'[d] = result[d]
         /\ ref'[d] = ref[d]
         /\ key'[d] = key[d]
         /\ vkey'[d] = vkey[d]
         /\ shape'[d] = shape[d]
         /\ file'[d] = file[d]
<1> USE DEF callVars, locals
<1>1. /\ stage \in [Calls -> Stage]
      /\ result \in [Calls -> {"none", "failed", "short", "whole"}]
      /\ ref \in [Calls -> SUBSET Keys]
      /\ key \in [Calls -> Keys]
      /\ vkey \in [Calls -> Keys]
      /\ shape \in [Calls -> {"single", "split", "bundle"}]
      /\ file \in [Calls -> Files]
  BY DEF TypeOK
<1>2. ASSUME NEW from, NEW told, Return(c, from, told)
      PROVE  /\ stage'[d] = stage[d]
             /\ result'[d] = result[d]
             /\ ref'[d] = ref[d]
             /\ key'[d] = key[d]
             /\ vkey'[d] = vkey[d]
             /\ shape'[d] = shape[d]
             /\ file'[d] = file[d]
  BY <1>1, <1>2 DEF Return, Move, Reset
<1>3. ASSUME NEW from, NEW to, Move(c, from, to)
      PROVE  stage'[d] = stage[d]
  BY <1>1, <1>3 DEF Move
<1>4. ASSUME NEW from, Raise(c, from)
      PROVE  stage'[d] = stage[d] /\ result'[d] = result[d] /\ UNCHANGED locals
  BY <1>1, <1>4 DEF Raise, Move
<1>5. CASE Ask(c)
  BY <1>1, <1>2, <1>3, <1>5 DEF Ask
<1>6. CASE Plan(c) \/ PlanFails(c) \/ Backfill(c)
  BY <1>1, <1>2, <1>3, <1>6 DEF Plan, PlanFails, Backfill
<1>7. CASE Enter(c) \/ Leave(c)
  BY <1>1, <1>2, <1>3, <1>7 DEF Enter, Leave
<1>8. CASE Fetching(c)
  BY <1>1, <1>3, <1>4, <1>8 DEF Fetching, Open, UrlFails, Close, Replace
<1>9. CASE Packing(c)
  BY <1>1, <1>3, <1>4, <1>9 DEF Packing, Finalize, StartPacking, Pack, Zip
<1>10. CASE Commit(c)
  BY <1>1, <1>3, <1>4, <1>10 DEF Commit, Mismatch, StartUpload, EndUpload, UploadFails, PutMetadata
<1> QED
  BY <1>5, <1>6, <1>7, <1>8, <1>9, <1>10 DEF Continue

\* A directory that has something in it has been made, whatever step comes.
LEMMA MadeStep == TypeOK /\ Made /\ [Next]_vars => Made'
<1> SUFFICES ASSUME TypeOK, Made, [Next]_vars, NEW d \in Calls,
                    stage'[d] \in {"uploading", "uploaded"}
             PROVE  result'[d] \in {"short", "whole"}
  BY DEF Made
<1> USE DEF callVars
<1>1. ASSUME NEW c \in Calls, Ask(c) \/ Continue(c), c # d
      PROVE  stage'[d] = stage[d] /\ result'[d] = result[d]
  BY <1>1, Frame
<1>2. ASSUME Ask(d) \/ Continue(d)
      PROVE  \/ StartUpload(d) /\ out[key[d]] # "none" /\ result'[d] = out[key[d]]
             \/ EndUpload(d) /\ stage[d] = "uploading" /\ result'[d] = result[d]
  <2>1. stage \in [Calls -> Stage] /\ result \in [Calls -> {"none", "failed", "short", "whole"}]
    BY DEF TypeOK
  <2>2. CASE Ask(d) \/ Plan(d) \/ PlanFails(d) \/ Enter(d) \/ Backfill(d) \/ Leave(d)
    BY <2>1, <2>2 DEF Ask, Plan, PlanFails, Enter, Backfill, Leave, Return, Move
  <2>3. CASE Fetching(d)
    BY <2>1, <2>3 DEF Fetching, Open, UrlFails, Close, Replace, Raise, Move
  <2>4. CASE Packing(d)
    BY <2>1, <2>4 DEF Packing, Finalize, StartPacking, Pack, Zip, Raise, Move
  <2>5. CASE Commit(d)
    BY <2>1, <2>5 DEF Commit, Mismatch, StartUpload, EndUpload, UploadFails, PutMetadata, Raise, Move
  <2> QED
    BY <1>2, <2>2, <2>3, <2>4, <2>5 DEF Continue
<1>3. out[key[d]] # "none" => out[key[d]] \in {"short", "whole"}
  BY DEF TypeOK
<1>4. ASSUME NEW w \in Workers, Crash(w)
      PROVE  stage'[d] = stage[d] /\ result'[d] = result[d]
  BY <1>4 DEF Crash
<1>5. CASE Learn \/ UNCHANGED vars
  BY <1>5 DEF Learn, vars, Made
<1> QED
  BY <1>1, <1>2, <1>3, <1>4, <1>5 DEF Next, Made

\* The type invariant of the download, for every instance.
THEOREM TypeCorrect == Spec => []TypeOK
<1>1. Init => TypeOK /\ Made
  BY TypeInit DEF Init, Made
<1>2. TypeOK /\ Made /\ [Next]_vars => (TypeOK /\ Made)'
  BY TypeStep, MadeStep
<1> QED
  BY <1>1, <1>2, PTL DEF Spec

-----------------------------------------------------------------------------
(* Metadata after the upload. *)

\* The object of a finished upload is there, and so is what a copy wrote.
Stored == \A c \in Calls :
             \/ stage[c] = "uploaded"
             \/ stage[c] = "uploading" /\ ~AtomicUpload
             => object[vkey[c]].size # "none"

\* The object comes before its metadata, whatever step comes.
LEMMA StoredStep ==
  TypeOK /\ Made /\ Stored /\ MetadataAfterUpload /\ [Next]_vars
     => Stored' /\ MetadataAfterUpload'
<1> SUFFICES ASSUME TypeOK, Made, Stored, MetadataAfterUpload, [Next]_vars
             PROVE  Stored' /\ MetadataAfterUpload'
  OBVIOUS
<1> USE DEF callVars, locals, storeVars
<1>1. ASSUME NEW c \in Calls, Ask(c) \/ Continue(c)
      PROVE  Stored' /\ MetadataAfterUpload'
  <2>1. /\ stage \in [Calls -> Stage]
        /\ vkey \in [Calls -> Keys]
        /\ vkey[c] \in Keys
        /\ object \in [Keys -> [by : Calls \cup {None}, size : Size]]
        /\ meta \in [Keys -> Size \ {"torn"}]
    BY DEF TypeOK
  <2>2. CASE StartUpload(c)
    <3>1. \A k \in Keys : object[k].size # "none" => object'[k].size # "none"
      <4>1. \/ object' = object
            \/ object' = [object EXCEPT ![vkey[c]] = [by |-> c, size |-> "torn"]]
        BY <2>2 DEF StartUpload, ObjectKey
      <4>2. \A k \in Keys : object'[k] = object[k] \/ object'[k] = [by |-> c, size |-> "torn"]
        BY Zenon, <2>1, <4>1
      <4> QED
        BY <4>2
    <3>2. stage'[c] = "uploading" /\ ~AtomicUpload => object'[vkey'[c]].size # "none"
      BY <2>1, <2>2 DEF StartUpload, ObjectKey, Raise, Move
    <3>3. stage'[c] # "uploaded" /\ meta' = meta
      BY <2>1, <2>2 DEF StartUpload, Raise, Move
    <3> QED
      BY <1>1, <2>1, <3>1, <3>2, <3>3, Frame DEF Stored, MetadataAfterUpload
  <2>3. CASE EndUpload(c)
    <3>1. result[c] \in {"short", "whole"} /\ stage[c] = "uploading"
      BY <2>3 DEF EndUpload, Move, Made
    <3>2. \A k \in Keys : object[k].size # "none" => object'[k].size # "none"
      BY <2>1, <2>3, <3>1 DEF EndUpload, ObjectKey
    <3>3. object'[vkey[c]].size # "none" /\ vkey' = vkey /\ meta' = meta
      BY <2>1, <2>3, <3>1 DEF EndUpload, ObjectKey, Stored
    <3> QED
      BY <1>1, <2>1, <3>1, <3>2, <3>3, Frame DEF Stored, MetadataAfterUpload
  <2>4. CASE PutMetadata(c)
    <3>1. /\ object' = object
          /\ stage[c] = "uploaded"
          /\ stage'[c] = "committed"
          /\ meta' = [meta EXCEPT ![vkey[c]] = result[c]]
      BY <2>1, <2>4 DEF PutMetadata, Move
    <3>2. object[vkey[c]].size # "none"
      BY <3>1 DEF Stored
    <3> QED
      BY <1>1, <2>1, <3>1, <3>2, Frame DEF Stored, MetadataAfterUpload
  <2>5. CASE ~(StartUpload(c) \/ EndUpload(c) \/ PutMetadata(c))
    <3>1. object' = object /\ meta' = meta /\ stage'[c] \notin {"uploading", "uploaded"}
      <4>1. CASE Ask(c) \/ Plan(c) \/ PlanFails(c) \/ Enter(c) \/ Backfill(c) \/ Leave(c)
        BY <2>1, <4>1 DEF Ask, Plan, PlanFails, Enter, Backfill, Leave, Return, Move
      <4>2. CASE Fetching(c)
        BY <2>1, <4>2 DEF Fetching, Open, UrlFails, Close, Replace, Raise, Move
      <4>3. CASE Packing(c)
        BY <2>1, <4>3 DEF Packing, Finalize, StartPacking, Pack, Zip, Raise, Move
      <4>4. CASE Mismatch(c) \/ UploadFails(c)
        BY <2>1, <4>4 DEF Mismatch, UploadFails, Raise, Move
      <4> QED
        BY <1>1, <2>5, <4>1, <4>2, <4>3, <4>4 DEF Continue, Commit
    <3> QED
      BY <1>1, <3>1, Frame DEF Stored, MetadataAfterUpload
  <2> QED
    BY <2>2, <2>3, <2>4, <2>5
<1>2. ASSUME NEW w \in Workers, Crash(w)
      PROVE  Stored' /\ MetadataAfterUpload'
  <2>1. \A d \in Calls : stage'[d] = "idle" \/ (stage'[d] = stage[d] /\ vkey'[d] = vkey[d])
    BY <1>2 DEF Crash, Reset
  <2> QED
    BY <1>2, <2>1 DEF Crash, Stored, MetadataAfterUpload
<1>3. CASE Learn \/ UNCHANGED vars
  BY <1>3 DEF Learn, vars, Stored, MetadataAfterUpload
<1> QED
  BY <1>1, <1>2, <1>3 DEF Next

\* Metadata never speaks of an object that is not there, for any number of
\* processes, with atomic uploads or without.
THEOREM MetadataOrder == Spec => []MetadataAfterUpload
<1> DEFINE Inv == TypeOK /\ Made /\ Stored /\ MetadataAfterUpload
<1>1. Init => Inv
  BY TypeInit DEF Init, Made, Stored, MetadataAfterUpload
<1>2. Inv /\ [Next]_vars => Inv'
  BY TypeStep, MadeStep, StoredStep
<1>3. Inv => MetadataAfterUpload
  OBVIOUS
<1> HIDE DEF Inv
<1> QED
  BY <1>1, <1>2, <1>3, PTL DEF Spec

-----------------------------------------------------------------------------
(* Whole artifacts, where one process downloads, the plan has hashes and     *)
(* uploads are atomic.                                                       *)

SingleProcess == \A c, d \in Calls : WorkerOf[c] = WorkerOf[d]

\* Nothing incomplete is renamed, finished, stored, described or returned.
Clean ==
    /\ \A k \in Keys, f \in Files : target[k][f] # "short"
    /\ \A k \in Keys : out[k] # "short"
    /\ \A k \in Keys : object[k].size \in {"none", "whole"}
    /\ \A k \in Keys : meta[k] \in {"none", "whole"}
    /\ \A c \in Calls : result[c] # "short"

\* What the call that holds the event loop has in its hands.
InHand(c) ==
    /\ stage[c] = "verified" => part[key[c]][file[c]].whole
    /\ stage[c] = "packing" => build[vkey[c]] = {f \in Files : f < file[c]}
    /\ stage[c] = "uploaded" => object[vkey[c]].size = "whole"

OneRuns == \A c, d \in Calls :
              c # d /\ stage[c] \in Synchronous => stage[d] \notin Synchronous

Some == \E k \in Keys : meta[k] = "whole" /\ object[k].size = "whole"

\* What a call is about to return is stored.
Kept == \A c \in Calls :
           stage[c] \in {"committed", "leaving"} /\ result[c] = "whole" => Some

Whole == Clean /\ (\A c \in Calls : InHand(c)) /\ OneRuns /\ Kept

\* What runs without an await is not interleaved with what another call runs so.
LEMMA LoopLemma ==
  ASSUME SingleProcess, TypeOK, NEW c \in Calls, Ask(c) \/ Continue(c)
  PROVE  \A d \in Calls \ {c} : stage[d] \notin Synchronous /\ stage'[d] = stage[d]
<1>1. LoopFree(c)
  <2>1. CASE Ask(c) \/ Plan(c) \/ PlanFails(c) \/ Enter(c) \/ Backfill(c) \/ Leave(c)
    BY <2>1 DEF Ask, Plan, PlanFails, Enter, Backfill, Leave, Return, Move
  <2>2. CASE Fetching(c)
    BY <2>2 DEF Fetching, Open, UrlFails, Close, Replace, Raise, Move
  <2>3. CASE Packing(c)
    BY <2>3 DEF Packing, Finalize, StartPacking, Pack, Zip, Raise, Move
  <2>4. CASE Commit(c)
    BY <2>4 DEF Commit, Mismatch, StartUpload, EndUpload, UploadFails, PutMetadata, Raise, Move
  <2> QED
    BY <2>1, <2>2, <2>3, <2>4 DEF Continue
<1> QED
  BY <1>1, Frame DEF LoopFree, SingleProcess

\* The parts of Whole that are about the calls that do not move.
LEMMA OthersWhole ==
  ASSUME SingleProcess, TypeOK, Whole, NEW c \in Calls, Ask(c) \/ Continue(c),
         Clean', InHand(c)', Some => Some',
         stage'[c] \in {"committed", "leaving"} /\ result'[c] = "whole" => Some'
  PROVE  Whole'
<1>1. \A d \in Calls \ {c} : stage[d] \notin Synchronous /\ stage'[d] = stage[d]
  BY LoopLemma
<1>2. \A d \in Calls \ {c} : InHand(d)'
  BY <1>1 DEF InHand, Synchronous
<1>3. OneRuns'
  BY <1>1 DEF OneRuns
<1>4. \A d \in Calls \ {c} : result'[d] = result[d]
  BY Frame
<1>5. Kept'
  BY <1>1, <1>4 DEF Kept, Whole
<1> QED
  BY <1>2, <1>3, <1>5 DEF Whole

\* What is in the store's and the work directories stays whole, whatever step comes.
LEMMA WholeStep ==
  SingleProcess /\ Checked /\ AtomicUpload /\ TypeOK /\ Made /\ Whole /\ [Next]_vars => Whole'
<1> SUFFICES ASSUME SingleProcess, Checked, AtomicUpload, TypeOK, Made, Whole, [Next]_vars
             PROVE  Whole'
  OBVIOUS
<1> USE DEF callVars, locals, storeVars, dirVars
<1>0. Clean
  BY DEF Whole
<1>1. ASSUME NEW c \in Calls, Ask(c) \/ Continue(c)
      PROVE  Whole'
  <2>0. /\ stage \in [Calls -> Stage]
        /\ result \in [Calls -> {"none", "failed", "short", "whole"}]
        /\ key[c] \in Keys /\ vkey[c] \in Keys /\ file[c] \in Files
        /\ object \in [Keys -> [by : Calls \cup {None}, size : Size]]
        /\ meta \in [Keys -> Size \ {"torn"}]
        /\ part \in [Keys -> [Files -> Inode]]
        /\ target \in [Keys -> [Files -> {"none", "short", "whole"}]]
        /\ out \in [Keys -> {"none", "short", "whole"}]
        /\ build \in [Keys -> SUBSET Files]
    BY DEF TypeOK
  <2>01. \A d \in Calls \ {c} : result'[d] = result[d]
    BY <1>1, Frame
  <2>02. \A k \in Keys : Existing(k) => object[k].size = "whole" /\ meta[k] = "whole"
    BY <1>0 DEF Existing, Clean
  \* Steps that leave all files alone, or remove some.
  <2>1. CASE Ask(c) \/ Plan(c) \/ PlanFails(c) \/ Enter(c) \/ Backfill(c) \/ Leave(c)
             \/ Mismatch(c) \/ UploadFails(c)
    <3>1. UNCHANGED <<object, meta>>
      BY <2>1 DEF Ask, Plan, PlanFails, Enter, Backfill, Leave, Mismatch, UploadFails
    <3>2. stage'[c] \notin Synchronous
      BY <2>0, <2>1 DEF Ask, Plan, PlanFails, Enter, Backfill, Leave, Mismatch, UploadFails,
           Return, Raise, Move, Synchronous
    <3>3. result'[c] # "short"
      <4>1. CASE Ask(c)
        <5>1. Completed(c) \subseteq Keys
          BY DEF Completed, Keys
        <5>2. CASE \E k \in Cached(c) : Return(c, "idle", object[k].size)
          <6>1. PICK k \in Cached(c) : Return(c, "idle", object[k].size)
            BY <5>2
          <6>2. object[k].size = "whole"
            BY <2>02, <5>1 DEF Cached
          <6> QED
            BY <2>0, <6>1, <6>2 DEF Return
        <5>3. CASE result' = [result EXCEPT ![c] = "none"]
          BY <2>0, <5>3
        <5>4. \/ \E k \in Cached(c) : Return(c, "idle", object[k].size)
              \/ result' = [result EXCEPT ![c] = "none"]
          BY Zenon, <4>1 DEF Ask
        <5> QED
          BY <5>2, <5>3, <5>4
      <4>2. CASE Enter(c)
        BY <1>0, <2>0, <2>02, <4>2 DEF Enter, Return, Clean
      <4>3. CASE Plan(c) \/ PlanFails(c) \/ Backfill(c) \/ Leave(c) \/ Mismatch(c) \/ UploadFails(c)
        BY <1>0, <2>0, <4>3 DEF Plan, PlanFails, Backfill, Leave, Mismatch, UploadFails, Return, Raise, Clean
      <4> QED
        BY <2>1, <4>1, <4>2, <4>3
    <3>4. \/ UNCHANGED <<target, out>>
          \/ \E k \in Keys, made \in BOOLEAN : Clear(k, made)
      BY <2>0, <2>1 DEF Ask, Plan, PlanFails, Enter, Backfill, Leave, Mismatch, UploadFails
    <3>5. Clean'
      <4>1. \A k \in Keys, f \in Files : target'[k][f] # "short"
        <5>1. \A k \in Keys : target'[k] = target[k] \/ target'[k] = NoTargets
          BY Zenon, <2>0, <3>4 DEF Clear
        <5>2. \A f \in Files : NoTargets[f] # "short"
          BY DEF NoTargets
        <5> QED
          BY <1>0, <5>1, <5>2 DEF Clean
      <4>2. \A k \in Keys : out'[k] # "short"
        BY <1>0, <2>0, <3>4 DEF Clean, Clear
      <4> QED
        BY <1>0, <2>01, <3>1, <3>3, <4>1, <4>2 DEF Clean
    <3>6. stage'[c] \in {"committed", "leaving"} /\ result'[c] = "whole" => Some
      <4>1. CASE Backfill(c)
        BY <2>0, <4>1 DEF Backfill, Move, Whole, Kept
      <4>2. CASE ~Backfill(c)
        BY <2>0, <2>1, <4>2 DEF Ask, Plan, PlanFails, Enter, Leave, Mismatch, UploadFails, Return, Raise, Move
      <4> QED
        BY <4>1, <4>2
    <3>7. InHand(c)'
      BY <3>2 DEF InHand, Synchronous
    <3> QED
      BY <1>1, <3>1, <3>5, <3>6, <3>7, OthersWhole DEF Some
  <2>2. CASE Open(c) \/ UrlFails(c) \/ Close(c)
    <3>1. UNCHANGED <<object, meta, target, out>>
      BY <2>2 DEF Open, UrlFails, Close
    <3>2. result'[c] # "short" /\ result'[c] \in {result[c], "failed"} /\ stage'[c] # "committed"
          /\ (stage'[c] = "leaving" => result'[c] = "failed")
      <4>1. \/ result' = result /\ stage'[c] \in {"opening", "writing", "verified"}
            \/ result' = [result EXCEPT ![c] = "failed"]
        <5>1. CASE Open(c)
          BY <2>0, <5>1 DEF Open, Move
        <5>2. CASE UrlFails(c)
          BY <2>0, <5>2 DEF UrlFails, Raise, Move
        <5>3. CASE Close(c)
          BY <2>0, <5>3 DEF Close, Raise, Move
        <5> QED
          BY <2>2, <5>1, <5>2, <5>3
      <4>2. stage'[c] # "committed"
        BY <2>0, <2>2 DEF Open, UrlFails, Close, Raise, Move
      <4>3. result[c] # "short"
        BY <1>0 DEF Clean
      <4> QED
        BY <2>0, <4>1, <4>2, <4>3
    <3>3. Clean'
      BY <1>0, <2>01, <3>1, <3>2 DEF Clean
    <3>4. stage'[c] = "verified" => part'[key'[c]][file'[c]].whole
      <4>1. CASE Open(c) \/ UrlFails(c)
        BY <2>0, <4>1 DEF Open, UrlFails, Raise, Move
      <4>2. CASE Close(c)
        <5>1. PICK found \in Inode :
                 /\ part' = [part EXCEPT ![key[c]][file[c]] = found]
                 /\ IF Rejects(found)
                       THEN Raise(c, "writing")
                       ELSE /\ Move(c, "writing", "verified")
                            /\ UNCHANGED <<locals, result>>
          <6>1. part[key[c]][file[c]] \in Inode /\ \A right \in BOOLEAN : [by |-> c, whole |-> right] \in Inode
            BY <2>0 DEF Inode
          <6> QED
            BY <4>2, <6>1 DEF Close
        <5>2. CASE Rejects(found)
          BY <2>0, <5>1, <5>2 DEF Raise, Move
        <5>3. CASE ~Rejects(found)
          <6>1. found.whole
            BY <5>3 DEF Rejects
          <6>2. key' = key /\ file' = file
            BY <5>1, <5>3
          <6>3. part'[key[c]][file[c]] = found
            BY <2>0, <5>1
          <6> QED
            BY <6>1, <6>2, <6>3
        <5> QED
          BY <5>2, <5>3
      <4> QED
        BY <2>2, <4>1, <4>2
    <3>5. stage'[c] \notin {"packing", "uploaded"}
      BY <2>0, <2>2 DEF Open, UrlFails, Close, Raise, Move
    <3>6. InHand(c)'
      BY <3>4, <3>5 DEF InHand
    <3> QED
      BY <1>1, <3>1, <3>2, <3>3, <3>6, OthersWhole DEF Some
  <2>3. CASE Replace(c)
    <3>1. part[key[c]][file[c]].whole
      BY <2>0, <2>3 DEF Replace, Raise, Move, Whole, InHand
    <3>2. UNCHANGED <<object, meta, out>>
      BY <2>3 DEF Replace
    <3>3. \/ target' = target
          \/ target' = [target EXCEPT ![key[c]][file[c]] = "whole"]
      BY <2>3, <3>1 DEF Replace
    <3>4. \A k \in Keys, f \in Files : target'[k][f] # "short"
      <4> SUFFICES ASSUME NEW k \in Keys, NEW f \in Files
                   PROVE  target'[k][f] # "short"
        OBVIOUS
      <4>1. target[k] \in [Files -> {"none", "short", "whole"}] /\ target[k][f] # "short"
        BY <1>0, <2>0 DEF Clean
      <4>2. CASE target' = target
        BY <4>1, <4>2
      <4>3. CASE target' = [target EXCEPT ![key[c]][file[c]] = "whole"]
        <5>1. target'[k] = IF k = key[c] THEN [target[k] EXCEPT ![file[c]] = "whole"] ELSE target[k]
          BY <2>0, <4>3
        <5>2. CASE k = key[c]
          BY <2>0, <4>1, <5>1, <5>2
        <5> QED
          BY <4>1, <5>1, <5>2
      <4> QED
        BY <3>3, <4>2, <4>3
    <3>5. result'[c] # "short" /\ stage'[c] \in {"leaving", "opening", "fetched"}
          /\ (stage'[c] = "leaving" => result'[c] = "failed")
      BY <1>0, <2>0, <2>3 DEF Replace, Raise, Move, Clean
    <3>6. Clean' /\ InHand(c)'
      BY <1>0, <2>01, <3>2, <3>4, <3>5 DEF Clean, InHand
    <3> QED
      BY <1>1, <3>2, <3>5, <3>6, OthersWhole DEF Some
  <2>4. CASE Finalize(c) \/ StartPacking(c)
    <3>1. UNCHANGED <<object, meta, target>>
      BY <2>4 DEF Finalize, StartPacking
    <3>2. \A k \in Keys : out'[k] # "short"
      <4>1. target[key[c]][1] # "short"
        BY <1>0, <2>0 DEF Clean, Files
      <4> QED
        <5>1. \/ out' = out
              \/ out' = [out EXCEPT ![key[c]] = target[key[c]][1]]
          BY <2>4 DEF Finalize, StartPacking
        <5>2. \A k \in Keys : out'[k] = out[k] \/ out'[k] = target[key[c]][1]
          BY Zenon, <2>0, <5>1
        <5> QED
          BY <1>0, <4>1, <5>2 DEF Clean
    <3>3. result'[c] # "short" /\ stage'[c] \in {"leaving", "packed", "packing"}
          /\ (stage'[c] = "leaving" => result'[c] = "failed")
      BY <1>0, <2>0, <2>4 DEF Finalize, StartPacking, Raise, Move, Clean
    <3>4. stage'[c] = "packing" => build'[vkey'[c]] = {f \in Files : f < file'[c]}
      <4>1. CASE Finalize(c)
        BY <2>0, <4>1 DEF Finalize, Raise, Move
      <4>2. CASE StartPacking(c) /\ stage'[c] = "packing"
        <5>1. PICK new \in IF Bundle(c) THEN {key[c], "code"} ELSE {key[c]} :
                 /\ vkey' = [vkey EXCEPT ![c] = new]
                 /\ build' = [build EXCEPT ![new] = {}]
                 /\ file' = [file EXCEPT ![c] = 1]
          BY <2>0, <4>2 DEF StartPacking, Raise, Move
        <5>2. new \in Keys
          BY <2>0, <5>1 DEF Keys
        <5>3. vkey'[c] = new /\ build'[new] = {} /\ file'[c] = 1
          BY <2>0, <5>1, <5>2 DEF TypeOK
        <5> QED
          BY <5>3 DEF Files
      <4> QED
        BY <2>4, <4>1, <4>2
    <3>5. Clean' /\ InHand(c)'
      BY <1>0, <2>01, <3>1, <3>2, <3>3, <3>4 DEF Clean, InHand
    <3> QED
      BY <1>1, <3>1, <3>3, <3>5, OthersWhole DEF Some
  <2>5. CASE Pack(c)
    <3>1. UNCHANGED <<object, meta, target, out>>
      BY <2>5 DEF Pack
    <3>2. result'[c] # "short" /\ stage'[c] \in {"leaving", "packing"}
          /\ (stage'[c] = "leaving" => result'[c] = "failed")
      BY <1>0, <2>0, <2>5 DEF Pack, Raise, Move, Clean
    <3>3. stage'[c] = "packing" => build'[vkey'[c]] = {f \in Files : f < file'[c]}
      <4> SUFFICES ASSUME stage'[c] = "packing"
                   PROVE  build'[vkey'[c]] = {f \in Files : f < file'[c]}
        OBVIOUS
      <4>1. target[key[c]][file[c]] # "none" /\ target[key[c]][file[c]] # "short"
        BY <1>0, <2>0, <2>5 DEF Pack, Raise, Move, Clean
      <4>2. target[key[c]][file[c]] = "whole"
        BY <2>0, <4>1
      <4>3. /\ stage[c] = "packing"
            /\ file' = [file EXCEPT ![c] = file[c] + 1]
            /\ build' = [build EXCEPT ![vkey[c]] = build[vkey[c]] \cup {file[c]}]
            /\ vkey' = vkey
        BY <2>5, <4>1, <4>2 DEF Pack, Move
      <4>4. build[vkey[c]] = {f \in Files : f < file[c]}
        BY <4>3 DEF Whole, InHand
      <4>5. file'[c] = file[c] + 1 /\ build'[vkey'[c]] = build[vkey[c]] \cup {file[c]}
        BY <2>0, <4>3 DEF TypeOK
      <4> QED
        BY <2>0, <4>4, <4>5 DEF Files
    <3>4. Clean' /\ InHand(c)'
      BY <1>0, <2>01, <3>1, <3>2, <3>3 DEF Clean, InHand
    <3> QED
      BY <1>1, <3>1, <3>2, <3>4, OthersWhole DEF Some
  <2>6. CASE Zip(c)
    <3>1. UNCHANGED <<object, meta, target, result>>
      BY <2>6 DEF Zip
    <3>2. build[vkey[c]] = {f \in Files : f < file[c]} /\ file[c] = Last(c) /\ stage'[c] = "packed"
      BY <2>0, <2>6 DEF Zip, Move, Whole, InHand
    <3>3. target[key[c]][file[c]] = "whole"
      BY <1>0, <2>0, <2>6 DEF Zip, Clean
    <3>4. build[vkey[c]] \cup {file[c]} = FilesOf(c)
      BY <2>0, <3>2 DEF FilesOf, Last, Files
    <3>5. out' = [out EXCEPT ![key[c]] = "whole"]
      BY <2>6, <3>3, <3>4 DEF Zip
    <3>6. Clean' /\ InHand(c)'
      BY <1>0, <2>0, <3>1, <3>2, <3>5 DEF Clean, InHand
    <3> QED
      BY <1>1, <3>1, <3>2, <3>6, OthersWhole DEF Some
  <2>7. CASE StartUpload(c)
    <3>1. UNCHANGED <<object, meta, target, out>>
      BY <2>7 DEF StartUpload
    <3>2. result'[c] # "short" /\ stage'[c] \in {"leaving", "uploading"}
          /\ (stage'[c] = "leaving" => result'[c] = "failed")
      BY <1>0, <2>0, <2>7 DEF StartUpload, Raise, Move, Clean
    <3>3. Clean' /\ InHand(c)'
      BY <1>0, <2>01, <3>1, <3>2 DEF Clean, InHand
    <3> QED
      BY <1>1, <3>1, <3>2, <3>3, OthersWhole DEF Some
  <2>8. CASE EndUpload(c)
    <3>1. result[c] = "whole" /\ stage'[c] = "uploaded"
      BY <1>0, <2>0, <2>8 DEF EndUpload, Move, Made, Clean
    <3>2. /\ UNCHANGED <<locals, result, meta, target, out>>
          /\ object' = [object EXCEPT ![vkey[c]] = [by |-> None, size |-> "whole"]]
      BY <2>8, <3>1 DEF EndUpload, ObjectKey
    <3>3. \A k \in Keys : object'[k] = IF k = vkey[c] THEN [by |-> None, size |-> "whole"] ELSE object[k]
      BY <2>0, <3>2
    <3>4. \A k \in Keys : object'[k].size = IF k = vkey[c] THEN "whole" ELSE object[k].size
      BY <3>3
    <3>5. Clean' /\ InHand(c)' /\ (Some => Some')
      BY <1>0, <2>0, <3>1, <3>2, <3>4 DEF Clean, InHand, Some
    <3> QED
      BY <1>1, <3>1, <3>5, OthersWhole
  <2>9. CASE PutMetadata(c)
    <3>1. result[c] = "whole" /\ stage[c] = "uploaded" /\ stage'[c] = "committed"
      BY <1>0, <2>0, <2>9 DEF PutMetadata, Move, Made, Clean
    <3>2. /\ UNCHANGED <<locals, result, object, target, out>>
          /\ meta' = [meta EXCEPT ![vkey[c]] = "whole"]
      BY <2>9, <3>1 DEF PutMetadata
    <3>3. object[vkey[c]].size = "whole"
      BY <3>1 DEF Whole, InHand
    <3>4. Some' /\ Clean' /\ InHand(c)'
      BY <1>0, <2>0, <3>1, <3>2, <3>3 DEF Clean, InHand, Some
    <3> QED
      BY <1>1, <3>4, OthersWhole
  <2> QED
    BY <1>1, <2>1, <2>2, <2>3, <2>4, <2>5, <2>6, <2>7, <2>8, <2>9
       DEF Continue, Fetching, Packing, Commit
<1>2. ASSUME NEW w \in Workers, Crash(w)
      PROVE  Whole'
  <2>1. \A d \in Calls : \/ stage'[d] = "idle" /\ result'[d] = "none"
                         \/ /\ stage'[d] = stage[d]
                            /\ result'[d] = result[d]
                            /\ key'[d] = key[d]
                            /\ vkey'[d] = vkey[d]
                            /\ file'[d] = file[d]
    BY <1>2 DEF Crash, Reset
  <2>2. UNCHANGED <<dirVars, build, storeVars>>
    BY <1>2 DEF Crash
  <2>3. Clean'
    BY <1>0, <2>1, <2>2 DEF Clean
  <2>4. (\A d \in Calls : InHand(d))'
    BY <2>1, <2>2 DEF InHand, Whole
  <2>5. OneRuns'
    BY <2>1 DEF OneRuns, Whole, Synchronous
  <2>6. Kept'
    BY <2>1, <2>2 DEF Kept, Some, Whole
  <2> QED
    BY <2>3, <2>4, <2>5, <2>6 DEF Whole
<1>3. CASE Learn \/ UNCHANGED vars
  BY <1>3 DEF Learn, vars, Whole, Clean, InHand, OneRuns, Kept, Some
<1> QED
  BY <1>1, <1>2, <1>3 DEF Next

\* In one process, with hashes and atomic uploads, a caller is never handed an
\* artifact with something missing.
THEOREM WholeServed ==
  SingleProcess /\ Checked /\ AtomicUpload => (Spec => []ServedWhole)
<1> SUFFICES ASSUME SingleProcess, Checked, AtomicUpload
             PROVE  Spec => []ServedWhole
  OBVIOUS
<1> DEFINE Inv == TypeOK /\ Made /\ Whole
<1>1. Init => Inv
  <2> SUFFICES ASSUME Init
               PROVE  Inv
    OBVIOUS
  <2>1. Clean
    BY DEF Init, Clean, NoTargets
  <2> QED
    BY <2>1, TypeInit DEF Init, Made, Whole, InHand, OneRuns, Kept, Synchronous
<1>2. Inv /\ [Next]_vars => Inv'
  BY TypeStep, MadeStep, WholeStep
<1>3. Inv => ServedWhole
  BY DEF Whole, Clean, ServedWhole
<1> HIDE DEF Inv
<1> QED
  BY <1>1, <1>2, <1>3, PTL DEF Spec

-----------------------------------------------------------------------------
(* The promise. *)

storedNow == {k \in Keys : meta[k] = "whole" /\ object[k].size = "whole"}
answerNow == [c \in Calls |-> IF stage[c] = "idle" THEN result[c] ELSE "none"]

\* A step of one call, seen from outside: it stores, or it answers one caller.
LEMMA PromiseStep ==
  SingleProcess /\ Checked /\ AtomicUpload /\ TypeOK /\ Made /\ Whole /\ MetadataAfterUpload
     /\ [Next]_vars => [Promise!Next]_<<storedNow, answerNow>>
<1> SUFFICES ASSUME SingleProcess, Checked, AtomicUpload, TypeOK, Made, Whole,
                    MetadataAfterUpload, [Next]_vars
             PROVE  [Promise!Next]_<<storedNow, answerNow>>
  OBVIOUS
<1> USE DEF callVars, locals, storeVars
<1>0. Whole' /\ TypeOK'
  BY WholeStep, TypeStep
<1>1. ASSUME NEW c \in Calls, Ask(c) \/ Continue(c)
      PROVE  [Promise!Next]_<<storedNow, answerNow>>
  <2>0. /\ stage \in [Calls -> Stage]
        /\ result \in [Calls -> {"none", "failed", "short", "whole"}]
        /\ vkey[c] \in Keys
        /\ object \in [Keys -> [by : Calls \cup {None}, size : Size]]
        /\ meta \in [Keys -> Size \ {"torn"}]
    BY DEF TypeOK
  <2>1. \A d \in Calls \ {c} : answerNow'[d] = answerNow[d]
    BY <1>1, Frame DEF answerNow
  <2>2. CASE EndUpload(c)
    <3>1. result[c] = "whole" /\ stage'[c] = "uploaded" /\ stage[c] = "uploading"
      BY <2>0, <2>2 DEF EndUpload, Move, Made, Whole, Clean
    <3>2. /\ UNCHANGED <<result, meta>>
          /\ object' = [object EXCEPT ![vkey[c]] = [by |-> None, size |-> "whole"]]
      BY <2>2, <3>1 DEF EndUpload, ObjectKey
    <3>3. \A k \in Keys : object'[k] = IF k = vkey[c] THEN [by |-> None, size |-> "whole"] ELSE object[k]
      BY <2>0, <3>2
    <3>4. \A k \in Keys : object'[k].size = IF k = vkey[c] THEN "whole" ELSE object[k].size
      BY <3>3
    <3>5. \A k \in Keys : meta[k] = "whole" => object[k].size = "whole"
      BY DEF Whole, Clean, MetadataAfterUpload
    <3>6. storedNow' = storedNow
      BY <3>2, <3>4, <3>5 DEF storedNow
    <3>7. answerNow'[c] = answerNow[c]
      BY <3>1 DEF answerNow
    <3>8. answerNow' = answerNow
      BY <2>1, <3>7 DEF answerNow
    <3> QED
      BY <3>6, <3>8
  <2>3. CASE PutMetadata(c)
    <3>1. result[c] = "whole" /\ stage[c] = "uploaded" /\ stage'[c] = "committed"
      BY <2>0, <2>3 DEF PutMetadata, Move, Made, Whole, Clean
    <3>2. /\ UNCHANGED <<result, object>>
          /\ meta' = [meta EXCEPT ![vkey[c]] = "whole"]
      BY <2>3, <3>1 DEF PutMetadata
    <3>3. object[vkey[c]].size = "whole"
      BY <3>1 DEF Whole, InHand
    <3>4. storedNow' = storedNow \cup {vkey[c]}
      BY <2>0, <3>2, <3>3 DEF storedNow
    <3>5. answerNow'[c] = answerNow[c]
      BY <3>1 DEF answerNow
    <3>6. answerNow' = answerNow
      BY <2>1, <3>5 DEF answerNow
    <3>7. PICK k \in Keys : k = vkey[c]
      BY <2>0
    <3>8. Promise!Store(k)
      BY <3>4, <3>6, <3>7 DEF Promise!Store, storedNow, answerNow
    <3> QED
      BY <3>8 DEF Promise!Next
  <2>4. CASE ~EndUpload(c) /\ ~PutMetadata(c)
    <3>1. UNCHANGED <<object, meta>>
      <4>1. CASE Ask(c) \/ Plan(c) \/ PlanFails(c) \/ Enter(c) \/ Backfill(c) \/ Leave(c)
        BY <4>1 DEF Ask, Plan, PlanFails, Enter, Backfill, Leave
      <4>2. CASE Fetching(c)
        BY <4>2 DEF Fetching, Open, UrlFails, Close, Replace
      <4>3. CASE Packing(c)
        BY <4>3 DEF Packing, Finalize, StartPacking, Pack, Zip
      <4>4. CASE Mismatch(c) \/ UploadFails(c) \/ StartUpload(c)
        BY <4>4 DEF Mismatch, UploadFails, StartUpload
      <4> QED
        BY <1>1, <2>4, <4>1, <4>2, <4>3, <4>4 DEF Continue, Commit
    <3>2. storedNow' = storedNow
      BY <3>1 DEF storedNow
    <3>3. answerNow' = [answerNow EXCEPT ![c] = answerNow'[c]]
      BY <2>1 DEF answerNow
    <3>4. answerNow'[c] \in {"none", "failed", "whole"}
      BY <1>0 DEF answerNow, TypeOK, Whole, Clean
    <3>5. CASE answerNow'[c] = "none"
      <4>1. Promise!Forget({c})
        BY <3>2, <3>3, <3>5 DEF Promise!Forget, storedNow, answerNow
      <4> QED
        BY <4>1 DEF Promise!Next
    <3>6. CASE answerNow'[c] = "failed"
      <4>1. Promise!Refuse(c)
        BY <3>2, <3>3, <3>6 DEF Promise!Refuse, storedNow, answerNow
      <4> QED
        BY <4>1 DEF Promise!Next
    <3>7. CASE answerNow'[c] = "whole"
      <4>1. stage'[c] = "idle" /\ result'[c] = "whole"
        BY <3>7 DEF answerNow
      <4>2. \A k \in Keys : Existing(k) => k \in storedNow
        BY DEF Existing, Whole, Clean, storedNow
      <4>3. storedNow # {}
        <5>1. CASE Ask(c)
          <6>1. Completed(c) \subseteq Keys
            BY DEF Completed, Keys
          <6>2. Cached(c) # {}
            BY <2>0, <4>1, <5>1 DEF Ask, Move
          <6> QED
            BY <4>2, <6>1, <6>2 DEF Cached
        <5>2. CASE Enter(c)
          <6>1. key[c] \in Keys
            BY DEF TypeOK
          <6>2. Existing(key[c])
            BY <2>0, <4>1, <5>2 DEF Enter, Move
          <6> QED
            BY <4>2, <6>1, <6>2
        <5>3. CASE Leave(c)
          <6>1. stage[c] = "leaving" /\ result[c] = "whole"
            BY <2>0, <4>1, <5>3 DEF Leave, Return, Move
          <6> QED
            BY <6>1 DEF Whole, Kept, Some, storedNow
        <5>4. CASE Plan(c) \/ PlanFails(c) \/ Backfill(c)
          BY <2>0, <4>1, <5>4 DEF Plan, PlanFails, Backfill, Return, Move
        <5>5. CASE Fetching(c) \/ Packing(c) \/ Commit(c)
          <6>1. stage'[c] # "idle"
            <7>1. CASE Fetching(c)
              BY <2>0, <7>1 DEF Fetching, Open, UrlFails, Close, Replace, Raise, Move
            <7>2. CASE Packing(c)
              BY <2>0, <7>2 DEF Packing, Finalize, StartPacking, Pack, Zip, Raise, Move
            <7>3. CASE Commit(c)
              BY <2>0, <7>3 DEF Commit, Mismatch, StartUpload, EndUpload, UploadFails, PutMetadata, Raise, Move
            <7> QED
              BY <5>5, <7>1, <7>2, <7>3
          <6> QED
            BY <4>1, <6>1
        <5> QED
          BY <1>1, <5>1, <5>2, <5>3, <5>4, <5>5 DEF Continue
      <4>4. Promise!Deliver(c)
        BY <3>2, <3>3, <3>7, <4>3 DEF Promise!Deliver, storedNow, answerNow
      <4> QED
        BY <4>4 DEF Promise!Next
    <3> QED
      BY <3>4, <3>5, <3>6, <3>7
  <2> QED
    BY <2>2, <2>3, <2>4
<1>2. ASSUME NEW w \in Workers, Crash(w)
      PROVE  [Promise!Next]_<<storedNow, answerNow>>
  <2> DEFINE lost == {c \in Calls : WorkerOf[c] = w}
  <2>1. storedNow' = storedNow
    BY <1>2 DEF Crash, storedNow
  <2>2. answerNow' = [c \in Calls |-> IF c \in lost THEN "none" ELSE answerNow[c]]
    BY <1>2 DEF Crash, answerNow
  <2>3. lost \in SUBSET Calls
    OBVIOUS
  <2>4. Promise!Forget(lost)
    BY <2>1, <2>2 DEF Promise!Forget, storedNow, answerNow
  <2> QED
    BY <2>3, <2>4 DEF Promise!Next
<1>3. CASE Learn \/ UNCHANGED vars
  <2>1. storedNow' = storedNow /\ answerNow' = answerNow
    BY <1>3 DEF Learn, vars, storedNow, answerNow
  <2> QED
    BY <2>1
<1> QED
  BY <1>1, <1>2, <1>3 DEF Next

\* The storage keeps the promise of ArtifactPromise under the same conditions.
THEOREM Refinement ==
  SingleProcess /\ Checked /\ AtomicUpload => (Spec => KeepsPromise)
<1> SUFFICES ASSUME SingleProcess, Checked, AtomicUpload
             PROVE  Spec => KeepsPromise
  OBVIOUS
<1> DEFINE Inv == TypeOK /\ Made /\ Whole /\ Stored /\ MetadataAfterUpload
<1>1. Init => Inv /\ Promise!Init
  <2> SUFFICES ASSUME Init
               PROVE  Inv /\ Promise!Init
    OBVIOUS
  <2>1. Clean
    BY DEF Init, Clean, NoTargets
  <2>2. Inv
    BY <2>1, TypeInit DEF Init, Made, Whole, InHand, OneRuns, Kept, Synchronous, Stored, MetadataAfterUpload
  <2>3. Promise!Init
    BY DEF Init, Promise!Init
  <2> QED
    BY <2>2, <2>3
<1>2. Inv /\ [Next]_vars => Inv'
  BY TypeStep, MadeStep, WholeStep, StoredStep
<1>3. Inv /\ [Next]_vars => [Promise!Next]_(Promise!vars)
  BY PromiseStep DEF Promise!vars, storedNow, answerNow
<1> HIDE DEF Inv
<1> QED
  BY <1>1, <1>2, <1>3, PTL DEF Spec, KeepsPromise, Promise!Spec
=============================================================================
