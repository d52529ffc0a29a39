--------------------------- MODULE ArtifactDownload ---------------------------
(***************************************************************************)
(* The way of one version of one package from one provider into the        *)
(* artifact storage: the part of DownloadOrchestrator.download that        *)
(* completes and probes, PackageDownloader.download, XapkBuilder.build and *)
(* ArtifactStore, for calls that name the version by its versionName, by   *)
(* its versionCode, or ask for the latest one.                             *)
(*                                                                         *)
(* Each process has its own table of locks.  The directories in which      *)
(* files are staged and packages are built, the storage and the ledger are *)
(* shared: the containers mount one tmp volume.  A version key names the   *)
(* staging directory, the build directory and the metadata, and it may be  *)
(* the name or the code of the same version.                               *)
(*                                                                         *)
(* What runs between two awaits of a coroutine is atomic for the other     *)
(* calls of its process and interleaved with other processes.  Downloads   *)
(* that fail may be asked for again, as the orchestrator and clients do.   *)
(***************************************************************************)
EXTENDS Integers

CONSTANTS
    Workers,        \* processes
    Calls,          \* bound: calls of orchestrator.download under way at a time
    WorkerOf,       \* the process of a call
    Form,           \* what a call names: "name", "code" or "latest"
    Shapes,         \* plans: a "single" package, "split" ones, an .apkm "bundle"
    KeepsCode,      \* the provider's plan has the code when the request has it
    Checked,        \* the plan has hashes
    AtomicUpload,   \* object storage: an upload replaces the object at once
    None

ASSUME DownloadAssumption ==
    /\ WorkerOf \in [Calls -> Workers]
    /\ Form \in [Calls -> {"name", "code", "latest"}]
    /\ Shapes \subseteq {"single", "split", "bundle"}
    /\ {KeepsCode, Checked, AtomicUpload} \subseteq BOOLEAN
    /\ None \notin Calls

VARIABLES
    stage,      \* how far a call is
    ref,        \* local: the names of the version in the completed request
    shape,      \* local: what the files of the provider's plan are
    key,        \* local: the plan's version_key
    vkey,       \* local: the same after the info.json of a bundle has been read
    file,       \* local: the file being fetched or packed
    result,     \* what the call found, made or was told
    dir,        \* the staging directory of a key exists
    part,       \* in it: the .part files
    target,     \* in it: the verified files
    out,        \* in it: the finished artifact
    build,      \* the build directory of a key: the files in it that are complete
    object,     \* the artifact in the storage
    meta,       \* the size its metadata.json says
    known       \* the ledger or the catalogue knows which code the name has

locals    == <<ref, shape, key, vkey, file>>
callVars  == <<stage, locals, result>>
dirVars   == <<dir, part, target, out>>
storeVars == <<object, meta, known>>
vars      == <<callVars, dirVars, build, storeVars>>

-----------------------------------------------------------------------------
Keys  == {"name", "code"}

\* Two files stand for the base, splits and expansions of a plan that packs some.
Files == {1, 2}
LastAndOneMore(c) == IF shape[c] = "split" THEN 3 ELSE 2
Last(c) == IF shape[c] = "split" THEN 2 ELSE 1
FilesOf(c) == 1..Last(c)

Stage == {"idle", "planning", "waiting", "opening", "writing", "verified", "fetched",
          "packing", "packed", "uploading", "uploaded", "committed", "leaving"}

\* The stages between lock and release.
Inside == Stage \ {"idle", "planning", "waiting"}

\* The stages in which a call does not give the event loop away.
Synchronous == {"verified", "fetched", "packing", "packed", "uploading", "uploaded"}

\* A file under construction: who opened it for writing last, and whether all
\* of its bytes are there.
Inode == [by : Calls \cup {None}, whole : BOOLEAN]
Absent == [by |-> None, whole |-> FALSE]
Empty == [f \in Files |-> Absent]
NoTargets == [f \in Files |-> "none"]

\* Sizes: no file, one that is being written, an incomplete and a complete one.
Size == {"none", "torn", "short", "whole"}

TypeOK ==
    /\ stage \in [Calls -> Stage]
    /\ ref \in [Calls -> SUBSET Keys]
    /\ shape \in [Calls -> {"single", "split", "bundle"}]
    /\ key \in [Calls -> Keys]
    /\ vkey \in [Calls -> Keys]
    /\ file \in [Calls -> Files]
    /\ result \in [Calls -> {"none", "failed", "short", "whole"}]
    /\ dir \in [Keys -> BOOLEAN]
    /\ part \in [Keys -> [Files -> Inode]]
    /\ target \in [Keys -> [Files -> {"none", "short", "whole"}]]
    /\ out \in [Keys -> {"none", "short", "whole"}]
    /\ build \in [Keys -> SUBSET Files]
    /\ object \in [Keys -> [by : Calls \cup {None}, size : Size]]
    /\ meta \in [Keys -> Size \ {"torn"}]
    /\ known \in BOOLEAN

Init ==
    /\ stage = [c \in Calls |-> "idle"]
    /\ ref = [c \in Calls |-> {}]
    /\ shape = [c \in Calls |-> "single"]
    /\ key = [c \in Calls |-> "name"]
    /\ vkey = [c \in Calls |-> "name"]
    /\ file = [c \in Calls |-> 1]
    /\ result = [c \in Calls |-> "none"]
    /\ dir = [k \in Keys |-> FALSE]
    /\ part = [k \in Keys |-> Empty]
    /\ target = [k \in Keys |-> NoTargets]
    /\ out = [k \in Keys |-> "none"]
    /\ build = [k \in Keys |-> {}]
    /\ object = [k \in Keys |-> [by |-> None, size |-> "none"]]
    /\ meta = [k \in Keys |-> "none"]
    /\ known = FALSE

-----------------------------------------------------------------------------
(* The pieces. *)

\* ArtifactStore.existing: metadata, and an object of the size it says.
ExistingObject(k) == object[k].size # "none"
Existing(k) == meta[k] # "none" /\ object[k].size = meta[k]

\* _lock_key: the code if the plan or the completed request has it, else the
\* plan's key, which is the name.
LockKey(c) == IF "code" \in ref[c] THEN "code" ELSE key[c]

\* metadata_prefix and object_key of the plan as the download has corrected it.
ObjectKeyAsPlanned(c) == key[c]
ObjectKey(c) == vkey[c]

\* verify_file: no file, or one with other hashes than the plan says.
RejectsMissing(found) == found = Absent
Rejects(found) == found = Absent \/ (Checked /\ ~found.whole)

\* A call runs until it awaits: no other call of its process is in a
\* synchronous section.
LoopFree(c) == \A d \in Calls \ {c} :
                  WorkerOf[d] = WorkerOf[c] => stage[d] \notin Synchronous

LockFree(c) == \A d \in Calls \ {c} :
                  WorkerOf[d] = WorkerOf[c] /\ stage[d] \in Inside
                     => LockKey(d) # LockKey(c)

Move(c, from, to) == /\ LoopFree(c)
                     /\ stage[c] = from
                     /\ stage' = [stage EXCEPT ![c] = to]

\* The call returns or raises to its caller; its locals are gone.
Reset(C) ==
    /\ ref' = [c \in Calls |-> IF c \in C THEN {} ELSE ref[c]]
    /\ shape' = [c \in Calls |-> IF c \in C THEN "single" ELSE shape[c]]
    /\ key' = [c \in Calls |-> IF c \in C THEN "name" ELSE key[c]]
    /\ vkey' = [c \in Calls |-> IF c \in C THEN "name" ELSE vkey[c]]
    /\ file' = [c \in Calls |-> IF c \in C THEN 1 ELSE file[c]]

Return(c, from, told) == /\ Move(c, from, "idle")
                         /\ result' = [result EXCEPT ![c] = told]
                         /\ Reset({c})

\* shutil.rmtree, followed by mkdir if made.
Clear(k, made) ==
    /\ dir' = [dir EXCEPT ![k] = made]
    /\ part' = [part EXCEPT ![k] = Empty]
    /\ target' = [target EXCEPT ![k] = NoTargets]
    /\ out' = [out EXCEPT ![k] = "none"]

\* An exception: the finally clause is what is left to do.
Raise(c, from) == /\ Move(c, from, "leaving")
                  /\ result' = [result EXCEPT ![c] = "failed"]
                  /\ UNCHANGED locals
-----------------------------------------------------------------------------
(* Completing, probing and planning. *)

\* _complete: the name's code if the tables have it, or the other way round.
Completed(c) == IF Form[c] = "latest" THEN {}
                ELSE IF known THEN Keys ELSE {Form[c]}

\* _existing_artifact: what is stored under one of the names.
Cached(c) == {k \in Completed(c) : Existing(k)}

\* download of the orchestrator, up to the provider.
Ask(c) ==
    /\ \/ \E k \in Cached(c) : Return(c, "idle", object[k].size)
       \/ /\ Cached(c) = {}
          /\ Move(c, "idle", "planning")
          /\ ref' = [ref EXCEPT ![c] = Completed(c)]
          /\ result' = [result EXCEPT ![c] = "none"]
          /\ UNCHANGED <<shape, key, vkey, file>>
    /\ UNCHANGED <<dirVars, build, storeVars>>

\* The keys that a provider's plan may have for what it was asked.  APKPure's
\* proto interface knows versions by name only, and its plans have no code.
PlanKeys(c) == CASE ~KeepsCode /\ ref[c] = {"code"} -> {}
                 [] ~KeepsCode                      -> {"name"}
                 [] "code" \in ref[c]               -> {"code"}
                 [] OTHER                           -> Keys

Plan(c) ==
    /\ Move(c, "planning", "waiting")
    /\ \E k \in PlanKeys(c), s \in Shapes :
          /\ key' = [key EXCEPT ![c] = k]
          /\ vkey' = [vkey EXCEPT ![c] = k]
          /\ shape' = [shape EXCEPT ![c] = s]
    /\ UNCHANGED <<ref, file, result, dirVars, build, storeVars>>

\* Every provider error is an end of this try.
PlanFails(c) ==
    /\ Return(c, "planning", "failed")
    /\ UNCHANGED <<dirVars, build, storeVars>>

\* PackageDownloader.download with the lock in hand: the artifact is there by
\* now, or the staging directory is made anew.
Enter(c) ==
    /\ LockFree(c)
    /\ IF Existing(key[c])
          THEN Return(c, "waiting", object[key[c]].size) /\ UNCHANGED dirVars
          ELSE /\ Move(c, "waiting", "opening")
               /\ Clear(key[c], TRUE)
               /\ UNCHANGED <<locals, result>>
    /\ UNCHANGED <<build, storeVars>>

-----------------------------------------------------------------------------
(* _fetch_files: each file in turn into a .part, verified, renamed. *)

\* The response is there; open("wb") truncates what another process may have
\* under the same name.
Open(c) ==
    LET k == key[c] IN
    /\ dir[k]
    /\ Move(c, "opening", "writing")
    /\ part' = [part EXCEPT ![k][file[c]] = [by |-> c, whole |-> FALSE]]
    /\ UNCHANGED <<locals, result, dir, target, out, build, storeVars>>

\* A URL fails, at any point; its .part is removed and the next one is tried, if
\* the plan has another: it may have any number.
UrlFails(c) ==
    LET k == key[c] IN
    /\ \E from \in {"opening", "writing"} :
          \/ Move(c, from, "opening") /\ UNCHANGED <<locals, result>>
          \/ Raise(c, from)
    /\ part' = [part EXCEPT ![k][file[c]] = Absent]
    /\ UNCHANGED <<dir, target, out, build, storeVars>>

\* The last byte, then verify_file on whatever is at the .part's path: the
\* bytes the server sent may be wrong, which hashes tell.
Close(c) ==
    LET k == key[c]
        mine == part[k][file[c]].by = c
    IN \E right \in BOOLEAN :
       LET found == IF mine THEN [by |-> c, whole |-> right] ELSE part[k][file[c]] IN
       /\ part' = [part EXCEPT ![k][file[c]] = found]
       /\ IF Rejects(found)
             THEN Raise(c, "writing")
             ELSE /\ Move(c, "writing", "verified")
                  /\ UNCHANGED <<locals, result>>
       /\ UNCHANGED <<dir, target, out, build, storeVars>>

\* part.replace(target), and on to the next file, whose old .part is removed.
Replace(c) ==
    LET k == key[c] IN
    /\ IF part[k][file[c]] = Absent
          THEN Raise(c, "verified") /\ UNCHANGED <<part, target>>
          ELSE /\ target' = [target EXCEPT ![k][file[c]] =
                                 IF part[k][file[c]].whole THEN "whole" ELSE "short"]
               /\ IF file[c] < Last(c)
                     THEN /\ Move(c, "verified", "opening")
                          /\ file' = [file EXCEPT ![c] = @ + 1]
                          /\ part' = [part EXCEPT ![k][file[c]] = Absent,
                                                  ![k][file[c] + 1] = Absent]
                     ELSE /\ Move(c, "verified", "fetched")
                          /\ part' = [part EXCEPT ![k][file[c]] = Absent]
                          /\ UNCHANGED file
               /\ UNCHANGED <<ref, shape, key, vkey, result>>
    /\ UNCHANGED <<dir, out, build, storeVars>>
-----------------------------------------------------------------------------
(* _expand_bundles and _finalize. *)

Bundle(c) == shape[c] = "bundle"

\* A single package is copied to its final name.
Finalize(c) ==
    LET k == key[c] IN
    /\ shape[c] = "single"
    /\ IF target[k][1] = "none"
          THEN Raise(c, "fetched") /\ UNCHANGED out
          ELSE /\ Move(c, "fetched", "packed")
               /\ out' = [out EXCEPT ![k] = target[k][1]]
               /\ UNCHANGED <<locals, result>>
    /\ UNCHANGED <<dir, part, target, build, storeVars>>

\* A bundle is unzipped, its info.json corrects the plan's key, and the build
\* directory of the new key is made anew.  An incomplete bundle does not unzip.
StartPacking(c) ==
    LET k == key[c] IN
    /\ shape[c] # "single"
    /\ \/ /\ Bundle(c) => target[k][1] = "whole"
          /\ Move(c, "fetched", "packing")
          /\ file' = [file EXCEPT ![c] = 1]
          /\ \E new \in IF Bundle(c) THEN {k, "code"} ELSE {k} :
                /\ vkey' = [vkey EXCEPT ![c] = new]
                /\ build' = [build EXCEPT ![new] = {}]
          /\ UNCHANGED <<ref, shape, key, result>>
       \/ /\ Bundle(c) /\ target[k][1] # "whole"
          /\ Raise(c, "fetched")
          /\ UNCHANGED build
    /\ UNCHANGED <<dirVars, storeVars>>

\* copy2 of one file into the build directory, whoever cleared that meanwhile.
Pack(c) ==
    LET k == key[c]
        f == file[c]
    IN
    /\ IF target[k][f] = "none"
          THEN Raise(c, "packing") /\ build' = [build EXCEPT ![vkey[c]] = {}]
          ELSE /\ f < Last(c)
               /\ Move(c, "packing", "packing")
               /\ file' = [file EXCEPT ![c] = f + 1]
               /\ build' = [build EXCEPT ![vkey[c]] =
                                IF target[k][f] = "whole" THEN @ \cup {f} ELSE @ \ {f}]
               /\ UNCHANGED <<ref, shape, key, vkey, result>>
    /\ UNCHANGED <<dirVars, storeVars>>

\* The last file; then what is in the directory is zipped and the directory
\* removed.
Zip(c) ==
    LET k == key[c]
        f == file[c]
        there == build[vkey[c]] \cup (IF target[k][f] = "whole" THEN {f} ELSE {})
    IN
    /\ f = Last(c)
    /\ target[k][f] # "none"
    /\ Move(c, "packing", "packed")
    /\ out' = [out EXCEPT ![k] = IF there = FilesOf(c) THEN "whole" ELSE "short"]
    /\ build' = [build EXCEPT ![vkey[c]] = {}]
    /\ UNCHANGED <<locals, result, dir, part, target, storeVars>>

-----------------------------------------------------------------------------
(* verify_artifact, ArtifactStore.commit, the ledger, and the end. *)

\* The manifest in the artifact speaks of another package or version.
Mismatch(c) ==
    /\ Raise(c, "packed")
    /\ UNCHANGED <<dirVars, build, storeVars>>

\* The size is taken, then the upload begins.
StartUpload(c) ==
    LET k == key[c] IN
    /\ IF out[k] = "none"
          THEN Raise(c, "packed") /\ UNCHANGED object
          ELSE /\ Move(c, "packed", "uploading")
               /\ result' = [result EXCEPT ![c] = out[k]]
               /\ object' = IF AtomicUpload THEN object
                            ELSE [object EXCEPT ![ObjectKey(c)] = [by |-> c, size |-> "torn"]]
               /\ UNCHANGED locals
    /\ UNCHANGED <<dirVars, build, meta, known>>

EndUpload(c) ==
    /\ Move(c, "uploading", "uploaded")
    /\ object' = IF AtomicUpload \/ object[ObjectKey(c)].by = c
                    THEN [object EXCEPT ![ObjectKey(c)] = [by |-> None, size |-> result[c]]]
                    ELSE object
    /\ UNCHANGED <<locals, result, dirVars, build, meta, known>>

\* The storage raises; a local copy stays as far as it got.
UploadFails(c) ==
    /\ Raise(c, "uploading")
    /\ UNCHANGED <<dirVars, build, storeVars>>

PutMetadata(c) ==
    /\ Move(c, "uploaded", "committed")
    /\ meta' = [meta EXCEPT ![vkey[c]] = result[c]]
    /\ UNCHANGED <<locals, result, dirVars, build, object, known>>

\* _backfill_ledger: only what the manifest of a complete artifact says, and no
\* failure of it is one of the download.
Backfill(c) ==
    /\ Move(c, "committed", "leaving")
    /\ \/ known' = (known \/ out[key[c]] = "whole")
       \/ UNCHANGED known
    /\ UNCHANGED <<locals, result, dirVars, build, object, meta>>

\* finally: the staging directory is removed and the lock released.
Leave(c) ==
    /\ Return(c, "leaving", result[c])
    /\ Clear(key[c], FALSE)
    /\ UNCHANGED <<build, storeVars>>

\* A process ends.  Its calls and locks are gone, what it wrote stays.
Crash(w) ==
    LET lost == {c \in Calls : WorkerOf[c] = w} IN
    /\ \E c \in lost : stage[c] # "idle"
    /\ stage' = [c \in Calls |-> IF c \in lost THEN "idle" ELSE stage[c]]
    /\ result' = [c \in Calls |-> IF c \in lost THEN "none" ELSE result[c]]
    /\ Reset(lost)
    /\ UNCHANGED <<dirVars, build, storeVars>>

-----------------------------------------------------------------------------
Fetching(c) == Open(c) \/ UrlFails(c) \/ Close(c) \/ Replace(c)
Packing(c)  == Finalize(c) \/ StartPacking(c) \/ Pack(c) \/ Zip(c)
Commit(c)   == Mismatch(c) \/ StartUpload(c) \/ EndUpload(c) \/ UploadFails(c) \/ PutMetadata(c)

Continue(c) == \/ Plan(c) \/ PlanFails(c) \/ Enter(c)
               \/ Fetching(c) \/ Packing(c) \/ Commit(c)
               \/ Backfill(c) \/ Leave(c)

\* A collection finds the version in some source's list.
Learn == /\ ~known
         /\ known' = TRUE
         /\ UNCHANGED <<callVars, dirVars, build, object, meta>>

Next == \/ Learn
        \/ \E c \in Calls : Ask(c) \/ Continue(c)
        \/ \E w \in Workers : Crash(w)

Spec == Init /\ [][Next]_vars

-----------------------------------------------------------------------------
(* Properties. *)

\* What PackageDownloader.download says of its lock, that requests for one version
\* by name and by code come to the same one: two calls of a process never work in
\* one staging directory, which the first lines of one empty under the other.  The
\* lock is keyed by the code if there is one, the directory by the plan's key, and
\* the plans of APKPure's proto interface have no code: a call that was completed
\* before the tables knew the code and one completed later disagree on the lock.
StagingExclusive ==
    \A c, d \in Calls :
       /\ c # d
       /\ WorkerOf[c] = WorkerOf[d]
       /\ {stage[c], stage[d]} \subseteq Inside
       => key[c] # key[d]

\* What download or existing returns is the complete artifact, whether it was
\* fetched, packed, found in the cache or left there by a process that ended.
ServedWhole == \A c \in Calls : stage[c] = "idle" => result[c] # "short"

\* ArtifactStore.commit, upload before metadata: metadata never speaks of an object
\* that no upload has begun to write, whoever ends in between.
MetadataAfterUpload == \A k \in Keys : meta[k] # "none" => object[k].size # "none"

\* The artifact storage as its users see it.
Promise == INSTANCE ArtifactPromise WITH
              stored <- {k \in Keys : meta[k] = "whole" /\ object[k].size = "whole"},
              answer <- [c \in Calls |-> IF stage[c] = "idle" THEN result[c] ELSE "none"]

\* download and existing keep their promise: who is given an artifact is given a
\* complete one that is stored at that moment, and what is stored stays.
KeepsPromise == Promise!Spec
=============================================================================
