---------------------------- MODULE ArtifactStore ----------------------------
(***************************************************************************)
(* The content-addressed artifact store of src/src/storage.rs: the put     *)
(* half of ArtifactStore and what a process death does to each backend.    *)
(*                                                                         *)
(* An artifact is a member of Content and its sha256 is the content        *)
(* itself: the digest is taken to be injective.  A stored object is        *)
(*   "absent"   no object under the key,                                   *)
(*   "torn"     an object that is a strict part of the artifact's bytes,   *)
(*   "whole"    exactly the artifact's bytes.                              *)
(* Only the local backend can produce "torn": it writes through            *)
(* tokio::fs::write, which truncates the file and then writes it, on a     *)
(* blocking task that outlives the request that started it.                *)
(***************************************************************************)
EXTENDS Naturals, FiniteSets, FiniteSetsExt

CONSTANTS
  Backend,    \* "memory", "local" or "s3": the variant of ArtifactStore
  Content,    \* artifact byte strings, identified with their digests
  Format,     \* archive formats: the extension of an artifact key
  Size,       \* Size[c]: length of the artifact c in bytes
  MaxBytes,   \* max_bytes of the memory backend
  Writer,     \* tasks that may be inside put at the same time
  None        \* "no such row, key or holder"

ASSUME StoreAssumption ==
  /\ Backend \in {"memory", "local", "s3"}
  /\ Size \in [Content -> Nat]
  /\ MaxBytes \in Nat

\* The key an artifact is stored under.
artifact_key(sha, ext) == <<sha, ext>>

Key == {artifact_key(c, f) : c \in Content, f \in Format}

ObjectState == {"absent", "torn", "whole"}

ASSUME NoneIsNoObject == None \notin Key /\ None \notin Writer

VARIABLES
  objects,  \* objects[k]: what is stored under key k
  opener,   \* opener[k]: the blocking task that last truncated the file of k
  task      \* task[w]: the key the blocking write started by w is writing

storeVars == <<objects, opener, task>>

StoreTypeOK ==
  /\ objects \in [Key -> ObjectState]
  /\ opener \in [Key -> Writer \cup {None}]
  /\ task \in [Writer -> Key \cup {None}]

StoreInit ==
  /\ objects = [k \in Key |-> "absent"]
  /\ opener = [k \in Key |-> None]
  /\ task = [w \in Writer |-> None]

Present == {k \in Key : objects[k] # "absent"}

BytesOf(ks) == MapThenSumSet(LAMBDA k : Size[k[1]], ks)

\* Mutation: the limit is applied to each object on its own.
FitsAlone(k) == Size[k[1]] <= MaxBytes

(***************************************************************************)
(* Memory: the byte accounting leaves out the object the write replaces,   *)
(* and runs under the write lock together with the insertion.              *)
(***************************************************************************)
Fits(k) == BytesOf(Present \ {k}) + Size[k[1]] <= MaxBytes

MemoryPut(k) ==
  /\ Backend = "memory"
  /\ Fits(k)
  /\ objects' = [objects EXCEPT ![k] = "whole"]
  /\ UNCHANGED <<opener, task>>

\* The write would exceed max_bytes: put fails before it touches the map.
MemoryPutRefused(k) ==
  /\ Backend = "memory"
  /\ ~Fits(k)
  /\ UNCHANGED storeVars

\* S3: an object becomes visible all at once.
S3Put(k) ==
  /\ Backend = "s3"
  /\ objects' = [objects EXCEPT ![k] = "whole"]
  /\ UNCHANGED <<opener, task>>

\* Local: the blocking task opens the file with truncation.
LocalOpen(w, k) ==
  /\ Backend = "local"
  /\ task[w] = None
  /\ objects' = [objects EXCEPT ![k] = "torn"]
  /\ opener' = [opener EXCEPT ![k] = w]
  /\ task' = [task EXCEPT ![w] = k]

(***************************************************************************)
(* Local: the blocking task has written all its bytes.  If it was the last *)
(* to truncate the file the file is whole.  If another task truncated it   *)
(* since, what is there depends on how many of this task's bytes were      *)
(* written after that truncation: all of them, or only a tail.             *)
(***************************************************************************)
LocalClose(w) ==
  /\ Backend = "local"
  /\ task[w] # None
  /\ task' = [task EXCEPT ![w] = None]
  /\ \/ objects' = [objects EXCEPT ![task[w]] = "whole"]
     \/ opener[task[w]] # w /\ UNCHANGED objects
  /\ UNCHANGED opener

\* Mutation: a write that fails removes the partial file.
LocalAbortRemoves(w) ==
  /\ Backend = "local"
  /\ task[w] # None
  /\ task' = [task EXCEPT ![w] = None]
  /\ objects' = [objects EXCEPT ![task[w]] = "absent"]
  /\ UNCHANGED opener

\* Local: the write stops part way (the disk is full, an I/O error).
LocalAbort(w) ==
  /\ Backend = "local"
  /\ task[w] # None
  /\ task' = [task EXCEPT ![w] = None]
  /\ UNCHANGED <<objects, opener>>

(***************************************************************************)
(* The process dies and starts again: blocking tasks die with it, the      *)
(* memory map is empty, files stay as they are, S3 does not notice.        *)
(***************************************************************************)
StoreRestart ==
  /\ task' = [w \in Writer |-> None]
  /\ objects' = IF Backend = "memory" THEN [k \in Key |-> "absent"] ELSE objects
  /\ UNCHANGED opener

-----------------------------------------------------------------------------
(***************************************************************************)
(* max_bytes is a hard total for everything the process retains: no        *)
(* interleaving of puts, re-puts of a stored key and restarts exceeds it.  *)
(***************************************************************************)
CapacityRespected == Backend = "memory" => BytesOf(Present) <= MaxBytes
=============================================================================
