----------------------------- MODULE UploadSync -----------------------------
(***************************************************************************)
(* SyncUploads (src/uploads.go): before a tool runs, /user-uploads of the  *)
(* session's container is made equal to the request's manifest, in two     *)
(* calls of the executor with a fetch from the object store between them.  *)
(*                                                                         *)
(* One session is modelled, whose calls may overlap.  Its container may be *)
(* replaced at any time; /user-uploads is then empty.                      *)
(*                                                                         *)
(* The executor is not part of the repository.  Assumed: the manifest call *)
(* drops whatever is not in the manifest, going by the bytes that are      *)
(* there, and answers what is missing; a 200 of the blobs call means that  *)
(* the files whose bytes have their sha were stored.  What it does with    *)
(* the others is not known: it may store them as they are or leave them    *)
(* out, and answer 200 (as the fake executor of src/uploads_test.go does)  *)
(* or an error.  SyncUploads sends them all the same, checks no sha and    *)
(* does not read the `written` of the answer.                              *)
(***************************************************************************)
EXTENDS Integers, ToolCalls

CONSTANTS
  Name, Sha,   \* a file is a name and the sha of its bytes
  OtherSha,    \* that of bytes which no manifest lists, such as none at all
  Manifests,   \* bound: the manifests used
  Astray,      \* bound: the files that the store may lack, or hold with other bytes
  NoManifest,  \* "field absent": /user-uploads is left alone
  MaxBoxes     \* bound: containers the session goes through

File == Name \X Sha

\* That no manifest names a file twice is left to the caller: nothing checks it.
ASSUME UploadAssumption ==
  /\ Manifests \subseteq SUBSET File /\ NoManifest \notin Manifests
  /\ \A m \in Manifests : \A f, g \in m : f[1] = g[1] => f = g
  /\ MaxBoxes \in Nat \ {0} /\ OtherSha \notin Sha /\ Astray \subseteq File

\* What may be in /user-uploads.
Content == Name \X (Sha \cup {OtherSha})
Box == 1 .. MaxBoxes

VARIABLES
  box,        \* the container of the session
  uploads,    \* /user-uploads of each container
  syncPc, manifest,
  sent,       \* the container that SyncUploads got from GetOrAssign
  missing,    \* the files that the executor does not have
  spoilt,     \* those whose bytes, as fetched, do not have their sha; and, as a
              \* history, after the sync
  overlapped  \* history: another call put something else there meanwhile

syncVars == <<box, uploads, syncPc, manifest, sent, missing, spoilt, overlapped>>

SyncPc == {"none", "manifest", "fetch", "blobs", "done", "failed"}

SyncInit ==
  /\ box = 1 /\ uploads = [b \in Box |-> {}]
  /\ syncPc = [x \in Caller |-> "none"] /\ manifest = [x \in Caller |-> NoManifest]
  /\ sent = [x \in Caller |-> 1]
  /\ missing = [x \in Caller |-> {}] /\ spoilt = [x \in Caller |-> {}]
  /\ overlapped = [x \in Caller |-> FALSE]

----------------------------------------------------------------------------
\* The container is evicted, dies or is destroyed; GetOrAssign finds another.
Replaced ==
  /\ box < MaxBoxes
  /\ box' = box + 1
  /\ UNCHANGED <<uploads, syncPc, manifest, sent, missing, spoilt, overlapped>>

\* A request of x changes its container: whoever has sent a manifest to that
\* container is overlapped, if it is another one or x sends spoilt files.
Touch(x) ==
  overlapped' = [y \in Caller |->
    \/ overlapped[y]
    \/ /\ y # x /\ sent[y] = sent[x] /\ syncPc[y] \notin {"none", "manifest"}
       /\ manifest[y] # manifest[x] \/ spoilt[x] # {}]

Goto(x, pc) == syncPc' = [syncPc EXCEPT ![x] = pc]

\* GetOrAssign, which may fail.
SyncUploads(x, m) ==
  /\ syncPc[x] = "none"
  /\ manifest' = [manifest EXCEPT ![x] = m]
  /\ sent' = [sent EXCEPT ![x] = box]
  /\ Goto(x, "manifest") \/ Goto(x, "failed")
  /\ UNCHANGED <<box, uploads, missing, spoilt, overlapped>>

Drop(x) == uploads' = [uploads EXCEPT ![sent[x]] = @ \cap manifest[x]]

AfterRefusal_Ignored == "done"
\* `if status != http.StatusOK { return ... }`, of either call.
AfterRefusal == "failed"

SendManifest(x) ==
  /\ syncPc[x] = "manifest"
  /\ \/ \* 200, and a list that may be empty
        /\ Drop(x) /\ Touch(x)
        /\ missing' = [missing EXCEPT ![x] = manifest[x] \ uploads[sent[x]]]
        /\ Goto(x, IF missing'[x] = {} THEN "done" ELSE "fetch")
     \/ \* an error or no answer, after the manifest was obeyed or not
        /\ \/ Drop(x) /\ Touch(x)
           \/ UNCHANGED <<uploads, overlapped>>
        /\ Goto(x, AfterRefusal)
        /\ UNCHANGED missing
  /\ UNCHANGED <<box, manifest, sent, spoilt>>

\* The files are fetched in parallel, and one error is enough to give up.  A
\* 404 is no error: it leaves empty bytes, as bytes of another file would be.
FetchFiles(x) ==
  /\ syncPc[x] = "fetch"
  /\ \/ /\ \E files \in SUBSET (missing[x] \cap Astray) : spoilt' = [spoilt EXCEPT ![x] = files]
        /\ Goto(x, "blobs")
     \/ Goto(x, "failed") /\ UNCHANGED spoilt
  /\ UNCHANGED <<box, uploads, manifest, sent, missing, overlapped>>

\* Files replace those of the same name.
Stored(there, files) ==
  {f \in there : \A g \in files : f[1] # g[1]} \cup files

\* All that was missing is sent, with the bytes that were fetched.
Blobs(x) == missing[x]

\* What files become of them under their names.
AsFetched(files, bad) == (files \ bad) \cup {<<f[1], OtherSha>> : f \in files \cap bad}

SendBlobs(x) ==
  /\ syncPc[x] = "blobs"
  /\ \E files \in SUBSET Blobs(x) :
       /\ uploads' = [uploads EXCEPT ![sent[x]] = Stored(@, AsFetched(files, spoilt[x]))]
       /\ \/ \* 200
             /\ Blobs(x) \ spoilt[x] \subseteq files
             /\ Goto(x, "done") /\ UNCHANGED spoilt
          \/ \* an error or no answer, after some files were stored
             /\ Goto(x, AfterRefusal)
             /\ spoilt' = [spoilt EXCEPT ![x] = {}]
  /\ Touch(x)
  /\ missing' = [missing EXCEPT ![x] = {}]
  /\ UNCHANGED <<box, manifest, sent>>

\* The request ends.
SyncDone(x) ==
  /\ syncPc[x] \in {"none", "done", "failed"}
  /\ Goto(x, "none")
  /\ manifest' = [manifest EXCEPT ![x] = NoManifest]
  /\ sent' = [sent EXCEPT ![x] = 1]
  /\ missing' = [missing EXCEPT ![x] = {}] /\ spoilt' = [spoilt EXCEPT ![x] = {}]
  /\ overlapped' = [overlapped EXCEPT ![x] = FALSE]
  /\ UNCHANGED <<box, uploads>>
=============================================================================
