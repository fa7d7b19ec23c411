------------------------------ MODULE Dispatch ------------------------------
(***************************************************************************)
(* A tools/call from end to end (src/mcp.go, HandleMCPRequest): it is      *)
(* authorised (AuthCache), its uploads are synchronised (UploadSync), and  *)
(* only then its tool is looked up and run in the session's container.     *)
(* Every action here is an action of one of the two, or of both.           *)
(***************************************************************************)
EXTENDS AuthCache, UploadSync

VARIABLES
  stage,   \* where HandleMCPRequest is
  ran      \* the container in which its tool runs

dispatchVars == <<stage, ran>>
vars == <<authVars, syncVars, dispatchVars>>

Stage == {"idle", "auth", "sync", "tool"}

Init ==
  /\ AuthInit /\ SyncInit
  /\ stage = [x \in Caller |-> "idle"]
  /\ ran = [x \in Caller |-> 1]

\* An answer is returned, good or bad, and the request's context is gone.
Answer(x) ==
  /\ stage' = [stage EXCEPT ![x] = "idle"]
  /\ ran' = [ran EXCEPT ![x] = 1]
  /\ AuthDone(x) /\ SyncDone(x)

\* A request with all its secrets: without them it is refused at once.
Receive(x) ==
  /\ stage[x] = "idle"
  /\ \E k \in ApiKey \cup {None} : Authorize(x, k)
  /\ stage' = [stage EXCEPT ![x] = "auth"]
  /\ UNCHANGED <<ran, syncVars>>

\* AuthorizeSession, after its look-up.
AuthorizeSession(x) ==
  /\ stage[x] = "auth"
  /\ ValidateKey(x) \/ AuthCacheStore(x)
  /\ UNCHANGED <<dispatchVars, syncVars>>

MayGoOn_AnyAnswer(x) == authPc[x] \in {"accepted", "refused"}
\* AuthorizeSession returned no error.
MayGoOn(x) == authPc[x] = "accepted"

\* The handler is called.  Its GetOrAssign finds the session's container of now.
RunTool(x) ==
  /\ stage' = [stage EXCEPT ![x] = "tool"]
  /\ ran' = [ran EXCEPT ![x] = box]
  /\ UNCHANGED <<authVars, syncVars>>

\* After AuthorizeSession.  What extractUploads and ToolHandlers make of the
\* request is one of the outcomes.
Authorized(x) ==
  /\ stage[x] = "auth"
  /\ \/ \* no valid key; or malformed uploads; or none, and an unknown tool
        (authPc[x] = "refused" \/ MayGoOn(x)) /\ Answer(x)
     \/ \* "field present"
        /\ MayGoOn(x)
        /\ \E m \in Manifests : SyncUploads(x, m)
        /\ stage' = [stage EXCEPT ![x] = "sync"]
        /\ UNCHANGED <<ran, authVars>>
     \/ \* "field absent"
        MayGoOn(x) /\ RunTool(x)

SyncStep(x) ==
  /\ stage[x] = "sync"
  /\ SendManifest(x) \/ FetchFiles(x) \/ SendBlobs(x)
  /\ UNCHANGED <<dispatchVars, authVars>>

\* The sync returned an error; or the tool is unknown; or it is run.
Synced(x) ==
  /\ stage[x] = "sync"
  /\ \/ syncPc[x] \in {"done", "failed"} /\ Answer(x)
     \/ syncPc[x] = "done" /\ RunTool(x)

ToolAnswers(x) == stage[x] = "tool" /\ Answer(x)

Next ==
  \/ Tick /\ UNCHANGED <<dispatchVars, syncVars>>
  \/ Replaced /\ UNCHANGED <<dispatchVars, authVars>>
  \/ \E x \in Caller :
       \/ Receive(x) \/ AuthorizeSession(x) \/ Authorized(x)
       \/ SyncStep(x) \/ Synced(x) \/ ToolAnswers(x)

Spec == Init /\ [][Next]_vars

----------------------------------------------------------------------------
(* Safety.                                                                 *)

DispatchTypeOK ==
  /\ AuthTypeOK
  /\ box \in Box /\ uploads \in [Box -> SUBSET Content]
  /\ syncPc \in [Caller -> SyncPc] /\ manifest \in [Caller -> Manifests \cup {NoManifest}]
  /\ sent \in [Caller -> Box] /\ ran \in [Caller -> Box]
  /\ missing \in [Caller -> SUBSET File] /\ spoilt \in [Caller -> SUBSET File]
  /\ overlapped \in [Caller -> BOOLEAN]
  /\ stage \in [Caller -> Stage]

\* No request gets to the executor, for its uploads or for its tool, unless the
\* controlplane confirmed its key recently (RevocationIsBounded, for the whole
\* of HandleMCPRequest).
ExecutorNeedsKey ==
  \A x \in Caller : stage[x] \in {"sync", "tool"} =>
    authPc[x] = "accepted" /\ recent[x]

\* x runs its tool where it synchronised its uploads, and no other call of the
\* session put something else there.
RunsOnItsSync(x) ==
  /\ stage[x] = "tool" /\ manifest[x] # NoManifest
  /\ ran[x] = sent[x] /\ ~overlapped[x]

\* A tool finds in /user-uploads every file of its manifest whose bytes the
\* store delivered, and nothing that is not in the manifest but, under their
\* names, the bytes that came for the others ("Reconciles /user-uploads to
\* exactly this manifest", README, as far as SyncUploads sees to it): nothing
\* stale, nothing of a sync that stopped half way, nothing of a refusal.
ToolSeesManifest ==
  \A x \in Caller : RunsOnItsSync(x) =>
    /\ manifest[x] \ spoilt[x] \subseteq uploads[ran[x]]
    /\ uploads[ran[x]] \subseteq manifest[x] \cup AsFetched(spoilt[x], spoilt[x])

\* "The manager pulls only what's missing, verifies the sha, and writes it"
\* (README): no tool runs on a file with other bytes than its manifest says.
UploadsVerified ==
  \A x \in Caller : RunsOnItsSync(x) => uploads[ran[x]] = manifest[x]
=============================================================================
