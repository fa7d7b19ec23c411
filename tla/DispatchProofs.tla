--------------------------- MODULE DispatchProofs ---------------------------
(***************************************************************************)
(* What holds of tools/call requests for every number of requests, keys,   *)
(* entries and files: the cache of keys keeps its bound and its promise to *)
(* forget, no request passes by it, and a sync that reported success left  *)
(* in /user-uploads what the store delivered of the manifest.              *)
(*                                                                         *)
(* RevocationIsBounded is not inductive: that an entry expires in time     *)
(* depends on when the answer it came from was given (EntriesExpire), and  *)
(* that on how long the answer can have been on its way (AnswersArrive).   *)
(***************************************************************************)
EXTENDS Dispatch, FiniteSetTheorems, TLAPS

ConfirmedBefore == \A k \in ApiKey : confirmed[k] <= now

EntriesExpire == \A k \in DOMAIN cache : cache[k] <= confirmed[k] + Timeout + TTL

AnswersArrive ==
  \A x \in Caller : authPc[x] = "store" =>
    answered[x] <= confirmed[apiKey[x]] /\ now <= answered[x] + Timeout

AuthInv ==
  /\ AuthTypeOK /\ CacheBounded /\ RevocationIsBounded
  /\ ConfirmedBefore /\ EntriesExpire /\ AnswersArrive

LEMMA InitAuth == AuthInit => AuthInv
<1> SUFFICES ASSUME AuthInit PROVE AuthInv
  OBVIOUS
<1>1. DOMAIN cache = {} /\ cache \in [DOMAIN cache -> Nat]
  BY DEF AuthInit
<1>2. CacheBounded
  BY <1>1, FS_EmptySet, AuthAssumption DEF CacheBounded
<1>3. QED
  BY <1>1, <1>2, AuthAssumption
     DEF AuthInit, AuthInv, AuthTypeOK, AuthPc, RevocationIsBounded, ConfirmedBefore,
         EntriesExpire, AnswersArrive

\* What is taken out of the cache makes it no larger.
LEMMA Shrinks ==
  ASSUME AuthTypeOK, CacheBounded, NEW keys \in SUBSET DOMAIN cache
  PROVE  Cardinality(keys) <= MaxEntries /\ IsFiniteSet(keys) /\ Cardinality(keys) \in Nat
<1>1. IsFiniteSet(DOMAIN cache)
  BY FS_Subset, AuthAssumption DEF AuthTypeOK
<1>2. IsFiniteSet(keys) /\ Cardinality(keys) <= Cardinality(DOMAIN cache)
  BY <1>1, FS_Subset
<1>3. Cardinality(keys) \in Nat /\ Cardinality(DOMAIN cache) \in Nat
  BY <1>1, <1>2, FS_CardinalityType
<1>4. QED
  BY <1>2, <1>3, AuthAssumption DEF CacheBounded

LEMMA AuthorizeInv ==
  ASSUME AuthInv, NEW x \in Caller, NEW k \in ApiKey \cup {None}, Authorize(x, k)
  PROVE  AuthInv'
<1> USE DEF AuthInv
<1>1. CASE NoBearer(k)
  <2>1. UNCHANGED <<now, cache, answered, confirmed, recent>>
    BY <1>1, AuthAssumption DEF Authorize, NoBearer, Remembers, AuthTypeOK
  <2>2. authPc' = [authPc EXCEPT ![x] = "refused"] /\ apiKey' = [apiKey EXCEPT ![x] = k]
    BY <1>1, AuthAssumption DEF Authorize, NoBearer, Remembers, AuthTypeOK
  <2>3. QED
    BY <2>1, <2>2, AuthAssumption
       DEF AuthTypeOK, AuthPc, CacheBounded, RevocationIsBounded, ConfirmedBefore,
           EntriesExpire, AnswersArrive, NoBearer
<1>2. CASE ~NoBearer(k) /\ Remembers(k)
  <2>1. k \in ApiKey /\ now <= cache[k] /\ cache[k] \in Nat
    BY <1>2 DEF Remembers, Expired, NoBearer, AuthTypeOK
  <2>2. Recent(k)
    BY <2>1, <1>2, AuthAssumption DEF Recent, EntriesExpire, Remembers, AuthTypeOK
  <2>3. UNCHANGED <<now, cache, answered, confirmed>>
    BY <1>2 DEF Authorize, Hit
  <2>4. /\ authPc' = [authPc EXCEPT ![x] = "accepted"] /\ apiKey' = [apiKey EXCEPT ![x] = k]
        /\ recent' = [recent EXCEPT ![x] = TRUE]
    BY <1>2, <2>2 DEF Authorize
  <2>5. QED
    BY <2>1, <2>3, <2>4
       DEF AuthTypeOK, AuthPc, CacheBounded, RevocationIsBounded, ConfirmedBefore,
           EntriesExpire, AnswersArrive
<1>3. CASE ~NoBearer(k) /\ ~Remembers(k)
  <2> DEFINE keys == DOMAIN cache \ {k}
  <2>1. /\ cache' = [j \in keys |-> cache[j]]
        /\ authPc' = [authPc EXCEPT ![x] = "validate"] /\ apiKey' = [apiKey EXCEPT ![x] = k]
        /\ UNCHANGED <<now, answered, confirmed, recent>>
    BY <1>3 DEF Authorize, Restricted
  <2>2. CacheBounded'
    BY <2>1, Shrinks DEF CacheBounded
  <2>3. k \in ApiKey
    BY <1>3 DEF NoBearer
  <2>4. AuthTypeOK'
    BY <2>1, <2>3 DEF AuthTypeOK, AuthPc
  <2>5. QED
    BY <2>1, <2>2, <2>4 DEF AuthTypeOK, RevocationIsBounded, ConfirmedBefore,
           EntriesExpire, AnswersArrive
<1>4. QED
  BY <1>1, <1>2, <1>3

LEMMA ValidateKeyInv ==
  ASSUME AuthInv, NEW x \in Caller, ValidateKey(x) PROVE AuthInv'
<1> USE DEF AuthInv
<1>1. UNCHANGED <<now, cache, apiKey, recent>> /\ apiKey[x] \in ApiKey
  BY DEF ValidateKey, AuthTypeOK
<1>2. CASE /\ authPc' = [authPc EXCEPT ![x] = "store"]
           /\ answered' = [answered EXCEPT ![x] = now]
           /\ confirmed' = [confirmed EXCEPT ![apiKey[x]] = now]
  <2>1. \A k \in ApiKey : confirmed[k] <= confirmed'[k] /\ confirmed'[k] <= now
    BY <1>1, <1>2 DEF ConfirmedBefore, AuthTypeOK
  <2>2. AuthTypeOK'
    BY <1>1, <1>2 DEF AuthTypeOK, AuthPc
  <2>3. EntriesExpire'
    BY <1>1, <2>1, <2>2, AuthAssumption DEF EntriesExpire, AuthTypeOK
  <2>4. AnswersArrive'
    <3> SUFFICES ASSUME NEW y \in Caller, authPc'[y] = "store"
                 PROVE  answered'[y] <= confirmed'[apiKey[y]] /\ now <= answered'[y] + Timeout
      BY <1>1 DEF AnswersArrive
    <3>1. CASE y = x
      BY <3>1, <1>1, <1>2, AuthAssumption DEF AuthTypeOK
    <3>2. CASE y # x
      <4>1. authPc[y] = "store" /\ answered'[y] = answered[y] /\ apiKey[y] \in ApiKey
        BY <3>2, <1>2 DEF AuthTypeOK
      <4>2. QED
        BY <4>1, <2>1, <2>2 DEF AnswersArrive, AuthTypeOK
    <3>3. QED
      BY <3>1, <3>2
  <2>5. QED
    BY <1>1, <1>2, <2>1, <2>2, <2>3, <2>4
       DEF CacheBounded, RevocationIsBounded, ConfirmedBefore, AuthTypeOK
<1>3. CASE authPc' = [authPc EXCEPT ![x] = "refused"] /\ UNCHANGED <<answered, confirmed>>
  BY <1>1, <1>3 DEF AuthTypeOK, AuthPc, CacheBounded, RevocationIsBounded, ConfirmedBefore,
           EntriesExpire, AnswersArrive
<1>4. QED
  BY <1>2, <1>3 DEF ValidateKey

LEMMA StoreInv ==
  ASSUME AuthInv, NEW x \in Caller, AuthCacheStore(x) PROVE AuthInv'
<1> USE DEF AuthInv
<1>1. PICK kept \in SUBSET Fresh :
        /\ MakesRoom(kept)
        /\ cache' = [k \in kept \cup {apiKey[x]} |->
                       IF k = apiKey[x] THEN now + TTL ELSE cache[k]]
  BY DEF AuthCacheStore
<1>2. /\ UNCHANGED <<now, apiKey, confirmed>> /\ authPc[x] = "store"
      /\ authPc' = [authPc EXCEPT ![x] = "accepted"]
      /\ recent' = [recent EXCEPT ![x] = Recent(apiKey[x])]
      /\ answered' = [answered EXCEPT ![x] = 0]
  BY DEF AuthCacheStore
<1>3. apiKey[x] \in ApiKey /\ kept \subseteq DOMAIN cache /\ Fresh \subseteq DOMAIN cache
  BY <1>2 DEF AuthTypeOK, Fresh
<1>4. now <= confirmed[apiKey[x]] + Timeout
  BY <1>2, <1>3, AuthAssumption DEF AnswersArrive, AuthTypeOK
<1>5. Recent(apiKey[x])
  BY <1>3, <1>4, AuthAssumption DEF Recent, AuthTypeOK
<1>6. AuthTypeOK'
  <2>1. DOMAIN cache' = kept \cup {apiKey[x]}
    BY <1>1
  <2>2. \A k \in kept \cup {apiKey[x]} : cache'[k] \in Nat
    BY <1>1, <1>3, AuthAssumption DEF AuthTypeOK
  <2>3. cache' \in [DOMAIN cache' -> Nat]
    BY <1>1, <2>1, <2>2
  <2>4. QED
    BY <1>2, <1>3, <1>5, <2>1, <2>3 DEF AuthTypeOK, AuthPc
<1>7. CacheBounded'
  <2>1. IsFiniteSet(kept) /\ Cardinality(kept) \in Nat /\ Cardinality(kept) <= MaxEntries - 1
    <3>1. Cardinality(Fresh) \in Nat /\ IsFiniteSet(kept) /\ Cardinality(kept) \in Nat
      BY <1>3, Shrinks
    <3>2. QED
      BY <1>1, <3>1, AuthAssumption DEF MakesRoom
  <2>2. Cardinality(kept \cup {apiKey[x]}) \in {Cardinality(kept), Cardinality(kept) + 1}
    <3> HIDE DEF AuthInv
    <3> QED
      BY <2>1, FS_AddElement
  <2>3. DOMAIN cache' = kept \cup {apiKey[x]}
    BY <1>1
  <2>4. QED
    BY <2>1, <2>2, <2>3, AuthAssumption DEF CacheBounded
<1>8. EntriesExpire'
  <2> SUFFICES ASSUME NEW k \in kept \cup {apiKey[x]}
               PROVE  cache'[k] <= confirmed[k] + Timeout + TTL
    BY <1>1, <1>2 DEF EntriesExpire
  <2>1. CASE k = apiKey[x]
    BY <2>1, <1>1, <1>3, <1>4, AuthAssumption DEF AuthTypeOK
  <2>2. CASE k # apiKey[x]
    BY <2>2, <1>1, <1>3 DEF EntriesExpire
  <2>3. QED
    BY <2>1, <2>2
<1>9. QED
  BY <1>2, <1>5, <1>6, <1>7, <1>8
     DEF AuthTypeOK, RevocationIsBounded, ConfirmedBefore, AnswersArrive

LEMMA AuthDoneInv ==
  ASSUME AuthInv, NEW x \in Caller, AuthDone(x) PROVE AuthInv'
BY DEF AuthDone, AuthInv, AuthTypeOK, AuthPc, CacheBounded, RevocationIsBounded,
       ConfirmedBefore, EntriesExpire, AnswersArrive

LEMMA TickInv == ASSUME AuthInv, Tick PROVE AuthInv'
<1> USE DEF Tick, AuthInv
<1>1. AuthTypeOK' /\ CacheBounded' /\ RevocationIsBounded' /\ EntriesExpire'
  BY DEF AuthTypeOK, AuthPc, CacheBounded, RevocationIsBounded, EntriesExpire
<1>2. ConfirmedBefore'
  BY AuthAssumption DEF ConfirmedBefore, AuthTypeOK
<1>3. AnswersArrive'
  BY AuthAssumption DEF AnswersArrive, AuthTypeOK
<1>4. QED
  BY <1>1, <1>2, <1>3

LEMMA AuthStep == AuthInv /\ [AuthNext]_authVars => AuthInv'
<1> SUFFICES ASSUME AuthInv, [AuthNext]_authVars PROVE AuthInv'
  OBVIOUS
<1>1. CASE Tick
  BY <1>1, TickInv
<1>2. ASSUME NEW x \in Caller, NEW k \in ApiKey \cup {None}, Authorize(x, k) PROVE AuthInv'
  BY <1>2, AuthorizeInv
<1>3. ASSUME NEW x \in Caller, ValidateKey(x) PROVE AuthInv'
  BY <1>3, ValidateKeyInv
<1>4. ASSUME NEW x \in Caller, AuthCacheStore(x) PROVE AuthInv'
  BY <1>4, StoreInv
<1>5. ASSUME NEW x \in Caller, AuthDone(x) PROVE AuthInv'
  BY <1>5, AuthDoneInv
<1>6. CASE UNCHANGED authVars
  BY <1>6 DEF authVars, AuthInv, AuthTypeOK, AuthPc, CacheBounded, RevocationIsBounded,
              ConfirmedBefore, EntriesExpire, AnswersArrive
<1>7. QED
  BY <1>1, <1>2, <1>3, <1>4, <1>5, <1>6 DEF AuthNext

LEMMA AuthInvariant == AuthSpec => []AuthInv
<1>1. QED
  BY InitAuth, AuthStep, PTL DEF AuthSpec

----------------------------------------------------------------------------
(* A tools/call does to the cache of keys nothing that AuthCache does not: *)
(* each step of HandleMCPRequest is one of AuthorizeSession or none.       *)

THEOREM DispatchAuthorizes == Spec => AuthSpec
<1>1. Init => AuthInit
  BY DEF Init
<1>2. [Next]_vars => [AuthNext]_authVars
  BY DEF Next, vars, Receive, AuthorizeSession, Authorized, SyncStep, Synced, ToolAnswers,
         RunTool, Answer, AuthNext
<1>3. QED
  BY <1>1, <1>2, PTL DEF Spec, AuthSpec

\* authCacheStore never leaves more than authCacheMaxEntries keys.
THEOREM CacheStaysBounded == Spec => []CacheBounded
<1>1. AuthInv => CacheBounded
  BY DEF AuthInv
<1>2. QED
  BY <1>1, AuthInvariant, DispatchAuthorizes, PTL

\* A key is accepted no longer than the TTL and one answer after the controlplane
\* last confirmed it (authCacheCheck, validateKey, authCacheStore).
THEOREM RevocationBounded == Spec => []RevocationIsBounded
<1>1. AuthInv => RevocationIsBounded
  BY DEF AuthInv
<1>2. QED
  BY <1>1, AuthInvariant, DispatchAuthorizes, PTL

----------------------------------------------------------------------------
(* The whole request.  What a sync has done so far is not visible in the   *)
(* stage alone: Progress says what /user-uploads holds at each step of it. *)

Staged ==
  \A x \in Caller :
    /\ stage[x] \in {"idle", "auth"} => syncPc[x] = "none" /\ manifest[x] = NoManifest
    /\ stage[x] \in {"sync", "tool"} => authPc[x] = "accepted"
    /\ stage[x] = "tool" /\ manifest[x] # NoManifest => syncPc[x] = "done"
    /\ syncPc[x] # "none" => manifest[x] \in Manifests

Reconciled(x) ==
  /\ manifest[x] \ spoilt[x] \subseteq uploads[sent[x]]
  /\ uploads[sent[x]] \subseteq manifest[x] \cup AsFetched(spoilt[x], spoilt[x])

Progress ==
  \A x \in Caller :
    /\ syncPc[x] \in {"fetch", "blobs"} => missing[x] \subseteq manifest[x]
    /\ syncPc[x] \in {"fetch", "blobs"} /\ ~overlapped[x] =>
         /\ uploads[sent[x]] \subseteq manifest[x]
         /\ manifest[x] \ missing[x] \subseteq uploads[sent[x]]
    /\ syncPc[x] = "done" /\ ~overlapped[x] => Reconciled(x)

DispatchInv == DispatchTypeOK /\ Staged /\ Progress

LEMMA InitDispatch == Init => DispatchInv
<1> SUFFICES ASSUME Init PROVE DispatchInv
  OBVIOUS
<1>1. AuthTypeOK
  BY InitAuth DEF Init, AuthInv
<1>2. QED
  BY <1>1, UploadAssumption
     DEF Init, SyncInit, DispatchInv, DispatchTypeOK, Staged, Progress, SyncPc, Stage, Box

\* Among files of one manifest, storing some takes none of the others away, and
\* what is stored is one of them or has the name of a spoilt one.
LEMMA StoredAdds ==
  ASSUME NEW m \in Manifests, NEW there, NEW files \in SUBSET m, NEW bad
  PROVE  /\ (m \ bad) \cap (there \cup files) \subseteq Stored(there, AsFetched(files, bad))
         /\ Stored(there, AsFetched(files, bad)) \subseteq there \cup files \cup AsFetched(bad, bad)
<1>1. \A a, b \in m : a[1] = b[1] => a = b
  BY UploadAssumption
<1>2. Stored(there, AsFetched(files, bad)) \subseteq there \cup files \cup AsFetched(bad, bad)
  BY DEF Stored, AsFetched
<1>3. ASSUME NEW f \in m \ bad, f \in there \cup files
      PROVE  f \in Stored(there, AsFetched(files, bad))
  <2>1. CASE f \in files
    BY <2>1, <1>3 DEF Stored, AsFetched
  <2>2. CASE f \notin files
    <3>1. \A g \in AsFetched(files, bad) : \E h \in files : g[1] = h[1]
      BY DEF AsFetched
    <3>2. \A g \in AsFetched(files, bad) : f[1] # g[1]
      BY <3>1, <2>2, <1>1
    <3>3. QED
      BY <3>2, <2>2, <1>3 DEF Stored
  <2>3. QED
    BY <2>1, <2>2
<1>4. QED
  BY <1>2, <1>3

LEMMA AnswerInv == ASSUME DispatchInv, AuthTypeOK', NEW x \in Caller, Answer(x) PROVE DispatchInv'
<1>1. /\ stage' = [stage EXCEPT ![x] = "idle"] /\ ran' = [ran EXCEPT ![x] = 1]
      /\ syncPc' = [syncPc EXCEPT ![x] = "none"]
      /\ manifest' = [manifest EXCEPT ![x] = NoManifest]
      /\ sent' = [sent EXCEPT ![x] = 1]
      /\ missing' = [missing EXCEPT ![x] = {}] /\ spoilt' = [spoilt EXCEPT ![x] = {}]
      /\ overlapped' = [overlapped EXCEPT ![x] = FALSE]
      /\ authPc' = [authPc EXCEPT ![x] = "none"] /\ UNCHANGED <<box, uploads>>
  BY DEF Answer, SyncDone, AuthDone, Goto
<1>2. DispatchTypeOK'
  BY <1>1, UploadAssumption DEF DispatchInv, DispatchTypeOK, SyncPc, Stage, Box
<1>3. Staged'
  BY <1>1 DEF DispatchInv, DispatchTypeOK, AuthTypeOK, Staged
<1>4. Progress'
  BY <1>1 DEF DispatchInv, DispatchTypeOK, Progress, Reconciled
<1>5. QED
  BY <1>2, <1>3, <1>4 DEF DispatchInv

LEMMA RunToolInv ==
  ASSUME DispatchInv, AuthTypeOK', NEW x \in Caller, RunTool(x), authPc[x] = "accepted",
         syncPc[x] = "done" \/ manifest[x] = NoManifest
  PROVE  DispatchInv'
BY DEF RunTool, authVars, syncVars, DispatchInv, DispatchTypeOK, Stage, Staged, Progress, Reconciled

\* The steps before a sync: they touch one request's stage and key.
LEMMA AuthStageInv ==
  ASSUME DispatchInv, AuthTypeOK', NEW x \in Caller, Receive(x) \/ AuthorizeSession(x)
  PROVE  DispatchInv'
<1>1. \A y \in Caller \ {x} : authPc'[y] = authPc[y]
  <2>1. \E pc \in AuthPc : authPc' = [authPc EXCEPT ![x] = pc]
    BY DEF Receive, AuthorizeSession, Authorize, ValidateKey, AuthCacheStore, AuthPc
  <2>2. QED
    BY <2>1 DEF DispatchInv, DispatchTypeOK, AuthTypeOK
<1>2. /\ UNCHANGED <<ran, syncVars>> /\ stage[x] \in {"idle", "auth"}
      /\ stage' = [stage EXCEPT ![x] = "auth"]
  BY DEF Receive, AuthorizeSession, dispatchVars, DispatchInv, DispatchTypeOK
<1>3. stage' \in [Caller -> Stage] /\ stage'[x] = "auth"
      /\ \A y \in Caller \ {x} : stage'[y] = stage[y]
  BY <1>2 DEF DispatchInv, DispatchTypeOK, Stage
<1>4. QED
  BY <1>1, <1>2, <1>3 DEF syncVars, DispatchInv, DispatchTypeOK, Staged, Progress, Reconciled

LEMMA AuthorizedInv ==
  ASSUME DispatchInv, AuthTypeOK', NEW x \in Caller, Authorized(x) PROVE DispatchInv'
<1>1. CASE Answer(x)
  BY <1>1, AnswerInv
<1>2. CASE MayGoOn(x) /\ RunTool(x)
  <2>1. manifest[x] = NoManifest
    BY DEF Authorized, DispatchInv, Staged
  <2>2. QED
    BY <1>2, <2>1, RunToolInv DEF MayGoOn
<1>3. ASSUME NEW m \in Manifests, MayGoOn(x), SyncUploads(x, m), UNCHANGED <<ran, authVars>>,
             stage' = [stage EXCEPT ![x] = "sync"]
      PROVE  DispatchInv'
  <2>1. /\ manifest' = [manifest EXCEPT ![x] = m] /\ sent' = [sent EXCEPT ![x] = box]
        /\ syncPc' \in [Caller -> SyncPc] /\ syncPc'[x] \in {"manifest", "failed"}
        /\ \A y \in Caller \ {x} : syncPc'[y] = syncPc[y]
        /\ UNCHANGED <<box, uploads, missing, spoilt, overlapped, ran, authPc>>
    BY <1>3 DEF SyncUploads, Goto, SyncPc, authVars, DispatchInv, DispatchTypeOK
  <2>2. DispatchTypeOK'
    BY <1>3, <2>1 DEF DispatchInv, DispatchTypeOK, Stage
  <2>3. Staged'
    BY <1>3, <2>1 DEF MayGoOn, DispatchInv, DispatchTypeOK, Staged
  <2>4. Progress'
    BY <2>1 DEF DispatchInv, DispatchTypeOK, Progress, Reconciled
  <2>5. QED
    BY <2>2, <2>3, <2>4 DEF DispatchInv
<1>4. QED
  BY <1>1, <1>2, <1>3 DEF Authorized

LEMMA ReplacedInv ==
  ASSUME DispatchInv, AuthTypeOK', Replaced, UNCHANGED <<dispatchVars, authVars>>
  PROVE  DispatchInv'
<1>1. box' \in Box
  BY UploadAssumption DEF Replaced, Box, DispatchInv, DispatchTypeOK
<1>2. QED
  BY <1>1 DEF Replaced, dispatchVars, authVars, DispatchInv, DispatchTypeOK, Staged, Progress, Reconciled

\* After a request that changed a container, whoever else is not overlapped has
\* the same manifest, none of whose files it spoilt, or another container, or has
\* not sent its manifest yet.
LEMMA TouchSpares ==
  ASSUME DispatchInv, NEW x \in Caller, Touch(x)
  PROVE  /\ overlapped' \in [Caller -> BOOLEAN]
         /\ \A y \in Caller : ~overlapped'[y] =>
              /\ ~overlapped[y]
              /\ \/ y = x \/ sent[y] # sent[x] \/ syncPc[y] \in {"none", "manifest"}
                 \/ manifest[y] = manifest[x] /\ spoilt[x] = {}
BY DEF Touch, DispatchInv, DispatchTypeOK

LEMMA SendManifestInv ==
  ASSUME DispatchInv, AuthTypeOK', NEW x \in Caller, SendManifest(x), stage[x] = "sync",
         UNCHANGED <<dispatchVars, authVars>>
  PROVE  DispatchInv'
<1>1. /\ syncPc[x] = "manifest" /\ manifest[x] \in Manifests /\ manifest[x] \subseteq File
      /\ UNCHANGED <<box, manifest, sent, spoilt, stage, ran, authPc>>
  BY UploadAssumption DEF SendManifest, DispatchInv, Staged, dispatchVars, authVars
<1>2. /\ \/ Drop(x) /\ Touch(x)
         \/ UNCHANGED <<uploads, overlapped>>
      /\ \E pc \in {"done", "fetch", "failed"} :
           /\ syncPc' = [syncPc EXCEPT ![x] = pc]
           /\ \/ pc = "failed" /\ UNCHANGED missing
              \/ /\ pc \in {"done", "fetch"} /\ Drop(x) /\ Touch(x)
                 /\ missing' = [missing EXCEPT ![x] = manifest[x] \ uploads[sent[x]]]
                 /\ pc = "done" => missing'[x] = {}
  BY DEF SendManifest, Goto, AfterRefusal
<1>3. PICK pc \in {"done", "fetch", "failed"} :
           /\ syncPc' = [syncPc EXCEPT ![x] = pc]
           /\ \/ pc = "failed" /\ UNCHANGED missing
              \/ /\ pc \in {"done", "fetch"} /\ Drop(x) /\ Touch(x)
                 /\ missing' = [missing EXCEPT ![x] = manifest[x] \ uploads[sent[x]]]
                 /\ pc = "done" => missing'[x] = {}
  BY <1>2
<1>4. /\ uploads' \in [Box -> SUBSET Content] /\ overlapped' \in [Caller -> BOOLEAN]
      /\ missing' \in [Caller -> SUBSET File]
  BY <1>1, <1>2, <1>3, TouchSpares DEF Drop, DispatchInv, DispatchTypeOK
<1>5. DispatchTypeOK'
  BY <1>1, <1>3, <1>4 DEF DispatchInv, DispatchTypeOK, SyncPc
<1>6. Staged'
  BY <1>1, <1>3 DEF DispatchInv, DispatchTypeOK, Staged
<1>7. Progress'
  <2> SUFFICES ASSUME NEW y \in Caller
               PROVE  /\ syncPc'[y] \in {"fetch", "blobs"} => missing'[y] \subseteq manifest'[y]
                      /\ syncPc'[y] \in {"fetch", "blobs"} /\ ~overlapped'[y] =>
                           /\ uploads'[sent'[y]] \subseteq manifest'[y]
                           /\ manifest'[y] \ missing'[y] \subseteq uploads'[sent'[y]]
                      /\ syncPc'[y] = "done" /\ ~overlapped'[y] => Reconciled(y)'
    BY DEF Progress
  <2>1. CASE y = x
    <3>1. syncPc'[y] = pc
      BY <2>1, <1>3 DEF DispatchInv, DispatchTypeOK
    <3>2. CASE pc # "failed"
      <4>1. /\ uploads'[sent[x]] = uploads[sent[x]] \cap manifest[x]
            /\ missing'[x] = manifest[x] \ uploads[sent[x]]
            /\ pc = "done" => missing'[x] = {}
        BY <3>2, <1>3 DEF Drop, DispatchInv, DispatchTypeOK
      <4>2. pc = "done" => Reconciled(x)'
        BY <4>1, <1>1 DEF Reconciled
      <4>3. QED
        BY <4>1, <4>2, <3>1, <2>1, <1>1, <1>3
    <3>3. QED
      BY <3>1, <3>2
  <2>2. CASE y # x
    <3>1. syncPc'[y] = syncPc[y] /\ missing'[y] = missing[y]
      BY <2>2, <1>3 DEF DispatchInv, DispatchTypeOK
    <3>2. CASE UNCHANGED <<uploads, overlapped>>
      BY <3>1, <3>2, <1>1 DEF DispatchInv, Progress, Reconciled
    <3>3. CASE Drop(x) /\ Touch(x)
      <4>1. CASE sent[y] # sent[x]
        BY <4>1, <3>1, <3>3, <1>1, TouchSpares DEF Drop, DispatchInv, DispatchTypeOK, Progress, Reconciled
      <4>2. CASE sent[y] = sent[x] /\ syncPc[y] # "none" /\ manifest[y] = manifest[x]
        BY <4>2, <3>1, <3>3, <1>1, TouchSpares DEF Drop, DispatchInv, DispatchTypeOK, Progress, Reconciled
      <4>3. CASE sent[y] = sent[x] /\ (syncPc[y] = "none" \/ manifest[y] # manifest[x])
        BY <4>3, <3>1, <3>3, <1>1, TouchSpares, UploadAssumption
           DEF DispatchInv, DispatchTypeOK, Staged, Progress
      <4>4. QED
        BY <4>1, <4>2, <4>3
    <3>4. QED
      BY <3>2, <3>3, <1>2
  <2>3. QED
    BY <2>1, <2>2
<1>8. QED
  BY <1>5, <1>6, <1>7 DEF DispatchInv

LEMMA FetchFilesInv ==
  ASSUME DispatchInv, AuthTypeOK', NEW x \in Caller, FetchFiles(x), stage[x] = "sync",
         UNCHANGED <<dispatchVars, authVars>>
  PROVE  DispatchInv'
<1>1. /\ syncPc[x] = "fetch"
      /\ UNCHANGED <<box, uploads, manifest, sent, missing, overlapped, stage, ran, authPc>>
      /\ \E pc \in {"blobs", "failed"} : syncPc' = [syncPc EXCEPT ![x] = pc]
  BY DEF FetchFiles, Goto, dispatchVars, authVars
<1>2. DispatchTypeOK'
  <2>1. spoilt' \in [Caller -> SUBSET File]
    BY DEF FetchFiles, DispatchInv, DispatchTypeOK
  <2>2. syncPc' \in [Caller -> SyncPc]
    BY <1>1 DEF DispatchInv, DispatchTypeOK, SyncPc
  <2>3. QED
    BY <1>1, <2>1, <2>2 DEF DispatchInv, DispatchTypeOK
<1>3. Staged'
  BY <1>1 DEF DispatchInv, DispatchTypeOK, Staged
<1>4. Progress'
  <2> SUFFICES ASSUME NEW y \in Caller
               PROVE  /\ syncPc'[y] \in {"fetch", "blobs"} => missing'[y] \subseteq manifest'[y]
                      /\ syncPc'[y] \in {"fetch", "blobs"} /\ ~overlapped'[y] =>
                           /\ uploads'[sent'[y]] \subseteq manifest'[y]
                           /\ manifest'[y] \ missing'[y] \subseteq uploads'[sent'[y]]
                      /\ syncPc'[y] = "done" /\ ~overlapped'[y] => Reconciled(y)'
    BY DEF Progress
  <2>1. CASE y = x
    BY <2>1, <1>1 DEF DispatchInv, DispatchTypeOK, Progress
  <2>2. CASE y # x
    <3>1. syncPc'[y] = syncPc[y] /\ spoilt'[y] = spoilt[y]
      BY <2>2, <1>1 DEF FetchFiles, DispatchInv, DispatchTypeOK
    <3>2. QED
      BY <3>1, <1>1 DEF DispatchInv, Progress, Reconciled
  <2>3. QED
    BY <2>1, <2>2
<1>5. QED
  BY <1>2, <1>3, <1>4 DEF DispatchInv

LEMMA SendBlobsInv ==
  ASSUME DispatchInv, AuthTypeOK', NEW x \in Caller, SendBlobs(x), stage[x] = "sync",
         UNCHANGED <<dispatchVars, authVars>>
  PROVE  DispatchInv'
<1>1. /\ syncPc[x] = "blobs" /\ manifest[x] \in Manifests /\ manifest[x] \subseteq File
      /\ missing[x] \subseteq manifest[x]
      /\ missing' = [missing EXCEPT ![x] = {}]
      /\ UNCHANGED <<box, manifest, sent, stage, ran, authPc>> /\ Touch(x)
  BY UploadAssumption DEF SendBlobs, DispatchInv, Staged, Progress, dispatchVars, authVars
<1>2. PICK files \in SUBSET missing[x], pc \in {"done", "failed"} :
        /\ uploads' = [uploads EXCEPT ![sent[x]] = Stored(@, AsFetched(files, spoilt[x]))]
        /\ syncPc' = [syncPc EXCEPT ![x] = pc]
        /\ pc = "done" => missing[x] \ spoilt[x] \subseteq files /\ UNCHANGED spoilt
        /\ UNCHANGED spoilt \/ spoilt' = [spoilt EXCEPT ![x] = {}]
  BY DEF SendBlobs, Blobs, Goto, AfterRefusal
<1> DEFINE there == uploads[sent[x]]
           after == Stored(there, AsFetched(files, spoilt[x]))
<1>3. DispatchTypeOK'
  <2>1. after \subseteq Content
    <3>1. there \subseteq Content /\ spoilt[x] \subseteq File /\ files \subseteq File
      BY <1>1 DEF DispatchInv, DispatchTypeOK
    <3>2. AsFetched(files, spoilt[x]) \subseteq Content
      BY <3>1 DEF AsFetched, File, Content
    <3>3. QED
      BY <3>1, <3>2 DEF Stored
  <2>2. QED
    BY <2>1, <1>1, <1>2, TouchSpares DEF DispatchInv, DispatchTypeOK, SyncPc
<1>4. Staged'
  BY <1>1, <1>2 DEF DispatchInv, DispatchTypeOK, Staged
<1>5. /\ (manifest[x] \ spoilt[x]) \cap (there \cup files) \subseteq after
      /\ after \subseteq there \cup files \cup AsFetched(spoilt[x], spoilt[x])
  BY <1>1, StoredAdds
<1>6. Progress'
  <2> SUFFICES ASSUME NEW y \in Caller
               PROVE  /\ syncPc'[y] \in {"fetch", "blobs"} => missing'[y] \subseteq manifest'[y]
                      /\ syncPc'[y] \in {"fetch", "blobs"} /\ ~overlapped'[y] =>
                           /\ uploads'[sent'[y]] \subseteq manifest'[y]
                           /\ manifest'[y] \ missing'[y] \subseteq uploads'[sent'[y]]
                      /\ syncPc'[y] = "done" /\ ~overlapped'[y] => Reconciled(y)'
    BY DEF Progress
  <2>0. uploads'[sent[x]] = after
    BY <1>2 DEF DispatchInv, DispatchTypeOK
  <2>1. CASE y = x
    <3>1. syncPc'[y] = pc
      BY <2>1, <1>2 DEF DispatchInv, DispatchTypeOK
    <3>2. CASE pc = "done" /\ ~overlapped'[y]
      <4>1. ~overlapped[x] /\ missing[x] \ spoilt[x] \subseteq files /\ UNCHANGED spoilt
        BY <3>2, <2>1, <1>1, <1>2, TouchSpares
      <4>2. there \subseteq manifest[x] /\ manifest[x] \ missing[x] \subseteq there
        BY <4>1, <1>1 DEF DispatchInv, Progress
      <4>3. manifest[x] \ spoilt[x] \subseteq after
        BY <4>1, <4>2, <1>5
      <4>4. after \subseteq manifest[x] \cup AsFetched(spoilt[x], spoilt[x])
        BY <4>2, <1>1, <1>5
      <4>5. Reconciled(y)'
        BY <4>1, <4>3, <4>4, <2>0, <2>1, <1>1 DEF Reconciled
      <4>6. QED
        BY <4>5, <3>1, <3>2
    <3>3. QED
      BY <3>1, <3>2
  <2>2. CASE y # x
    <3>1. syncPc'[y] = syncPc[y] /\ missing'[y] = missing[y] /\ spoilt'[y] = spoilt[y]
      BY <2>2, <1>1, <1>2 DEF DispatchInv, DispatchTypeOK
    <3>2. CASE sent[y] # sent[x]
      <4>1. uploads'[sent[y]] = uploads[sent[y]] /\ (~overlapped'[y] => ~overlapped[y])
        BY <3>2, <1>1, <1>2, TouchSpares DEF DispatchInv, DispatchTypeOK
      <4>2. QED
        BY <4>1, <3>1, <1>1 DEF DispatchInv, Progress, Reconciled
    <3>3. CASE sent[y] = sent[x] /\ ~(manifest[y] = manifest[x] /\ spoilt[x] = {})
      <4>1. ~overlapped'[y] => syncPc[y] \in {"none", "manifest"}
        BY <3>3, <2>2, <1>1, TouchSpares
      <4>2. QED
        BY <4>1, <3>1, <1>1 DEF DispatchInv, Progress
    <3>4. CASE sent[y] = sent[x] /\ manifest[y] = manifest[x] /\ spoilt[x] = {}
      <4>1. manifest[y] \cap (there \cup files) \subseteq after
        BY <3>4, <1>5
      <4>2. after \subseteq there \cup manifest[y]
        BY <3>4, <1>1, <1>5 DEF AsFetched
      <4>3. uploads'[sent[y]] = after /\ (~overlapped'[y] => ~overlapped[y])
        BY <3>4, <2>0, <1>1, TouchSpares
      <4>4. QED
        BY <4>1, <4>2, <4>3, <3>1, <3>4, <1>1 DEF DispatchInv, Progress, Reconciled
    <3>5. QED
      BY <3>2, <3>3, <3>4
  <2>3. QED
    BY <2>1, <2>2
<1>7. QED
  BY <1>3, <1>4, <1>6 DEF DispatchInv

LEMMA DispatchStep == AuthTypeOK' /\ DispatchInv /\ [Next]_vars => DispatchInv'
<1> SUFFICES ASSUME AuthTypeOK', DispatchInv, [Next]_vars PROVE DispatchInv'
  OBVIOUS
<1>1. CASE Tick /\ UNCHANGED <<dispatchVars, syncVars>>
  BY <1>1 DEF Tick, dispatchVars, syncVars, DispatchInv, DispatchTypeOK, Staged, Progress, Reconciled
<1>2. CASE Replaced /\ UNCHANGED <<dispatchVars, authVars>>
  BY <1>2, ReplacedInv
<1>3. ASSUME NEW x \in Caller, Receive(x) \/ AuthorizeSession(x) PROVE DispatchInv'
  BY <1>3, AuthStageInv
<1>4. ASSUME NEW x \in Caller, Authorized(x) PROVE DispatchInv'
  BY <1>4, AuthorizedInv
<1>5. ASSUME NEW x \in Caller, SyncStep(x) PROVE DispatchInv'
  BY <1>5, SendManifestInv, FetchFilesInv, SendBlobsInv DEF SyncStep
<1>6. ASSUME NEW x \in Caller, Synced(x) PROVE DispatchInv'
  <2>1. authPc[x] = "accepted"
    BY <1>6 DEF Synced, DispatchInv, Staged
  <2>2. QED
    BY <2>1, <1>6, AnswerInv, RunToolInv DEF Synced
<1>7. ASSUME NEW x \in Caller, ToolAnswers(x) PROVE DispatchInv'
  BY <1>7, AnswerInv DEF ToolAnswers
<1>8. CASE UNCHANGED vars
  BY <1>8 DEF vars, syncVars, dispatchVars, authVars, DispatchInv, DispatchTypeOK, Staged, Progress, Reconciled
<1>9. QED
  BY <1>1, <1>2, <1>3, <1>4, <1>5, <1>6, <1>7, <1>8 DEF Next

LEMMA DispatchInvariant == Spec => []DispatchInv
<1>1. AuthInv => AuthTypeOK
  BY DEF AuthInv
<1>2. QED
  BY <1>1, InitDispatch, DispatchStep, AuthInvariant, DispatchAuthorizes, PTL DEF Spec

\* Every variable of a tools/call keeps its type.
THEOREM DispatchTypes == Spec => []DispatchTypeOK
<1>1. DispatchInv => DispatchTypeOK
  BY DEF DispatchInv
<1>2. QED
  BY <1>1, DispatchInvariant, PTL

\* HandleMCPRequest lets nothing through to the executor that AuthorizeSession
\* did not accept on a recent word of the controlplane.
THEOREM ExecutorIsGuarded == Spec => []ExecutorNeedsKey
<1>1. DispatchInv /\ RevocationIsBounded => ExecutorNeedsKey
  BY DEF DispatchInv, Staged, RevocationIsBounded, ExecutorNeedsKey
<1>2. QED
  BY <1>1, DispatchInvariant, RevocationBounded, PTL

\* A tool sees every file of its manifest that the store delivered, and nothing
\* else but what it delivered for the others (SyncUploads), whatever failed on
\* the way, unless another call or another container came between.
THEOREM ToolsSeeTheirManifest == Spec => []ToolSeesManifest
<1>1. DispatchInv => ToolSeesManifest
  BY DEF DispatchInv, Staged, Progress, Reconciled, RunsOnItsSync, ToolSeesManifest
<1>2. QED
  BY <1>1, DispatchInvariant, PTL
=============================================================================
