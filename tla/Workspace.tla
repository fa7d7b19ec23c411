----------------------------- MODULE Workspace -----------------------------
(***************************************************************************)
(* What the pools of Manager are for: the files.  Every action here is an  *)
(* action of Manager together with what it does to the workspaces of the   *)
(* containers, to the items of the object store, and to the tars on their  *)
(* way between the two (src/snapshot.go, src/proxy.go).  Attempts of       *)
(* httpRetry that are retried are steps in which Manager stutters.         *)
(*                                                                         *)
(* A workspace is the set of the writes it holds.  The executor and the    *)
(* object store are not part of the repository; the assumptions about them *)
(* are these, and are modelled where src/ relies on them:                  *)
(*  - the executor applies a call at most once, and acknowledges only what *)
(*    it applied; it answers 403 exactly when the call's auth token is not *)
(*    the one its gate locked to, which is the first it saw (proxy.go:64); *)
(*    every request brings its token along, and nothing holds those of one *)
(*    session to be the same;                                              *)
(*  - the store answers 404 exactly for an item that was never stored;     *)
(*  - a request takes effect before its attempt ends, or never.            *)
(***************************************************************************)
EXTENDS Manager

CONSTANTS
  Attempts,    \* bucketPutAttempts, pushRestoreAttempts
  MaxWrites    \* bound: writes per session

Write == Token \X (1 .. MaxWrites)

ASSUME WorkspaceAssumption ==
  /\ Attempts \in Nat \ {0} /\ MaxWrites \in Nat
  /\ \A files \in SUBSET Write : files # None

VARIABLES
  ws,       \* /workspace of each container
  gate,     \* the session with one of whose auth tokens the executor's gate locked
  item,     \* /items/{accessToken} in the store
  tar,      \* the tar in the memory of a request or of an eviction
  tries,    \* attempts of the httpRetry of a request or of an eviction
  written,  \* history: how many writes each session has sent
  acked,    \* history: the writes that were acknowledged to their caller
  unsaved,  \* history: writes held by a workspace whose snapshot failed, or that a
            \* 403 destroyed
  late      \* history: writes acknowledged by a container after its snapshot

dataVars == <<ws, gate, item, tar, tries, written, acked, unsaved, late>>
wvars == <<vars, dataVars>>

Own(t) == {t} \X (1 .. MaxWrites)

WInit ==
  /\ Init
  /\ ws = [c \in Container |-> {}] /\ gate = [c \in Container |-> None]
  /\ item = [t \in Token |-> None]
  /\ tar = [h \in Caller \cup Container |-> {}]
  /\ tries = [h \in Caller \cup Container |-> 0]
  /\ written = [t \in Token |-> 0]
  /\ acked = {} /\ unsaved = {} /\ late = {}

----------------------------------------------------------------------------
(* The executor.                                                           *)

\* The gate may let a request of session t in...
GateOpen(c, t) == gate[c] \in {None, t}

\* ...or refuse it, of whatever session it is: its token may be another one.
GateRefuses(c) == gate[c] # None

\* An answer other than 403: handleAuthGate returns at once.
GatePassed == sessions' = sessions /\ status' = status

\* The files of the tar are laid over what is there.
Restored(c, files) == [ws EXCEPT ![c] = @ \cup files]

\* The workspace of c still reaches the store, if nothing fails.
WillBeSaved(c) ==
  c \in SessionContainers \/ evPc[c] \in {"sem", "snapshot"}

----------------------------------------------------------------------------
(* One attempt of an httpRetry.  It settles the exchange or is repeated: an *)
(* error that is not transient settles it, and so do the last attempt and a *)
(* context that is cancelled during the back-off.                           *)

MayRetry_OneMore(h) == tries[h] < Attempts
MayRetry(h) == tries[h] + 1 < Attempts
Retry(h) == tries' = [tries EXCEPT ![h] = @ + 1] /\ UNCHANGED <<vars, tar>>
Settle(h) ==
  /\ tries' = [tries EXCEPT ![h] = 0]
  /\ tar' = [tar EXCEPT ![h] = {}]

----------------------------------------------------------------------------
(* Restore: Buckets.fetch and pushRestore.                                 *)

FetchAnswers_AnyRefusalEmpty(t) ==
  IF item[t] = None THEN {"empty", "error"} ELSE {"tar", "empty", "error"}
\* Only a 404 means that there is no snapshot; every other failure, after the
\* retries, is an error.  (A GET changes nothing: its attempts are one step.)
FetchAnswers(t) == IF item[t] = None THEN {"empty", "error"} ELSE {"tar", "error"}

FetchItem(x) ==
  LET t == req[x].tok IN
  /\ Fetch(x)
  /\ \/ "tar" \in FetchAnswers(t) /\ pc'[x] = "push"
        /\ tar' = [tar EXCEPT ![x] = item[t]]
     \/ "empty" \in FetchAnswers(t) /\ pc'[x] = "commit" /\ UNCHANGED tar
     \/ "error" \in FetchAnswers(t) /\ pc'[x] = "idle" /\ UNCHANGED tar
  /\ UNCHANGED <<ws, gate, item, tries, written, acked, unsaved, late>>

\* The executor unpacked the tar, whatever becomes of its answer.
Unpack(x) ==
  /\ GateOpen(held[x], req[x].tok)
  /\ ws' = Restored(held[x], tar[x])
  /\ gate' = [gate EXCEPT ![held[x]] = req[x].tok]

PushRestoreOnce(x) ==
  /\ pc[x] = "push"
  /\ \/ \* 200
        /\ Unpack(x)
        /\ Push(x) /\ pc'[x] = "commit" /\ Settle(x)
     \/ \* 4xx: of the gate, or of /restore
        /\ UNCHANGED <<ws, gate>>
        /\ Push(x) /\ status'[held[x]] = "failed" /\ Settle(x)
     \/ \* 5xx or no answer, and the tar may have been unpacked all the same
        /\ Unpack(x) \/ UNCHANGED <<ws, gate>>
        /\ \/ MayRetry(x) /\ Retry(x)
           \/ Push(x) /\ held[x] \in warmPool' /\ Settle(x)
  /\ UNCHANGED <<item, written, acked, unsaved, late>>

----------------------------------------------------------------------------
(* Tool calls.                                                             *)

\* The executor carries out the n-th write of session t.
Apply(c, t, n) ==
  /\ ws' = [ws EXCEPT ![c] = @ \cup {<<t, n>>}]
  /\ gate' = [gate EXCEPT ![c] = t]

\* A call that writes, answered or not, or a call that the gate refuses.
ProxyCall(x) ==
  LET c == held[x]  t == req[x].tok  n == written[t] + 1 IN
  /\ Proxy(x)
  /\ \/ \* answered
        /\ GateOpen(c, t) /\ n <= MaxWrites /\ GatePassed
        /\ Apply(c, t, n)
        /\ written' = [written EXCEPT ![t] = n]
        /\ acked' = acked \cup {<<t, n>>}
        /\ late' = IF WillBeSaved(c) THEN late ELSE late \cup {<<t, n>>}
        /\ unsaved' = unsaved
     \/ \* "container unavailable", carried out or not
        /\ GatePassed
        /\ \/ GateOpen(c, t) /\ n <= MaxWrites /\ Apply(c, t, n)
              /\ written' = [written EXCEPT ![t] = n]
           \/ UNCHANGED <<ws, gate, written>>
        /\ UNCHANGED <<acked, unsaved, late>>
     \/ \* 403: the session's container is destroyed without a snapshot
        /\ GateRefuses(c) /\ HandleAuthGate(c, "forbidden")
        /\ unsaved' = unsaved \cup
             UNION {ws[sessions[u]] : u \in SessionTokens \cap {accessToken[c]}}
        /\ UNCHANGED <<ws, gate, written, acked, late>>
  /\ UNCHANGED <<item, tar, tries>>

----------------------------------------------------------------------------
(* Snapshot: fetchSnapshotFromContainer and Buckets.put.                   *)

SnapshotTars_NoTrailer(c) == SUBSET ws[c]
\* Without the trailer "ok" the stream was cut short, and is no snapshot.
SnapshotTars(c) == {ws[c]}

\* /snapshot needs no auth token, and so never answers 403.
TakeSnapshot(c) ==
  /\ EvictSnapshot(c) /\ GatePassed
  /\ \/ /\ evPc'[c] = "put"
        /\ \E files \in SnapshotTars(c) : tar' = [tar EXCEPT ![c] = files]
        /\ UNCHANGED unsaved
     \/ /\ evPc'[c] = "delete"
        /\ unsaved' = unsaved \cup ws[c]
        /\ UNCHANGED tar
  /\ UNCHANGED <<ws, gate, item, tries, written, acked, late>>

Store(c) == item' = [item EXCEPT ![accessToken[c]] = tar[c]]

PutOnce(c) ==
  /\ evPc[c] = "put"
  /\ \/ \* 2xx
        /\ Store(c)
        /\ EvictPut(c) /\ Settle(c) /\ UNCHANGED unsaved
     \/ \* 4xx
        /\ UNCHANGED item
        /\ EvictPut(c) /\ Settle(c) /\ unsaved' = unsaved \cup tar[c]
     \/ \* 5xx or no answer, and the item may have been stored all the same
        /\ Store(c) \/ UNCHANGED item
        /\ \/ MayRetry(c) /\ Retry(c) /\ UNCHANGED unsaved
           \/ /\ ~MayRetry(c) \/ CtxDone(c)
              /\ EvictPut(c) /\ Settle(c) /\ unsaved' = unsaved \cup tar[c]
  /\ UNCHANGED <<ws, gate, written, acked, late>>

----------------------------------------------------------------------------
\* The steps of Manager that move no data.  (A snapshot is skipped only during
\* shutdown, where the histories are no longer read.)
Bookkeeping ==
  /\ \/ PoolManager
     \/ \E x \in Caller :
          \/ Call(x) \/ GetOrAssign(x) \/ CheckKey(x) \/ LockSession(x)
          \/ PopWarm(x) \/ GiveUp(x) \/ Probe(x) \/ Commit(x)
     \/ \E c \in Container :
          \/ EvictWarm(c) \/ EvictSem(c) \/ EvictCancelled(c) \/ EvictDelete(c)
          \/ RunDelete(c)
     \/ \E t \in Token : EvictIdleSessions(t) \/ ScanSessionHealth(t)
     \/ \E c \in Container, l \in Lock, scan \in Scan : EvictClaim(c, l, scan)
     \/ \E c \in Container : SweepDelete(c)
     \/ Finish
  /\ UNCHANGED dataVars

WNext ==
  \/ Bookkeeping
  \/ \E x \in Caller : FetchItem(x) \/ PushRestoreOnce(x) \/ ProxyCall(x)
  \/ \E c \in Container : TakeSnapshot(c) \/ PutOnce(c)

WSpec == WInit /\ [][WNext]_wvars

----------------------------------------------------------------------------
(* Safety.                                                                 *)

WTypeOK ==
  /\ ws \in [Container -> SUBSET Write]
  /\ gate \in [Container -> Token \cup {None}]
  /\ item \in [Token -> (SUBSET Write) \cup {None}]
  /\ tar \in [Caller \cup Container -> SUBSET Write]
  /\ tries \in [Caller \cup Container -> 0 .. Attempts - 1]
  /\ written \in [Token -> 0 .. MaxWrites]
  /\ acked \subseteq Write /\ unsaved \subseteq Write /\ late \subseteq Write

\* Where write w of session t still is: in its container, in a container whose
\* snapshot is yet to be taken, in a snapshot on its way, or in the store.
Kept(w, t) ==
  \/ sessions[t] # None /\ w \in ws[sessions[t]]
  \/ \E c \in Container : accessToken[c] = t /\ evPc[c] \in {"sem", "snapshot"} /\ w \in ws[c]
  \/ \E c \in Container : accessToken[c] = t /\ evPc[c] = "put" /\ w \in tar[c]
  \/ item[t] # None /\ w \in item[t]

\* Until shutdown, an acknowledged write is never silently lost: it is in one
\* of these places, unless the snapshot of the workspace that held it failed,
\* a 403 destroyed that workspace, or it was acknowledged after that snapshot.
\* Restores, retries, recycled containers and reassignments must not bring an
\* older workspace back (GetOrAssign, evictAndSnapshot; without a bearer nothing
\* is stored).
AcknowledgedSurvives ==
  Bearer = {TRUE} /\ ~Done =>
    \A t \in Token : \A w \in acked \cap Own(t) : Kept(w, t) \/ w \in unsaved \cup late

\* Until shutdown, a session's container holds all that its item holds: it was
\* restored from the latest snapshot, and none was stored since ("resume: GET
\* /items/{accessToken} ... before user traffic hits it", snapshot.go; without a
\* bearer nothing is restored).
ResumedFromLatest ==
  Bearer = {TRUE} /\ ~Done =>
    \A t \in SessionTokens :
      item[t] # None => item[t] \subseteq ws[sessions[t]]

----------------------------------------------------------------------------
(* What the documentation says, and the code does not do (see README).     *)

\* README: reuse the accessToken across calls and "state persists in
\* /workspace".  A call that is running when its idle session is evicted
\* writes after the snapshot, and is acknowledged.
StatePersists ==
  ~Done => \A t \in Token : \A w \in acked \cap Own(t) : Kept(w, t) \/ w \in unsaved

\* manager.go: a container goes back to the warm pool "untouched".  A restore
\* that was applied although its answers were lost leaves a workspace in it.
RecycledUntouched ==
  \A c \in warmPool : ws[c] = {} /\ gate[c] = None
=============================================================================
