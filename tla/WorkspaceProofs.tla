-------------------------- MODULE WorkspaceProofs --------------------------
(***************************************************************************)
(* Acknowledged writes survive, for every value of the constants.  Moving  *)
(* the data changes nothing about the containers (WSpec => Spec), so what  *)
(* the mutex of a session guarantees holds here too; from it, until        *)
(* SIGTERM, a snapshot is never older than the item it replaces, and a     *)
(* restore never older than the last snapshot (DataInv).                   *)
(***************************************************************************)
EXTENDS Workspace, SerializationProofs

(* The files do not get in the way of the pools: each step of Workspace is a
   step of Manager, or an attempt of an exchange that will be repeated. *)
THEOREM WorkspaceIsManager == WSpec => Spec
<1>1. WInit => Init
  BY DEF WInit
<1>2. [WNext]_wvars => [Next]_vars
  <2>1. Bookkeeping => Next
    BY DEF Bookkeeping, Next, CallerStep, EvictAndSnapshot
  <2>2. ASSUME NEW x \in Caller, FetchItem(x) \/ PushRestoreOnce(x) \/ ProxyCall(x)
        PROVE  CallerStep(x) \/ UNCHANGED vars
    BY <2>2 DEF FetchItem, PushRestoreOnce, ProxyCall, CallerStep, Retry
  <2>3. ASSUME NEW c \in Container, TakeSnapshot(c) \/ PutOnce(c)
        PROVE  EvictAndSnapshot(c) \/ UNCHANGED vars
    BY <2>3 DEF TakeSnapshot, PutOnce, EvictAndSnapshot, Retry
  <2>4. UNCHANGED wvars => UNCHANGED vars
    BY DEF wvars
  <2> QED BY <2>1, <2>2, <2>3, <2>4 DEF WNext, Next
<1> QED BY <1>1, <1>2, PTL DEF WSpec, Spec

----------------------------------------------------------------------------
(* Who holds which container, until SIGTERM.  A session's container has a
   bearer to snapshot with; a request calls a container of its own session,
   bound to it now or before; while one is evicted its session has no other. *)

BearerKept == Bearer = {TRUE} => \A t \in SessionTokens : bearer[sessions[t]] = TRUE
CallsOwn == \A x \in Caller : pc[x] \in {"found", "call"} => accessToken[held[x]] = req[x].tok
EvictedAlone == \A c \in Container : ~Settled(c) => sessions[accessToken[c]] = None

HoldInv == ~Done => BearerKept /\ CallsOwn /\ EvictedAlone

LEMMA InitHold == Init => HoldInv
BY DEF Init, HoldInv, BearerKept, CallsOwn, EvictedAlone, SessionTokens, Settled

LEMMA PoolManagerHold ==
  ASSUME SerialInv, HoldInv, PoolManager PROVE HoldInv'
<1>1. UNCHANGED <<sessions, evPc, accessToken, bearer, pc, held, req, phase>>
  BY DEF PoolManager, Replenish, CreateContainer, StopCreating, Register, PollInflight,
         Promote, PoolStop, containerVars, callerVars, evictVars, finishVars
<1> QED BY <1>1 DEF HoldInv, BearerKept, CallsOwn, EvictedAlone, SessionTokens, Settled, Done

\* A step that unbinds sessions or leaves them, and starts no eviction or call.
LEMMA FrameHold ==
  ASSUME SerialInv, HoldInv, phase' = phase, UNCHANGED accessToken,
         \A t \in Token : sessions'[t] \in {sessions[t], None},
         \A c \in Container : bearer'[c] \in {bearer[c], TRUE},
         \A c \in Container : Settled(c) => Settled(c)',
         \A x \in Caller : pc'[x] \in {"found", "call"} =>
            \/ pc[x] \in {"found", "call"} /\ held'[x] = held[x] /\ req'[x] = req[x]
            \/ accessToken[held'[x]] = req'[x].tok
  PROVE  HoldInv'
<1> SUFFICES ASSUME ~Done PROVE BearerKept' /\ CallsOwn' /\ EvictedAlone'
  BY DEF HoldInv, Done
<1>1. sessions \in [Token -> Container \cup {None}] /\ evPc \in [Container -> EvictPc]
  BY DEF SerialInv, CarryInv, OwnerInv, TypeInv, TypeOK
<1>2. BearerKept'
  BY <1>1 DEF HoldInv, BearerKept, SessionTokens
<1>3. CallsOwn'
  BY DEF HoldInv, CallsOwn
<1>4. EvictedAlone'
  <2> SUFFICES ASSUME NEW c \in Container, ~Settled(c)' PROVE sessions'[accessToken[c]] = None
    BY DEF EvictedAlone
  <2>1. sessions[accessToken[c]] = None
    BY DEF HoldInv, EvictedAlone
  <2>2. accessToken[c] \in Token
    BY DEF SerialInv, LockInv, Settled, Swept, Done
  <2> QED BY <2>1, <2>2
<1> QED BY <1>2, <1>3, <1>4

\* What a session is bound to carries its token.
LEMMA BoundCarries ==
  ASSUME SerialInv, NEW t \in Token, sessions[t] # None
  PROVE  sessions[t] \in Container /\ accessToken[sessions[t]] = t
BY DEF SerialInv, CarryInv, OwnerInv, TypeInv, TypeOK, SessionBinding, SessionTokens

LEMMA CallerHold ==
  ASSUME SerialInv, HoldInv, NEW x \in Caller, Call(x) \/ CallerStep(x) PROVE HoldInv'
<1> DEFINE Same(y) == /\ pc'[y] = pc[y] /\ held'[y] = held[y] /\ req'[y] = req[y]
<1> SUFFICES ASSUME ~Done PROVE HoldInv'
  BY DEF HoldInv, Done, Call, CallerStep, GetOrAssign, CheckKey, LockSession, PopWarm, GiveUp,
         Probe, Fetch, Push, Commit, Proxy, finishVars
<1>0. /\ phase' = phase /\ evPc' = evPc /\ \A y \in Caller \ {x} : Same(y)
      /\ pc \in [Caller -> CallPc] /\ held \in [Caller -> Container \cup {None}]
      /\ req \in [Caller -> Request \cup {None}] /\ bearer \in [Container -> BOOLEAN]
      /\ sessions \in [Token -> Container \cup {None}]
  BY DEF SerialInv, CarryInv, OwnerInv, TypeInv, TypeOK, Call, CallerStep, GetOrAssign, CheckKey,
         LockSession, PopWarm, GiveUp, Probe, Fetch, Push, Commit, Proxy, Refuse, Return,
         callerVars, evictVars, finishVars
<1>1. CASE Call(x) \/ PopWarm(x) \/ GiveUp(x) \/ Probe(x) \/ Fetch(x) \/ Push(x)
  <2>1. UNCHANGED <<accessToken, sessions, bearer>> /\ pc'[x] \notin {"found", "call"}
    BY <1>0, <1>1 DEF Call, PopWarm, GiveUp, Probe, Fetch, Push, Refuse, containerVars
  <2> QED BY <1>0, <2>1, FrameHold DEF Settled
<1>2. CASE GetOrAssign(x)
  <2>1. UNCHANGED <<accessToken, sessions, bearer>>
    BY <1>2 DEF GetOrAssign, containerVars
  <2>2. ASSUME pc'[x] \in {"found", "call"} PROVE accessToken[held'[x]] = req'[x].tok
    BY <1>0, <1>2, <2>2, BoundCarries DEF GetOrAssign, SessionTokens
  <2> QED BY <1>0, <2>1, <2>2, FrameHold DEF Settled
<1>3. CASE CheckKey(x)
  <2>1. /\ UNCHANGED <<accessToken, sessions>> /\ pc[x] = "found"
        /\ \A c \in Container : bearer'[c] \in {bearer[c], TRUE}
    BY <1>0, <1>3 DEF CheckKey
  <2>2. pc'[x] \in {"found", "call"} => held'[x] = held[x] /\ req'[x] = req[x]
    BY <1>0, <1>3 DEF CheckKey, Refuse, Return
  <2> QED BY <1>0, <2>1, <2>2, FrameHold DEF Settled
<1>4. CASE LockSession(x)
  <2>1. UNCHANGED <<accessToken, sessions, bearer>> /\ req[x] \in Request
    BY <1>4 DEF LockSession, containerVars, SerialInv, CarryInv, OwnerInv, TypeInv, CallerOK
  <2>2. ASSUME pc'[x] \in {"found", "call"}
        PROVE  sessions[req[x].tok] # None /\ held'[x] = sessions[req[x].tok] /\ req'[x] = req[x]
    BY <1>0, <1>4, <2>2 DEF LockSession, Reassigned, Refuse, Return, SessionTokens
  <2>3. pc'[x] \in {"found", "call"} => accessToken[held'[x]] = req'[x].tok
    BY <2>1, <2>2, BoundCarries DEF Request
  <2> QED BY <1>0, <2>1, <2>3, FrameHold DEF Settled
<1>5. CASE Commit(x)
  <2> DEFINE c == held[x]  t == req[x].tok
  <2>1. /\ t \in Token /\ c \in Container /\ req[x].bearer \in Bearer
        /\ Settled(c) /\ accessToken[c] = None /\ assignLock[<<t, 0>>] = x
    BY <1>5 DEF Commit, Request, SerialInv, CarryInv, CleanInv, Clean, OwnerInv, TypeInv, CallerOK,
                PlaceInv, PoppedPlace, LockInv, Popping, Critical, Swept, Done
  <2>2. /\ sessions' = [sessions EXCEPT ![t] = c] /\ accessToken' = [accessToken EXCEPT ![c] = t]
        /\ bearer' = [bearer EXCEPT ![c] = req[x].bearer]
        /\ held'[x] = c /\ req'[x] = req[x]
    BY <1>0, <1>5 DEF Commit, Return
  <2>3. accessToken \in [Container -> Token \cup {None}]
    BY DEF SerialInv, CarryInv, OwnerInv, TypeInv, TypeOK
  <2>4. BearerKept'
    <3> SUFFICES ASSUME Bearer = {TRUE}, NEW u \in Token, sessions'[u] # None
                 PROVE  bearer'[sessions'[u]] = TRUE
      BY DEF BearerKept, SessionTokens
    <3>1. req[x].bearer = TRUE
      BY <2>1
    <3>2. sessions'[u] \in Container /\ (sessions'[u] = c \/ bearer[sessions'[u]] = TRUE)
      BY <1>0, <2>1, <2>2 DEF HoldInv, BearerKept, SessionTokens
    <3> QED BY <1>0, <2>1, <2>2, <3>1, <3>2
  <2>5. CallsOwn'
    <3> SUFFICES ASSUME NEW y \in Caller, pc'[y] \in {"found", "call"}
                 PROVE  accessToken'[held'[y]] = req'[y].tok
      BY DEF CallsOwn
    <3>1. CASE y = x
      BY <3>1, <2>1, <2>2, <2>3
    <3>2. CASE y # x
      <4>1. held[y] \in Container /\ req[y].tok \in Token /\ accessToken[held[y]] = req[y].tok
        BY <1>0, <3>2 DEF HoldInv, CallsOwn, SerialInv, CarryInv, OwnerInv, TypeInv, CallerOK, Request
      <4> QED BY <1>0, <3>2, <4>1, <2>1, <2>2, <2>3, NamesAssumption
    <3> QED BY <3>1, <3>2
  <2>6. EvictedAlone'
    <3> SUFFICES ASSUME NEW d \in Container, ~Settled(d) PROVE sessions'[accessToken'[d]] = None
      BY <1>0 DEF EvictedAlone, Settled
    <3>1. /\ accessToken[d] \in Token /\ assignLock[<<accessToken[d], 0>>] = d
          /\ sessions[accessToken[d]] = None
      BY DEF HoldInv, EvictedAlone, SerialInv, LockInv, Swept, Done
    <3>2. d # c /\ accessToken[d] # t
      BY <3>1, <2>1, NamesAssumption
    <3> QED BY <1>0, <2>1, <2>2, <2>3, <3>1, <3>2
  <2> QED BY <2>4, <2>5, <2>6 DEF HoldInv
<1>6. CASE Proxy(x)
  <2>1. /\ UNCHANGED <<accessToken, bearer>> /\ pc'[x] \notin {"found", "call"}
        /\ \A t \in Token : sessions'[t] \in {sessions[t], None}
    BY <1>0, <1>6 DEF Proxy, HandleAuthGate, CleanupSession, WithoutSession
  <2> QED BY <1>0, <2>1, FrameHold DEF Settled
<1> QED BY <1>1, <1>2, <1>3, <1>4, <1>5, <1>6 DEF CallerStep

LEMMA EvictionHold ==
  ASSUME SerialInv, HoldInv, NEW c \in Container,
         \/ EvictWarm(c) \/ EvictAndSnapshot(c) \/ RunDelete(c)
         \/ \E l \in Lock, scan \in Scan : EvictClaim(c, l, scan)
  PROVE  HoldInv'
<1>0. UNCHANGED <<phase, accessToken, bearer, pc, held, req>>
      /\ sessions \in [Token -> Container \cup {None}] /\ evPc \in [Container -> EvictPc]
  BY DEF SerialInv, CarryInv, OwnerInv, TypeInv, TypeOK, EvictWarm, EvictAndSnapshot, RunDelete,
         EvictClaim, EvictSem, EvictCancelled, EvictSnapshot, EvictPut, EvictDelete,
         containerVars, callerVars, finishVars
<1>1. CASE EvictWarm(c) \/ EvictAndSnapshot(c) \/ RunDelete(c)
  <2>1. \A t \in Token : sessions'[t] \in {sessions[t], None}
    BY <1>0, <1>1 DEF EvictWarm, RunDelete, EvictAndSnapshot, EvictSem, EvictCancelled,
       EvictSnapshot, EvictPut, EvictDelete, HandleAuthGate, CleanupSession, WithoutSession
  <2>2. \A d \in Container : Settled(d) => Settled(d)'
    BY <1>0, <1>1 DEF Settled, EvictWarm, RunDelete, EvictAndSnapshot, EvictSem, EvictCancelled,
       EvictSnapshot, EvictPut, EvictDelete, evictVars
  <2> QED BY <1>0, <2>1, <2>2, FrameHold
<1>2. ASSUME NEW l \in Lock, NEW scan \in Scan, EvictClaim(c, l, scan), ~Done PROVE HoldInv'
  <2>1. CASE StillBound(l[1], c)
    <3>1. l[1] \in Token /\ sessions[l[1]] = c /\ accessToken[c] = l[1]
      BY <2>1, BoundCarries, NamesAssumption DEF Lock, StillBound
    <3>2. sessions' = [sessions EXCEPT ![l[1]] = None] /\ evPc' = [evPc EXCEPT ![c] = FirstEvictStep(c)]
      BY <1>2, <2>1 DEF EvictClaim, WithoutSession
    <3>3. \A d \in Container : accessToken[d] \in Token /\ ~Settled(d) => sessions[accessToken[d]] = None
      BY <1>2 DEF HoldInv, EvictedAlone
    <3>4. \A d \in Container : ~Settled(d) => accessToken[d] \in Token
      BY <1>2 DEF SerialInv, LockInv, Swept, Done
    <3>5. EvictedAlone'
      BY <1>0, <3>1, <3>2, <3>3, <3>4 DEF EvictedAlone, Settled
    <3>6. BearerKept' /\ CallsOwn'
      BY <1>0, <1>2, <3>2 DEF HoldInv, BearerKept, CallsOwn, SessionTokens
    <3> QED BY <3>5, <3>6 DEF HoldInv
  <2>2. CASE ~StillBound(l[1], c)
    BY <1>0, <1>2, <2>2 DEF EvictClaim, HoldInv, BearerKept, CallsOwn, EvictedAlone, Settled, SessionTokens
  <2> QED BY <2>1, <2>2
<1> QED BY <1>0, <1>1, <1>2 DEF HoldInv, Done

\* The other steps leave all that HoldInv speaks of alone, or begin the shutdown.
LEMMA OtherHold ==
  ASSUME HoldInv,
         \/ \E t \in Token : EvictIdleSessions(t) \/ ScanSessionHealth(t)
         \/ \E c \in Container : SweepDelete(c)
         \/ Finish \/ UNCHANGED vars
  PROVE  HoldInv'
<1> USE DEF containerVars, callerVars, evictVars, finishVars
<1>1. CASE Finish
  BY <1>1 DEF Finish, FinishClose, FinishCollect, DeadlineHit, CleanupAll, Exit, HoldInv, Done
<1>2. CASE ~Finish
  <2>1. UNCHANGED <<sessions, evPc, accessToken, bearer, pc, held, req, phase>>
    BY <1>2 DEF EvictIdleSessions, ScanSessionHealth, EvictSessionAsync, SweepDelete, vars
  <2> QED BY <2>1 DEF HoldInv, BearerKept, CallsOwn, EvictedAlone, SessionTokens, Settled, Done
<1> QED BY <1>1, <1>2

LEMMA HoldInvariant == Spec => [](SerialInv /\ HoldInv)
<1>1. Init => HoldInv
  BY InitHold
<1>2. SerialInv /\ HoldInv /\ [Next]_vars => HoldInv'
  BY PoolManagerHold, CallerHold, EvictionHold, OtherHold DEF Next
<1> QED BY <1>1, <1>2, SerialInvariant, PTL DEF Spec

----------------------------------------------------------------------------
(* Types.                                                                  *)

LEMMA InitWType == WInit => WTypeOK
<1> SUFFICES ASSUME WInit PROVE WTypeOK
  OBVIOUS
<1>1. 0 \in 0 .. Attempts - 1 /\ 0 \in 0 .. MaxWrites
  BY WorkspaceAssumption
<1> QED BY <1>1 DEF WInit, WTypeOK

\* What moves in a step are sets of writes, and no retry is one too many.
LEMMA WTypeStep == TypeInv /\ WTypeOK /\ [WNext]_wvars => WTypeOK'
<1> SUFFICES ASSUME TypeInv, WTypeOK, [WNext]_wvars PROVE WTypeOK'
  OBVIOUS
<1> USE DEF TypeInv, WTypeOK
<1>1. CASE UNCHANGED dataVars
  BY <1>1 DEF dataVars
<1>2. ASSUME NEW x \in Caller, FetchItem(x) PROVE WTypeOK'
  <2>1. req[x].tok \in Token
    BY <1>2 DEF FetchItem, Fetch, CallerOK, Request
  <2>2. "tar" \in FetchAnswers(req[x].tok) => item[req[x].tok] \in SUBSET Write
    BY <2>1 DEF FetchAnswers
  <2> QED BY <1>2, <2>2 DEF FetchItem
<1>3. ASSUME NEW x \in Caller, PushRestoreOnce(x) PROVE WTypeOK'
  <2>1. held[x] \in Container /\ req[x].tok \in Token /\ tar[x] \subseteq Write /\ ws[held[x]] \subseteq Write
    BY <1>3 DEF PushRestoreOnce, CallerOK, Request
  <2>2. ws' \in [Container -> SUBSET Write] /\ gate' \in [Container -> Token \cup {None}]
    <3>1. (\A c \in Container : ws[c] \in SUBSET Write) /\ ws[held[x]] \cup tar[x] \in SUBSET Write
      BY <2>1
    <3>2. CASE Unpack(x)
      BY <3>1, <3>2, <2>1 DEF Unpack, Restored
    <3> QED BY <1>3, <3>2 DEF PushRestoreOnce
  <2>3. /\ tries' \in [Caller \cup Container -> 0 .. Attempts - 1]
        /\ tar' \in [Caller \cup Container -> SUBSET Write]
    <3>1. CASE Settle(x)
      <4>1. 0 \in 0 .. Attempts - 1
        BY WorkspaceAssumption
      <4> QED BY <3>1, <4>1 DEF Settle
    <3>2. CASE MayRetry(x) /\ Retry(x)
      BY <3>2, WorkspaceAssumption DEF MayRetry, Retry
    <3> QED BY <1>3, <3>1, <3>2 DEF PushRestoreOnce
  <2> QED BY <1>3, <2>2, <2>3 DEF PushRestoreOnce
<1>4. ASSUME NEW x \in Caller, ProxyCall(x) PROVE WTypeOK'
  <2> DEFINE c == held[x]  t == req[x].tok  n == written[t] + 1
  <2>1. c \in Container /\ t \in Token
    BY <1>4 DEF ProxyCall, Proxy, CallerOK, Request
  <2>2. n <= MaxWrites => n \in 0 .. MaxWrites /\ <<t, n>> \in Write
    BY <2>1, WorkspaceAssumption DEF Write
  <2>3. /\ ws' \in [Container -> SUBSET Write] /\ gate' \in [Container -> Token \cup {None}]
        /\ written' \in [Token -> 0 .. MaxWrites] /\ acked' \subseteq Write /\ late' \subseteq Write
    <3>1. CASE n <= MaxWrites /\ Apply(c, t, n) /\ written' = [written EXCEPT ![t] = n]
      BY <3>1, <2>1, <2>2, <1>4 DEF Apply, ProxyCall
    <3>2. CASE UNCHANGED <<ws, gate, written, acked, late>>
      BY <3>2
    <3> QED BY <1>4, <3>1, <3>2 DEF ProxyCall
  <2>4. unsaved' \subseteq Write
    <3>1. UNION {ws[sessions[u]] : u \in SessionTokens \cap {accessToken[c]}} \subseteq Write
      <4>1. \A u \in SessionTokens : ws[sessions[u]] \subseteq Write
        BY DEF SessionTokens, TypeOK
      <4> QED BY <4>1
    <3> QED BY <1>4, <3>1 DEF ProxyCall
  <2> QED BY <1>4, <2>3, <2>4 DEF ProxyCall
<1>5. ASSUME NEW c \in Container, TakeSnapshot(c) PROVE WTypeOK'
  BY <1>5 DEF TakeSnapshot, SnapshotTars
<1>6. ASSUME NEW c \in Container, PutOnce(c) PROVE WTypeOK'
  <2>1. tar[c] \subseteq Write
    OBVIOUS
  <2>2. /\ tries' \in [Caller \cup Container -> 0 .. Attempts - 1]
        /\ tar' \in [Caller \cup Container -> SUBSET Write]
    <3>1. CASE Settle(c)
      <4>1. 0 \in 0 .. Attempts - 1
        BY WorkspaceAssumption
      <4> QED BY <3>1, <4>1 DEF Settle
    <3>2. CASE MayRetry(c) /\ Retry(c)
      BY <3>2, WorkspaceAssumption DEF MayRetry, Retry
    <3> QED BY <1>6, <3>1, <3>2 DEF PutOnce
  <2>3. item' \in [Token -> (SUBSET Write) \cup {None}] /\ unsaved' \subseteq Write
    BY <1>6, <2>1 DEF PutOnce, Store
  <2> QED BY <1>6, <2>2, <2>3 DEF PutOnce
<1> QED BY <1>1, <1>2, <1>3, <1>4, <1>5, <1>6 DEF WNext, Bookkeeping, wvars

(* Every part of the data keeps its type; an exchange is attempted at most
   Attempts times (httpRetry). *)
THEOREM WorkspaceTypes == WSpec => []WTypeOK
<1>1. SerialInv => TypeInv
  BY DEF SerialInv, CarryInv, OwnerInv
<1> QED BY <1>1, InitWType, WTypeStep, WorkspaceIsManager, SerialInvariant, PTL DEF WSpec

----------------------------------------------------------------------------
(* Where the data is.                                                      *)

\* What a request restores, and has restored, is the session's item.
RestoreHolds ==
  \A x \in Caller :
    /\ pc[x] = "push" =>
         item[req[x].tok] # None /\ tar[x] = item[req[x].tok]
    /\ pc[x] = "commit" /\ item[req[x].tok] # None =>
         item[req[x].tok] \subseteq ws[held[x]]

\* What an evictor is about to store is not older than what it replaces.
SnapshotNewer ==
  \A c \in Container : ~Settled(c) /\ item[accessToken[c]] # None =>
    /\ evPc[c] \in {"sem", "snapshot"} => item[accessToken[c]] \subseteq ws[c]
    /\ evPc[c] = "put" => item[accessToken[c]] \subseteq tar[c]

DataInv ==
  Bearer = {TRUE} /\ ~Done =>
    RestoreHolds /\ SnapshotNewer /\ ResumedFromLatest /\ AcknowledgedSurvives

WorkspaceInv == SerialInv /\ HoldInv /\ WTypeOK /\ DataInv

Live == WorkspaceInv /\ Bearer = {TRUE} /\ ~Done

LEMMA InitData == WInit => DataInv
BY DEF WInit, Init, DataInv, RestoreHolds, SnapshotNewer, ResumedFromLatest,
       AcknowledgedSurvives, SessionTokens, Settled

\* An acknowledged write of t is kept somewhere, or excused.
Safe(w, t) == Kept(w, t) \/ w \in unsaved \cup late

LEMMA SurvivesIff ==
  ASSUME Bearer = {TRUE}, ~Done, ~Done'
  PROVE  /\ AcknowledgedSurvives <=> \A t \in Token : \A w \in acked \cap Own(t) : Safe(w, t)
         /\ AcknowledgedSurvives' <=> \A t \in Token : \A w \in acked' \cap Own(t) : Safe(w, t)'
BY DEF AcknowledgedSurvives, Safe

\* Until SIGTERM, an evicted container has a token, and neither its session nor
\* a request that restores, nor another eviction, goes by it.
LEMMA EvictorAlone ==
  ASSUME Live, NEW c \in Container, ~Settled(c)
  PROVE  /\ accessToken[c] \in Token /\ sessions[accessToken[c]] = None
         /\ \A x \in Caller : Critical(x) => req[x].tok # accessToken[c]
         /\ \A d \in Container : ~Settled(d) /\ accessToken[d] = accessToken[c] => d = c
         /\ ~CtxDone(c)
<1>1. phase = "up" /\ drain = {} /\ ~CtxDone(c)
  BY DEF Live, WorkspaceInv, SerialInv, LockInv, Swept, Done, CtxDone
<1>2. sessions[accessToken[c]] = None
  BY DEF Live, WorkspaceInv, HoldInv, EvictedAlone
<1>3. \A d \in Container : ~Settled(d) =>
        accessToken[d] \in Token /\ assignLock[<<accessToken[d], 0>>] = d
  BY <1>1 DEF Live, WorkspaceInv, SerialInv, LockInv, Swept
<1>4. \A x \in Caller : Critical(x) => assignLock[<<req[x].tok, 0>>] = x
  BY <1>1 DEF Live, WorkspaceInv, SerialInv, LockInv, Swept
<1>5. ASSUME NEW x \in Caller, Critical(x) PROVE req[x].tok # accessToken[c]
  BY <1>3, <1>4, <1>5, NamesAssumption
<1>6. ASSUME NEW d \in Container, ~Settled(d), accessToken[d] = accessToken[c] PROVE d = c
  BY <1>3, <1>6
<1> QED BY <1>1, <1>2, <1>3, <1>5, <1>6

\* A step that assigns and unbinds no session, takes no snapshot and stores none:
\* workspaces only grow, and what is restored is the item.
LEMMA FrameData ==
  ASSUME Live, ~Done', UNCHANGED <<sessions, accessToken, item, acked, unsaved, late>>,
         \A c \in Container : ws[c] \subseteq ws'[c] /\ tar'[c] = tar[c],
         \A c \in Container : \/ evPc'[c] = evPc[c]
                              \/ evPc[c] = "sem" /\ evPc'[c] = "snapshot"
                              \/ evPc[c] = "delete" /\ evPc'[c] = "done",
         \A x \in Caller : pc'[x] \in {"push", "commit"} =>
            LET before == item[req'[x].tok] IN
            \/ pc'[x] = pc[x] /\ held'[x] = held[x] /\ req'[x] = req[x] /\ tar'[x] = tar[x]
            \/ pc'[x] = "push" /\ before # None /\ tar'[x] = before
            \/ pc'[x] = "commit" /\ (before # None => before \subseteq ws'[held'[x]])
  PROVE  DataInv'
<1>1. RestoreHolds /\ SnapshotNewer /\ ResumedFromLatest /\ AcknowledgedSurvives
  BY DEF Live, WorkspaceInv, DataInv
<1>2. sessions \in [Token -> Container \cup {None}] /\ held \in [Caller -> Container \cup {None}]
      /\ \A x \in Caller : pc[x] = "commit" => held[x] \in Container
  BY DEF Live, WorkspaceInv, SerialInv, CarryInv, OwnerInv, TypeInv, TypeOK, CallerOK
<1>3. RestoreHolds'
  BY <1>1, <1>2 DEF RestoreHolds
<1>4. SnapshotNewer'
  BY <1>1 DEF SnapshotNewer, Settled
<1>5. ResumedFromLatest'
  BY <1>1, <1>2 DEF ResumedFromLatest, SessionTokens, Live
<1>6. AcknowledgedSurvives'
  <2> SUFFICES ASSUME NEW t \in Token, NEW w \in acked \cap Own(t) PROVE Safe(w, t)'
    BY SurvivesIff DEF Live
  <2>1. Safe(w, t)
    BY <1>1, SurvivesIff DEF Live
  <2>2. Kept(w, t) => Kept(w, t)'
    <3>1. CASE sessions[t] # None /\ w \in ws[sessions[t]]
      BY <3>1, <1>2 DEF Kept
    <3>2. ASSUME NEW c \in Container, accessToken[c] = t, evPc[c] \in {"sem", "snapshot"}, w \in ws[c]
          PROVE  Kept(w, t)'
      BY <3>2 DEF Kept
    <3>3. ASSUME NEW c \in Container, accessToken[c] = t, evPc[c] = "put", w \in tar[c]
          PROVE  Kept(w, t)'
      BY <3>3 DEF Kept
    <3>4. CASE item[t] # None /\ w \in item[t]
      BY <3>4 DEF Kept
    <3> QED BY <3>1, <3>2, <3>3, <3>4 DEF Kept
  <2> QED BY <2>1, <2>2 DEF Safe
<1> QED BY <1>3, <1>4, <1>5, <1>6 DEF DataInv

LEMMA BookkeepingData ==
  ASSUME Live, ~Done', Bookkeeping PROVE DataInv'
<1>0. /\ UNCHANGED dataVars /\ evPc \in [Container -> EvictPc] /\ phase = "up"
      /\ pc \in [Caller -> CallPc]
      /\ held \in [Caller -> Container \cup {None}] /\ req \in [Caller -> Request \cup {None}]
      /\ \A x \in Caller : pc[x] # "idle" => req[x] \in Request
  BY DEF Bookkeeping, Live, WorkspaceInv, SerialInv, CarryInv, OwnerInv, TypeInv, TypeOK, CallerOK, Done
<1> DEFINE Frame == UNCHANGED <<sessions, accessToken, evPc, pc, held, req>> => DataInv'
<1>1. Frame
  BY <1>0, FrameData DEF dataVars
<1> HIDE DEF Frame
<1>2. CASE PoolManager
  BY <1>1, <1>2 DEF Frame, PoolManager, Replenish, CreateContainer, StopCreating, Register,
     PollInflight, Promote, PoolStop, containerVars, callerVars, evictVars
<1>3. ASSUME NEW x \in Caller,
             \/ Call(x) \/ GetOrAssign(x) \/ CheckKey(x) \/ LockSession(x)
             \/ PopWarm(x) \/ GiveUp(x) \/ Probe(x)
      PROVE  DataInv'
  <2>1. UNCHANGED <<sessions, accessToken, evPc>>
    BY <1>3 DEF Call, GetOrAssign, CheckKey, LockSession, PopWarm, GiveUp, Probe,
       containerVars, evictVars
  <2>2. \A y \in Caller \ {x} : pc'[y] = pc[y] /\ held'[y] = held[y] /\ req'[y] = req[y]
    BY <1>0, <1>3 DEF Call, GetOrAssign, CheckKey, LockSession, PopWarm, GiveUp, Probe, Refuse, Return
  <2>3. pc'[x] \notin {"push", "commit"}
    <3>1. pc[x] = "probe" => req[x].bearer = TRUE
      BY <1>0 DEF Live, Request
    <3> QED
      BY <1>0, <1>3, <3>1 DEF Call, GetOrAssign, CheckKey, LockSession, PopWarm, GiveUp, Probe,
         Refuse, Return
  <2> QED BY <1>0, <2>1, <2>2, <2>3, FrameData DEF dataVars
<1>4. ASSUME NEW x \in Caller, Commit(x) PROVE DataInv'
  <2> DEFINE c == held[x]  t == req[x].tok
  <2>1. /\ t \in Token /\ c \in Container /\ Settled(c) /\ Unbound(c) /\ sessions[t] = None
        /\ item[t] # None => item[t] \subseteq ws[c]
    BY <1>4 DEF Commit, Request, Live, WorkspaceInv, SerialInv, LockInv, CarryInv, OwnerInv, TypeInv,
       CallerOK, PlaceInv, PoppedPlace, Popping, Critical, Swept, Done, DataInv, RestoreHolds
  <2>2. /\ sessions' = [sessions EXCEPT ![t] = c] /\ accessToken' = [accessToken EXCEPT ![c] = t]
        /\ pc' = [pc EXCEPT ![x] = "call"] /\ evPc' = evPc
        /\ \A y \in Caller \ {x} : held'[y] = held[y] /\ req'[y] = req[y]
    BY <1>0, <1>4 DEF Commit, Return, evictVars
  <2>3. /\ sessions \in [Token -> Container \cup {None}]
        /\ accessToken \in [Container -> Token \cup {None}]
    BY DEF Live, WorkspaceInv, SerialInv, CarryInv, OwnerInv, TypeInv, TypeOK
  <2>4. RestoreHolds'
    BY <1>0, <2>2 DEF dataVars, Live, WorkspaceInv, DataInv, RestoreHolds
  <2>5. SnapshotNewer'
    BY <1>0, <2>1, <2>2, <2>3 DEF dataVars, Live, WorkspaceInv, DataInv, SnapshotNewer, Settled
  <2>6. ResumedFromLatest'
    BY <1>0, <2>1, <2>2, <2>3 DEF dataVars, Live, WorkspaceInv, DataInv, ResumedFromLatest, SessionTokens
  <2>7. AcknowledgedSurvives'
    <3> SUFFICES ASSUME NEW u \in Token, NEW w \in acked \cap Own(u) PROVE Safe(w, u)'
      BY <1>0, SurvivesIff DEF Live, dataVars
    <3>1. Safe(w, u)
      BY SurvivesIff DEF Live, WorkspaceInv, DataInv
    <3>2. Kept(w, u) => Kept(w, u)'
      BY <1>0, <2>1, <2>2, <2>3 DEF Kept, Settled, dataVars
    <3> QED BY <1>0, <3>1, <3>2 DEF Safe, dataVars
  <2> QED BY <2>4, <2>5, <2>6, <2>7 DEF DataInv
<1>5. ASSUME NEW c \in Container,
             EvictWarm(c) \/ EvictSem(c) \/ EvictCancelled(c) \/ EvictDelete(c) \/ RunDelete(c)
      PROVE  DataInv'
  <2>1. ~EvictCancelled(c)
    BY EvictorAlone DEF EvictCancelled, Settled
  <2>2. UNCHANGED <<sessions, accessToken, pc, held, req>>
    BY <1>5 DEF EvictWarm, EvictSem, EvictCancelled, EvictDelete, RunDelete, containerVars, callerVars
  <2>3. \A d \in Container : \/ evPc'[d] = evPc[d]
                             \/ evPc[d] = "sem" /\ evPc'[d] = "snapshot"
                             \/ evPc[d] = "delete" /\ evPc'[d] = "done"
    BY <1>0, <1>5, <2>1 DEF EvictWarm, EvictSem, EvictDelete, RunDelete, evictVars
  <2> QED BY <1>0, <2>2, <2>3, FrameData DEF dataVars
<1>6. ASSUME NEW t \in Token, EvictIdleSessions(t) \/ ScanSessionHealth(t) PROVE DataInv'
  BY <1>1, <1>6 DEF Frame, EvictIdleSessions, ScanSessionHealth, EvictSessionAsync, containerVars, callerVars
<1>7. ASSUME NEW c \in Container, NEW l \in Lock, NEW scan \in Scan, EvictClaim(c, l, scan)
      PROVE  DataInv'
  <2>1. UNCHANGED <<accessToken, pc, held, req>>
    BY <1>7 DEF EvictClaim, containerVars, callerVars
  <2>2. CASE ~StillBound(l[1], c)
    BY <1>1, <1>7, <2>1, <2>2 DEF Frame, EvictClaim
  <2>3. CASE StillBound(l[1], c)
    <3> DEFINE t == l[1]
    <3>1. t \in Token /\ sessions[t] = c /\ accessToken[c] = t /\ Settled(c)
      BY <2>3, NamesAssumption, BoundCarries
         DEF Lock, StillBound, Live, WorkspaceInv, SerialInv, CarryInv, OwnerInv, PlaceInv, SessionPlace
    <3>2. bearer[c] = TRUE
      BY <3>1, NamesAssumption DEF Live, WorkspaceInv, HoldInv, BearerKept, SessionTokens
    <3>3. sessions' = [sessions EXCEPT ![t] = None] /\ evPc' = [evPc EXCEPT ![c] = "sem"]
      BY <1>7, <2>3, <3>2 DEF EvictClaim, WithoutSession, FirstEvictStep
    <3>4. sessions \in [Token -> Container \cup {None}]
      BY DEF Live, WorkspaceInv, SerialInv, CarryInv, OwnerInv, TypeInv, TypeOK
    <3>5. RestoreHolds'
      BY <1>0, <2>1 DEF dataVars, Live, WorkspaceInv, DataInv, RestoreHolds
    <3>6. item[t] # None => item[t] \subseteq ws[c]
      BY <3>1, NamesAssumption DEF Live, WorkspaceInv, DataInv, ResumedFromLatest, SessionTokens
    <3>7. SnapshotNewer'
      BY <1>0, <2>1, <3>1, <3>3, <3>6 DEF dataVars, Live, WorkspaceInv, DataInv, SnapshotNewer, Settled
    <3>8. ResumedFromLatest'
      BY <1>0, <3>3, <3>4 DEF dataVars, Live, WorkspaceInv, DataInv, ResumedFromLatest, SessionTokens
    <3>9. AcknowledgedSurvives'
      <4> SUFFICES ASSUME NEW u \in Token, NEW w \in acked \cap Own(u) PROVE Safe(w, u)'
        BY <1>0, SurvivesIff DEF Live, dataVars
      <4>1. Safe(w, u)
        BY SurvivesIff DEF Live, WorkspaceInv, DataInv
      <4>2. Kept(w, u) => Kept(w, u)'
        BY <1>0, <2>1, <3>1, <3>3, <3>4 DEF Kept, Settled, dataVars
      <4> QED BY <1>0, <4>1, <4>2 DEF Safe, dataVars
    <3> QED BY <3>5, <3>7, <3>8, <3>9 DEF DataInv
  <2> QED BY <2>2, <2>3
<1>8. CASE \E c \in Container : SweepDelete(c)
  BY <1>1, <1>8 DEF Frame, SweepDelete, containerVars, callerVars, evictVars
<1>9. ~Finish
  BY <1>0 DEF Finish, FinishClose, FinishCollect, DeadlineHit, CleanupAll, Exit, Done
<1> QED BY <1>2, <1>3, <1>4, <1>5, <1>6, <1>7, <1>8, <1>9 DEF Bookkeeping
\* A restore: the item is read, and laid over the workspace.
LEMMA RestoreData ==
  ASSUME Live, ~Done', NEW x \in Caller, FetchItem(x) \/ PushRestoreOnce(x) PROVE DataInv'
<1>0. /\ pc \in [Caller -> CallPc] /\ held \in [Caller -> Container \cup {None}]
      /\ req \in [Caller -> Request \cup {None}] /\ ws \in [Container -> SUBSET Write]
      /\ tar \in [Caller \cup Container -> SUBSET Write]
      /\ pc[x] \in {"fetch", "push"} => req[x].tok \in Token /\ held[x] \in Container
  BY DEF Live, WorkspaceInv, SerialInv, CarryInv, OwnerInv, TypeInv, TypeOK, CallerOK, WTypeOK, Request
<1>1. /\ UNCHANGED <<sessions, accessToken, evPc, item, acked, unsaved, late>>
      /\ pc[x] \in {"fetch", "push"}
      /\ \A y \in (Caller \cup Container) \ {x} : tar'[y] = tar[y]
      /\ \A y \in Caller \ {x} : pc'[y] = pc[y] /\ held'[y] = held[y] /\ req'[y] = req[y]
  BY <1>0 DEF FetchItem, PushRestoreOnce, Fetch, Push, Refuse, Retry, Settle, vars, containerVars,
     callerVars, evictVars
<1>2. \A c \in Container : ws[c] \subseteq ws'[c]
  BY <1>0 DEF FetchItem, PushRestoreOnce, Unpack, Restored
<1>3. ASSUME pc'[x] \in {"push", "commit"}
      PROVE  LET before == item[req'[x].tok] IN
             \/ pc'[x] = pc[x] /\ held'[x] = held[x] /\ req'[x] = req[x] /\ tar'[x] = tar[x]
             \/ pc'[x] = "push" /\ before # None /\ tar'[x] = before
             \/ pc'[x] = "commit" /\ (before # None => before \subseteq ws'[held'[x]])
  <2>1. CASE FetchItem(x)
    <3>1. req'[x] = req[x] /\ held'[x] = held[x]
      BY <1>0, <1>3, <2>1 DEF FetchItem, Fetch, Refuse
    <3>2. \/ item[req[x].tok] # None /\ pc'[x] = "push" /\ tar'[x] = item[req[x].tok]
          \/ item[req[x].tok] = None /\ pc'[x] = "commit"
      BY <1>0, <1>3, <2>1 DEF FetchItem, FetchAnswers
    <3> QED BY <3>1, <3>2
  <2>2. CASE PushRestoreOnce(x)
    <3>1. CASE Retry(x)
      BY <3>1 DEF Retry, vars, callerVars
    <3>2. CASE ~Retry(x)
      <4>1. /\ pc[x] = "push" /\ Unpack(x) /\ pc'[x] = "commit" /\ Push(x)
        <5>1. PICK result \in PushRestore :
                 \/ result = "ok" /\ pc' = [pc EXCEPT ![x] = "commit"]
                      /\ UNCHANGED <<req, held, warmPool, status>>
                 \/ pc' = [pc EXCEPT ![x] = "idle"]
          BY <1>3, <2>2, <3>2 DEF PushRestoreOnce, Push, Refuse
        <5>2. held[x] \notin warmPool /\ status[held[x]] # "failed"
          BY <2>2, <1>0 DEF PushRestoreOnce, Live, WorkspaceInv, SerialInv, CarryInv, CleanInv, OwnerInv,
             PlaceInv, WarmPlace, Unpopped, Popping
        <5> QED BY <1>0, <1>3, <2>2, <3>2, <5>1, <5>2 DEF PushRestoreOnce
      <4>2. held'[x] = held[x] /\ req'[x] = req[x]
        BY <1>0, <4>1 DEF Push, Refuse
      <4>3. item[req[x].tok] # None /\ tar[x] = item[req[x].tok]
        BY <4>1 DEF Live, WorkspaceInv, DataInv, RestoreHolds
      <4>4. tar[x] \subseteq ws'[held[x]]
        BY <1>0, <4>1 DEF Unpack, Restored
      <4> QED BY <4>1, <4>2, <4>3, <4>4
    <3> QED BY <3>1, <3>2
  <2> QED BY <2>1, <2>2
<1> QED BY <1>1, <1>2, <1>3, FrameData, NamesAssumption

\* A tool call writes to the session's own container, or is refused by it.
LEMMA ProxyData ==
  ASSUME Live, ~Done', NEW x \in Caller, ProxyCall(x) PROVE DataInv'
<1> DEFINE c == held[x]  t == req[x].tok  n == written[t] + 1
<1>0. /\ pc \in [Caller -> CallPc] /\ held \in [Caller -> Container \cup {None}]
      /\ req \in [Caller -> Request \cup {None}] /\ ws \in [Container -> SUBSET Write]
      /\ sessions \in [Token -> Container \cup {None}]
      /\ pc[x] = "call" /\ t \in Token /\ c \in Container /\ accessToken[c] = t
  BY DEF Live, WorkspaceInv, SerialInv, CarryInv, OwnerInv, TypeInv, TypeOK, CallerOK, WTypeOK, Request,
     HoldInv, CallsOwn, ProxyCall, Proxy
<1>1. /\ UNCHANGED <<accessToken, evPc, item, tar>> /\ pc'[x] \notin {"push", "commit"}
      /\ \A y \in Caller \ {x} : pc'[y] = pc[y] /\ held'[y] = held[y] /\ req'[y] = req[y]
  BY <1>0 DEF ProxyCall, Proxy, evictVars
<1>2. \A d \in Container : ws[d] \subseteq ws'[d]
  BY <1>0 DEF ProxyCall, Apply
<1>3. CASE UNCHANGED <<acked, unsaved, late>> /\ GatePassed
  BY <1>1, <1>2, <1>3, FrameData DEF GatePassed
<1> DEFINE Excuses == /\ unsaved \cup late \subseteq unsaved' \cup late'
                      /\ \A u \in Token : sessions'[u] \in {sessions[u], None}
<1>4. ASSUME Excuses,
             \A u \in Token : \A w \in acked' \cap Own(u) : Safe(w, u)'
      PROVE  DataInv'
  <2>1. RestoreHolds'
    BY <1>0, <1>1, <1>2 DEF Live, WorkspaceInv, DataInv, RestoreHolds, SerialInv, CarryInv, OwnerInv,
       TypeInv, CallerOK
  <2>2. SnapshotNewer'
    BY <1>1, <1>2 DEF Live, WorkspaceInv, DataInv, SnapshotNewer, Settled
  <2>3. ResumedFromLatest'
    <3> SUFFICES ASSUME NEW u \in Token, sessions'[u] # None, item[u] # None
                 PROVE  item[u] \subseteq ws'[sessions'[u]]
      BY <1>1 DEF ResumedFromLatest, SessionTokens
    <3>1. sessions'[u] = sessions[u] /\ sessions[u] \in Container
      BY <1>0, <1>4
    <3> QED BY <1>2, <3>1 DEF Live, WorkspaceInv, DataInv, ResumedFromLatest, SessionTokens
  <2>4. AcknowledgedSurvives'
    BY <1>4, SurvivesIff DEF Live
  <2> QED BY <2>1, <2>2, <2>3, <2>4 DEF DataInv
<1>5. ASSUME GatePassed, n <= MaxWrites, Apply(c, t, n), acked' = acked \cup {<<t, n>>},
             late' = IF WillBeSaved(c) THEN late ELSE late \cup {<<t, n>>}, unsaved' = unsaved
      PROVE  DataInv'
  <2> SUFFICES ASSUME NEW u \in Token, NEW w \in acked' \cap Own(u) PROVE Safe(w, u)'
    BY <1>4, <1>5 DEF GatePassed
  <2>1. CASE w \in acked
    <3>1. Safe(w, u)
      BY <2>1, SurvivesIff DEF Live, WorkspaceInv, DataInv
    <3>2. Kept(w, u) => Kept(w, u)'
      BY <1>0, <1>1, <1>2, <1>5 DEF Kept, GatePassed
    <3> QED BY <3>1, <3>2, <1>5 DEF Safe
  <2>2. CASE w = <<t, n>>
    <3>1. u = t
      BY <2>2 DEF Own
    <3>2. w \in ws'[c]
      BY <1>0, <1>5, <2>2 DEF Apply
    <3>3. CASE ~WillBeSaved(c)
      BY <2>2, <3>3, <1>5 DEF Safe
    <3>4. CASE evPc[c] \in {"sem", "snapshot"}
      BY <1>0, <1>1, <3>1, <3>2, <3>4 DEF Kept, Safe
    <3>5. CASE c \in SessionContainers
      <4>1. PICK v \in Token : sessions[v] = c
        BY <3>5 DEF SessionContainers, SessionTokens
      <4>2. v = t
        BY <1>0, <4>1, BoundCarries, NamesAssumption DEF Live, WorkspaceInv
      <4> QED BY <1>0, <1>5, <3>1, <3>2, <4>1, <4>2, NamesAssumption DEF Kept, Safe, GatePassed
    <3> QED BY <3>3, <3>4, <3>5 DEF WillBeSaved
  <2> QED BY <2>1, <2>2, <1>5
<1>6. ASSUME HandleAuthGate(c, "forbidden"), UNCHANGED <<ws, acked, late>>,
             unsaved' = unsaved \cup UNION {ws[sessions[u]] : u \in SessionTokens \cap {accessToken[c]}}
      PROVE  DataInv'
  <2>1. sessions' = IF sessions[t] # None THEN [sessions EXCEPT ![t] = None] ELSE sessions
    BY <1>0, <1>6 DEF HandleAuthGate, CleanupSession, WithoutSession, SessionTokens
  <2>2. sessions[t] # None => ws[sessions[t]] \subseteq unsaved'
    BY <1>0, <1>6 DEF SessionTokens
  <2>3. Excuses
    BY <1>0, <1>6, <2>1
  <2> SUFFICES ASSUME NEW u \in Token, NEW w \in acked \cap Own(u) PROVE Safe(w, u)'
    BY <1>4, <1>6, <2>3
  <2>4. Safe(w, u)
    BY SurvivesIff DEF Live, WorkspaceInv, DataInv
  <2>5. Kept(w, u) => Kept(w, u)' \/ w \in unsaved'
    BY <1>0, <1>1, <1>6, <2>1, <2>2 DEF Kept
  <2> QED BY <1>6, <2>4, <2>5 DEF Safe
<1> QED BY <1>3, <1>5, <1>6 DEF ProxyCall

\* A snapshot holds the whole workspace, or the workspace is given up.
LEMMA TakeData ==
  ASSUME Live, ~Done', NEW c \in Container, TakeSnapshot(c) PROVE DataInv'
<1>0. /\ evPc \in [Container -> EvictPc] /\ evPc[c] = "snapshot" /\ ~Settled(c)
      /\ tar \in [Caller \cup Container -> SUBSET Write]
  BY DEF TakeSnapshot, EvictSnapshot, Settled, Live, WorkspaceInv, SerialInv, CarryInv, OwnerInv, TypeInv,
     TypeOK, WTypeOK
<1>1. /\ UNCHANGED <<sessions, accessToken, pc, held, req, ws, item, acked, late>>
      /\ \/ /\ evPc' = [evPc EXCEPT ![c] = "put"] /\ tar' = [tar EXCEPT ![c] = ws[c]]
            /\ unsaved' = unsaved
         \/ /\ evPc' = [evPc EXCEPT ![c] = "delete"] /\ tar' = tar
            /\ unsaved' = unsaved \cup ws[c]
  BY <1>0 DEF TakeSnapshot, EvictSnapshot, GatePassed, SnapshotTars, callerVars
<1>2. RestoreHolds'
  BY <1>0, <1>1, NamesAssumption DEF Live, WorkspaceInv, DataInv, RestoreHolds
<1>3. SnapshotNewer'
  BY <1>0, <1>1 DEF Live, WorkspaceInv, DataInv, SnapshotNewer, Settled
<1>4. ResumedFromLatest'
  BY <1>1 DEF Live, WorkspaceInv, DataInv, ResumedFromLatest, SessionTokens
<1>5. AcknowledgedSurvives'
  <2> SUFFICES ASSUME NEW u \in Token, NEW w \in acked \cap Own(u) PROVE Safe(w, u)'
    BY <1>1, SurvivesIff DEF Live
  <2>1. Safe(w, u)
    BY SurvivesIff DEF Live, WorkspaceInv, DataInv
  <2>2. Kept(w, u) => Kept(w, u)' \/ w \in unsaved'
    BY <1>0, <1>1 DEF Kept
  <2> QED BY <1>1, <2>1, <2>2 DEF Safe
<1> QED BY <1>2, <1>3, <1>4, <1>5 DEF DataInv

\* What is stored replaces an item that it contains.
LEMMA PutData ==
  ASSUME Live, ~Done', NEW c \in Container, PutOnce(c) PROVE DataInv'
<1> DEFINE t == accessToken[c]
<1>0. /\ evPc \in [Container -> EvictPc] /\ evPc[c] = "put" /\ ~Settled(c)
      /\ tar \in [Caller \cup Container -> SUBSET Write] /\ item \in [Token -> (SUBSET Write) \cup {None}]
  BY DEF PutOnce, Settled, Live, WorkspaceInv, SerialInv, CarryInv, OwnerInv, TypeInv, TypeOK, WTypeOK
<1>1. /\ UNCHANGED <<sessions, accessToken, pc, held, req, ws, acked, late>>
      /\ item' = item \/ item' = [item EXCEPT ![t] = tar[c]]
      /\ \A h \in (Caller \cup Container) \ {c} : tar'[h] = tar[h]
      /\ \/ evPc' = evPc /\ tar' = tar /\ unsaved' = unsaved
         \/ /\ evPc' = [evPc EXCEPT ![c] = "delete"]
            /\ \/ unsaved' = unsaved /\ item' = [item EXCEPT ![t] = tar[c]]
               \/ unsaved' = unsaved \cup tar[c]
  BY <1>0 DEF PutOnce, EvictPut, Store, Settle, Retry, vars, callerVars, containerVars, evictVars
<1>2. /\ t \in Token /\ sessions[t] = None
      /\ \A x \in Caller : Critical(x) => req[x].tok # t
      /\ \A d \in Container : ~Settled(d) /\ accessToken[d] = t => d = c
  BY <1>0, EvictorAlone
<1>3. item[t] # None => item[t] \subseteq tar[c]
  BY <1>0 DEF Live, WorkspaceInv, DataInv, SnapshotNewer
<1>4. RestoreHolds'
  <2> SUFFICES ASSUME NEW x \in Caller, pc[x] \in {"push", "commit"}
               PROVE  item'[req[x].tok] = item[req[x].tok] /\ tar'[x] = tar[x]
    BY <1>1 DEF Live, WorkspaceInv, DataInv, RestoreHolds
  <2>1. req[x].tok # t
    BY <1>2 DEF Critical, Popping
  <2>2. req[x].tok \in Token
    BY DEF Live, WorkspaceInv, SerialInv, CarryInv, OwnerInv, TypeInv, CallerOK, Request
  <2> QED BY <1>0, <1>1, <2>1, <2>2, NamesAssumption
<1>5. SnapshotNewer'
  <2> SUFFICES ASSUME NEW d \in Container, ~Settled(d)', item'[accessToken[d]] # None
               PROVE  /\ evPc'[d] \in {"sem", "snapshot"} => item'[accessToken[d]] \subseteq ws[d]
                      /\ evPc'[d] = "put" => item'[accessToken[d]] \subseteq tar'[d]
    BY <1>1 DEF SnapshotNewer
  <2>1. CASE d = c
    BY <1>0, <1>1, <1>2, <1>3, <2>1
  <2>2. CASE d # c
    <3>1. ~Settled(d) /\ evPc'[d] = evPc[d] /\ tar'[d] = tar[d]
      BY <1>0, <1>1, <2>2 DEF Settled
    <3>2. item'[accessToken[d]] = item[accessToken[d]]
      <4>1. accessToken[d] \in Token /\ accessToken[d] # t
        BY <1>2, <2>2, <3>1, EvictorAlone
      <4> QED BY <1>0, <1>1, <4>1
    <3> QED BY <3>1, <3>2 DEF Live, WorkspaceInv, DataInv, SnapshotNewer
  <2> QED BY <2>1, <2>2
<1>6. ResumedFromLatest'
  BY <1>0, <1>1, <1>2 DEF Live, WorkspaceInv, DataInv, ResumedFromLatest, SessionTokens
<1>7. AcknowledgedSurvives'
  <2> SUFFICES ASSUME NEW u \in Token, NEW w \in acked \cap Own(u) PROVE Safe(w, u)'
    BY <1>1, SurvivesIff DEF Live
  <2>1. Safe(w, u)
    BY SurvivesIff DEF Live, WorkspaceInv, DataInv
  <2>2. tar[c] # None
    BY <1>0, WorkspaceAssumption
  <2>3. ASSUME Kept(w, u) PROVE Kept(w, u)' \/ w \in unsaved'
    <3>1. CASE sessions[u] # None /\ w \in ws[sessions[u]]
      BY <1>1, <3>1 DEF Kept
    <3>2. ASSUME NEW d \in Container, accessToken[d] = u, evPc[d] \in {"sem", "snapshot"}, w \in ws[d]
          PROVE  Kept(w, u)'
      BY <1>0, <1>1, <3>2 DEF Kept
    <3>3. ASSUME NEW d \in Container, accessToken[d] = u, evPc[d] = "put", w \in tar[d]
          PROVE  Kept(w, u)' \/ w \in unsaved'
      BY <1>0, <1>1, <2>2, <3>3 DEF Kept
    <3>4. CASE item[u] # None /\ w \in item[u]
      BY <1>0, <1>1, <1>3, <2>2, <3>4 DEF Kept
    <3> QED BY <2>3, <3>1, <3>2, <3>3, <3>4 DEF Kept
  <2> QED BY <1>1, <2>1, <2>3 DEF Safe
<1> QED BY <1>4, <1>5, <1>6, <1>7 DEF DataInv

LEMMA WorkspaceInvariant == WSpec => []WorkspaceInv
<1>1. SerialInv => TypeInv
  BY DEF SerialInv, CarryInv, OwnerInv
<1>2. WorkspaceInv /\ [WNext]_wvars => DataInv'
  <2> SUFFICES ASSUME WorkspaceInv, [WNext]_wvars, Bearer = {TRUE}, ~Done' PROVE DataInv'
    BY DEF DataInv
  <2>1. ~Done
    BY DEF WNext, Bookkeeping, PoolManager, Replenish, CreateContainer, StopCreating, Register,
       PollInflight, Promote, PoolStop, Call, GetOrAssign, CheckKey, LockSession, PopWarm, GiveUp, Probe,
       Fetch, Push, Commit, Proxy, EvictWarm, EvictSem, EvictCancelled, EvictSnapshot, EvictPut,
       EvictDelete, RunDelete, EvictIdleSessions, ScanSessionHealth, EvictSessionAsync, EvictClaim,
       SweepDelete, Finish, FinishClose, FinishCollect, DeadlineHit, CleanupAll, Exit, FetchItem,
       PushRestoreOnce, Retry, ProxyCall, TakeSnapshot, PutOnce, vars, wvars, finishVars, Done
  <2>2. Live
    BY <2>1 DEF Live
  <2>3. CASE UNCHANGED wvars
    <3>1. UNCHANGED <<sessions, accessToken, evPc, pc, held, req, ws, tar, item, acked, unsaved, late>>
      BY <2>3 DEF wvars, vars, dataVars, containerVars, callerVars, evictVars
    <3> QED BY <2>2, <3>1, FrameData
  <2> QED BY <2>2, <2>3, BookkeepingData, RestoreData, ProxyData, TakeData, PutData DEF WNext
<1>3. WInit => DataInv /\ WTypeOK
  BY InitData, InitWType
<1> QED
  BY <1>1, <1>2, <1>3, WTypeStep, HoldInvariant, WorkspaceIsManager, PTL DEF WSpec, WorkspaceInv

(* Until SIGTERM, a write that was acknowledged is in its session's container,
   on its way to the store or in it, unless a 403 destroyed it, a snapshot failed or had already
   been taken: no restore, retry or recycling brings an older one back. *)
THEOREM WritesSurvive == WSpec => []AcknowledgedSurvives
<1>1. WorkspaceInv => AcknowledgedSurvives
  BY DEF WorkspaceInv, DataInv, AcknowledgedSurvives
<1> QED BY <1>1, WorkspaceInvariant, PTL

(* Until SIGTERM, a session always resumes from its last snapshot. *)
THEOREM SessionsResume == WSpec => []ResumedFromLatest
<1>1. WorkspaceInv => ResumedFromLatest
  BY DEF WorkspaceInv, DataInv, ResumedFromLatest
<1> QED BY <1>1, WorkspaceInvariant, PTL
=============================================================================
