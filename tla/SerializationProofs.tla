------------------------ MODULE SerializationProofs ------------------------
(***************************************************************************)
(* What the per-session mutex guarantees until CleanupAll drops it: an     *)
(* assignment never overwrites another (CommitNeverOverwrites) and a       *)
(* restore never overlaps the same session's eviction                      *)
(* (RestoreWaitsForEviction).  Then the account of every container, before *)
(* and after CleanupAll: none is lost or deleted twice (NoOrphan,          *)
(* DeletedOnce), and calls stay in their session (CallsOwnSession).        *)
(***************************************************************************)
EXTENDS ManagerProofs

\* A request in its critical section holds its session's mutex, and the map
\* has no entry for the session; so does an evictor until it returns.
LockInv == ~Swept =>
  /\ \A x \in Caller : pc[x] = "lock" \/ Critical(x) => sl[x] = <<req[x].tok, 0>>
  /\ \A x \in Caller : Critical(x) =>
       assignLock[<<req[x].tok, 0>>] = x /\ sessions[req[x].tok] = None
  /\ \A e \in evicts : e[2][2] = 0
  /\ \A c \in Container : ~Settled(c) /\ c \notin drain =>
       accessToken[c] \in Token /\ assignLock[<<accessToken[c], 0>>] = c
  /\ phase \in {"up", "done"} => drain = {}

SerialInv == CarryInv /\ LockInv

LEMMA TokenLock == \A t \in Token : <<t, 0>> \in Lock
BY DEF Lock

LEMMA InitLock == Init => LockInv
BY DEF Init, LockInv, Critical, Popping, Settled

LEMMA PoolManagerLock ==
  ASSUME SerialInv, PoolManager
  PROVE  LockInv'
<1> USE NamesAssumption, TokenLock
    DEF CarryInv, OwnerInv, TypeInv, TypeOK, CallerOK, PoolManagerOK, PlaceInv,
        FreshPlace, InflightPlace, WarmPlace, PoppedPlace, SessionPlace, UnusedPlace,
        Settled, Unbound, Unpopped, Popping, Critical, SessionBinding, SessionTokens, Request,
        Swept, Done, SerialInv, LockInv, poolVars, lockVars, containerVars, callerVars, evictVars, deleteVars,
        pmVars, finishVars, SetStatus, GoDelete
<1>1. CASE Replenish
  BY <1>1 DEF Replenish
<1>2. CASE CreateContainer
  BY <1>2 DEF CreateContainer
<1>3. CASE StopCreating
  BY <1>3 DEF StopCreating
<1>4. CASE Register
  BY <1>4 DEF Register
<1>5. CASE PollInflight
  BY <1>5 DEF PollInflight
<1>6. CASE Promote
  BY <1>6 DEF Promote
<1>7. CASE PoolStop
  BY <1>7 DEF PoolStop
<1> QED
  BY <1>1, <1>2, <1>3, <1>4, <1>5, <1>6, <1>7 DEF PoolManager

LEMMA CallerLock ==
  ASSUME SerialInv, NEW x \in Caller, Call(x) \/ CallerStep(x)
  PROVE  LockInv'
<1> USE NamesAssumption, TokenLock
    DEF CarryInv, OwnerInv, TypeInv, TypeOK, CallerOK, PoolManagerOK, PlaceInv,
        FreshPlace, InflightPlace, WarmPlace, PoppedPlace, SessionPlace, UnusedPlace,
        Settled, Unbound, Unpopped, Popping, Critical, SessionBinding, SessionTokens, Request,
        Swept, Done, SerialInv, LockInv, poolVars, lockVars, containerVars, callerVars, evictVars, deleteVars,
        pmVars, finishVars, SetStatus, GoDelete,
        Discard, CleanupSession, Deferred, Unlock, Refuse, Return, Requeue, RemoveWarm,
        WithoutSession
<1>1. CASE Call(x)
  BY <1>1 DEF Call
<1>2. CASE GetOrAssign(x)
  BY <1>2 DEF GetOrAssign, Generation
<1>3. CASE CheckKey(x)
  <2>1. CASE Refuse(x) /\ UNCHANGED bearer
    BY <1>3, <2>1 DEF CheckKey
  <2>2. CASE Return(x, held[x])
    BY <1>3, <2>2 DEF CheckKey
  <2> QED BY <1>3, <2>1, <2>2 DEF CheckKey
<1>4. CASE LockSession(x)
  <2>1. CASE Return(x, sessions[req[x].tok])
    BY <1>4, <2>1 DEF LockSession
  <2>2. CASE Refuse(x)
    BY <1>4, <2>2 DEF LockSession
  <2>3. CASE ~Reassigned(req[x].tok) /\ pc' = [pc EXCEPT ![x] = "wait"]
             /\ assignLock' = [assignLock EXCEPT ![sl[x]] = x] /\ UNCHANGED <<req, held, sl>>
    <3> DEFINE l == <<req[x].tok, 0>>
    <3> SUFFICES ASSUME ~Swept PROVE LockInv'
      BY <1>4 DEF LockSession
    <3>1. /\ sl[x] = l /\ assignLock[l] = None /\ sessions[req[x].tok] = None
          /\ l \in Lock
      BY <1>4, <2>3 DEF LockSession, Reassigned
    <3>2. /\ UNCHANGED <<sessions, evicts, evPc, accessToken, drain, phase>>
          /\ assignLock' = [assignLock EXCEPT ![l] = x]
          /\ pc' = [pc EXCEPT ![x] = "wait"] /\ UNCHANGED <<req, sl>>
      BY <1>4, <2>3, <3>1 DEF LockSession
    <3>3. assignLock'[l] = x
      BY <3>1, <3>2
    <3>4. ASSUME NEW k \in Lock, assignLock[k] # None PROVE assignLock'[k] = assignLock[k]
      BY <3>1, <3>2, <3>4
    <3>5. ASSUME NEW y \in Caller, Critical(y)'
          PROVE  assignLock'[<<req'[y].tok, 0>>] = y /\ sessions'[req'[y].tok] = None
      BY <3>1, <3>2, <3>3, <3>4, <3>5
    <3>6. ASSUME NEW c \in Container, ~Settled(c)', c \notin drain'
          PROVE  accessToken'[c] \in Token /\ assignLock'[<<accessToken'[c], 0>>] = c
      BY <3>2, <3>4, <3>6
    <3> QED BY <3>1, <3>2, <3>5, <3>6
  <2> QED BY <1>4, <2>1, <2>2, <2>3 DEF LockSession
<1>5. CASE PopWarm(x)
  BY <1>5 DEF PopWarm
<1>6. CASE GiveUp(x)
  BY <1>6 DEF GiveUp
<1>7. CASE Probe(x)
  BY <1>7 DEF Probe
<1>8. CASE Fetch(x)
  BY <1>8 DEF Fetch
<1>9. CASE Push(x)
  <2>1. CASE Refuse(x)
    BY <1>9, <2>1 DEF Push
  <2>2. CASE pc' = [pc EXCEPT ![x] = "commit"] /\ UNCHANGED <<req, held, sl, lockVars>>
    BY <1>9, <2>2 DEF Push
  <2> QED BY <1>9, <2>1, <2>2 DEF Push
<1>10. CASE Commit(x)
  BY <1>10 DEF Commit, Request
<1>11. CASE Proxy(x)
  <2>1. /\ UNCHANGED <<assignLock, sl, evicts, evPc, accessToken, drain, phase>>
        /\ ~Critical(x)' /\ pc'[x] # "lock"
        /\ \A y \in Caller \ {x} : pc'[y] = pc[y] /\ req'[y] = req[y]
    BY <1>11 DEF Proxy
  <2>2. \A t \in Token : sessions'[t] \in {sessions[t], None}
    <3>1. CASE CleanupSession(accessToken[held[x]])
      BY <3>1
    <3>2. CASE UNCHANGED sessions
      BY <3>2
    <3> QED BY <1>11, <3>1, <3>2 DEF Proxy, HandleAuthGate
  <2> QED BY <2>1, <2>2
<1> QED
  BY <1>1, <1>2, <1>3, <1>4, <1>5, <1>6, <1>7, <1>8, <1>9, <1>10, <1>11 DEF CallerStep

LEMMA EvictionLock ==
  ASSUME SerialInv, NEW c \in Container,
         \/ EvictWarm(c) \/ EvictAndSnapshot(c) \/ RunDelete(c)
         \/ \E l \in Lock, scan \in Scan : EvictClaim(c, l, scan)
  PROVE  LockInv'
<1> USE NamesAssumption, TokenLock
    DEF CarryInv, OwnerInv, TypeInv, TypeOK, CallerOK, PoolManagerOK, PlaceInv,
        FreshPlace, InflightPlace, WarmPlace, PoppedPlace, SessionPlace, UnusedPlace,
        Settled, Unbound, Unpopped, Popping, Critical, SessionBinding, SessionTokens, Request,
        Swept, Done, SerialInv, LockInv, poolVars, lockVars, containerVars, callerVars, evictVars, deleteVars,
        pmVars, finishVars, SetStatus, GoDelete,
        Discard, CleanupSession, Unlock, RemoveWarm, WithoutSession, LockKept,
        FirstEvictStep, NextIfCancelled
<1>1. CASE EvictWarm(c)
  BY <1>1 DEF EvictWarm, StillWarm
<1>2. CASE EvictSem(c)
  BY <1>2 DEF EvictSem
<1>3. CASE EvictCancelled(c)
  BY <1>3 DEF EvictCancelled
<1>4. CASE EvictSnapshot(c)
  BY <1>4 DEF EvictSnapshot, HandleAuthGate
<1>5. CASE EvictPut(c)
  BY <1>5 DEF EvictPut
<1>6. CASE EvictDelete(c)
  BY <1>6 DEF EvictDelete
<1>7. CASE RunDelete(c)
  BY <1>7 DEF RunDelete
<1>8. ASSUME NEW l \in Lock, NEW scan \in Scan, EvictClaim(c, l, scan) PROVE LockInv'
  <2>1. l[1] \in Token /\ l = <<l[1], l[2]>>
    BY DEF Lock
  <2>2. ~Swept => l = <<l[1], 0>>
    BY <1>8, <2>1 DEF EvictClaim
  <2>3. CASE StillBound(l[1], c)
    BY <1>8, <2>1, <2>2, <2>3 DEF EvictClaim, StillBound
  <2>4. CASE ~StillBound(l[1], c)
    BY <1>8, <2>4 DEF EvictClaim
  <2> QED BY <2>3, <2>4
<1> QED
  BY <1>1, <1>2, <1>3, <1>4, <1>5, <1>6, <1>7, <1>8 DEF EvictAndSnapshot

LEMMA FinishLock ==
  ASSUME SerialInv, Finish \/ \E c \in Container : SweepDelete(c)
  PROVE  LockInv'
<1> USE NamesAssumption, TokenLock
    DEF CarryInv, OwnerInv, TypeInv, TypeOK, CallerOK, PoolManagerOK, PlaceInv,
        FreshPlace, InflightPlace, WarmPlace, PoppedPlace, SessionPlace, UnusedPlace,
        Settled, Unbound, Unpopped, Popping, Critical, SessionBinding, SessionTokens, Request,
        Swept, Done, SerialInv, LockInv, poolVars, lockVars, containerVars, callerVars, evictVars, deleteVars,
        pmVars, finishVars, SetStatus, GoDelete,
        SessionContainers, FirstEvictStep
<1>1. CASE FinishClose
  BY <1>1 DEF FinishClose
<1>2. CASE FinishCollect
  BY <1>2 DEF FinishCollect, SessionsDropped
<1>3. CASE DeadlineHit
  BY <1>3 DEF DeadlineHit
<1>4. CASE CleanupAll
  BY <1>4 DEF CleanupAll
<1>5. CASE Exit
  BY <1>5 DEF Exit
<1>6. ASSUME NEW c \in Container, SweepDelete(c) PROVE LockInv'
  BY <1>6 DEF SweepDelete
<1> QED
  BY <1>1, <1>2, <1>3, <1>4, <1>5, <1>6 DEF Finish

LEMMA SpawnLock ==
  ASSUME SerialInv, NEW t \in Token, NEW scan \in Scan, EvictSessionAsync(t, scan)
  PROVE  LockInv'
BY DEF EvictSessionAsync, Generation, SerialInv, LockInv, Swept, Settled, Critical, Popping,
       poolVars, lockVars, containerVars, callerVars, deleteVars, pmVars, finishVars

LEMMA StutterLock == ASSUME SerialInv, UNCHANGED vars PROVE LockInv'
BY DEF vars, SerialInv, LockInv, Swept, Settled, Critical, Popping, poolVars, lockVars,
       containerVars, callerVars, evictVars, deleteVars, pmVars, finishVars

LEMMA NextSerial == ASSUME SerialInv, [Next]_vars PROVE SerialInv'
<1>1. CarryInv'
  BY NextCarry DEF SerialInv
<1>2. LockInv'
  BY PoolManagerLock, CallerLock, EvictionLock, SpawnLock, FinishLock, StutterLock DEF Next, EvictIdleSessions, ScanSessionHealth
<1> QED BY <1>1, <1>2 DEF SerialInv

LEMMA SerialInvariant == Spec => []SerialInv
<1>1. Init => SerialInv
  BY InitType, InitPlace, InitCarry, InitLock DEF OwnerInv, CarryInv, SerialInv
<1>2. SerialInv /\ [Next]_vars => SerialInv'
  BY NextSerial
<1> QED BY <1>1, <1>2, PTL DEF Spec

(* Until CleanupAll, a request restores a session's snapshot only when no
   evictor of that session is still writing it: both hold its mutex. *)
THEOREM RestoreSerialized == Spec => []RestoreWaitsForEviction
<1>1. SerialInv => RestoreWaitsForEviction
  <2> SUFFICES ASSUME SerialInv, ~Swept, NEW x \in Caller, NEW c \in Evicting \ drain,
                      Critical(x), accessToken[c] = req[x].tok
               PROVE  FALSE
    BY DEF RestoreWaitsForEviction
  <2>1. c \in Container /\ ~Settled(c) /\ c \notin drain
    BY DEF Evicting, Settled
  <2>2. assignLock[<<req[x].tok, 0>>] = x /\ assignLock[<<accessToken[c], 0>>] = c
    BY <2>1 DEF SerialInv, LockInv
  <2> QED BY <2>1, <2>2, NamesAssumption
<1> QED BY <1>1, SerialInvariant, PTL

----------------------------------------------------------------------------
(* Assignments never overwrite. *)

LEMMA SessionsStep ==
  ASSUME SerialInv, [Next]_vars, ~Swept, NEW t \in SessionTokens
  PROVE  sessions'[t] \in {sessions[t], None}
<1> USE DEF poolVars, lockVars, containerVars, callerVars, evictVars, deleteVars, pmVars,
        finishVars, CleanupSession, WithoutSession, SessionTokens
<1> t \in Token /\ sessions[t] # None /\ sessions \in [Token -> Container \cup {None}]
  BY DEF SerialInv, CarryInv, OwnerInv, TypeInv, TypeOK
<1>1. CASE PoolManager
  BY <1>1 DEF PoolManager, Replenish, CreateContainer, StopCreating, Register,
       PollInflight, Promote, PoolStop
<1>2. ASSUME NEW x \in Caller, Call(x) \/ CallerStep(x)
      PROVE  sessions'[t] \in {sessions[t], None}
  <2>1. CASE Commit(x)
    <3>1. sessions[req[x].tok] = None
      BY <2>1 DEF Commit, SerialInv, LockInv, Critical, Popping
    <3> QED BY <2>1, <3>1 DEF Commit
  <2>2. CASE Proxy(x)
    BY <2>2 DEF Proxy, HandleAuthGate
  <2>3. CASE ~Commit(x) /\ ~Proxy(x)
    BY <1>2, <2>3 DEF Call, CallerStep, GetOrAssign, CheckKey, LockSession, PopWarm,
         GiveUp, Probe, Fetch, Push
  <2> QED BY <2>1, <2>2, <2>3
<1>3. ASSUME NEW c \in Container, EvictWarm(c) \/ EvictAndSnapshot(c) \/ RunDelete(c)
      PROVE  sessions'[t] \in {sessions[t], None}
  BY <1>3 DEF EvictWarm, EvictAndSnapshot, HandleAuthGate, EvictSem, EvictCancelled, EvictSnapshot,
       EvictPut, EvictDelete, RunDelete
<1>4. ASSUME NEW c \in Container, NEW l \in Lock, NEW scan \in Scan, EvictClaim(c, l, scan)
      PROVE  sessions'[t] \in {sessions[t], None}
  BY <1>4 DEF EvictClaim
<1>5. ASSUME NEW u \in Token, NEW scan \in Scan, EvictSessionAsync(u, scan)
      PROVE  sessions'[t] \in {sessions[t], None}
  BY <1>5 DEF EvictSessionAsync
<1>6. CASE Finish \/ \E c \in Container : SweepDelete(c)
  BY <1>6 DEF Finish, FinishClose, FinishCollect, SessionsDropped, DeadlineHit, CleanupAll,
       Exit, SweepDelete
<1>7. CASE UNCHANGED vars
  BY <1>7 DEF vars
<1> QED BY <1>1, <1>2, <1>3, <1>4, <1>5, <1>6, <1>7 DEF Next, EvictIdleSessions, ScanSessionHealth

(* Until CleanupAll, an entry of the session map goes away before another
   container takes its place: Commit finds the entry empty, because every
   request and evictor of the session queues on its mutex. *)
THEOREM AssignmentsNeverOverwrite == Spec => CommitNeverOverwrites
<1>1. SerialInv /\ [Next]_vars
        => [~Swept => \A t \in SessionTokens : sessions'[t] \in {sessions[t], None}]_vars
  BY SessionsStep
<1> QED BY <1>1, SerialInvariant, PTL DEF Spec, CommitNeverOverwrites

----------------------------------------------------------------------------
(* Every container is accounted for. *)

HasOwner(c) ==
  c = fresh \/ c \in inflight \cup warmPool \/ ~Unpopped(c) \/ ~Unbound(c) \/ ~Settled(c)

\* Until CleanupAll: created and ownerless is the same as deleted once.
AccountInv == ~Swept =>
  /\ ready \cup failed \subseteq inflight /\ sweeping = {}
  /\ \A c \in Container :
       deletes[c] = IF status[c] = "none" \/ HasOwner(c) THEN 0 ELSE 1

AccountingInv == SerialInv /\ AccountInv

(* What a step of one request does to the set of popped containers. *)
OnlyCaller(x) == \A y \in Caller \ {x} : pc'[y] = pc[y] /\ held'[y] = held[y]

LEMMA StayUnpopped ==
  ASSUME NEW x \in Caller, ~Popping(x), ~Popping(x)', OnlyCaller(x), NEW c
  PROVE  Unpopped(c)' <=> Unpopped(c)
BY DEF Unpopped, Popping, OnlyCaller

LEMMA LeavePopped ==
  ASSUME OwnerInv, NEW x \in Caller, Popping(x), ~Popping(x)', OnlyCaller(x), NEW c
  PROVE  Unpopped(c)' <=> Unpopped(c) \/ c = held[x]
BY DEF Unpopped, Popping, OnlyCaller, OwnerInv, PlaceInv, PoppedPlace

LEMMA InitAccount == Init => AccountInv
BY DEF Init, AccountInv

LEMMA PoolManagerAccount ==
  ASSUME AccountingInv, PoolManager
  PROVE  AccountInv'
<1> USE NamesAssumption, TokenLock
    DEF CarryInv, OwnerInv, TypeInv, TypeOK, CallerOK, PoolManagerOK, PlaceInv,
        FreshPlace, InflightPlace, WarmPlace, PoppedPlace, SessionPlace, UnusedPlace,
        Settled, Unbound, Unpopped, Popping, Critical, SessionBinding, SessionTokens, Request,
        Swept, Done, SerialInv, LockInv, AccountingInv,
        AccountInv, HasOwner, poolVars, lockVars, containerVars, callerVars, evictVars, deleteVars,
        pmVars, finishVars, SetStatus, GoDelete
<1>1. CASE Replenish
  BY <1>1 DEF Replenish
<1>2. CASE CreateContainer
  BY <1>2 DEF CreateContainer
<1>3. CASE StopCreating
  BY <1>3 DEF StopCreating
<1>4. CASE Register
  BY <1>4 DEF Register
<1>5. CASE PollInflight
  BY <1>5 DEF PollInflight
<1>6. CASE Promote
  BY <1>6 DEF Promote
<1>7. CASE PoolStop
  BY <1>7 DEF PoolStop
<1> QED
  BY <1>1, <1>2, <1>3, <1>4, <1>5, <1>6, <1>7 DEF PoolManager

LEMMA CallerAccount ==
  ASSUME AccountingInv, NEW x \in Caller, Call(x) \/ CallerStep(x)
  PROVE  AccountInv'
<1> USE NamesAssumption, TokenLock
    DEF CarryInv, OwnerInv, TypeInv, TypeOK, CallerOK, PoolManagerOK, PlaceInv,
        FreshPlace, InflightPlace, WarmPlace, PoppedPlace, SessionPlace, UnusedPlace,
        Settled, Unbound, Unpopped, Popping, Critical, SessionBinding, SessionTokens, Request,
        Swept, Done, SerialInv, LockInv, AccountingInv,
        AccountInv, HasOwner, poolVars, lockVars, containerVars, callerVars, evictVars, deleteVars,
        pmVars, finishVars, SetStatus, GoDelete,
        Discard, CleanupSession, Deferred, Unlock, Refuse, Return, Requeue, RemoveWarm,
        WithoutSession
<1>1. CASE Call(x)
  BY <1>1 DEF Call
<1>2. CASE GetOrAssign(x)
  BY <1>2 DEF GetOrAssign, Generation
<1>3. CASE CheckKey(x)
  <2>1. OnlyCaller(x) /\ ~Popping(x) /\ ~Popping(x)'
    BY <1>3 DEF CheckKey, OnlyCaller
  <2>2. UNCHANGED <<fresh, inflight, warmPool, sessions, evPc, status, deletes, ready,
                    failed, phase, sweeping>>
    BY <1>3 DEF CheckKey
  <2>3. \A c \in Container : Unpopped(c)' <=> Unpopped(c)
    BY <2>1, StayUnpopped
  <2> HIDE DEF Unpopped, Popping
  <2> QED BY <2>2, <2>3
<1>4. CASE LockSession(x)
  <2>1. \A y \in Caller : Popping(y)' <=> Popping(y)
    <3>1. CASE Return(x, sessions[req[x].tok])
      BY <1>4, <3>1 DEF LockSession
    <3>2. CASE Refuse(x)
      BY <1>4, <3>2 DEF LockSession
    <3>3. CASE pc' = [pc EXCEPT ![x] = "wait"]
      BY <1>4, <3>3 DEF LockSession
    <3> QED BY <1>4, <3>1, <3>2, <3>3 DEF LockSession
  <2>2. \A y \in Caller \ {x} : held'[y] = held[y]
    BY <1>4 DEF LockSession
  <2>3. ~Popping(x)
    BY <1>4 DEF LockSession
  <2>4. UNCHANGED <<fresh, inflight, warmPool, sessions, evPc, status, deletes, ready,
                    failed, phase, sweeping>>
    BY <1>4 DEF LockSession
  <2>5. \A c \in Container : HasOwner(c)' <=> HasOwner(c)
    BY <2>1, <2>2, <2>3, <2>4
  <2> QED BY <2>4, <2>5
<1>5. CASE PopWarm(x)
  BY <1>5 DEF PopWarm
<1>6. CASE GiveUp(x)
  <2>1. OnlyCaller(x) /\ ~Popping(x) /\ ~Popping(x)'
    BY <1>6 DEF GiveUp, OnlyCaller
  <2>2. UNCHANGED <<fresh, inflight, warmPool, sessions, evPc, status, deletes, ready,
                    failed, phase, sweeping>>
    BY <1>6 DEF GiveUp
  <2>3. \A c \in Container : Unpopped(c)' <=> Unpopped(c)
    BY <2>1, StayUnpopped
  <2> HIDE DEF Unpopped, Popping
  <2> QED BY <2>2, <2>3
<1>7. CASE Probe(x)
  <2>1. CASE UNCHANGED <<held, status, deleteVars>>
    <3>1. /\ UNCHANGED <<fresh, inflight, warmPool, sessions, evPc, ready, failed, phase,
                          sweeping, status, deletes, held>>
          /\ \A y \in Caller : Popping(y)' <=> Popping(y)
      BY <1>7, <2>1 DEF Probe
    <3>2. \A c \in Container : HasOwner(c)' <=> HasOwner(c)
      BY <3>1
    <3> QED BY <3>1, <3>2
  <2>2. CASE pc' = [pc EXCEPT ![x] = "wait"] /\ Discard(held[x])
    <3>1. OnlyCaller(x) /\ Popping(x) /\ ~Popping(x)'
      BY <1>7, <2>2 DEF Probe, OnlyCaller
    <3>2. \A c \in Container : Unpopped(c)' <=> Unpopped(c) \/ c = held[x]
      <4>1. OwnerInv
        OBVIOUS
      <4> HIDE DEF OwnerInv, Unpopped, Popping
      <4> QED BY <3>1, <4>1, LeavePopped
    <3>3. /\ UNCHANGED <<fresh, inflight, warmPool, sessions, evPc, ready, failed, phase,
                          sweeping>>
          /\ status' = [status EXCEPT ![held[x]] = "failed"]
          /\ deletes' = [deletes EXCEPT ![held[x]] = @ + 1]
          /\ held[x] \in Container
      BY <1>7, <2>2 DEF Probe
    <3>4. ~Unpopped(held[x])
      BY <3>1
    <3> HIDE DEF Unpopped, Popping
    <3> QED BY <3>1, <3>2, <3>3, <3>4
  <2> QED BY <1>7, <2>1, <2>2 DEF Probe
<1>8. CASE Fetch(x)
  <2>1. CASE Requeue(held[x]) /\ Refuse(x)
    <3>1. OnlyCaller(x) /\ Popping(x) /\ ~Popping(x)'
      BY <1>8, <2>1 DEF Fetch, OnlyCaller
    <3>2. \A c \in Container : Unpopped(c)' <=> Unpopped(c) \/ c = held[x]
      <4>1. OwnerInv
        OBVIOUS
      <4> HIDE DEF OwnerInv, Unpopped, Popping
      <4> QED BY <3>1, <4>1, LeavePopped
    <3>3. /\ UNCHANGED <<fresh, inflight, sessions, evPc, ready, failed, phase, sweeping,
                          status, deletes>>
          /\ warmPool' = warmPool \cup {held[x]}
          /\ held[x] \in Container
      BY <1>8, <2>1 DEF Fetch
    <3>4. ~Unpopped(held[x])
      BY <3>1
    <3> HIDE DEF Unpopped, Popping
    <3> QED BY <3>2, <3>3, <3>4
  <2>2. CASE UNCHANGED <<req, held, sl, warmPool, lockVars>>
    BY <1>8, <2>2 DEF Fetch
  <2> QED BY <1>8, <2>1, <2>2 DEF Fetch
<1>9. CASE Push(x)
  <2>1. CASE UNCHANGED <<req, held, sl, warmPool, lockVars, status, deleteVars>>
    BY <1>9, <2>1 DEF Push
  <2>2. CASE Requeue(held[x]) /\ Refuse(x) /\ UNCHANGED <<status, deleteVars>>
    <3>1. OnlyCaller(x) /\ Popping(x) /\ ~Popping(x)'
      BY <1>9, <2>2 DEF Push, OnlyCaller
    <3>2. \A c \in Container : Unpopped(c)' <=> Unpopped(c) \/ c = held[x]
      <4>1. OwnerInv
        OBVIOUS
      <4> HIDE DEF OwnerInv, Unpopped, Popping
      <4> QED BY <3>1, <4>1, LeavePopped
    <3>3. /\ UNCHANGED <<fresh, inflight, sessions, evPc, ready, failed, phase, sweeping,
                          status, deletes>>
          /\ warmPool' = warmPool \cup {held[x]}
          /\ held[x] \in Container
      BY <1>9, <2>2 DEF Push
    <3>4. ~Unpopped(held[x])
      BY <3>1
    <3> HIDE DEF Unpopped, Popping
    <3> QED BY <3>2, <3>3, <3>4
  <2>3. CASE Discard(held[x]) /\ Refuse(x) /\ UNCHANGED warmPool
    <3>1. OnlyCaller(x) /\ Popping(x) /\ ~Popping(x)'
      BY <1>9, <2>3 DEF Push, OnlyCaller
    <3>2. \A c \in Container : Unpopped(c)' <=> Unpopped(c) \/ c = held[x]
      <4>1. OwnerInv
        OBVIOUS
      <4> HIDE DEF OwnerInv, Unpopped, Popping
      <4> QED BY <3>1, <4>1, LeavePopped
    <3>3. /\ UNCHANGED <<fresh, inflight, warmPool, sessions, evPc, ready, failed, phase,
                          sweeping>>
          /\ status' = [status EXCEPT ![held[x]] = "failed"]
          /\ deletes' = [deletes EXCEPT ![held[x]] = @ + 1]
          /\ held[x] \in Container
      BY <1>9, <2>3 DEF Push
    <3>4. ~Unpopped(held[x])
      BY <3>1
    <3> HIDE DEF Unpopped, Popping
    <3> QED BY <3>1, <3>2, <3>3, <3>4
  <2> QED BY <1>9, <2>1, <2>2, <2>3 DEF Push
<1>10. CASE Commit(x)
  <2> DEFINE c == held[x]  t == req[x].tok
  <2>1. OnlyCaller(x) /\ Popping(x) /\ ~Popping(x)'
    BY <1>10 DEF Commit, OnlyCaller
  <2>2. \A d \in Container : Unpopped(d)' <=> Unpopped(d) \/ d = c
    <3>1. OwnerInv
      OBVIOUS
    <3> HIDE DEF OwnerInv, Unpopped, Popping
    <3> QED BY <2>1, <3>1, LeavePopped
  <2>3. /\ UNCHANGED <<fresh, inflight, warmPool, evPc, ready, failed, phase, sweeping, deletes>>
        /\ status' = [status EXCEPT ![c] = "assigned"]
        /\ sessions' = [sessions EXCEPT ![t] = c]
        /\ c \in Container /\ t \in Token
    BY <1>10 DEF Commit
  <2>4. ~Unpopped(c) /\ Unbound(c)
    BY <2>1, <2>3
  <2>5. ~Swept => sessions[t] = None
    BY <2>1
  <2>6. ~Swept => \A d \in Container : Unbound(d)' <=> Unbound(d) /\ d # c
    BY <2>3, <2>5
  <2>7. status[c] # "none"
    BY <2>3, <2>4
  <2> HIDE DEF Unpopped, Popping, Unbound, c, t
  <2> QED BY <2>2, <2>3, <2>4, <2>6, <2>7
<1>11. CASE Proxy(x)
  <2> DEFINE t == accessToken[held[x]]  d == sessions[t]
  <2>1. OnlyCaller(x) /\ ~Popping(x) /\ ~Popping(x)'
    BY <1>11 DEF Proxy, OnlyCaller
  <2>2. \A c \in Container : Unpopped(c)' <=> Unpopped(c)
    BY <2>1, StayUnpopped
  <2>3. UNCHANGED <<fresh, inflight, warmPool, evPc, ready, failed, phase, sweeping>>
    BY <1>11 DEF Proxy
  <2>4. \/ UNCHANGED <<sessions, status, deletes>>
        \/ /\ t \in Token /\ d # None
           /\ sessions' = [sessions EXCEPT ![t] = None]
           /\ status' = [status EXCEPT ![d] = "deleting"]
           /\ deletes' = [deletes EXCEPT ![d] = @ + 1]
    BY <1>11 DEF Proxy, HandleAuthGate
  <2>5. CASE UNCHANGED <<sessions, status, deletes>>
    <3> HIDE DEF Unpopped, Popping, t, d
    <3> QED BY <2>2, <2>3, <2>5
  <2>6. ASSUME t \in Token, d # None,
               sessions' = [sessions EXCEPT ![t] = None],
               status' = [status EXCEPT ![d] = "deleting"],
               deletes' = [deletes EXCEPT ![d] = @ + 1]
        PROVE  AccountInv'
    <3>1. d \in Container /\ Settled(d) /\ ~Unbound(d)
      BY <2>6
    <3>2. \A c \in Container : Unbound(c)' <=> Unbound(c) \/ c = d
      BY <2>6, <3>1
    <3>3. d # fresh /\ d \notin inflight \cup warmPool
      BY <3>1
    <3>4. Unpopped(d) /\ status[d] # "none"
      BY <3>1
    <3> HIDE DEF Unpopped, Popping, Unbound, t, d
    <3> QED BY <2>2, <2>3, <2>6, <3>1, <3>2, <3>3, <3>4
  <2> QED BY <2>4, <2>5, <2>6
<1> QED
  BY <1>1, <1>2, <1>3, <1>4, <1>5, <1>6, <1>7, <1>8, <1>9, <1>10, <1>11 DEF CallerStep

LEMMA EvictionAccount ==
  ASSUME AccountingInv, NEW c \in Container,
         \/ EvictWarm(c) \/ EvictAndSnapshot(c) \/ RunDelete(c)
         \/ \E l \in Lock, scan \in Scan : EvictClaim(c, l, scan)
  PROVE  AccountInv'
<1> USE NamesAssumption, TokenLock
    DEF CarryInv, OwnerInv, TypeInv, TypeOK, CallerOK, PoolManagerOK, PlaceInv,
        FreshPlace, InflightPlace, WarmPlace, PoppedPlace, SessionPlace, UnusedPlace,
        Settled, Unbound, Unpopped, Popping, Critical, SessionBinding, SessionTokens, Request,
        Swept, Done, SerialInv, LockInv, AccountingInv,
        AccountInv, HasOwner, poolVars, lockVars, containerVars, callerVars, evictVars, deleteVars,
        pmVars, finishVars, SetStatus, GoDelete,
        Discard, CleanupSession, Unlock, RemoveWarm, WithoutSession, LockKept,
        FirstEvictStep, NextIfCancelled
<1>1. CASE EvictWarm(c)
  BY <1>1 DEF EvictWarm, StillWarm
<1>2. CASE EvictSem(c)
  BY <1>2 DEF EvictSem
<1>3. CASE EvictCancelled(c)
  BY <1>3 DEF EvictCancelled
<1>4. CASE EvictSnapshot(c)
  BY <1>4 DEF EvictSnapshot, HandleAuthGate
<1>5. CASE EvictPut(c)
  BY <1>5 DEF EvictPut
<1>6. CASE EvictDelete(c)
  BY <1>6 DEF EvictDelete
<1>7. CASE RunDelete(c)
  BY <1>7 DEF RunDelete
<1>8. ASSUME NEW l \in Lock, NEW scan \in Scan, EvictClaim(c, l, scan) PROVE AccountInv'
  <2>1. l[1] \in Token
    BY DEF Lock
  <2>2. CASE StillBound(l[1], c)
    BY <1>8, <2>1, <2>2 DEF EvictClaim, StillBound
  <2>3. CASE ~StillBound(l[1], c)
    BY <1>8, <2>3 DEF EvictClaim
  <2> QED BY <2>2, <2>3
<1> QED
  BY <1>1, <1>2, <1>3, <1>4, <1>5, <1>6, <1>7, <1>8 DEF EvictAndSnapshot

LEMMA FinishAccount ==
  ASSUME AccountingInv, Finish \/ \E c \in Container : SweepDelete(c)
  PROVE  AccountInv'
<1> USE NamesAssumption, TokenLock
    DEF CarryInv, OwnerInv, TypeInv, TypeOK, CallerOK, PoolManagerOK, PlaceInv,
        FreshPlace, InflightPlace, WarmPlace, PoppedPlace, SessionPlace, UnusedPlace,
        Settled, Unbound, Unpopped, Popping, Critical, SessionBinding, SessionTokens, Request,
        Swept, Done, SerialInv, LockInv, AccountingInv,
        AccountInv, HasOwner, poolVars, lockVars, containerVars, callerVars, evictVars, deleteVars,
        pmVars, finishVars, SetStatus, GoDelete,
        SessionContainers, FirstEvictStep
<1>1. CASE FinishClose
  BY <1>1 DEF FinishClose
<1>2. CASE FinishCollect
  BY <1>2 DEF FinishCollect, SessionsDropped
<1>3. CASE DeadlineHit
  BY <1>3 DEF DeadlineHit
<1>4. CASE CleanupAll
  BY <1>4 DEF CleanupAll
<1>5. CASE Exit
  BY <1>5 DEF Exit
<1>6. ASSUME NEW c \in Container, SweepDelete(c) PROVE AccountInv'
  BY <1>6 DEF SweepDelete
<1> QED
  BY <1>1, <1>2, <1>3, <1>4, <1>5, <1>6 DEF Finish

LEMMA SpawnAccount ==
  ASSUME AccountingInv, NEW t \in Token, NEW scan \in Scan, EvictSessionAsync(t, scan)
  PROVE  AccountInv'
BY DEF EvictSessionAsync, AccountingInv, AccountInv, HasOwner, Swept, Settled, Unbound,
       Unpopped, Popping, poolVars, containerVars, callerVars, deleteVars, pmVars, finishVars

LEMMA StutterAccount == ASSUME AccountingInv, UNCHANGED vars PROVE AccountInv'
BY DEF vars, AccountingInv, AccountInv, HasOwner, Swept, Settled, Unbound, Unpopped,
       Popping, poolVars, containerVars, callerVars, evictVars, deleteVars, pmVars, finishVars

LEMMA AccountingInvariant == Spec => []AccountingInv
<1>1. Init => AccountingInv
  BY InitType, InitPlace, InitCarry, InitLock, InitAccount
     DEF OwnerInv, CarryInv, SerialInv, AccountingInv
<1>2. AccountingInv /\ [Next]_vars => AccountingInv'
  <2> SUFFICES ASSUME AccountingInv, [Next]_vars PROVE AccountingInv'
    OBVIOUS
  <2>1. SerialInv'
    BY NextSerial DEF AccountingInv
  <2>2. AccountInv'
    BY PoolManagerAccount, CallerAccount, EvictionAccount, SpawnAccount, FinishAccount,
       StutterAccount DEF Next, EvictIdleSessions, ScanSessionHealth
  <2> QED BY <2>1, <2>2 DEF AccountingInv
<1> QED BY <1>1, <1>2, PTL DEF Spec

LEMMA OwnedHasOwner ==
  ASSUME OwnerInv, NEW c \in Container PROVE c \in Owned <=> HasOwner(c)
<1>1. c \in Fresh <=> c = fresh
  BY NamesAssumption DEF Fresh
<1>2. c \in Popped <=> ~Unpopped(c)
  BY DEF Popped, Unpopped
<1>3. c \in SessionContainers <=> ~Unbound(c)
  BY NamesAssumption DEF SessionContainers, SessionTokens, Unbound
<1>4. c \in Evicting <=> ~Settled(c)
  BY DEF Evicting, Settled
<1> QED BY <1>1, <1>2, <1>3, <1>4 DEF Owned, HasOwner

----------------------------------------------------------------------------
(***************************************************************************)
(* The same accounts once CleanupAll has replaced the pools and the maps.  *)
(* A container that loses its holder then is destroyed, swept, or it gave  *)
(* its session's entry to another one (Commit); a drained one is out of    *)
(* everybody's reach (DrainInv), CleanupAll's included.                    *)
(***************************************************************************)
Lost(c) == status[c] # "none" /\ deletes[c] = 0 /\ ~HasOwner(c) /\ c \notin sweeping \cup skipped

SweptInv == Swept =>
  /\ \A c \in Container : Lost(c) => Displaced(c)
  /\ \A c \in drain : c \notin sweeping /\ deletes[c] = IF evPc[c] = "done" THEN 1 ELSE 0

LedgerInv == AccountingInv /\ DrainInv /\ SweptInv

(* An assigned container keeps its token and its key for life. *)
LEMMA AssignedForLife ==
  ASSUME CarryInv, [Next]_vars, NEW c \in Container, accessToken[c] # None
  PROVE  accessToken'[c] = accessToken[c] /\ encKey'[c] = encKey[c]
<1>1. ASSUME NEW x \in Caller, Commit(x)
      PROVE  accessToken'[c] = accessToken[c] /\ encKey'[c] = encKey[c]
  <2>1. held[x] # c
    BY <1>1 DEF Commit, CarryInv, CleanInv, Clean, Popping
  <2> QED BY <1>1, <2>1 DEF Commit, CarryInv, OwnerInv, TypeInv, TypeOK
<1>2. CASE ~\E x \in Caller : Commit(x)
  <2> USE DEF containerVars
  <2>1. CASE PoolManager
    BY <2>1 DEF PoolManager, Replenish, CreateContainer, StopCreating, Register,
         PollInflight, Promote, PoolStop
  <2>2. ASSUME NEW x \in Caller, Call(x) \/ CallerStep(x)
        PROVE  UNCHANGED <<accessToken, encKey>>
    BY <1>2, <2>2 DEF Call, CallerStep, GetOrAssign, CheckKey, LockSession, PopWarm,
         GiveUp, Probe, Fetch, Push, Proxy
  <2>3. ASSUME NEW d \in Container,
               EvictWarm(d) \/ EvictAndSnapshot(d) \/ RunDelete(d) \/ SweepDelete(d)
        PROVE  UNCHANGED <<accessToken, encKey>>
    BY <2>3 DEF EvictWarm, EvictAndSnapshot, EvictSem, EvictCancelled, EvictSnapshot,
         EvictPut, EvictDelete, RunDelete, SweepDelete
  <2>4. ASSUME NEW d \in Container, NEW l \in Lock, NEW scan \in Scan, EvictClaim(d, l, scan)
        PROVE  UNCHANGED <<accessToken, encKey>>
    BY <2>4 DEF EvictClaim
  <2>5. ASSUME NEW t \in Token, NEW scan \in Scan, EvictSessionAsync(t, scan)
        PROVE  UNCHANGED <<accessToken, encKey>>
    BY <2>5 DEF EvictSessionAsync
  <2>6. CASE Finish
    BY <2>6 DEF Finish, FinishClose, FinishCollect, DeadlineHit, CleanupAll, Exit
  <2>7. CASE UNCHANGED vars
    BY <2>7 DEF vars
  <2> QED
    BY <2>1, <2>2, <2>3, <2>4, <2>5, <2>6, <2>7
       DEF Next, EvictIdleSessions, ScanSessionHealth
<1> QED BY <1>1, <1>2

LEMMA DisplacedStays ==
  ASSUME CarryInv, [Next]_vars, NEW c \in Container, Displaced(c), Swept'
  PROVE  Displaced(c)'
BY AssignedForLife, NamesAssumption DEF Displaced

(* A step after CleanupAll: who it takes a holder from is deleted, swept or
   displaced, and it orders no deletion of a drained container but the one
   that ends the container's eviction. *)
KeepsAccounts ==
  /\ \A c \in Container : Lost(c)' => Lost(c) \/ Displaced(c)'
  /\ \A c \in drain : c \notin sweeping' /\ deletes'[c] = IF evPc'[c] = "done" THEN 1 ELSE 0

LEMMA FrameSwept ==
  ASSUME LedgerInv, [Next]_vars, Swept => KeepsAccounts, Swept' => Swept /\ drain' = drain
  PROVE  SweptInv'
<1> SUFFICES ASSUME Swept' PROVE SweptInv'
  BY DEF SweptInv
<1>1. Swept /\ drain' = drain /\ KeepsAccounts
  OBVIOUS
<1>2. ASSUME NEW c \in Container, Lost(c)' PROVE Displaced(c)'
  <2>1. CASE Lost(c)
    BY <1>1, <2>1, DisplacedStays DEF LedgerInv, AccountingInv, SerialInv, SweptInv
  <2> QED BY <1>1, <1>2, <2>1 DEF KeepsAccounts
<1> QED BY <1>1, <1>2 DEF SweptInv, KeepsAccounts

LEMMA PoolManagerSwept ==
  ASSUME LedgerInv, PoolManager, Swept
  PROVE  KeepsAccounts /\ UNCHANGED <<phase, drain>>
<1> USE DEF KeepsAccounts, Lost, HasOwner, Unpopped, Unbound, Settled, Popping, Away,
        LedgerInv, AccountingInv, SerialInv, CarryInv, OwnerInv, TypeInv, TypeOK,
        PoolManagerOK, DrainInv, SweptInv, poolVars, lockVars, containerVars, callerVars,
        evictVars, deleteVars, pmVars, finishVars, SetStatus, GoDelete
<1>1. CASE Replenish
  BY <1>1 DEF Replenish
<1>2. CASE CreateContainer
  BY <1>2 DEF CreateContainer, Swept, Done
<1>3. CASE StopCreating
  BY <1>3 DEF StopCreating
<1>4. CASE Register
  BY <1>4 DEF Register
<1>5. CASE PollInflight
  BY <1>5 DEF PollInflight
<1>6. CASE Promote
  BY <1>6 DEF Promote
<1>7. CASE PoolStop
  BY <1>7 DEF PoolStop
<1> QED
  BY <1>1, <1>2, <1>3, <1>4, <1>5, <1>6, <1>7 DEF PoolManager

(* The only ways in which a request gives up a holder of c: the container it
   popped, the one it pops, and an entry of the session map. *)
LEMMA CallerHolders ==
  ASSUME LedgerInv, NEW x \in Caller, Call(x) \/ CallerStep(x), NEW c \in Container,
         HasOwner(c), ~HasOwner(c)'
  PROVE  (Popping(x) /\ ~Popping(x)' /\ c = held[x]) \/ (~Unbound(c) /\ Unbound(c)')
<1> USE DEF HasOwner, Unpopped, Popping, LedgerInv, AccountingInv, SerialInv, CarryInv,
        OwnerInv, TypeInv, TypeOK, CallerOK, poolVars, lockVars, callerVars, evictVars,
        pmVars, Settled, Refuse, Return, Requeue, RemoveWarm, Deferred
<1>1. \A y \in Caller \ {x} : pc'[y] = pc[y] /\ held'[y] = held[y]
  BY DEF Call, CallerStep, GetOrAssign, CheckKey, LockSession, PopWarm, GiveUp, Probe,
     Fetch, Push, Commit, Proxy
<1>2. UNCHANGED <<fresh, inflight, evPc>>
  BY DEF Call, CallerStep, GetOrAssign, CheckKey, LockSession, PopWarm, GiveUp, Probe,
     Fetch, Push, Commit, Proxy
<1>3. CASE PopWarm(x)
  BY <1>3 DEF PopWarm, Unbound
<1>4. CASE ~PopWarm(x)
  <2>1. warmPool \subseteq warmPool'
    BY <1>4 DEF Call, CallerStep, GetOrAssign, CheckKey, LockSession, GiveUp, Probe,
       Fetch, Push, Commit, Proxy
  <2>2. Popping(x) /\ Popping(x)' => held'[x] = held[x]
    BY <1>4 DEF Call, CallerStep, GetOrAssign, CheckKey, LockSession, GiveUp, Probe,
       Fetch, Push, Commit, Proxy
  <2> QED BY <1>1, <1>2, <2>1, <2>2
<1> QED BY <1>3, <1>4

LEMMA CallerSwept ==
  ASSUME LedgerInv, NEW x \in Caller, Call(x) \/ CallerStep(x), Swept
  PROVE  KeepsAccounts /\ UNCHANGED <<phase, drain>>
<1> USE DEF LedgerInv, AccountingInv, SerialInv, CarryInv, OwnerInv, TypeInv, TypeOK, CallerOK
<1>1. UNCHANGED <<phase, drain, sweeping, skipped, evPc>>
  BY DEF Call, CallerStep, GetOrAssign, CheckKey, LockSession, PopWarm, GiveUp, Probe,
     Fetch, Push, Commit, Proxy, finishVars, evictVars
\* What can happen to status and deletes, and to whom.
<1>2. \/ UNCHANGED <<status, deletes>>
      \/ Popping(x) /\ Discard(held[x])
      \/ Commit(x)
      \/ \E t \in SessionTokens :
           /\ sessions' = [sessions EXCEPT ![t] = None]
           /\ status' = [status EXCEPT ![sessions[t]] = "deleting"]
           /\ deletes' = [deletes EXCEPT ![sessions[t]] = @ + 1]
  <2>1. CASE Proxy(x)
    BY <2>1 DEF Proxy, HandleAuthGate, CleanupSession, WithoutSession, SetStatus, GoDelete,
       deleteVars
  <2>2. CASE Probe(x)
    BY <2>2 DEF Probe, deleteVars, Popping
  <2>3. CASE Push(x)
    BY <2>3 DEF Push, deleteVars, Popping
  <2>4. CASE ~Proxy(x) /\ ~Probe(x) /\ ~Push(x) /\ ~Commit(x)
    BY <2>4 DEF Call, CallerStep, GetOrAssign, CheckKey, LockSession, PopWarm, GiveUp,
       Fetch, containerVars, deleteVars
  <2> QED BY <2>1, <2>2, <2>3, <2>4
<1>3. /\ \A c \in Container : status[c] = "none" => status'[c] = "none"
      /\ \A c \in Container : deletes'[c] >= deletes[c]
      /\ \A c \in drain : deletes'[c] = deletes[c]
  <2> drain \subseteq Container
    OBVIOUS
  <2>1. CASE UNCHANGED <<status, deletes>>
    BY <2>1
  <2>2. CASE Popping(x) /\ Discard(held[x])
    <3>1. held[x] \in Container \ drain /\ status[held[x]] # "none"
      BY <2>2 DEF DrainInv, Away, Unpopped, Popping, CleanInv, UnusedPlace, PlaceInv
    <3> QED BY <2>2, <3>1 DEF Discard, SetStatus, GoDelete
  <2>3. CASE Commit(x)
    <3>1. held[x] \in Container /\ status[held[x]] # "none"
      BY <2>3 DEF Commit, Unpopped, Popping, UnusedPlace, PlaceInv
    <3> QED BY <2>3, <3>1 DEF Commit, SetStatus, deleteVars
  <2>4. ASSUME NEW t \in SessionTokens,
               status' = [status EXCEPT ![sessions[t]] = "deleting"],
               deletes' = [deletes EXCEPT ![sessions[t]] = @ + 1]
        PROVE  /\ \A c \in Container : status[c] = "none" => status'[c] = "none"
               /\ \A c \in Container : deletes'[c] >= deletes[c]
               /\ \A c \in drain : deletes'[c] = deletes[c]
    <3>1. t \in Token /\ sessions[t] \in Container \ drain /\ status[sessions[t]] # "none"
      BY DEF SessionTokens, SessionBinding, DrainInv, Away, Unbound
    <3> QED BY <2>4, <3>1
  <2> QED BY <1>2, <2>1, <2>2, <2>3, <2>4
<1>4. ASSUME NEW c \in Container, HasOwner(c), ~HasOwner(c)' PROVE deletes'[c] > 0 \/ Displaced(c)'
  <2>1. CASE Popping(x) /\ ~Popping(x)' /\ c = held[x]
    <3>1. c \in warmPool' \/ ~Unbound(c)' \/ Discard(c)
      BY <2>1 DEF Call, CallerStep, GetOrAssign, CheckKey, LockSession, PopWarm, GiveUp,
         Probe, Fetch, Push, Commit, Proxy, Popping, Requeue, Unbound, Request
    <3> QED BY <1>4, <3>1 DEF HasOwner, Discard, GoDelete
  <2>2. CASE ~Unbound(c) /\ Unbound(c)'
    <3>1. PICK t \in Token : sessions[t] = c /\ sessions'[t] # c
      BY <2>2 DEF Unbound
    <3>2. accessToken[c] = t
      BY <3>1, NamesAssumption DEF SessionBinding, SessionTokens
    <3>3. CASE Commit(x)
      <4>1. held[x] \in Container /\ held[x] # c /\ accessToken'[held[x]] = t /\ accessToken'[c] = t
        BY <3>1, <3>2, <3>3 DEF Commit, Popping, PlaceInv, PoppedPlace, Request, CleanInv, Clean, Unbound
      <4> QED BY <1>1, <4>1, NamesAssumption DEF Displaced, Swept
    <3>4. CASE Proxy(x)
      BY <3>1, <3>4 DEF Proxy, HandleAuthGate, CleanupSession, WithoutSession, GoDelete
    <3>5. CASE ~Commit(x) /\ ~Proxy(x)
      BY <3>1, <3>5 DEF Call, CallerStep, GetOrAssign, CheckKey, LockSession, PopWarm, GiveUp,
         Probe, Fetch, Push
    <3> QED BY <3>3, <3>4, <3>5
  <2> QED BY <1>4, <2>1, <2>2, CallerHolders
<1> QED BY <1>1, <1>3, <1>4 DEF KeepsAccounts, Lost, SweptInv

LEMMA EvictionSwept ==
  ASSUME LedgerInv, Swept, NEW c \in Container,
         \/ EvictWarm(c) \/ EvictAndSnapshot(c) \/ RunDelete(c) \/ SweepDelete(c)
         \/ \E l \in Lock, scan \in Scan : EvictClaim(c, l, scan)
  PROVE  KeepsAccounts /\ UNCHANGED <<phase, drain>>
<1> USE NamesAssumption
    DEF KeepsAccounts, Lost, HasOwner, Unpopped, Unbound, Settled, Popping, Away,
        LedgerInv, AccountingInv, SerialInv, CarryInv, OwnerInv, TypeInv, TypeOK,
        DrainInv, SweptInv, poolVars, lockVars, containerVars, callerVars,
        evictVars, deleteVars, pmVars, finishVars, SetStatus, GoDelete
<1>1. CASE EvictWarm(c)
  BY <1>1 DEF EvictWarm, Discard, RemoveWarm, StillWarm
<1>2. CASE EvictSem(c)
  BY <1>2 DEF EvictSem
<1>3. CASE EvictCancelled(c)
  BY <1>3 DEF EvictCancelled, NextIfCancelled
<1>4. CASE EvictSnapshot(c)
  BY <1>4 DEF EvictSnapshot, HandleAuthGate, CleanupSession, WithoutSession, SessionTokens,
     SessionBinding
<1>5. CASE EvictPut(c)
  BY <1>5 DEF EvictPut
<1>6. CASE EvictDelete(c)
  BY <1>6 DEF EvictDelete
<1>7. CASE RunDelete(c)
  BY <1>7 DEF RunDelete
<1>8. CASE SweepDelete(c)
  BY <1>8 DEF SweepDelete, WgDone
<1>9. ASSUME NEW l \in Lock, NEW scan \in Scan, EvictClaim(c, l, scan)
      PROVE  KeepsAccounts /\ UNCHANGED <<phase, drain>>
  <2>1. l[1] \in Token
    BY DEF Lock
  <2> QED BY <1>9, <2>1 DEF EvictClaim, FirstEvictStep, StillBound, WithoutSession
<1> QED
  BY <1>1, <1>2, <1>3, <1>4, <1>5, <1>6, <1>7, <1>8, <1>9 DEF EvictAndSnapshot

(* CleanupAll finds everything that still has a place outside the requests
   and the evictions; who has none was deleted. *)
LEMMA FinishSwept == ASSUME LedgerInv, Finish PROVE SweptInv'
<1> USE DEF LedgerInv, AccountingInv, SerialInv, CarryInv, OwnerInv, TypeInv, TypeOK
<1>1. CASE CleanupAll
  <2>1. ~Swept
    BY <1>1 DEF CleanupAll, Swept
  <2>2. UNCHANGED <<status, deletes, fresh, pc, held, evPc, drain>>
        /\ sweeping' = Remaining
    BY <1>1 DEF CleanupAll, containerVars, deleteVars, pmVars, callerVars, evictVars
  <2>3. ASSUME NEW c \in Container PROVE ~Lost(c)'
    <3>1. ~Unbound(c) => c \in SessionContainers
      BY NamesAssumption DEF Unbound, SessionContainers, SessionTokens
    <3> QED BY <2>1, <2>2, <3>1
         DEF Lost, HasOwner, Unpopped, Popping, Settled, AccountInv, Remaining
  <2>4. ASSUME NEW c \in drain
        PROVE  c \notin sweeping' /\ deletes'[c] = IF evPc'[c] = "done" THEN 1 ELSE 0
    <3>1. c \in Container /\ Away(c) /\ evPc[c] # "none"
      BY DEF DrainInv
    <3>2. c \notin SessionContainers
      BY <3>1 DEF SessionContainers, SessionTokens, Away, Unbound
    <3> QED BY <2>1, <2>2, <3>1, <3>2 DEF AccountInv, HasOwner, Away, Settled, Remaining
  <2> QED BY <2>2, <2>3, <2>4 DEF SweptInv
<1>2. CASE Exit
  BY <1>2 DEF Exit, SweptInv, Swept, Lost, Displaced, HasOwner, Unpopped, Popping, Unbound,
     Settled, poolVars, containerVars, callerVars, evictVars, deleteVars, pmVars
<1>3. CASE ~CleanupAll /\ ~Exit
  BY <1>3 DEF Finish, FinishClose, FinishCollect, DeadlineHit, SweptInv, Swept
<1> QED BY <1>1, <1>2, <1>3

(* Only Finish moves the phase and chooses what it drains. *)
LEMMA OnlyFinish == ASSUME [Next]_vars, ~Finish PROVE UNCHANGED <<phase, drain>>
<1> USE DEF finishVars
<1>1. CASE PoolManager
  BY <1>1 DEF PoolManager, Replenish, CreateContainer, StopCreating, Register, PollInflight,
     Promote, PoolStop
<1>2. ASSUME NEW x \in Caller, Call(x) \/ CallerStep(x) PROVE UNCHANGED <<phase, drain>>
  BY <1>2 DEF Call, CallerStep, GetOrAssign, CheckKey, LockSession, PopWarm, GiveUp, Probe,
     Fetch, Push, Commit, Proxy
<1>3. ASSUME NEW c \in Container,
             EvictWarm(c) \/ EvictAndSnapshot(c) \/ RunDelete(c) \/ SweepDelete(c)
      PROVE  UNCHANGED <<phase, drain>>
  BY <1>3 DEF EvictWarm, EvictAndSnapshot, EvictSem, EvictCancelled, EvictSnapshot, EvictPut,
     EvictDelete, RunDelete, SweepDelete
<1>4. ASSUME NEW c \in Container, NEW l \in Lock, NEW scan \in Scan, EvictClaim(c, l, scan)
      PROVE  UNCHANGED <<phase, drain>>
  BY <1>4 DEF EvictClaim
<1>5. ASSUME NEW t \in Token, NEW scan \in Scan, EvictSessionAsync(t, scan)
      PROVE  UNCHANGED <<phase, drain>>
  BY <1>5 DEF EvictSessionAsync
<1>6. CASE UNCHANGED vars
  BY <1>6 DEF vars
<1> QED BY <1>1, <1>2, <1>3, <1>4, <1>5, <1>6 DEF Next, EvictIdleSessions, ScanSessionHealth

LEMMA NextSwept == ASSUME LedgerInv, [Next]_vars PROVE SweptInv'
<1>1. ASSUME NEW t \in Token, NEW scan \in Scan, EvictSessionAsync(t, scan) PROVE SweptInv'
  BY <1>1 DEF EvictSessionAsync, LedgerInv, SweptInv, Swept, Lost, Displaced, HasOwner, Unpopped,
     Popping, Unbound, Settled, poolVars, containerVars, callerVars, deleteVars, pmVars, finishVars
<1>2. CASE UNCHANGED vars
  BY <1>2 DEF vars, LedgerInv, SweptInv, Swept, Lost, Displaced, HasOwner, Unpopped, Popping,
     Unbound, Settled, poolVars, containerVars, callerVars, evictVars, deleteVars, pmVars, finishVars
<1>3. CASE ~Finish /\ ~UNCHANGED vars /\ ~\E t \in Token : EvictIdleSessions(t) \/ ScanSessionHealth(t)
  <2>1. Swept => KeepsAccounts /\ UNCHANGED <<phase, drain>>
    BY <1>3, PoolManagerSwept, CallerSwept, EvictionSwept DEF Next
  <2>2. UNCHANGED <<phase, drain>>
    BY <1>3, OnlyFinish
  <2> QED BY <2>1, <2>2, FrameSwept DEF Swept
<1> QED
  BY <1>1, <1>2, <1>3, FinishSwept DEF EvictIdleSessions, ScanSessionHealth

LEMMA LedgerInvariant == Spec => []LedgerInv
<1>1. Init => SweptInv
  BY DEF Init, SweptInv, Swept
<1>2. LedgerInv /\ AccountingInv' /\ DrainInv' /\ [Next]_vars => LedgerInv'
  BY NextSwept DEF LedgerInv
<1>3. AccountingInv /\ DrainInv /\ SweptInv <=> LedgerInv
  BY DEF LedgerInv
<1> QED BY <1>1, <1>2, <1>3, AccountingInvariant, DrainInvariant, PTL DEF Spec

(* Every created container has a holder, its DELETE was ordered, or CleanupAll
   has or had it: no path through GetOrAssign, an eviction, the pool manager or
   CleanupAll forgets one, except for an assignment that outlives CleanupAll and
   takes its session's entry from another. *)
THEOREM NothingForgotten == Spec => []NoOrphan
<1>1. LedgerInv => NoOrphan
  <2> SUFFICES ASSUME LedgerInv, NEW c \in Container, status[c] # "none", deletes[c] = 0,
                      c \notin Owned \cup sweeping \cup skipped
               PROVE  Displaced(c)
    BY DEF NoOrphan
  <2>1. ~HasOwner(c)
    BY OwnedHasOwner DEF LedgerInv, AccountingInv, SerialInv, CarryInv
  <2>2. Swept
    BY <2>1 DEF LedgerInv, AccountingInv, AccountInv
  <2> QED BY <2>1, <2>2 DEF LedgerInv, SweptInv, Lost
<1> QED BY <1>1, LedgerInvariant, PTL

(* Until CleanupAll, a container is deleted at most once and has no holder
   from then on, whichever of the pool manager, a request, the warm scan, an
   evictor or CleanupSession destroys it; and Finish's drained containers are
   never deleted twice, by CleanupAll or a late request either. *)
THEOREM NothingDeletedTwice == Spec => []DeletedOnce
<1>1. LedgerInv => DeletedOnce
  <2> SUFFICES ASSUME LedgerInv, NEW c \in Container, ~Swept \/ c \in drain, deletes[c] > 0
               PROVE  deletes[c] = 1 /\ ~HasOwner(c)
    BY OwnedHasOwner DEF DeletedOnce, LedgerInv, AccountingInv, SerialInv, CarryInv
  <2>1. CASE ~Swept
    BY <2>1 DEF LedgerInv, AccountingInv, AccountInv
  <2>2. CASE Swept /\ c \in drain
    BY <2>2 DEF LedgerInv, SweptInv, DrainInv, Away, HasOwner, Settled
  <2> QED BY <2>1, <2>2
<1> QED BY <1>1, LedgerInvariant, PTL

----------------------------------------------------------------------------
(* Calls reach the session's own container. *)

LEMMA NextCalls ==
  ASSUME CarryInv, CallsOwnSession, [Next]_vars, NEW x \in Caller, pc'[x] \in {"found", "call"}
  PROVE  accessToken'[held'[x]] = req'[x].tok
<1> USE DEF CarryInv, OwnerInv, TypeInv, TypeOK, CallerOK, Request
<1>1. CASE pc'[x] = pc[x] /\ held'[x] = held[x] /\ req'[x] = req[x]
  <2>1. accessToken[held[x]] = req[x].tok /\ held[x] \in Container /\ req[x].tok \in Token
    BY <1>1 DEF CallsOwnSession
  <2> QED BY <1>1, <2>1, AssignedForLife, NamesAssumption
<1>2. CASE GetOrAssign(x)
  BY <1>2, NamesAssumption DEF GetOrAssign, SessionBinding, SessionTokens, containerVars
<1>3. CASE CheckKey(x)
  BY <1>3 DEF CheckKey, CallsOwnSession, Refuse, Return
<1>4. CASE LockSession(x)
  BY <1>4, NamesAssumption
     DEF LockSession, SessionBinding, SessionTokens, Reassigned, Refuse, Return, containerVars
<1>5. CASE Commit(x)
  BY <1>5 DEF Commit, Return
<1>6. ASSUME ~GetOrAssign(x), ~CheckKey(x), ~LockSession(x), ~Commit(x)
      PROVE  pc'[x] = pc[x] /\ held'[x] = held[x] /\ req'[x] = req[x]
  <2> USE DEF callerVars
  <2>1. ASSUME NEW y \in Caller, Call(y) \/ CallerStep(y)
        PROVE  pc'[x] = pc[x] /\ held'[x] = held[x] /\ req'[x] = req[x]
    <3>1. CASE y = x
      BY <1>6, <2>1, <3>1 DEF Call, CallerStep, PopWarm, GiveUp, Probe, Fetch, Push, Proxy, Refuse
    <3>2. CASE y # x
      BY <2>1, <3>2 DEF Call, CallerStep, GetOrAssign, CheckKey, LockSession, PopWarm, GiveUp,
         Probe, Fetch, Push, Commit, Proxy, Refuse, Return
    <3> QED BY <3>1, <3>2
  <2>2. CASE PoolManager
    BY <2>2 DEF PoolManager, Replenish, CreateContainer, StopCreating, Register,
         PollInflight, Promote, PoolStop
  <2>3. ASSUME NEW d \in Container,
               EvictWarm(d) \/ EvictAndSnapshot(d) \/ RunDelete(d) \/ SweepDelete(d)
        PROVE  UNCHANGED callerVars
    BY <2>3 DEF EvictWarm, EvictAndSnapshot, EvictSem, EvictCancelled, EvictSnapshot,
         EvictPut, EvictDelete, RunDelete, SweepDelete
  <2>4. ASSUME NEW d \in Container, NEW l \in Lock, NEW scan \in Scan, EvictClaim(d, l, scan)
        PROVE  UNCHANGED callerVars
    BY <2>4 DEF EvictClaim
  <2>5. ASSUME NEW t \in Token, NEW scan \in Scan, EvictSessionAsync(t, scan)
        PROVE  UNCHANGED callerVars
    BY <2>5 DEF EvictSessionAsync
  <2>6. CASE Finish
    BY <2>6 DEF Finish, FinishClose, FinishCollect, DeadlineHit, CleanupAll, Exit
  <2>7. CASE UNCHANGED vars
    BY <2>7 DEF vars
  <2> QED
    BY <2>1, <2>2, <2>3, <2>4, <2>5, <2>6, <2>7
       DEF Next, EvictIdleSessions, ScanSessionHealth
<1> QED
  BY <1>1, <1>2, <1>3, <1>4, <1>5, <1>6

(* Whatever is evicted, recycled or assigned meanwhile, and through shutdown:
   the container GetOrAssign returned, and its call is sent to, was assigned
   to the caller's own session and to no other, before or since. *)
THEOREM CallsStayInSession == Spec => []CallsOwnSession
<1>1. Init => CallsOwnSession
  BY DEF Init, CallsOwnSession
<1>2. CarryInv /\ CallsOwnSession /\ [Next]_vars => CallsOwnSession'
  BY NextCalls DEF CallsOwnSession
<1> QED BY <1>1, <1>2, CarryInvariant, PTL DEF Spec
=============================================================================
