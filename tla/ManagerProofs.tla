--------------------------- MODULE ManagerProofs ---------------------------
(***************************************************************************)
(* Theorems about Manager, for every value of its constants: the types, a  *)
(* container's one owner and what it carries, and the drains of Finish.    *)
(***************************************************************************)
EXTENDS Manager, FiniteSetTheorems, TLAPS

(* The program counter says which locals of GetOrAssign are set. *)
CallerOK ==
  \A x \in Caller :
    /\ pc[x] # "idle" => req[x] \in Request
    /\ pc[x] \in {"found", "probe", "fetch", "push", "commit", "call"} => held[x] \in Container
    /\ pc[x] = "lock" => sl[x] \in Lock

(* So does the pool manager's: a container waits to be registered exactly at
   "register", and the loop is entered only with iterations left. *)
PoolManagerOK ==
  /\ pm = "register" <=> fresh # None
  /\ pm \in {"create", "register"} => needed >= 1

TypeInv == TypeOK /\ CallerOK /\ PoolManagerOK

----------------------------------------------------------------------------
(* What the pool manager counts. *)

LEMMA FiniteSubset ==
  ASSUME NEW S, S \subseteq Container \/ S \subseteq Token
  PROVE  Cardinality(S) \in Nat
BY FiniteAssumption, FS_Subset, FS_CardinalityType

LEMMA TotalType == ASSUME TypeOK PROVE Total \in Nat
<1>1. warmPool \subseteq Container /\ inflight \subseteq Container
      /\ SessionTokens \subseteq Token
  BY DEF TypeOK, SessionTokens
<1>2. Cardinality(warmPool) \in Nat /\ Cardinality(inflight) \in Nat
      /\ Cardinality(SessionTokens) \in Nat
  BY <1>1, FiniteSubset
<1> QED BY <1>2 DEF Total

LEMMA ToCreateType == ASSUME TypeOK PROVE ToCreate \in 0 .. MaxContainers
<1>1. Total \in Nat /\ MaxContainers \in Nat /\ PoolSize \in Nat
  BY TotalType, ConfigAssumption
<1>2. Cardinality(SessionTokens) \in Nat
  BY FiniteSubset DEF SessionTokens
<1> QED BY <1>1, <1>2 DEF ToCreate

----------------------------------------------------------------------------
(* Type correctness, one lemma per goroutine. *)

LEMMA InitType == Init => TypeInv
<1> SUFFICES ASSUME Init PROVE TypeInv
  OBVIOUS
<1>1. bearer \in [Container -> BOOLEAN] /\ deadline \in BOOLEAN
  BY Zenon DEF Init
<1>2. TypeOK
  BY <1>1, ConfigAssumption DEF Init, TypeOK, Status, CallPc, EvictPc, PoolPc, Phase
<1>3. CallerOK /\ PoolManagerOK
  BY DEF Init, CallerOK, PoolManagerOK
<1> QED BY <1>2, <1>3 DEF TypeInv

LEMMA PoolManagerType ==
  ASSUME TypeInv, PoolManager PROVE TypeInv'
<1> USE NamesAssumption, ConfigAssumption
    DEF TypeInv, TypeOK, CallerOK, PoolManagerOK, Status, PoolPc, poolVars, lockVars,
        containerVars, callerVars, evictVars, deleteVars, finishVars, SetStatus, GoDelete
<1>1. CASE Replenish
  BY <1>1, ToCreateType DEF Replenish
<1>2. CASE CreateContainer
  BY <1>2 DEF CreateContainer
<1>3. CASE StopCreating
  BY <1>3 DEF StopCreating
<1>4. CASE Register
  BY <1>4 DEF Register
<1>5. CASE PollInflight
  BY <1>5 DEF PollInflight
<1>6. CASE Promote
  BY <1>6 DEF Promote
<1>7. CASE PoolStop
  BY <1>7 DEF PoolStop
<1> QED BY <1>1, <1>2, <1>3, <1>4, <1>5, <1>6, <1>7 DEF PoolManager

LEMMA CallerType ==
  ASSUME TypeInv, NEW x \in Caller, Call(x) \/ CallerStep(x) PROVE TypeInv'
<1> USE NamesAssumption, ConfigAssumption
    DEF TypeInv, TypeOK, CallerOK, PoolManagerOK, Status, CallPc, poolVars, lockVars,
        containerVars, evictVars, deleteVars, pmVars, finishVars,
        SetStatus, GoDelete, Discard, CleanupSession, Deferred, SlotReturned, Unlock, Refuse, Return,
        Requeue, SessionTokens, RemoveWarm, WithoutSession
<1>1. CASE Call(x)
  BY <1>1 DEF Call
<1>2. CASE GetOrAssign(x)
  <2>1. <<req[x].tok, Generation>> \in Lock
    BY <1>2 DEF GetOrAssign, Generation, Lock, Request
  <2> QED BY <1>2, <2>1 DEF GetOrAssign, Request
<1>3. CASE CheckKey(x)
  <2>1. bearer' = bearer \/ bearer' = [bearer EXCEPT ![held[x]] = TRUE]
    BY <1>3 DEF CheckKey
  <2>2. bearer' \in [Container -> BOOLEAN]
    BY <2>1, Zenon
  <2> QED BY <1>3, <2>2 DEF CheckKey, Request
<1>4. CASE LockSession(x)
  BY <1>4 DEF LockSession, Reassigned, Request
<1>5. CASE PopWarm(x)
  BY <1>5 DEF PopWarm
<1>6. CASE GiveUp(x)
  BY <1>6 DEF GiveUp
<1>7. CASE Probe(x)
  BY <1>7 DEF Probe
<1>8. CASE Fetch(x)
  BY <1>8 DEF Fetch
<1>9. CASE Push(x)
  BY <1>9 DEF Push
<1>10. CASE Commit(x)
  BY <1>10 DEF Commit, Request
<1>11. CASE Proxy(x)
  BY <1>11 DEF Proxy, HandleAuthGate
<1> QED
  BY <1>1, <1>2, <1>3, <1>4, <1>5, <1>6, <1>7, <1>8, <1>9, <1>10, <1>11 DEF CallerStep

LEMMA EvictionType ==
  ASSUME TypeInv, NEW c \in Container,
         \/ EvictWarm(c) \/ EvictAndSnapshot(c) \/ RunDelete(c)
         \/ \E l \in Lock, scan \in Scan : EvictClaim(c, l, scan)
  PROVE  TypeInv'
<1> USE NamesAssumption, ConfigAssumption
    DEF TypeInv, TypeOK, CallerOK, PoolManagerOK, Status, EvictPc, poolVars, lockVars,
        containerVars, callerVars, evictVars, deleteVars, pmVars, finishVars,
        SetStatus, GoDelete, Discard, CleanupSession, Unlock, SessionTokens, RemoveWarm,
        WithoutSession, SlotReturned
<1>1. CASE EvictWarm(c)
  BY <1>1 DEF EvictWarm, StillWarm
<1>2. CASE EvictSem(c)
  BY <1>2 DEF EvictSem
<1>3. CASE EvictCancelled(c)
  BY <1>3 DEF EvictCancelled, NextIfCancelled
<1>4. CASE EvictSnapshot(c)
  BY <1>4 DEF EvictSnapshot, HandleAuthGate
<1>5. CASE EvictPut(c)
  BY <1>5 DEF EvictPut
<1>6. CASE EvictDelete(c)
  BY <1>6 DEF EvictDelete
<1>7. CASE RunDelete(c)
  BY <1>7 DEF RunDelete
<1>8. ASSUME NEW l \in Lock, NEW scan \in Scan, EvictClaim(c, l, scan) PROVE TypeInv'
  <2>1. l[1] \in Token
    BY DEF Lock
  <2> QED BY <1>8, <2>1 DEF EvictClaim, LockKept, FirstEvictStep
<1> QED
  BY <1>1, <1>2, <1>3, <1>4, <1>5, <1>6, <1>7, <1>8 DEF EvictAndSnapshot

LEMMA SpawnType ==
  ASSUME TypeInv, NEW t \in Token, NEW scan \in Scan, EvictSessionAsync(t, scan)
  PROVE  TypeInv'
<1>1. <<sessions[t], <<t, Generation>>, scan>> \in Container \X Lock \X Scan
  BY DEF EvictSessionAsync, Generation, Lock, TypeInv, TypeOK, SessionTokens
<1> QED
  BY <1>1 DEF EvictSessionAsync, TypeInv, TypeOK, CallerOK, PoolManagerOK, poolVars,
      lockVars, containerVars, callerVars, deleteVars, pmVars, finishVars

LEMMA FinishType ==
  ASSUME TypeInv, Finish \/ \E c \in Container : SweepDelete(c) PROVE TypeInv'
<1> USE NamesAssumption, ConfigAssumption
    DEF TypeInv, TypeOK, CallerOK, PoolManagerOK, EvictPc, Phase, poolVars, lockVars,
        containerVars, callerVars, evictVars, deleteVars, pmVars, finishVars,
        SessionTokens, SessionContainers
<1>1. CASE FinishClose
  BY <1>1 DEF FinishClose
<1>2. CASE FinishCollect
  BY <1>2 DEF FinishCollect, SessionsDropped, FirstEvictStep
<1>3. CASE DeadlineHit
  BY <1>3 DEF DeadlineHit
<1>4. CASE CleanupAll
  BY <1>4 DEF CleanupAll, Remaining
<1>5. CASE Exit
  BY <1>5 DEF Exit
<1>6. ASSUME NEW c \in Container, SweepDelete(c) PROVE TypeInv'
  BY <1>6 DEF SweepDelete, WgDone
<1> QED BY <1>1, <1>2, <1>3, <1>4, <1>5, <1>6 DEF Finish

LEMMA StutterType == ASSUME TypeInv, UNCHANGED vars PROVE TypeInv'
BY DEF TypeInv, TypeOK, CallerOK, PoolManagerOK, vars, poolVars, lockVars, containerVars,
       callerVars, evictVars, deleteVars, pmVars, finishVars

LEMMA NextType == ASSUME TypeInv, [Next]_vars PROVE TypeInv'
BY PoolManagerType, CallerType, EvictionType, SpawnType, FinishType, StutterType DEF Next, EvictIdleSessions, ScanSessionHealth

(* Every reachable state is well typed: the locals of a request, the loop
   counter of replenishPool and the phase of Finish are always what the code
   that reads them expects. *)
THEOREM TypeCorrect == Spec => []TypeOK
<1>1. Init => TypeInv
  BY InitType
<1>2. TypeInv /\ [Next]_vars => TypeInv'
  BY NextType
<1>3. TypeInv => TypeOK
  BY DEF TypeInv
<1> QED BY <1>1, <1>2, <1>3, PTL DEF Spec

----------------------------------------------------------------------------
(***************************************************************************)
(* A container has one owner.  ExclusiveOwner is not inductive:            *)
(* pollInflight carries containers across two critical sections (ready,    *)
(* failed), and createContainer must return one that is nowhere.  PlaceInv *)
(* adds both facts.                                                        *)
(***************************************************************************)
Settled(c)  == evPc[c] \in {"none", "done"}
Unbound(c)  == \A t \in Token : sessions[t] # c
Unpopped(c) == \A x \in Caller : Popping(x) => held[x] # c

\* Before it is first assigned, a container is in none of the other places.
FreshPlace == fresh # None =>
  /\ fresh \notin inflight \cup warmPool \cup ready \cup failed
  /\ Unpopped(fresh) /\ Unbound(fresh) /\ Settled(fresh)

\* What pollInflight is about to move is still nobody else's, even when
\* CleanupAll has emptied inflight in between.
InflightPlace ==
  /\ \A c \in inflight \cup ready \cup failed :
       c \notin warmPool /\ Unpopped(c) /\ Unbound(c) /\ Settled(c)
  /\ ready \cap failed = {}
  /\ pm # "promote" => ready = {} /\ failed = {}

WarmPlace == \A c \in warmPool : Unpopped(c) /\ Unbound(c) /\ Settled(c)

PoppedPlace ==
  \A x \in Caller : Popping(x) =>
    /\ Unbound(held[x]) /\ Settled(held[x])
    /\ \A y \in Caller : Popping(y) /\ held[y] = held[x] => x = y

SessionPlace ==
  \A t \in Token : sessions[t] # None =>
    /\ Settled(sessions[t])
    /\ \A u \in Token : sessions[u] = sessions[t] => t = u

\* An id the controlplane has not handed out yet is nowhere.
UnusedPlace ==
  \A c \in Container : status[c] = "none" =>
    /\ c \notin inflight \cup warmPool \cup ready \cup failed /\ c # fresh
    /\ Unpopped(c) /\ Unbound(c) /\ Settled(c)

PlaceInv == FreshPlace /\ InflightPlace /\ WarmPlace /\ PoppedPlace /\ SessionPlace /\ UnusedPlace

OwnerInv == TypeInv /\ PlaceInv

LEMMA InitPlace == Init => PlaceInv
BY NamesAssumption
   DEF Init, PlaceInv, FreshPlace, InflightPlace, WarmPlace, PoppedPlace, SessionPlace,
       UnusedPlace, Settled, Unbound, Unpopped, Popping

LEMMA PoolManagerPlace ==
  ASSUME OwnerInv, PoolManager PROVE PlaceInv'
<1> USE NamesAssumption
    DEF OwnerInv, TypeInv, TypeOK, CallerOK, PoolManagerOK, PlaceInv, FreshPlace,
        InflightPlace, WarmPlace, PoppedPlace, SessionPlace, UnusedPlace, Settled,
        Unbound, Unpopped, Popping, poolVars, lockVars, containerVars,
        callerVars, evictVars, deleteVars, finishVars, SetStatus, GoDelete
<1>1. CASE Replenish
  BY <1>1 DEF Replenish
<1>2. CASE CreateContainer
  BY <1>2 DEF CreateContainer
<1>3. CASE StopCreating
  BY <1>3 DEF StopCreating
<1>4. CASE Register
  BY <1>4 DEF Register
<1>5. CASE PollInflight
  BY <1>5 DEF PollInflight
<1>6. CASE Promote
  BY <1>6 DEF Promote
<1>7. CASE PoolStop
  BY <1>7 DEF PoolStop
<1> QED BY <1>1, <1>2, <1>3, <1>4, <1>5, <1>6, <1>7 DEF PoolManager

LEMMA CallerPlace ==
  ASSUME OwnerInv, NEW x \in Caller, Call(x) \/ CallerStep(x) PROVE PlaceInv'
<1> USE NamesAssumption
    DEF OwnerInv, TypeInv, TypeOK, CallerOK, PoolManagerOK, PlaceInv, FreshPlace,
        InflightPlace, WarmPlace, PoppedPlace, SessionPlace, UnusedPlace, Settled,
        Unbound, Unpopped, Popping, poolVars, lockVars, containerVars,
        evictVars, deleteVars, finishVars, pmVars, SetStatus, GoDelete, Discard,
        CleanupSession, Deferred, SlotReturned, Unlock, Refuse, Return, Requeue,
        SessionTokens, RemoveWarm, WithoutSession
<1>1. CASE Call(x)
  BY <1>1 DEF Call
<1>2. CASE GetOrAssign(x)
  BY <1>2 DEF GetOrAssign
<1>3. CASE CheckKey(x)
  BY <1>3 DEF CheckKey
<1>4. CASE LockSession(x)
  BY <1>4 DEF LockSession, Reassigned
<1>5. CASE PopWarm(x)
  BY <1>5 DEF PopWarm
<1>6. CASE GiveUp(x)
  BY <1>6 DEF GiveUp
<1>7. CASE Probe(x)
  BY <1>7 DEF Probe
<1>8. CASE Fetch(x)
  BY <1>8 DEF Fetch
<1>9. CASE Push(x)
  <2>1. CASE pc' = [pc EXCEPT ![x] = "commit"]
             /\ UNCHANGED <<held, warmPool, status, deleteVars>>
    BY <1>9, <2>1 DEF Push
  <2>2. CASE Requeue(held[x]) /\ Refuse(x) /\ UNCHANGED <<status, deleteVars>>
    BY <1>9, <2>2 DEF Push
  <2>3. CASE Discard(held[x]) /\ Refuse(x) /\ UNCHANGED warmPool
    BY <1>9, <2>3 DEF Push
  <2> QED BY <1>9, <2>1, <2>2, <2>3 DEF Push
<1>10. CASE Commit(x)
  BY <1>10 DEF Commit, Request
<1>11. CASE Proxy(x)
  <2>1. CASE CleanupSession(accessToken[held[x]])
    BY <1>11, <2>1 DEF Proxy
  <2>2. CASE UNCHANGED <<sessions, status, deleteVars>>
    BY <1>11, <2>2 DEF Proxy
  <2> QED BY <1>11, <2>1, <2>2 DEF Proxy, HandleAuthGate
<1> QED
  BY <1>1, <1>2, <1>3, <1>4, <1>5, <1>6, <1>7, <1>8, <1>9, <1>10, <1>11 DEF CallerStep

LEMMA EvictionPlace ==
  ASSUME OwnerInv, NEW c \in Container,
         \/ EvictWarm(c) \/ EvictAndSnapshot(c) \/ RunDelete(c)
         \/ \E l \in Lock, scan \in Scan : EvictClaim(c, l, scan)
  PROVE  PlaceInv'
<1> USE NamesAssumption
    DEF OwnerInv, TypeInv, TypeOK, CallerOK, PoolManagerOK, PlaceInv, FreshPlace,
        InflightPlace, WarmPlace, PoppedPlace, SessionPlace, UnusedPlace, Settled,
        Unbound, Unpopped, Popping, poolVars, lockVars, containerVars,
        callerVars, evictVars, deleteVars, finishVars, pmVars, SetStatus, GoDelete,
        Discard, CleanupSession, Unlock, SessionTokens, RemoveWarm,
        WithoutSession, SlotReturned
<1>1. CASE EvictWarm(c)
  BY <1>1 DEF EvictWarm, StillWarm
<1>2. CASE EvictSem(c)
  BY <1>2 DEF EvictSem
<1>3. CASE EvictCancelled(c)
  BY <1>3 DEF EvictCancelled, NextIfCancelled
<1>4. CASE EvictSnapshot(c)
  BY <1>4 DEF EvictSnapshot, HandleAuthGate
<1>5. CASE EvictPut(c)
  BY <1>5 DEF EvictPut
<1>6. CASE EvictDelete(c)
  BY <1>6 DEF EvictDelete
<1>7. CASE RunDelete(c)
  BY <1>7 DEF RunDelete
<1>8. ASSUME NEW l \in Lock, NEW scan \in Scan, EvictClaim(c, l, scan) PROVE PlaceInv'
  <2>1. l[1] \in Token
    BY DEF Lock
  <2> QED BY <1>8, <2>1 DEF EvictClaim, LockKept, FirstEvictStep, StillBound
<1> QED
  BY <1>1, <1>2, <1>3, <1>4, <1>5, <1>6, <1>7, <1>8 DEF EvictAndSnapshot

LEMMA FinishPlace ==
  ASSUME OwnerInv, Finish \/ \E c \in Container : SweepDelete(c) PROVE PlaceInv'
<1> USE NamesAssumption
    DEF OwnerInv, TypeInv, TypeOK, CallerOK, PoolManagerOK, PlaceInv, FreshPlace,
        InflightPlace, WarmPlace, PoppedPlace, SessionPlace, UnusedPlace, Settled,
        Unbound, Unpopped, Popping, poolVars, lockVars, containerVars,
        callerVars, evictVars, deleteVars, finishVars, pmVars, SessionTokens,
        SessionContainers
<1>1. CASE FinishClose
  BY <1>1 DEF FinishClose
<1>2. CASE FinishCollect
  BY <1>2 DEF FinishCollect, SessionsDropped, FirstEvictStep
<1>3. CASE DeadlineHit
  BY <1>3 DEF DeadlineHit
<1>4. CASE CleanupAll
  BY <1>4 DEF CleanupAll
<1>5. CASE Exit
  BY <1>5 DEF Exit
<1>6. ASSUME NEW c \in Container, SweepDelete(c) PROVE PlaceInv'
  BY <1>6 DEF SweepDelete
<1> QED BY <1>1, <1>2, <1>3, <1>4, <1>5, <1>6 DEF Finish

LEMMA SpawnPlace ==
  ASSUME OwnerInv, NEW t \in Token, NEW scan \in Scan, EvictSessionAsync(t, scan)
  PROVE  PlaceInv'
BY DEF EvictSessionAsync, OwnerInv, PlaceInv, FreshPlace, InflightPlace, WarmPlace,
       PoppedPlace, SessionPlace, UnusedPlace, Settled, Unbound, Unpopped, Popping,
       poolVars, lockVars, containerVars, callerVars, deleteVars, pmVars, finishVars

LEMMA StutterPlace == ASSUME OwnerInv, UNCHANGED vars PROVE PlaceInv'
BY DEF vars, OwnerInv, PlaceInv, FreshPlace, InflightPlace, WarmPlace,
       PoppedPlace, SessionPlace, UnusedPlace, Settled, Unbound, Unpopped, Popping,
       poolVars, lockVars, containerVars, callerVars, evictVars, deleteVars, pmVars,
       finishVars

LEMMA NextOwner == ASSUME OwnerInv, [Next]_vars PROVE OwnerInv'
<1>1. TypeInv'
  BY NextType DEF OwnerInv
<1>2. PlaceInv'
  BY PoolManagerPlace, CallerPlace, EvictionPlace, SpawnPlace, FinishPlace, StutterPlace
     DEF Next, EvictIdleSessions, ScanSessionHealth
<1> QED BY <1>1, <1>2 DEF OwnerInv

LEMMA OwnerInvariant == Spec => []OwnerInv
<1>1. Init => OwnerInv
  BY InitType, InitPlace DEF OwnerInv
<1>2. OwnerInv /\ [Next]_vars => OwnerInv'
  BY NextOwner
<1> QED BY <1>1, <1>2, PTL DEF Spec

(* No interleaving of the pool manager, requests, evictions and shutdown puts
   a container in two hands: two sessions never share a container, and one
   being evicted or discarded is never handed out. *)
THEOREM OneOwner == Spec => []ExclusiveOwner
<1>1. OwnerInv => ExclusiveOwner
  BY DEF OwnerInv, TypeInv, TypeOK, PlaceInv, FreshPlace, InflightPlace, WarmPlace,
         PoppedPlace, SessionPlace, Settled, Unbound, Unpopped, ExclusiveOwner, Fresh,
         Popped, SessionContainers, SessionTokens, Evicting
<1> QED BY <1>1, OwnerInvariant, PTL

(* Whatever createContainer answers after SIGTERM, CleanupAll is the last to
   see inflight non-empty: replenishPool deletes the late container itself. *)
THEOREM NothingRegisteredLate == Spec => []NoInflightAfterSweep
<1> USE DEF NoInflightAfterSweep, Swept, poolVars, finishVars
<1>1. Init => NoInflightAfterSweep
  BY DEF Init
<1>2. NoInflightAfterSweep /\ [Next]_vars => NoInflightAfterSweep'
  <2> SUFFICES ASSUME NoInflightAfterSweep, [Next]_vars PROVE NoInflightAfterSweep'
    OBVIOUS
  <2>1. CASE PoolManager
    BY <2>1 DEF PoolManager, Replenish, CreateContainer, StopCreating, Register, MayRegister,
       Done, PollInflight, Promote, PoolStop
  <2>2. ASSUME NEW x \in Caller, Call(x) \/ CallerStep(x) PROVE NoInflightAfterSweep'
    BY <2>2 DEF Call, CallerStep, GetOrAssign, CheckKey, LockSession, PopWarm, GiveUp,
       Probe, Fetch, Push, Commit, Proxy
  <2>3. ASSUME NEW c \in Container, EvictWarm(c) \/ EvictAndSnapshot(c) \/ RunDelete(c)
        PROVE  NoInflightAfterSweep'
    BY <2>3 DEF EvictWarm, EvictAndSnapshot, EvictSem, EvictCancelled, EvictSnapshot,
       EvictPut, EvictDelete, RunDelete
  <2>4. ASSUME NEW c \in Container, NEW l \in Lock, NEW scan \in Scan, EvictClaim(c, l, scan)
        PROVE  NoInflightAfterSweep'
    BY <2>4 DEF EvictClaim
  <2>5. ASSUME NEW t \in Token, NEW scan \in Scan, EvictSessionAsync(t, scan)
        PROVE  NoInflightAfterSweep'
    BY <2>5 DEF EvictSessionAsync
  <2>6. CASE Finish \/ \E c \in Container : SweepDelete(c)
    BY <2>6 DEF Finish, FinishClose, FinishCollect, DeadlineHit, CleanupAll, Exit, SweepDelete
  <2>7. CASE UNCHANGED vars
    BY <2>7 DEF vars
  <2> QED BY <2>1, <2>2, <2>3, <2>4, <2>5, <2>6, <2>7
      DEF Next, EvictIdleSessions, ScanSessionHealth
<1> QED BY <1>1, <1>2, PTL DEF Spec

----------------------------------------------------------------------------
(***************************************************************************)
(* What a container carries: the session map and the containers agree      *)
(* (SessionBinding), and a container that can still be handed out carries  *)
(* nothing of a former session (PoolIsClean).  Both rest on OwnerInv: the  *)
(* fields of a container are written by its one owner.                     *)
(***************************************************************************)
Clean(c) == accessToken[c] = None /\ encKey[c] = None

\* PoolIsClean, with the ids not handed out yet and what pollInflight is about
\* to promote.
CleanInv ==
  /\ \A c \in Container : status[c] = "none" => Clean(c)
  /\ fresh # None => Clean(fresh) /\ status[fresh] \in {"deploying", "ready"}
  /\ \A c \in inflight : Clean(c) /\ status[c] \in {"deploying", "ready"}
  /\ \A c \in warmPool \cup ready : Clean(c) /\ status[c] = "ready"
  /\ \A x \in Caller : Popping(x) => Clean(held[x]) /\ status[held[x]] = "ready"

CarryInv == OwnerInv /\ CleanInv /\ SessionBinding

LEMMA InitCarry == Init => CleanInv /\ SessionBinding
BY NamesAssumption DEF Init, CleanInv, Clean, SessionBinding, SessionTokens, Popping

LEMMA PoolManagerCarry ==
  ASSUME CarryInv, PoolManager
  PROVE  CleanInv' /\ SessionBinding'
<1> USE NamesAssumption
    DEF OwnerInv, TypeInv, TypeOK, CallerOK, PoolManagerOK, PlaceInv, FreshPlace,
        InflightPlace, WarmPlace, PoppedPlace, SessionPlace, UnusedPlace, Settled,
        Unbound, Unpopped, Popping, CarryInv, CleanInv, Clean, SessionBinding,
        SessionTokens, poolVars, lockVars, containerVars, callerVars, evictVars,
        deleteVars, pmVars, finishVars, SetStatus, GoDelete
<1>1. CASE Replenish
  BY <1>1 DEF Replenish
<1>2. CASE CreateContainer
  BY <1>2 DEF CreateContainer
<1>3. CASE StopCreating
  BY <1>3 DEF StopCreating
<1>4. CASE Register
  BY <1>4 DEF Register
<1>5. CASE PollInflight
  BY <1>5 DEF PollInflight
<1>6. CASE Promote
  BY <1>6 DEF Promote
<1>7. CASE PoolStop
  BY <1>7 DEF PoolStop
<1> QED
  BY <1>1, <1>2, <1>3, <1>4, <1>5, <1>6, <1>7 DEF PoolManager

LEMMA CallerCarry ==
  ASSUME CarryInv, NEW x \in Caller, Call(x) \/ CallerStep(x)
  PROVE  CleanInv' /\ SessionBinding'
<1> USE NamesAssumption
    DEF OwnerInv, TypeInv, TypeOK, CallerOK, PoolManagerOK, PlaceInv, FreshPlace,
        InflightPlace, WarmPlace, PoppedPlace, SessionPlace, UnusedPlace, Settled,
        Unbound, Unpopped, Popping, CarryInv, CleanInv, Clean, SessionBinding,
        SessionTokens, poolVars, lockVars, containerVars, callerVars, evictVars,
        deleteVars, pmVars, finishVars, SetStatus, GoDelete,
        Discard, CleanupSession, Deferred, Unlock, Refuse, Return, Requeue, RemoveWarm,
        WithoutSession
<1>1. CASE Call(x)
  BY <1>1 DEF Call
<1>2. CASE GetOrAssign(x)
  BY <1>2 DEF GetOrAssign
<1>3. CASE CheckKey(x)
  BY <1>3 DEF CheckKey
<1>4. CASE LockSession(x)
  BY <1>4 DEF LockSession, Reassigned
<1>5. CASE PopWarm(x)
  BY <1>5 DEF PopWarm
<1>6. CASE GiveUp(x)
  BY <1>6 DEF GiveUp
<1>7. CASE Probe(x)
  BY <1>7 DEF Probe
<1>8. CASE Fetch(x)
  BY <1>8 DEF Fetch
<1>9. CASE Push(x)
  BY <1>9 DEF Push
<1>10. CASE Commit(x)
  BY <1>10 DEF Commit, Request
<1>11. CASE Proxy(x)
  BY <1>11 DEF Proxy, HandleAuthGate
<1> QED
  BY <1>1, <1>2, <1>3, <1>4, <1>5, <1>6, <1>7, <1>8, <1>9, <1>10, <1>11 DEF CallerStep

LEMMA EvictionCarry ==
  ASSUME CarryInv, NEW c \in Container,
         \/ EvictWarm(c) \/ EvictAndSnapshot(c) \/ RunDelete(c)
         \/ \E l \in Lock, scan \in Scan : EvictClaim(c, l, scan)
  PROVE  CleanInv' /\ SessionBinding'
<1> USE NamesAssumption
    DEF OwnerInv, TypeInv, TypeOK, CallerOK, PoolManagerOK, PlaceInv, FreshPlace,
        InflightPlace, WarmPlace, PoppedPlace, SessionPlace, UnusedPlace, Settled,
        Unbound, Unpopped, Popping, CarryInv, CleanInv, Clean, SessionBinding,
        SessionTokens, poolVars, lockVars, containerVars, callerVars, evictVars,
        deleteVars, pmVars, finishVars, SetStatus, GoDelete,
        Discard, CleanupSession, Unlock, RemoveWarm, WithoutSession, Lock
<1>1. CASE EvictWarm(c)
  BY <1>1 DEF EvictWarm, StillWarm
<1>2. CASE EvictSem(c)
  BY <1>2 DEF EvictSem
<1>3. CASE EvictCancelled(c)
  BY <1>3 DEF EvictCancelled
<1>4. CASE EvictSnapshot(c)
  BY <1>4 DEF EvictSnapshot, HandleAuthGate
<1>5. CASE EvictPut(c)
  BY <1>5 DEF EvictPut
<1>6. CASE EvictDelete(c)
  BY <1>6 DEF EvictDelete
<1>7. CASE RunDelete(c)
  BY <1>7 DEF RunDelete
<1>8. ASSUME NEW l \in Lock, NEW scan \in Scan, EvictClaim(c, l, scan) PROVE CleanInv' /\ SessionBinding'
  BY <1>8 DEF EvictClaim, StillBound
<1> QED
  BY <1>1, <1>2, <1>3, <1>4, <1>5, <1>6, <1>7, <1>8 DEF EvictAndSnapshot

LEMMA FinishCarry ==
  ASSUME CarryInv, Finish \/ \E c \in Container : SweepDelete(c)
  PROVE  CleanInv' /\ SessionBinding'
<1> USE NamesAssumption
    DEF OwnerInv, TypeInv, TypeOK, CallerOK, PoolManagerOK, PlaceInv, FreshPlace,
        InflightPlace, WarmPlace, PoppedPlace, SessionPlace, UnusedPlace, Settled,
        Unbound, Unpopped, Popping, CarryInv, CleanInv, Clean, SessionBinding,
        SessionTokens, poolVars, lockVars, containerVars, callerVars, evictVars,
        deleteVars, pmVars, finishVars, SetStatus, GoDelete,
        SessionContainers
<1>1. CASE FinishClose
  BY <1>1 DEF FinishClose
<1>2. CASE FinishCollect
  BY <1>2 DEF FinishCollect, SessionsDropped
<1>3. CASE DeadlineHit
  BY <1>3 DEF DeadlineHit
<1>4. CASE CleanupAll
  BY <1>4 DEF CleanupAll
<1>5. CASE Exit
  BY <1>5 DEF Exit
<1>6. ASSUME NEW c \in Container, SweepDelete(c) PROVE CleanInv' /\ SessionBinding'
  BY <1>6 DEF SweepDelete
<1> QED
  BY <1>1, <1>2, <1>3, <1>4, <1>5, <1>6 DEF Finish

LEMMA SpawnCarry ==
  ASSUME CarryInv, NEW t \in Token, NEW scan \in Scan, EvictSessionAsync(t, scan)
  PROVE  CleanInv' /\ SessionBinding'
BY DEF EvictSessionAsync, CarryInv, CleanInv, Clean, SessionBinding, SessionTokens,
       Popping, poolVars, lockVars, containerVars, callerVars, deleteVars, pmVars,
       finishVars

LEMMA StutterCarry ==
  ASSUME CarryInv, UNCHANGED vars PROVE CleanInv' /\ SessionBinding'
BY DEF vars, CarryInv, CleanInv, Clean, SessionBinding, SessionTokens, Popping, poolVars,
       lockVars, containerVars, callerVars, evictVars, deleteVars, pmVars, finishVars

LEMMA NextCarry == ASSUME CarryInv, [Next]_vars PROVE CarryInv'
<1>1. OwnerInv'
  BY NextOwner DEF CarryInv
<1>2. CleanInv' /\ SessionBinding'
  BY PoolManagerCarry, CallerCarry, EvictionCarry, SpawnCarry, FinishCarry, StutterCarry
     DEF Next, EvictIdleSessions, ScanSessionHealth
<1> QED BY <1>1, <1>2 DEF CarryInv

LEMMA CarryInvariant == Spec => []CarryInv
<1>1. Init => CarryInv
  BY InitType, InitPlace, InitCarry DEF OwnerInv, CarryInv
<1>2. CarryInv /\ [Next]_vars => CarryInv'
  BY NextCarry
<1> QED BY <1>1, <1>2, PTL DEF Spec

(* The session map and the containers it names always agree: handleAuthGate
   and evictAndSnapshot, which follow the pointer back, find the token and the
   key under which the container was committed, and a live container. *)
THEOREM SessionsBound == Spec => []SessionBinding
<1>1. CarryInv => SessionBinding
  BY DEF CarryInv
<1> QED BY <1>1, CarryInvariant, PTL

(* A container on its way to a session has never carried another one. *)
THEOREM PoolClean == Spec => []PoolIsClean
<1>1. CarryInv => PoolIsClean
  BY DEF CarryInv, CleanInv, Clean, PoolIsClean, Fresh, Popped
<1> QED BY <1>1, CarryInvariant, PTL

----------------------------------------------------------------------------
(***************************************************************************)
(* The drains of Finish (DrainsAreAwaited).  A drained container has left  *)
(* every place for good, so that no second eviction can begin for it, and  *)
(* the one that Finish waits for ends with its deletion.                   *)
(***************************************************************************)
Away(c) ==
  /\ c \notin inflight \cup warmPool \cup ready \cup failed /\ c # fresh
  /\ Unpopped(c) /\ Unbound(c) /\ status[c] # "none"

DrainInv ==
  /\ phase \in {"up", "done"} => drain = {}
  /\ \A c \in drain :
       Away(c) /\ evPc[c] # "none" /\ (evPc[c] = "done" => deletes[c] > 0)
  /\ Swept /\ ~deadline => \A c \in drain : evPc[c] = "done"

LEMMA InitDrain == Init => DrainInv
BY DEF Init, DrainInv, Swept

\* A step that is not of Finish: the drained containers are out of its reach,
\* and if it takes an eviction to its end it orders the deletion.
LEMMA FrameDrain ==
  ASSUME OwnerInv, DrainInv, UNCHANGED finishVars,
         \A c \in drain : Away(c) => Away(c)',
         \A c \in drain : Settled(c) => evPc'[c] = evPc[c],
         \A c \in drain : ~Settled(c) =>
           evPc'[c] # "none" /\ (evPc'[c] = "done" => deletes'[c] > 0),
         \A c \in drain : deletes[c] > 0 => deletes'[c] > 0
  PROVE  DrainInv'
BY DEF finishVars, DrainInv, Swept, Settled

LEMMA PoolManagerDrain == ASSUME OwnerInv, DrainInv, PoolManager PROVE DrainInv'
<1>1. UNCHANGED finishVars /\ evPc' = evPc
  BY DEF PoolManager, Replenish, CreateContainer, StopCreating, Register, PollInflight,
         Promote, PoolStop, evictVars
<1>2. \A c \in drain : Away(c) => Away(c)'
  <2> USE NamesAssumption
      DEF OwnerInv, TypeInv, TypeOK, CallerOK, PoolManagerOK, Away, Unbound, Unpopped,
          Popping, poolVars, lockVars, containerVars, callerVars, finishVars, SetStatus
  <2>1. CASE Replenish
    BY <2>1 DEF Replenish
  <2>2. CASE CreateContainer
    BY <2>2 DEF CreateContainer
  <2>3. CASE StopCreating
    BY <2>3 DEF StopCreating
  <2>4. CASE Register
    BY <2>4 DEF Register, GoDelete
  <2>5. CASE PollInflight
    BY <2>5 DEF PollInflight
  <2>6. CASE Promote
    BY <2>6 DEF Promote
  <2>7. CASE PoolStop
    BY <2>7 DEF PoolStop
  <2> QED BY <2>1, <2>2, <2>3, <2>4, <2>5, <2>6, <2>7 DEF PoolManager
<1>3. \A c \in Container : deletes'[c] >= deletes[c]
  BY DEF OwnerInv, TypeInv, TypeOK, PoolManager, Replenish, CreateContainer, StopCreating,
         Register, PollInflight, Promote, PoolStop, deleteVars, GoDelete
<1>4. deletes \in [Container -> Nat] /\ deletes' \in [Container -> Nat] /\ drain \subseteq Container
  BY NextType DEF OwnerInv, TypeInv, TypeOK, Next
<1> QED BY <1>1, <1>2, <1>3, <1>4, FrameDrain DEF DrainInv

LEMMA CallerDrain ==
  ASSUME OwnerInv, DrainInv, NEW x \in Caller, Call(x) \/ CallerStep(x) PROVE DrainInv'
<1>0. deletes \in [Container -> Nat] /\ deletes' \in [Container -> Nat] /\ drain \subseteq Container
  BY NextType DEF OwnerInv, TypeInv, TypeOK, Next
<1>1. UNCHANGED finishVars /\ evPc' = evPc
  BY DEF Call, CallerStep, GetOrAssign, CheckKey, LockSession, PopWarm, GiveUp, Probe, Fetch,
         Push, Commit, Proxy, evictVars
<1>2. \A c \in drain : (Away(c) => Away(c)') /\ deletes'[c] >= deletes[c]
  <2> USE <1>0, NamesAssumption
      DEF OwnerInv, TypeInv, TypeOK, CallerOK, PoolManagerOK, Away, Unbound, Unpopped,
          Popping, poolVars, lockVars, containerVars, deleteVars, finishVars, pmVars,
          SetStatus, GoDelete, Discard, CleanupSession, Refuse, Return, Requeue,
          SessionTokens, RemoveWarm, WithoutSession
  <2>1. CASE Call(x)
    BY <2>1 DEF Call
  <2>2. CASE GetOrAssign(x)
    BY <2>2 DEF GetOrAssign
  <2>3. CASE CheckKey(x)
    BY <2>3 DEF CheckKey
  <2>4. CASE LockSession(x)
    BY <2>4 DEF LockSession, Reassigned
  <2>5. CASE PopWarm(x)
    BY <2>5 DEF PopWarm
  <2>6. CASE GiveUp(x)
    BY <2>6 DEF GiveUp
  <2>7. CASE Probe(x)
    BY <2>7 DEF Probe
  <2>8. CASE Fetch(x)
    BY <2>8 DEF Fetch
  <2>9. CASE Push(x)
    <3>1. CASE pc' = [pc EXCEPT ![x] = "commit"]
               /\ UNCHANGED <<held, warmPool, status, deleteVars>>
      BY <2>9, <3>1 DEF Push
    <3>2. CASE Requeue(held[x]) /\ Refuse(x) /\ UNCHANGED <<status, deleteVars>>
      BY <2>9, <3>2 DEF Push
    <3>3. CASE Discard(held[x]) /\ Refuse(x) /\ UNCHANGED warmPool
      BY <2>9, <3>3 DEF Push
    <3> QED BY <2>9, <3>1, <3>2, <3>3 DEF Push
  <2>10. CASE Commit(x)
    BY <2>10 DEF Commit, Request
  <2>11. CASE Proxy(x)
    <3>1. CASE CleanupSession(accessToken[held[x]])
      BY <2>11, <3>1 DEF Proxy
    <3>2. CASE UNCHANGED <<sessions, status, deleteVars>>
      BY <2>11, <3>2 DEF Proxy
    <3> QED BY <2>11, <3>1, <3>2 DEF Proxy, HandleAuthGate
  <2> QED
    BY <2>1, <2>2, <2>3, <2>4, <2>5, <2>6, <2>7, <2>8, <2>9, <2>10, <2>11 DEF CallerStep
<1> QED BY <1>0, <1>1, <1>2, FrameDrain DEF DrainInv

LEMMA EvictionDrain ==
  ASSUME OwnerInv, DrainInv, NEW c \in Container,
         \/ EvictWarm(c) \/ EvictAndSnapshot(c) \/ RunDelete(c) \/ SweepDelete(c)
         \/ \E l \in Lock, scan \in Scan : EvictClaim(c, l, scan)
  PROVE  DrainInv'
<1> USE NamesAssumption
    DEF OwnerInv, TypeInv, TypeOK, CallerOK, PoolManagerOK, DrainInv, Swept, Away, Unbound,
        Unpopped, Popping, poolVars, lockVars, containerVars, callerVars, evictVars,
        deleteVars, finishVars, pmVars, SetStatus, GoDelete, Discard, CleanupSession,
        Unlock, SessionTokens, RemoveWarm, WithoutSession, SlotReturned
<1>1. CASE EvictWarm(c)
  BY <1>1 DEF EvictWarm, StillWarm
<1>2. CASE EvictSem(c)
  BY <1>2 DEF EvictSem
<1>3. CASE EvictCancelled(c)
  BY <1>3 DEF EvictCancelled, NextIfCancelled
<1>4. CASE EvictSnapshot(c)
  BY <1>4 DEF EvictSnapshot, HandleAuthGate
<1>5. CASE EvictPut(c)
  BY <1>5 DEF EvictPut
<1>6. CASE EvictDelete(c)
  BY <1>6 DEF EvictDelete
<1>7. CASE RunDelete(c)
  BY <1>7 DEF RunDelete
<1>8. CASE SweepDelete(c)
  BY <1>8 DEF SweepDelete
<1>9. ASSUME NEW l \in Lock, NEW scan \in Scan, EvictClaim(c, l, scan) PROVE DrainInv'
  <2>1. l[1] \in Token
    BY DEF Lock
  <2> QED BY <1>9, <2>1 DEF EvictClaim, LockKept, FirstEvictStep, StillBound
<1> QED
  BY <1>1, <1>2, <1>3, <1>4, <1>5, <1>6, <1>7, <1>8, <1>9 DEF EvictAndSnapshot

LEMMA FinishDrain == ASSUME OwnerInv, DrainInv, Finish PROVE DrainInv'
<1> USE NamesAssumption
    DEF OwnerInv, TypeInv, TypeOK, CallerOK, PoolManagerOK, DrainInv, Swept, Away, Unbound,
        Unpopped, Popping, poolVars, lockVars, containerVars, callerVars, evictVars,
        deleteVars, finishVars, pmVars, SessionTokens, SessionContainers
<1>1. CASE FinishClose
  BY <1>1 DEF FinishClose
<1>2. CASE FinishCollect
  BY <1>2 DEF FinishCollect, SessionsDropped, FirstEvictStep, PlaceInv, FreshPlace,
              InflightPlace, WarmPlace, PoppedPlace, UnusedPlace
<1>3. CASE DeadlineHit
  BY <1>3 DEF DeadlineHit
<1>4. CASE CleanupAll
  BY <1>4 DEF CleanupAll, DrainOver
<1>5. CASE Exit
  BY <1>5 DEF Exit
<1> QED BY <1>1, <1>2, <1>3, <1>4, <1>5 DEF Finish

LEMMA NextDrain == ASSUME OwnerInv, DrainInv, [Next]_vars PROVE DrainInv'
<1>1. ASSUME NEW t \in Token, NEW scan \in Scan, EvictSessionAsync(t, scan) PROVE DrainInv'
  BY <1>1 DEF EvictSessionAsync, DrainInv, Swept, Away, Unbound, Unpopped, Popping, poolVars,
     containerVars, callerVars, deleteVars, pmVars, finishVars
<1>2. CASE UNCHANGED vars
  BY <1>2 DEF vars, DrainInv, Swept, Away, Unbound, Unpopped, Popping, poolVars,
     containerVars, callerVars, evictVars, deleteVars, pmVars, finishVars
<1> QED
  BY <1>1, <1>2, PoolManagerDrain, CallerDrain, EvictionDrain, FinishDrain
     DEF Next, EvictIdleSessions, ScanSessionHealth

LEMMA DrainInvariant == Spec => []DrainInv
<1>1. OwnerInv /\ DrainInv /\ [Next]_vars => DrainInv'
  BY NextDrain
<1> QED BY <1>1, InitDrain, OwnerInvariant, PTL DEF Spec

(* Whatever runs beside Finish, it does not go on to CleanupAll before the
   deadline while a session that was alive at SIGTERM is still to be deleted. *)
THEOREM DrainsFinish == Spec => []DrainsAreAwaited
<1>1. DrainInv => DrainsAreAwaited
  BY DEF DrainInv, DrainsAreAwaited
<1> QED BY <1>1, DrainInvariant, PTL
=============================================================================
