--------------------------- MODULE CapacityProofs ---------------------------
(***************************************************************************)
(* The two caps: on tar buffers (TarBuffersCapped) and on containers       *)
(* (CapacityBound).  Both are counting arguments.  Every request in its    *)
(* section and every snapshotting evictor is a holder of the semaphore,    *)
(* whose holders are at most MaxConcurrentSnapshots.  And between two      *)
(* Replenish steps no step adds to the number of containers held plus the  *)
(* iterations `needed` still allows.                                       *)
(***************************************************************************)
EXTENDS ManagerProofs

\* A request with a bearer holds a slot from the reservation to the return, and
\* only such a request restores; an evictor holds one while it has a tar.
SlotInv ==
  /\ Cardinality(snapshotSem) <= MaxConcurrentSnapshots
  /\ \A x \in Caller : Critical(x) /\ req[x].bearer => x \in snapshotSem
  /\ \A x \in Caller : pc[x] \in {"fetch", "push"} => req[x].bearer
  /\ \A c \in Container : evPc[c] \in {"snapshot", "put"} => c \in snapshotSem

LEMMA SemFinite ==
  ASSUME TypeOK PROVE IsFiniteSet(snapshotSem) /\ Cardinality(snapshotSem) \in Nat
<1>1. IsFiniteSet(Caller \cup Container)
  BY FiniteAssumption, FS_Union
<1> QED BY <1>1, FS_Subset, FS_CardinalityType DEF TypeOK

\* The semaphore is only entered where there is room.
LEMMA SemBounded ==
  ASSUME TypeOK, Cardinality(snapshotSem) <= MaxConcurrentSnapshots,
         \/ snapshotSem' \subseteq snapshotSem
         \/ SlotFree /\ \E h : snapshotSem' = snapshotSem \cup {h}
  PROVE  Cardinality(snapshotSem') <= MaxConcurrentSnapshots
<1>1. CASE snapshotSem' \subseteq snapshotSem
  <2>1. IsFiniteSet(snapshotSem') /\ Cardinality(snapshotSem') <= Cardinality(snapshotSem)
    BY <1>1, SemFinite, FS_Subset
  <2>2. Cardinality(snapshotSem') \in Nat
    BY <2>1, FS_CardinalityType
  <2> QED BY <2>1, <2>2, SemFinite, ConfigAssumption
<1>2. ASSUME SlotFree, NEW h, snapshotSem' = snapshotSem \cup {h}
      PROVE  Cardinality(snapshotSem') <= MaxConcurrentSnapshots
  <2>1. IsFiniteSet(snapshotSem) /\ Cardinality(snapshotSem) \in Nat
    BY SemFinite
  <2>2. Cardinality(snapshotSem') \in {Cardinality(snapshotSem), Cardinality(snapshotSem) + 1}
    BY ONLY <1>2, <2>1, FS_AddElement
  <2> QED BY <1>2, <2>1, <2>2, ConfigAssumption DEF SlotFree
<1> QED BY <1>1, <1>2

LEMMA InitSlot == Init => SlotInv
BY ConfigAssumption, FS_EmptySet DEF Init, SlotInv, Critical, Popping

LEMMA CallerSlot ==
  ASSUME TypeInv, SlotInv, NEW x \in Caller, Call(x) \/ CallerStep(x)
  PROVE  SlotInv'
<1> USE NamesAssumption, SemBounded
    DEF TypeInv, TypeOK, CallerOK, SlotInv, Critical, Popping, Request, lockVars,
        evictVars, Refuse, Return, Deferred, SlotReturned
<1> HIDE DEF TypeOK
<1>0. /\ pc \in [Caller -> CallPc] /\ req \in [Caller -> Request \cup {None}]
      /\ Bearer \subseteq BOOLEAN
  BY ConfigAssumption DEF TypeOK
<1>1. CASE Call(x)
  BY <1>0, <1>1 DEF Call
<1>2. CASE GetOrAssign(x)
  BY <1>0, <1>2 DEF GetOrAssign
<1>3. CASE CheckKey(x)
  BY <1>0, <1>3 DEF CheckKey
<1>4. CASE LockSession(x)
  <2>1. CASE Refuse(x) \/ Return(x, sessions[req[x].tok])
    BY <1>0, <1>4, <2>1 DEF LockSession
  <2>2. CASE /\ req[x].bearer => SlotFree
             /\ pc' = [pc EXCEPT ![x] = "wait"] /\ UNCHANGED req
             /\ snapshotSem' = snapshotSem \cup (IF req[x].bearer THEN {x} ELSE {})
    BY <1>0, <1>4, <2>2 DEF LockSession
  <2> QED BY <1>4, <2>1, <2>2 DEF LockSession
<1>5. CASE PopWarm(x)
  BY <1>0, <1>5 DEF PopWarm
<1>6. CASE GiveUp(x)
  BY <1>0, <1>6 DEF GiveUp
<1>7. CASE Probe(x)
  BY <1>0, <1>7 DEF Probe
<1>8. CASE Fetch(x)
  BY <1>0, <1>8 DEF Fetch
<1>9. CASE Push(x)
  BY <1>0, <1>9 DEF Push
<1>10. CASE Commit(x)
  BY <1>0, <1>10 DEF Commit
<1>11. CASE Proxy(x)
  BY <1>0, <1>11 DEF Proxy
<1> QED
  BY <1>1, <1>2, <1>3, <1>4, <1>5, <1>6, <1>7, <1>8, <1>9, <1>10, <1>11 DEF CallerStep

LEMMA EvictionSlot ==
  ASSUME TypeInv, SlotInv, NEW c \in Container,
         \/ EvictWarm(c) \/ EvictAndSnapshot(c) \/ RunDelete(c)
         \/ \E l \in Lock, scan \in Scan : EvictClaim(c, l, scan)
  PROVE  SlotInv'
<1> USE NamesAssumption, SemBounded
    DEF TypeInv, SlotInv, Critical, Popping, lockVars, callerVars, evictVars, SlotReturned
<1>0. evPc \in [Container -> EvictPc]
  BY DEF TypeOK
<1>1. CASE EvictWarm(c) \/ RunDelete(c)
  BY <1>1 DEF EvictWarm, RunDelete
<1>2. CASE EvictSem(c)
  BY <1>0, <1>2 DEF EvictSem
<1>3. CASE EvictCancelled(c)
  BY <1>0, <1>3 DEF EvictCancelled, NextIfCancelled
<1>4. CASE EvictSnapshot(c)
  BY <1>0, <1>4 DEF EvictSnapshot
<1>5. CASE EvictPut(c)
  BY <1>0, <1>5 DEF EvictPut
<1>6. CASE EvictDelete(c)
  BY <1>0, <1>6 DEF EvictDelete
<1>7. ASSUME NEW l \in Lock, NEW scan \in Scan, EvictClaim(c, l, scan) PROVE SlotInv'
  BY <1>0, <1>7 DEF EvictClaim, FirstEvictStep
<1> QED
  BY <1>1, <1>2, <1>3, <1>4, <1>5, <1>6, <1>7 DEF EvictAndSnapshot

LEMMA OtherSlot ==
  ASSUME TypeInv, SlotInv,
         \/ PoolManager \/ Finish \/ UNCHANGED vars
         \/ \E c \in Container : SweepDelete(c)
         \/ \E t \in Token, scan \in Scan : EvictSessionAsync(t, scan)
  PROVE  SlotInv'
<1> USE DEF TypeInv, SlotInv, Critical, Popping, lockVars, callerVars, evictVars
<1>0. evPc \in [Container -> EvictPc]
  BY DEF TypeOK
<1>1. CASE FinishCollect
  BY <1>0, <1>1 DEF FinishCollect, FirstEvictStep
<1>2. CASE ~FinishCollect
  <2>1. UNCHANGED <<snapshotSem, callerVars, evPc>>
    BY <1>2 DEF PoolManager, Replenish, CreateContainer, StopCreating, Register,
       PollInflight, Promote, PoolStop, Finish, FinishClose, DeadlineHit, CleanupAll, Exit,
       SweepDelete, EvictSessionAsync, vars
  <2> QED BY <2>1
<1> QED BY <1>1, <1>2

LEMMA NextSlot == ASSUME TypeInv, SlotInv, [Next]_vars PROVE SlotInv'
BY CallerSlot, EvictionSlot, OtherSlot DEF Next, EvictIdleSessions, ScanSessionHealth

LEMMA SlotInvariant == Spec => [](TypeInv /\ SlotInv)
<1>1. Init => TypeInv /\ SlotInv
  BY InitType, InitSlot
<1>2. TypeInv /\ SlotInv /\ [Next]_vars => (TypeInv /\ SlotInv)'
  BY NextType, NextSlot
<1> QED BY <1>1, <1>2, PTL DEF Spec

(* Restores and snapshots together never hold more tars in memory than
   MAX_CONCURRENT_SNAPSHOTS, on any path through either. *)
THEOREM TarsCapped == Spec => []TarBuffersCapped
<1>1. TypeInv /\ SlotInv => TarBuffersCapped
  <2> SUFFICES ASSUME TypeInv, SlotInv PROVE TarBuffersCapped
    OBVIOUS
  <2> DEFINE P == {x \in Caller : pc[x] = "push"}
             E == {c \in Container : evPc[c] \in {"snapshot", "put"}}
  <2>1. P \subseteq snapshotSem /\ E \subseteq snapshotSem /\ P \cap E = {}
    BY NamesAssumption DEF SlotInv, Critical, Popping
  <2>2. IsFiniteSet(snapshotSem) /\ Cardinality(snapshotSem) \in Nat
    BY SemFinite DEF TypeInv
  <2>3. IsFiniteSet(P) /\ IsFiniteSet(E) /\ IsFiniteSet(P \cup E)
        /\ Cardinality(P \cup E) <= Cardinality(snapshotSem)
    BY <2>1, <2>2, FS_Subset
  <2>4. Cardinality(P \cup E) = Cardinality(P) + Cardinality(E) - Cardinality(P \cap E)
    BY <2>3, FS_Union
  <2>5. Cardinality(P \cap E) = 0
    BY <2>1, FS_EmptySet
  <2>6. Cardinality(P) \in Nat /\ Cardinality(E) \in Nat
    BY <2>3, FS_CardinalityType
  <2> HIDE DEF P, E
  <2>7. Cardinality(P) + Cardinality(E) <= MaxConcurrentSnapshots
    BY <2>2, <2>3, <2>4, <2>5, <2>6, ConfigAssumption DEF SlotInv
  <2> QED BY <2>7 DEF TarBuffersCapped, P, E
<1> QED BY <1>1, SlotInvariant, PTL

----------------------------------------------------------------------------
(* Every holder gives back what it holds. *)

LEMMA PoolManagerHolders ==
  ASSUME HoldersAreAtWork, PoolManager \/ UNCHANGED vars PROVE HoldersAreAtWork'
<1>1. UNCHANGED <<assignLock, snapshotSem, pc, sl, evPc>>
  BY DEF PoolManager, Replenish, CreateContainer, StopCreating, Register, PollInflight,
     Promote, PoolStop, vars, lockVars, callerVars, evictVars
<1> QED BY <1>1 DEF HoldersAreAtWork, Critical, Popping, Evicting

LEMMA RequestHolders ==
  ASSUME OwnerInv, HoldersAreAtWork, NEW x \in Caller, Call(x) \/ CallerStep(x)
  PROVE  HoldersAreAtWork'
<1> USE NamesAssumption DEF OwnerInv, TypeInv, TypeOK
\* The section is entered with what it takes, and left without.
<1>1. \/ /\ ~Critical(x) /\ ~Critical(x)' /\ UNCHANGED <<assignLock, snapshotSem>>
      \/ /\ Critical(x) /\ Critical(x)' /\ UNCHANGED <<assignLock, snapshotSem, sl>>
      \/ /\ ~Critical(x) /\ Critical(x)' /\ UNCHANGED sl
         /\ assignLock' = [assignLock EXCEPT ![sl[x]] = x]
         /\ snapshotSem' \subseteq snapshotSem \cup {x}
      \/ ~Critical(x)' /\ Deferred(x)
  BY DEF Call, CallerStep, GetOrAssign, CheckKey, LockSession, PopWarm, GiveUp, Probe, Fetch,
     Push, Commit, Proxy, Refuse, Return, Critical, Popping, lockVars
<1>2. /\ evPc' = evPc
      /\ \A y \in Caller \ {x} : (Critical(y)' <=> Critical(y)) /\ sl'[y] = sl[y]
  BY DEF Call, CallerStep, GetOrAssign, CheckKey, LockSession, PopWarm, GiveUp, Probe, Fetch,
     Push, Commit, Proxy, Refuse, Return, Deferred, Critical, Popping, evictVars
<1>3. Evicting' = Evicting /\ Evicting \subseteq Container
  BY <1>2 DEF Evicting
<1> HIDE DEF Critical
<1> QED BY <1>1, <1>2, <1>3 DEF HoldersAreAtWork, Deferred, Unlock, SlotReturned

LEMMA OtherHolders ==
  ASSUME OwnerInv, HoldersAreAtWork,
         \/ Finish \/ \E t \in Token, scan \in Scan : EvictSessionAsync(t, scan)
         \/ \E c \in Container :
              \/ EvictWarm(c) \/ EvictAndSnapshot(c) \/ RunDelete(c) \/ SweepDelete(c)
              \/ \E l \in Lock, scan \in Scan : EvictClaim(c, l, scan)
  PROVE  HoldersAreAtWork'
<1> USE NamesAssumption DEF OwnerInv, TypeInv, TypeOK, HoldersAreAtWork, Critical, Popping,
        Evicting, lockVars, callerVars, evictVars, SlotReturned
<1>1. CASE FinishCollect
  <2>1. \A c \in SessionContainers : Settled(c)
    BY DEF SessionContainers, SessionTokens, PlaceInv, SessionPlace
  <2>2. \A c \in Container : ~Settled(c) => evPc'[c] = evPc[c]
    BY <1>1, <2>1 DEF FinishCollect
  <2> QED BY <1>1, <2>2 DEF FinishCollect, Settled
<1>2. CASE Finish /\ ~FinishCollect
  BY <1>2 DEF Finish, FinishClose, DeadlineHit, CleanupAll, Exit
<1>3. CASE \E t \in Token, scan \in Scan : EvictSessionAsync(t, scan)
  BY <1>3 DEF EvictSessionAsync
<1>4. ASSUME NEW c \in Container, EvictWarm(c) \/ RunDelete(c) \/ SweepDelete(c)
      PROVE  HoldersAreAtWork'
  BY <1>4 DEF EvictWarm, RunDelete, SweepDelete
<1>5. ASSUME NEW c \in Container, EvictSem(c) PROVE HoldersAreAtWork'
  BY <1>5 DEF EvictSem
<1>6. ASSUME NEW c \in Container, EvictCancelled(c) PROVE HoldersAreAtWork'
  BY <1>6 DEF EvictCancelled, NextIfCancelled
<1>7. ASSUME NEW c \in Container, EvictSnapshot(c) \/ EvictPut(c) PROVE HoldersAreAtWork'
  BY <1>7 DEF EvictSnapshot, EvictPut
<1>8. ASSUME NEW c \in Container, EvictDelete(c) PROVE HoldersAreAtWork'
  BY <1>8 DEF EvictDelete, Unlock
<1>9. ASSUME NEW c \in Container, NEW l \in Lock, NEW scan \in Scan, EvictClaim(c, l, scan)
      PROVE  HoldersAreAtWork'
  <2>1. CASE StillBound(l[1], c)
    <3>1. Settled(c)
      BY <2>1 DEF StillBound, Lock, PlaceInv, SessionPlace
    <3> QED BY <1>9, <2>1, <3>1 DEF EvictClaim, LockKept, FirstEvictStep, Settled
  <2>2. CASE ~StillBound(l[1], c)
    BY <1>9, <2>2 DEF EvictClaim
  <2> QED BY <2>1, <2>2
<1> QED
  BY <1>1, <1>2, <1>3, <1>4, <1>5, <1>6, <1>7, <1>8, <1>9 DEF EvictAndSnapshot

(* No path of GetOrAssign or of an eviction, shutdown included, leaks a
   session's mutex or a tar slot, and no holder of one waits for a mutex, or of
   a slot for a slot: the safety half of "no request waits for ever". *)
THEOREM NothingLeaksALock == Spec => []HoldersAreAtWork
<1>1. Init => HoldersAreAtWork
  BY DEF Init, HoldersAreAtWork
<1>2. OwnerInv /\ HoldersAreAtWork /\ [Next]_vars => HoldersAreAtWork'
  BY PoolManagerHolders, RequestHolders, OtherHolders
     DEF Next, EvictIdleSessions, ScanSessionHealth
<1> QED BY <1>1, <1>2, OwnerInvariant, PTL DEF Spec

----------------------------------------------------------------------------
(* The number of containers. *)

\* Everything a request can still be given or is using, including what
\* pollInflight carries past a CleanupAll.
Reserve == Tracked \cup ready

RoomInv == Bearer = {TRUE} =>
  Cardinality(Reserve) + needed <= MaxContainers + MaxConcurrentSnapshots

CapInv == OwnerInv /\ SlotInv /\ RoomInv

LEMMA ImageBound ==
  ASSUME NEW S, IsFiniteSet(S), NEW f
  PROVE  /\ IsFiniteSet({f[x] : x \in S})
         /\ Cardinality({f[x] : x \in S}) <= Cardinality(S)
<1> DEFINE T == {f[x] : x \in S}
           g == [x \in S |-> f[x]]
<1>1. g \in Surjection(S, T)
  BY DEF Surjection
<1> QED BY <1>1, FS_Surjection

\* The union is no larger than the sum, whatever the parts have in common.
LEMMA UnionBound ==
  ASSUME NEW S, NEW T, IsFiniteSet(S), IsFiniteSet(T)
  PROVE  /\ IsFiniteSet(S \cup T)
         /\ Cardinality(S \cup T) \in Nat
         /\ Cardinality(S \cup T) <= Cardinality(S) + Cardinality(T)
<1>1. /\ IsFiniteSet(S \cup T)
      /\ Cardinality(S \cup T) = Cardinality(S) + Cardinality(T) - Cardinality(S \cap T)
  BY FS_Union
<1>2. /\ Cardinality(S \cap T) \in Nat /\ Cardinality(S \cup T) \in Nat
      /\ Cardinality(S) \in Nat /\ Cardinality(T) \in Nat
  BY <1>1, FS_Intersection, FS_CardinalityType
<1> QED BY <1>1, <1>2

\* Popped containers are at most as many as the slots.
LEMMA PoppedBound ==
  ASSUME TypeInv, SlotInv, Bearer = {TRUE}
  PROVE  IsFiniteSet(Popped) /\ Cardinality(Popped) <= MaxConcurrentSnapshots
<1> DEFINE P == {x \in Caller : Popping(x)}
<1>1. P \subseteq snapshotSem
  BY DEF SlotInv, Critical, Popping, TypeInv, CallerOK, Request
<1>2. IsFiniteSet(snapshotSem) /\ Cardinality(snapshotSem) \in Nat
  BY SemFinite DEF TypeInv
<1>3. IsFiniteSet(P) /\ Cardinality(P) <= Cardinality(snapshotSem)
  BY <1>1, <1>2, FS_Subset
<1>4. IsFiniteSet(Popped) /\ Cardinality(Popped) <= Cardinality(P)
  BY <1>3, ImageBound DEF Popped
<1>5. Cardinality(P) \in Nat /\ Cardinality(Popped) \in Nat
  BY <1>3, <1>4, FS_CardinalityType
<1> QED BY <1>2, <1>3, <1>4, <1>5, ConfigAssumption DEF SlotInv

\* What replenishPool does not count is what is popped.
LEMMA TrackedBound ==
  ASSUME TypeInv, SlotInv, Bearer = {TRUE}
  PROVE  Cardinality(Tracked) <= Total + MaxConcurrentSnapshots
<1>1. /\ IsFiniteSet(warmPool) /\ IsFiniteSet(inflight) /\ IsFiniteSet(SessionTokens)
  BY FiniteAssumption, FS_Subset DEF TypeInv, TypeOK, SessionTokens
<1>2. IsFiniteSet(SessionContainers)
      /\ Cardinality(SessionContainers) <= Cardinality(SessionTokens)
  BY <1>1, ImageBound DEF SessionContainers
<1>3. IsFiniteSet(Popped) /\ Cardinality(Popped) <= MaxConcurrentSnapshots
  BY PoppedBound
<1>4. /\ IsFiniteSet(warmPool \cup inflight) /\ Cardinality(warmPool \cup inflight) \in Nat
      /\ Cardinality(warmPool \cup inflight) <= Cardinality(warmPool) + Cardinality(inflight)
  BY <1>1, UnionBound
<1>5. /\ IsFiniteSet(warmPool \cup inflight \cup Popped)
      /\ Cardinality(warmPool \cup inflight \cup Popped) \in Nat
      /\ Cardinality(warmPool \cup inflight \cup Popped)
           <= Cardinality(warmPool \cup inflight) + Cardinality(Popped)
  BY <1>3, <1>4, UnionBound
<1>6. /\ Cardinality(Tracked) \in Nat
      /\ Cardinality(Tracked)
           <= Cardinality(warmPool \cup inflight \cup Popped) + Cardinality(SessionContainers)
  BY <1>2, <1>5, UnionBound DEF Tracked
<1>7. /\ Cardinality(warmPool) \in Nat /\ Cardinality(inflight) \in Nat
      /\ Cardinality(SessionTokens) \in Nat /\ Cardinality(Popped) \in Nat
      /\ Cardinality(SessionContainers) \in Nat
  BY <1>1, <1>2, <1>3, FS_CardinalityType
<1> QED BY <1>2, <1>3, <1>4, <1>5, <1>6, <1>7, ConfigAssumption DEF Total

LEMMA ReserveFinite ==
  ASSUME TypeInv PROVE IsFiniteSet(Reserve) /\ Cardinality(Reserve) \in Nat
<1>1. Reserve \subseteq Container
  BY DEF Reserve, Tracked, Popped, Popping, SessionContainers, SessionTokens, TypeInv,
         TypeOK, CallerOK
<1> QED BY <1>1, FiniteAssumption, FS_Subset, FS_CardinalityType

LEMMA InReserve ==
  ASSUME NEW c
  PROVE  c \in Reserve <=> \/ c \in warmPool \cup inflight \cup ready
                           \/ ~Unpopped(c)
                           \/ \E t \in Token : sessions[t] # None /\ sessions[t] = c
BY DEF Reserve, Tracked, Popped, Unpopped, SessionContainers, SessionTokens

LEMMA InReserveNext ==
  ASSUME NEW c
  PROVE  c \in Reserve' <=> \/ c \in warmPool' \cup inflight' \cup ready'
                            \/ ~Unpopped(c)'
                            \/ \E t \in Token : sessions'[t] # None /\ sessions'[t] = c
BY DEF Reserve, Tracked, Popped, Unpopped, SessionContainers, SessionTokens

\* A step that adds nothing to the reserve and no iteration to the loop.
LEMMA RoomKept ==
  ASSUME TypeInv, TypeInv', RoomInv, Reserve' \subseteq Reserve, needed' <= needed
  PROVE  RoomInv'
<1>1. IsFiniteSet(Reserve) /\ Cardinality(Reserve) \in Nat
  BY ReserveFinite
<1>2. IsFiniteSet(Reserve') /\ Cardinality(Reserve') <= Cardinality(Reserve)
      /\ Cardinality(Reserve') \in Nat
  BY <1>1, FS_Subset, FS_CardinalityType
<1>3. needed \in Nat /\ needed' \in Nat
  BY ConfigAssumption DEF TypeInv, TypeOK
<1>4. Cardinality(Reserve)' = Cardinality(Reserve')
  OBVIOUS
<1> QED BY <1>1, <1>2, <1>3, <1>4, ConfigAssumption DEF RoomInv

LEMMA PoolManagerRoom ==
  ASSUME CapInv, TypeInv', PoolManager PROVE RoomInv'
<1> USE DEF CapInv, OwnerInv, poolVars, callerVars
<1>0. /\ needed \in Nat /\ needed' \in Nat
      /\ pm \in {"create", "register"} => needed >= 1
      /\ pm = "idle" => ready = {}
  BY ConfigAssumption DEF TypeInv, TypeOK, PoolManagerOK, PlaceInv, InflightPlace
<1>1. CASE Replenish
  <2>1. /\ ready = {} /\ needed' = ToCreate /\ Reserve' = Reserve
    BY <1>0, <1>1 DEF Replenish, Reserve, Tracked, Popped, Popping, SessionContainers,
                      SessionTokens
  <2>2. CASE ToCreate = 0
    BY <1>0, <2>1, <2>2, RoomKept
  <2>3. CASE ToCreate # 0
    <3>1. Total \in Nat /\ Total + ToCreate <= MaxContainers
      <4>1. Total \in Nat /\ Cardinality(SessionTokens) \in Nat
        BY TotalType, FiniteSubset DEF TypeInv, SessionTokens
      <4> QED BY <2>3, <4>1, ConfigAssumption DEF ToCreate
    <3>2. ASSUME Bearer = {TRUE}
          PROVE  Cardinality(Reserve) + needed' <= MaxContainers + MaxConcurrentSnapshots
      <4>1. Cardinality(Reserve) <= Total + MaxConcurrentSnapshots
        BY <2>1, <3>2, TrackedBound DEF Reserve
      <4> QED BY <1>0, <2>1, <3>1, <4>1, ReserveFinite, ConfigAssumption
    <3> QED BY <2>1, <3>2 DEF RoomInv
  <2> QED BY <2>2, <2>3
<1>2. CASE CreateContainer \/ StopCreating \/ PoolStop
  <2>1. Reserve' = Reserve /\ needed' <= needed
    BY <1>0, <1>2 DEF CreateContainer, StopCreating, PoolStop, Reserve, Tracked, Popped,
       Popping, SessionContainers, SessionTokens
  <2> QED BY <2>1, RoomKept
<1>3. CASE Register
  <2>1. CASE MayRegister
    <3>1. Reserve' = Reserve \cup {fresh} /\ needed' = needed - 1
      BY <1>3, <2>1 DEF Register, Reserve, Tracked, Popped, Popping, SessionContainers,
                        SessionTokens
    <3>2. IsFiniteSet(Reserve) /\ Cardinality(Reserve) \in Nat
      BY ReserveFinite
    <3>3. Cardinality(Reserve') <= Cardinality(Reserve) + 1 /\ Cardinality(Reserve') \in Nat
      BY <3>1, <3>2, FS_AddElement
    <3> QED BY <1>0, <3>1, <3>2, <3>3, ConfigAssumption DEF RoomInv
  <2>2. CASE ~MayRegister
    <3>1. Reserve' = Reserve /\ needed' <= needed
      BY <1>0, <1>3, <2>2 DEF Register, Reserve, Tracked, Popped, Popping,
                              SessionContainers, SessionTokens
    <3> QED BY <3>1, RoomKept
  <2> QED BY <2>1, <2>2
<1>4. CASE PollInflight
  <2>1. Reserve' \subseteq Reserve /\ needed' <= needed
    BY <1>0, <1>4 DEF PollInflight, Reserve, Tracked, Popped, Popping, SessionContainers,
                      SessionTokens
  <2> QED BY <2>1, RoomKept
<1>5. CASE Promote
  <2>1. Reserve' \subseteq Reserve /\ needed' <= needed
    BY <1>0, <1>5 DEF Promote, Reserve, Tracked, Popped, Popping, SessionContainers,
                      SessionTokens
  <2> QED BY <2>1, RoomKept
<1> QED BY <1>1, <1>2, <1>3, <1>4, <1>5 DEF PoolManager

LEMMA CallerRoom ==
  ASSUME CapInv, TypeInv', NEW x \in Caller, Call(x) \/ CallerStep(x) PROVE RoomInv'
<1> USE DEF CapInv, OwnerInv, poolVars, lockVars, containerVars, callerVars, evictVars,
            deleteVars, pmVars, finishVars, Refuse, Return
<1>0. /\ needed' \in Nat
      /\ pc \in [Caller -> CallPc] /\ held \in [Caller -> Container \cup {None}]
      /\ sessions \in [Token -> Container \cup {None}]
  BY ConfigAssumption DEF TypeInv, TypeOK
<1>1. UNCHANGED <<inflight, ready, needed>>
  BY DEF Call, CallerStep, GetOrAssign, CheckKey, LockSession, PopWarm, GiveUp, Probe,
         Fetch, Push, Commit, Proxy
<1>2. ASSUME Reserve' \subseteq Reserve PROVE RoomInv'
  BY <1>0, <1>1, <1>2, RoomKept
<1> HIDE DEF CapInv, OwnerInv
<1> USE <1>0, <1>1 DEF Popping, Unpopped
<1>3. CASE Call(x) \/ GetOrAssign(x) \/ CheckKey(x) \/ LockSession(x) \/ GiveUp(x)
  <2>1. ASSUME NEW c, c \in Reserve' PROVE c \in Reserve
    BY <1>3, <2>1, InReserve, InReserveNext
       DEF Call, GetOrAssign, CheckKey, LockSession, GiveUp
  <2> QED BY <1>2, <2>1
<1>4. CASE PopWarm(x)
  <2>1. ASSUME NEW c, c \in Reserve' PROVE c \in Reserve
    BY <1>4, <2>1, InReserve, InReserveNext DEF PopWarm, RemoveWarm
  <2> QED BY <1>2, <2>1
<1>5. CASE Probe(x)
  <2>1. ASSUME NEW c, c \in Reserve' PROVE c \in Reserve
    BY <1>5, <2>1, InReserve, InReserveNext DEF Probe
  <2> QED BY <1>2, <2>1
<1>6. CASE Fetch(x)
  <2>1. ASSUME NEW c, c \in Reserve' PROVE c \in Reserve
    BY <1>6, <2>1, InReserve, InReserveNext DEF Fetch, Requeue
  <2> QED BY <1>2, <2>1
<1>7. CASE Push(x)
  <2>1. ASSUME NEW c, c \in Reserve' PROVE c \in Reserve
    BY <1>7, <2>1, InReserve, InReserveNext DEF Push, Requeue
  <2> QED BY <1>2, <2>1
<1>8. CASE Commit(x)
  <2>1. ASSUME NEW c, c \in Reserve' PROVE c \in Reserve
    BY <1>8, <2>1, InReserve, InReserveNext DEF Commit
  <2> QED BY <1>2, <2>1
<1>9. CASE Proxy(x)
  <2>1. ASSUME NEW c, c \in Reserve' PROVE c \in Reserve
    BY <1>9, <2>1, InReserve, InReserveNext
       DEF Proxy, HandleAuthGate, CleanupSession, WithoutSession
  <2> QED BY <1>2, <2>1
<1> QED
  BY <1>3, <1>4, <1>5, <1>6, <1>7, <1>8, <1>9 DEF CallerStep

\* Evictions and the shutdown only take containers out of the reserve.
LEMMA OtherRoom ==
  ASSUME CapInv, TypeInv',
         \/ Finish \/ UNCHANGED vars
         \/ \E c \in Container :
              \/ EvictWarm(c) \/ EvictAndSnapshot(c) \/ RunDelete(c) \/ SweepDelete(c)
              \/ \E l \in Lock, scan \in Scan : EvictClaim(c, l, scan)
         \/ \E t \in Token, scan \in Scan : EvictSessionAsync(t, scan)
  PROVE  RoomInv'
<1> USE DEF poolVars, lockVars, containerVars, callerVars, evictVars, deleteVars, pmVars,
            finishVars
<1>0. /\ needed' \in Nat /\ sessions \in [Token -> Container \cup {None}]
  BY ConfigAssumption DEF CapInv, OwnerInv, TypeInv, TypeOK
<1>1. UNCHANGED <<ready, needed, callerVars>>
  BY DEF Finish, FinishClose, FinishCollect, DeadlineHit, CleanupAll, Exit, SweepDelete,
         EvictWarm, EvictAndSnapshot, EvictSem, EvictCancelled, EvictSnapshot, EvictPut,
         EvictDelete, RunDelete, EvictClaim, EvictSessionAsync, vars
<1>2. warmPool' \subseteq warmPool /\ inflight' \subseteq inflight
  BY DEF Finish, FinishClose, FinishCollect, DeadlineHit, CleanupAll, Exit, SweepDelete,
         EvictWarm, RemoveWarm, EvictAndSnapshot, EvictSem, EvictCancelled, EvictSnapshot,
         EvictPut, EvictDelete, RunDelete, EvictClaim, EvictSessionAsync, vars
<1>3. \A t \in Token : sessions'[t] \in {sessions[t], None}
  BY <1>0 DEF Finish, FinishClose, FinishCollect, SessionsDropped, DeadlineHit, CleanupAll,
         Exit, SweepDelete, EvictWarm, EvictAndSnapshot, EvictSem, EvictCancelled,
         EvictSnapshot, HandleAuthGate, CleanupSession, WithoutSession, EvictPut,
         EvictDelete, RunDelete, EvictClaim, EvictSessionAsync, vars
<1>4. ASSUME NEW c, c \in Reserve' PROVE c \in Reserve
  BY <1>1, <1>2, <1>3, <1>4, InReserve, InReserveNext DEF Unpopped, Popping
<1> QED BY <1>0, <1>1, <1>4, RoomKept DEF CapInv, OwnerInv

LEMMA CapInvariant == Spec => []CapInv
<1>1. Init => CapInv
  <2> SUFFICES ASSUME Init PROVE CapInv
    OBVIOUS
  <2>1. Reserve = {} /\ needed = 0
    BY DEF Init, Reserve, Tracked, Popped, Popping, SessionContainers, SessionTokens
  <2>2. Cardinality(Reserve) = 0
    BY <2>1, FS_EmptySet
  <2>3. RoomInv
    BY <2>1, <2>2, ConfigAssumption DEF RoomInv
  <2> QED BY <2>3, InitType, InitPlace, InitSlot DEF CapInv, OwnerInv
<1>2. CapInv /\ [Next]_vars => CapInv'
  <2> SUFFICES ASSUME CapInv, [Next]_vars PROVE CapInv'
    OBVIOUS
  <2>1. OwnerInv'
    BY NextOwner DEF CapInv
  <2>2. SlotInv'
    BY NextSlot DEF CapInv, OwnerInv
  <2>3. RoomInv'
    BY <2>1, PoolManagerRoom, CallerRoom, OtherRoom
       DEF OwnerInv, Next, EvictIdleSessions, ScanSessionHealth
  <2> QED BY <2>1, <2>2, <2>3 DEF CapInv
<1> QED BY <1>1, <1>2, PTL DEF Spec

(* With a bearer on every request, pooled, popped and assigned containers
   exceed MAX_CONTAINERS by at most the number of restore slots: what
   replenishPool overlooks is what requests have popped. *)
THEOREM ContainersCapped == Spec => []CapacityBound
<1>1. CapInv => CapacityBound
  <2> SUFFICES ASSUME CapInv, Bearer = {TRUE}
               PROVE  Cardinality(Tracked) <= MaxContainers + MaxConcurrentSnapshots
    BY DEF CapacityBound
  <2>1. IsFiniteSet(Reserve) /\ Cardinality(Reserve) \in Nat /\ needed \in Nat
    BY ReserveFinite, ConfigAssumption DEF CapInv, OwnerInv, TypeInv, TypeOK
  <2>2. IsFiniteSet(Tracked) /\ Cardinality(Tracked) <= Cardinality(Reserve)
    BY <2>1, FS_Subset DEF Reserve
  <2>3. Cardinality(Tracked) \in Nat
    BY <2>2, FS_CardinalityType
  <2> QED BY <2>1, <2>2, <2>3, ConfigAssumption DEF CapInv, RoomInv
<1> QED BY <1>1, CapInvariant, PTL
=============================================================================
