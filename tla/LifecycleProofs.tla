-------------------------- MODULE LifecycleProofs --------------------------
(***************************************************************************)
(* Manager implements ContainerLifecycle until a shutdown begins.          *)
(*                                                                         *)
(* Initial states map to initial states, and each action maps to one       *)
(* action of the lifecycle or to a stutter.  That a container leaves one   *)
(* place for another needs OwnerInv; that Assign finds the session without *)
(* a container needs LockInv.                                              *)
(***************************************************************************)
EXTENDS SerializationProofs, ManagerLifecycle

StageOf(c) ==
  IF status[c] = "none"                   THEN "none"
  ELSE IF c = fresh \/ c \in inflight     THEN "deploying"
  ELSE IF c \in warmPool                  THEN "ready"
  ELSE IF ~Unpopped(c)                    THEN "assigning"
  ELSE IF ~Unbound(c)                     THEN "assigned"
  ELSE IF ~Settled(c)                     THEN "deleting"
  ELSE "gone"

UserOf(c) == IF ~Unbound(c) \/ ~Settled(c) THEN accessToken[c] ELSE None

LEMMA StageIs ==
  /\ Stage = [c \in Container |-> StageOf(c)]
  /\ User = [c \in Container |-> UserOf(c)]
<1>1. \A c \in Container : c \in Popped <=> ~Unpopped(c)
  BY DEF Popped, Unpopped
<1>2. \A c \in Container : c \in SessionContainers <=> ~Unbound(c)
  BY NamesAssumption DEF SessionContainers, SessionTokens, Unbound
<1>3. \A c \in Container : c \in Evicting <=> ~Settled(c)
  BY DEF Evicting, Settled
<1>4. \A c \in Container : Stage[c] = StageOf(c) /\ User[c] = UserOf(c)
  BY <1>1, <1>2, <1>3 DEF Stage, User, StageOf, UserOf
<1> QED BY <1>4 DEF Stage, User

LEMMA StageIsNext ==
  /\ Stage' = [c \in Container |-> StageOf(c)']
  /\ User' = [c \in Container |-> UserOf(c)']
<1>1. \A c \in Container : (c \in Popped)' <=> ~(Unpopped(c)')
  BY DEF Popped, Unpopped
<1>2. \A c \in Container : (c \in SessionContainers)' <=> ~(Unbound(c)')
  BY NamesAssumption DEF SessionContainers, SessionTokens, Unbound
<1>3. \A c \in Container : (c \in Evicting)' <=> ~(Settled(c)')
  BY DEF Evicting, Settled
<1>4. \A c \in Container : Stage'[c] = StageOf(c)' /\ User'[c] = UserOf(c)'
  BY <1>1, <1>2, <1>3 DEF Stage, User, StageOf, UserOf
<1> QED BY <1>4 DEF Stage, User

\* A step that moves no container.
LEMMA Stutters ==
  ASSUME \A c \in Container : StageOf(c)' = StageOf(c) /\ UserOf(c)' = UserOf(c)
  PROVE  UNCHANGED <<Stage, User>>
BY StageIs, StageIsNext

\* A step that moves one.
LEMMA Moves ==
  ASSUME NEW c \in Container, NEW s, NEW u,
         StageOf(c)' = s, UserOf(c)' = u,
         \A d \in Container \ {c} : StageOf(d)' = StageOf(d) /\ UserOf(d)' = UserOf(d)
  PROVE  /\ Stage' = [Stage EXCEPT ![c] = s]
         /\ User' = [User EXCEPT ![c] = u]
         /\ u = UserOf(c) => UNCHANGED User
BY StageIs, StageIsNext

----------------------------------------------------------------------------
(* One lemma per goroutine. *)

LStep == [Lifecycle!Next]_Lifecycle!vars

LEMMA StutterStep ==
  ASSUME \A c \in Container : StageOf(c)' = StageOf(c) /\ UserOf(c)' = UserOf(c)
  PROVE  LStep
BY Stutters DEF LStep, Lifecycle!vars

LEMMA InitLifecycle == Init => Lifecycle!Init
<1> SUFFICES ASSUME Init PROVE Lifecycle!Init
  OBVIOUS
<1>1. \A c \in Container : StageOf(c) = "none" /\ UserOf(c) = None
  BY NamesAssumption DEF Init, StageOf, UserOf, Unbound, Settled
<1> QED BY <1>1, StageIs DEF Lifecycle!Init

LEMMA PoolManagerLifecycle ==
  ASSUME AccountingInv, phase = "up", PoolManager
  PROVE  LStep
<1> USE NamesAssumption
    DEF AccountingInv, SerialInv, CarryInv, OwnerInv, TypeInv, TypeOK, PoolManagerOK, PlaceInv,
        FreshPlace, InflightPlace, WarmPlace, PoppedPlace, SessionPlace, UnusedPlace,
        Settled, Unbound, Unpopped, Popping, Done,
        poolVars, lockVars, containerVars, callerVars, evictVars, deleteVars,
        pmVars, finishVars, SetStatus, GoDelete
<1> DEFINE Same(c) == StageOf(c)' = StageOf(c) /\ UserOf(c)' = UserOf(c)
<1>1. CASE Replenish
  <2>1. \A c \in Container : Same(c)
    BY <1>1 DEF Replenish, StageOf, UserOf
  <2> QED BY <2>1, StutterStep
<1>2. CASE CreateContainer
  <2>1. PICK c \in Container : status[c] = "none" /\ SetStatus(c, "deploying") /\ fresh' = c
    BY <1>2 DEF CreateContainer
  <2>2. StageOf(c) = "none" /\ StageOf(c)' = "deploying" /\ UserOf(c)' = UserOf(c)
    BY <1>2, <2>1 DEF CreateContainer, StageOf, UserOf
  <2>3. \A d \in Container \ {c} : Same(d)
    BY <1>2, <2>1 DEF CreateContainer, StageOf, UserOf
  <2>4. Lifecycle!Create(c)
    <3> HIDE DEF Settled, Unbound, Unpopped
    <3> QED BY <2>2, <2>3, Moves, StageIs DEF Lifecycle!Create, Lifecycle!Move
  <2> QED BY <2>4 DEF LStep, Lifecycle!Next
<1>3. CASE StopCreating
  <2>1. \A c \in Container : Same(c)
    BY <1>3 DEF StopCreating, StageOf, UserOf
  <2> QED BY <2>1, StutterStep
<1>4. CASE Register
  <2>1. \A c \in Container : Same(c)
    BY <1>4 DEF Register, MayRegister, StageOf, UserOf
  <2> QED BY <2>1, StutterStep
<1>5. CASE PollInflight
  <2>1. \A c \in Container : Same(c)
    BY <1>5 DEF PollInflight, StageOf, UserOf
  <2> QED BY <2>1, StutterStep
<1>6. CASE Promote
  <2>0. ready \cup failed \subseteq inflight
    BY DEF AccountInv, Swept
  <2>1. \A c \in ready : StageOf(c) = "deploying" /\ StageOf(c)' = "ready"
    BY <1>6, <2>0 DEF Promote, StageOf
  <2>2. \A c \in failed : StageOf(c) = "deploying" /\ StageOf(c)' = "gone"
    BY <1>6, <2>0 DEF Promote, StageOf
  <2>3. \A c \in Container \ (ready \cup failed) : StageOf(c)' = StageOf(c)
    BY <1>6, <2>0 DEF Promote, StageOf
  <2>4. \A c \in Container : UserOf(c)' = UserOf(c)
    BY <1>6 DEF Promote, UserOf
  <2>5. ready \cap failed = {} /\ ready \cup failed \subseteq Container
    OBVIOUS
  <2>6. Lifecycle!Deploy(ready, failed) /\ ready \in SUBSET Lifecycle!Deploying
        /\ failed \in SUBSET Lifecycle!Deploying
    <3> HIDE DEF AccountingInv, Settled, Unbound, Unpopped
    <3> QED BY <2>1, <2>2, <2>3, <2>4, <2>5, StageIs, StageIsNext
            DEF Lifecycle!Deploy, Lifecycle!Deploying
  <2> QED BY <2>6 DEF LStep, Lifecycle!Next
<1>7. CASE PoolStop
  BY <1>7 DEF PoolStop
<1> QED
  BY <1>1, <1>2, <1>3, <1>4, <1>5, <1>6, <1>7 DEF PoolManager

(* A step of a request that pops and unpops nothing, and moves nothing else. *)
LEMMA PlacesKept ==
  ASSUME \A c \in Container : Unpopped(c)' <=> Unpopped(c),
         UNCHANGED <<status, fresh, inflight, warmPool, sessions, evPc, accessToken>>
  PROVE  LStep
<1>1. \A c \in Container : StageOf(c)' = StageOf(c) /\ UserOf(c)' = UserOf(c)
  BY DEF StageOf, UserOf, Unbound, Settled
<1> QED BY <1>1, StutterStep

LEMMA DestroyStep ==
  ASSUME NEW c \in Container,
         StageOf(c) \in {"ready", "assigning", "assigned", "deleting"},
         StageOf(c)' = "gone", UserOf(c)' = None,
         \A d \in Container \ {c} : StageOf(d)' = StageOf(d) /\ UserOf(d)' = UserOf(d)
  PROVE  LStep
<1>1. Lifecycle!Destroy(c)
  BY Moves, StageIs DEF Lifecycle!Destroy
<1> QED BY <1>1 DEF LStep, Lifecycle!Next

(* A popped container is nowhere else. *)
LEMMA PoppedStage ==
  ASSUME OwnerInv, NEW x \in Caller, Popping(x)
  PROVE  /\ held[x] \in Container /\ status[held[x]] # "none"
         /\ held[x] # fresh /\ held[x] \notin inflight \cup warmPool
         /\ ~Unpopped(held[x]) /\ Unbound(held[x]) /\ Settled(held[x])
         /\ StageOf(held[x]) = "assigning" /\ UserOf(held[x]) = None
<1>1. held[x] \in Container
  BY DEF OwnerInv, TypeInv, CallerOK, Popping
<1>2. ~Unpopped(held[x])
  BY DEF Unpopped
<1>3. /\ status[held[x]] # "none" /\ held[x] # fresh /\ held[x] \notin inflight \cup warmPool
      /\ Unbound(held[x]) /\ Settled(held[x])
  BY <1>1, <1>2, NamesAssumption
     DEF OwnerInv, PlaceInv, FreshPlace, InflightPlace, WarmPlace, PoppedPlace, UnusedPlace
<1> QED BY <1>1, <1>2, <1>3 DEF StageOf, UserOf

(* A popped container is given back, or destroyed. *)
LEMMA UnpopStep ==
  ASSUME OwnerInv, NEW x \in Caller, Popping(x), ~Popping(x)', OnlyCaller(x),
         UNCHANGED <<fresh, inflight, sessions, evPc, accessToken>>,
         \/ Requeue(held[x]) /\ status' = status
         \/ warmPool' = warmPool /\ SetStatus(held[x], "failed")
  PROVE  LStep
<1> PICK c \in Container : c = held[x]
  BY PoppedStage
<1>1. \A d \in Container : Unpopped(d)' <=> Unpopped(d) \/ d = c
  BY LeavePopped
<1>2. /\ status[c] # "none" /\ c # fresh /\ c \notin inflight \cup warmPool
      /\ Unbound(c) /\ Settled(c) /\ StageOf(c) = "assigning" /\ UserOf(c) = None
  BY PoppedStage
<1>3. \A d \in Container : (Unbound(d)' <=> Unbound(d)) /\ (Settled(d)' <=> Settled(d))
  BY DEF Unbound, Settled
<1>4. status \in [Container -> Status]
  BY DEF OwnerInv, TypeInv, TypeOK
<1>5. \A d \in Container \ {c} : StageOf(d)' = StageOf(d) /\ UserOf(d)' = UserOf(d)
  BY <1>1, <1>3, <1>4 DEF StageOf, UserOf, Requeue, SetStatus
<1>6. UserOf(c)' = None
  BY <1>2, <1>3 DEF UserOf
<1>7. CASE Requeue(held[x]) /\ status' = status
  <2>1. StageOf(c)' = "ready"
    BY <1>2, <1>7 DEF StageOf, Requeue
  <2>2. Lifecycle!Recycle(c)
    BY <1>2, <1>5, <1>6, <2>1, Moves, StageIs DEF Lifecycle!Recycle, Lifecycle!Move
  <2> QED BY <2>2 DEF LStep, Lifecycle!Next
<1>8. CASE warmPool' = warmPool /\ SetStatus(held[x], "failed")
  <2>1. StageOf(c)' = "gone"
    BY <1>1, <1>2, <1>3, <1>4, <1>8 DEF StageOf, SetStatus
  <2> QED BY <1>2, <1>5, <1>6, <2>1, DestroyStep
<1> QED BY <1>7, <1>8

(* handleAuthGate, by whichever goroutine: the session's container goes. *)
LEMMA CleanupStep ==
  ASSUME OwnerInv, NEW t, CleanupSession(t),
         \A c \in Container : /\ Unpopped(c)' <=> Unpopped(c)
                              /\ Settled(c)' <=> Settled(c),
         UNCHANGED <<fresh, inflight, warmPool, accessToken>>
  PROVE  LStep
<1> USE NamesAssumption DEF CleanupSession
<1>0. status \in [Container -> Status] /\ sessions \in [Token -> Container \cup {None}]
  BY DEF OwnerInv, TypeInv, TypeOK
<1>1. CASE t \notin SessionTokens
  <2>1. \A c \in Container : StageOf(c)' = StageOf(c) /\ UserOf(c)' = UserOf(c)
    BY <1>1 DEF StageOf, UserOf, Unbound
  <2> QED BY <2>1, StutterStep
<1>2. CASE t \in SessionTokens
  <2> PICK c \in Container : c = sessions[t]
    BY <1>0, <1>2 DEF SessionTokens
  <2>1. /\ t \in Token /\ sessions' = [sessions EXCEPT ![t] = None]
        /\ status' = [status EXCEPT ![c] = "deleting"]
    BY <1>2 DEF WithoutSession, SetStatus, SessionTokens
  <2>2. /\ ~Unbound(c) /\ Settled(c) /\ Unpopped(c) /\ status[c] # "none"
        /\ c # fresh /\ c \notin inflight \cup warmPool
        /\ \A u \in Token : sessions[u] = c => u = t
    BY <2>1 DEF OwnerInv, PlaceInv, FreshPlace, InflightPlace, WarmPlace, PoppedPlace,
                SessionPlace, UnusedPlace, Unbound, Unpopped
  <2>3. Unbound(c)' /\ \A d \in Container \ {c} : Unbound(d)' <=> Unbound(d)
    BY <1>0, <2>1, <2>2 DEF Unbound
  <2>4. StageOf(c) = "assigned" /\ StageOf(c)' = "gone" /\ UserOf(c)' = None
    BY <1>0, <2>1, <2>2, <2>3 DEF StageOf, UserOf
  <2>5. \A d \in Container \ {c} : StageOf(d)' = StageOf(d) /\ UserOf(d)' = UserOf(d)
    BY <1>0, <2>1, <2>3 DEF StageOf, UserOf
  <2> QED BY <2>4, <2>5, DestroyStep
<1> QED BY <1>1, <1>2

(* What a step of one request does to the set of popped containers. *)
LEMMA StayPopped ==
  ASSUME NEW x \in Caller, Popping(x), Popping(x)', OnlyCaller(x), held'[x] = held[x], NEW c
  PROVE  Unpopped(c)' <=> Unpopped(c)
BY DEF Unpopped, Popping, OnlyCaller

LEMMA PopStep ==
  ASSUME AccountingInv, NEW x \in Caller, PopWarm(x)
  PROVE  LStep
<1> USE DEF AccountingInv, SerialInv, CarryInv
<1>0. /\ pc \in [Caller -> CallPc] /\ held \in [Caller -> Container \cup {None}]
      /\ warmPool \subseteq Container
  BY DEF OwnerInv, TypeInv, TypeOK
<1>1. PICK c \in warmPool : /\ held' = [held EXCEPT ![x] = c]
                            /\ warmPool' = warmPool \ {c}
  BY DEF PopWarm, RemoveWarm
<1>2. /\ c \in Container /\ status[c] # "none" /\ c # fresh /\ c \notin inflight
      /\ Unpopped(c) /\ Unbound(c) /\ Settled(c)
  BY <1>0, NamesAssumption
     DEF OwnerInv, PlaceInv, FreshPlace, InflightPlace, WarmPlace, UnusedPlace
<1>3. \A d \in Container : Unpopped(d)' <=> Unpopped(d) /\ d # c
  BY <1>0, <1>1 DEF Unpopped, Popping, PopWarm
<1>4. /\ UNCHANGED <<status, fresh, inflight, accessToken>>
      /\ \A d \in Container : (Unbound(d)' <=> Unbound(d)) /\ (Settled(d)' <=> Settled(d))
  BY DEF PopWarm, containerVars, pmVars, evictVars, Unbound, Settled
<1>5. StageOf(c) = "ready" /\ StageOf(c)' = "assigning" /\ UserOf(c)' = UserOf(c)
  BY <1>1, <1>2, <1>3, <1>4 DEF StageOf, UserOf
<1>6. \A d \in Container \ {c} : StageOf(d)' = StageOf(d) /\ UserOf(d)' = UserOf(d)
  BY <1>1, <1>3, <1>4 DEF StageOf, UserOf
<1>7. Lifecycle!Pop(c)
  BY <1>2, <1>5, <1>6, Moves, StageIs DEF Lifecycle!Pop, Lifecycle!Move
<1> QED BY <1>2, <1>7 DEF LStep, Lifecycle!Next

(* The mutex makes the session's former container gone by now. *)
LEMMA CommitStep ==
  ASSUME AccountingInv, phase = "up", NEW x \in Caller, Commit(x)
  PROVE  LStep
<1> USE DEF AccountingInv, SerialInv, CarryInv
<1> DEFINE t == req[x].tok
<1>0. /\ pc \in [Caller -> CallPc] /\ held \in [Caller -> Container \cup {None}]
      /\ status \in [Container -> Status] /\ accessToken \in [Container -> Token \cup {None}]
      /\ sessions \in [Token -> Container \cup {None}]
  BY DEF OwnerInv, TypeInv, TypeOK
<1>1. Popping(x) /\ Critical(x) /\ ~Swept /\ t \in Token
  BY DEF Commit, Popping, Critical, Swept, OwnerInv, TypeInv, CallerOK, Request
<1>2. PICK c \in Container : c = held[x]
  BY <1>1, PoppedStage
<1>3. /\ status' = [status EXCEPT ![c] = "assigned"]
      /\ accessToken' = [accessToken EXCEPT ![c] = t]
      /\ sessions' = [sessions EXCEPT ![t] = c]
      /\ pc' = [pc EXCEPT ![x] = "call"] /\ held' = [held EXCEPT ![x] = c]
      /\ UNCHANGED <<warmPool, inflight, fresh, evPc>>
  BY <1>2 DEF Commit, SetStatus, Return, poolVars, evictVars, pmVars
<1>4. /\ status[c] # "none" /\ c # fresh /\ c \notin inflight \cup warmPool
      /\ Unbound(c) /\ Settled(c) /\ StageOf(c) = "assigning" /\ UserOf(c) = None
  BY <1>1, <1>2, PoppedStage
<1>5. sessions[t] = None /\ assignLock[<<t, 0>>] = x /\ drain = {}
  BY <1>1 DEF LockInv
<1>6. \A d \in Container : Unpopped(d)' <=> Unpopped(d) \/ d = c
  <2>1. ~Popping(x)' /\ OnlyCaller(x)
    BY <1>0, <1>3 DEF Popping, OnlyCaller
  <2> QED BY <1>1, <1>2, <2>1, LeavePopped
<1>7. /\ ~Unbound(c)'
      /\ \A d \in Container \ {c} : Unbound(d)' <=> Unbound(d)
      /\ \A d \in Container : Settled(d)' <=> Settled(d)
  BY <1>0, <1>1, <1>3, <1>5, NamesAssumption DEF Unbound, Settled
<1>8. StageOf(c)' = "assigned" /\ UserOf(c)' = t
  BY <1>0, <1>3, <1>4, <1>6, <1>7 DEF StageOf, UserOf
<1>9. \A d \in Container \ {c} : StageOf(d)' = StageOf(d) /\ UserOf(d)' = UserOf(d)
  BY <1>0, <1>3, <1>6, <1>7 DEF StageOf, UserOf
<1>10. ASSUME NEW d \in Container PROVE UserOf(d) # t
  <2>1. CASE ~Unbound(d)
    <3>1. PICK u \in Token : sessions[u] = d
      BY <2>1 DEF Unbound
    <3>2. accessToken[d] = u
      BY <3>1, NamesAssumption DEF SessionBinding, SessionTokens
    <3> QED BY <1>5, <2>1, <3>1, <3>2, NamesAssumption DEF UserOf
  <2>2. CASE ~Settled(d)
    <3>1. assignLock[<<accessToken[d], 0>>] = d
      BY <1>1, <1>5, <2>2 DEF LockInv
    <3> QED BY <1>5, <2>2, <3>1, NamesAssumption DEF UserOf
  <2>3. CASE Unbound(d) /\ Settled(d)
    BY <1>1, <2>3, NamesAssumption DEF UserOf
  <2> QED BY <2>1, <2>2, <2>3
<1>11. Lifecycle!Assign(c, t)
  BY <1>4, <1>8, <1>9, <1>10, Moves, StageIs DEF Lifecycle!Assign, Lifecycle!Move
<1> QED BY <1>1, <1>11 DEF LStep, Lifecycle!Next

LEMMA CallerLifecycle ==
  ASSUME AccountingInv, phase = "up", NEW x \in Caller, Call(x) \/ CallerStep(x)
  PROVE  LStep
<1>0. /\ OwnerInv /\ pc \in [Caller -> CallPc] /\ held \in [Caller -> Container \cup {None}]
      /\ \A c \in Container : Unpopped(c) \in BOOLEAN
  BY DEF AccountingInv, SerialInv, CarryInv, OwnerInv, TypeInv, TypeOK, Unpopped
<1> USE DEF poolVars, lockVars, containerVars, callerVars, evictVars, deleteVars, pmVars,
            finishVars, Refuse, Return
<1>1. CASE Call(x) \/ GetOrAssign(x) \/ CheckKey(x) \/ LockSession(x) \/ GiveUp(x)
  <2>1. ~Popping(x) /\ ~Popping(x)' /\ OnlyCaller(x)
    BY <1>0, <1>1 DEF Call, GetOrAssign, CheckKey, LockSession, GiveUp, Popping, OnlyCaller
  <2>2. UNCHANGED <<status, fresh, inflight, warmPool, sessions, evPc, accessToken>>
    BY <1>1 DEF Call, GetOrAssign, CheckKey, LockSession, GiveUp
  <2> QED BY <2>1, <2>2, StayUnpopped, PlacesKept
<1>2. CASE PopWarm(x)
  BY <1>2, PopStep
<1>3. CASE Probe(x)
  <2>1. CASE held' = held /\ pc' = [pc EXCEPT ![x] = IF req[x].bearer THEN "fetch" ELSE "commit"]
             /\ status' = status
    <3>1. Popping(x) /\ Popping(x)' /\ OnlyCaller(x)
      BY <1>0, <1>3, <2>1 DEF Probe, Popping, OnlyCaller
    <3> QED BY <1>3, <2>1, <3>1, StayPopped, PlacesKept DEF Probe
  <2>2. CASE Discard(held[x]) /\ pc' = [pc EXCEPT ![x] = "wait"]
             /\ held' = [held EXCEPT ![x] = None]
    <3>1. Popping(x) /\ ~Popping(x)' /\ OnlyCaller(x)
      BY <1>0, <1>3, <2>2 DEF Probe, Popping, OnlyCaller
    <3> QED BY <1>0, <1>3, <2>2, <3>1, UnpopStep DEF Probe, Discard
  <2> QED BY <1>3, <2>1, <2>2 DEF Probe
<1>4. CASE Fetch(x)
  <2>1. CASE UNCHANGED <<held, warmPool>> /\ \E l \in {"push", "commit"} : pc' = [pc EXCEPT ![x] = l]
    <3>1. Popping(x) /\ Popping(x)' /\ OnlyCaller(x)
      BY <1>0, <1>4, <2>1 DEF Fetch, Popping, OnlyCaller
    <3> QED BY <1>4, <2>1, <3>1, StayPopped, PlacesKept DEF Fetch
  <2>2. CASE Requeue(held[x]) /\ Refuse(x)
    <3>1. Popping(x) /\ ~Popping(x)' /\ OnlyCaller(x)
      BY <1>0, <1>4, <2>2 DEF Fetch, Popping, OnlyCaller
    <3> QED BY <1>0, <1>4, <2>2, <3>1, UnpopStep DEF Fetch
  <2> QED BY <1>4, <2>1, <2>2 DEF Fetch
<1>5. CASE Push(x)
  <2>1. CASE UNCHANGED <<held, warmPool, status>> /\ pc' = [pc EXCEPT ![x] = "commit"]
    <3>1. Popping(x) /\ Popping(x)' /\ OnlyCaller(x)
      BY <1>0, <1>5, <2>1 DEF Push, Popping, OnlyCaller
    <3> QED BY <1>5, <2>1, <3>1, StayPopped, PlacesKept DEF Push
  <2>2. CASE /\ Refuse(x)
             /\ \/ Requeue(held[x]) /\ status' = status
                \/ Discard(held[x]) /\ warmPool' = warmPool
    <3>1. Popping(x) /\ ~Popping(x)' /\ OnlyCaller(x)
      BY <1>0, <1>5, <2>2 DEF Push, Popping, OnlyCaller
    <3> QED BY <1>0, <1>5, <2>2, <3>1, UnpopStep DEF Push, Discard
  <2> QED BY <1>5, <2>1, <2>2 DEF Push
<1>6. CASE Commit(x)
  BY <1>6, CommitStep
<1>7. CASE Proxy(x)
  <2>1. ~Popping(x) /\ ~Popping(x)' /\ OnlyCaller(x)
    BY <1>0, <1>7 DEF Proxy, Popping, OnlyCaller
  <2>2. UNCHANGED <<fresh, inflight, warmPool, evPc, accessToken>>
    BY <1>7 DEF Proxy
  <2>3. \A c \in Container : (Unpopped(c)' <=> Unpopped(c)) /\ (Settled(c)' <=> Settled(c))
    BY <2>1, <2>2, StayUnpopped DEF Settled
  <2>4. CASE CleanupSession(accessToken[held[x]])
    BY <1>0, <2>2, <2>3, <2>4, CleanupStep
  <2>5. CASE UNCHANGED <<sessions, status>>
    BY <2>2, <2>3, <2>5, PlacesKept
  <2> QED BY <1>7, <2>4, <2>5 DEF Proxy, HandleAuthGate
<1> QED
  BY <1>1, <1>2, <1>3, <1>4, <1>5, <1>6, <1>7 DEF CallerStep

(* No step of an eviction pops or unpops. *)
LEMMA PoppedKept ==
  ASSUME UNCHANGED callerVars, NEW c PROVE Unpopped(c)' <=> Unpopped(c)
BY DEF callerVars, Unpopped, Popping

LEMMA EvictWarmStep ==
  ASSUME AccountingInv, NEW c \in Container, EvictWarm(c)
  PROVE  LStep
<1> USE DEF AccountingInv, SerialInv, CarryInv
<1>0. status \in [Container -> Status]
  BY DEF OwnerInv, TypeInv, TypeOK
<1>1. /\ c \in warmPool /\ warmPool' = warmPool \ {c}
      /\ status' = [status EXCEPT ![c] = "failed"]
      /\ UNCHANGED <<fresh, inflight, sessions, evPc, accessToken, callerVars>>
  BY DEF EvictWarm, StillWarm, RemoveWarm, Discard, SetStatus, pmVars, evictVars
<1>2. /\ status[c] # "none" /\ c # fresh /\ c \notin inflight
      /\ Unpopped(c) /\ Unbound(c) /\ Settled(c)
  BY <1>1, NamesAssumption
     DEF OwnerInv, PlaceInv, FreshPlace, InflightPlace, WarmPlace, UnusedPlace
<1>3. \A d \in Container : /\ Unpopped(d)' <=> Unpopped(d)
                           /\ Unbound(d)' <=> Unbound(d)
                           /\ Settled(d)' <=> Settled(d)
  BY <1>1, PoppedKept DEF Unbound, Settled
<1>4. StageOf(c) = "ready" /\ StageOf(c)' = "gone" /\ UserOf(c)' = None
  BY <1>0, <1>1, <1>2, <1>3 DEF StageOf, UserOf
<1>5. \A d \in Container \ {c} : StageOf(d)' = StageOf(d) /\ UserOf(d)' = UserOf(d)
  BY <1>0, <1>1, <1>3 DEF StageOf, UserOf
<1> QED BY <1>4, <1>5, DestroyStep

LEMMA EvictClaimStep ==
  ASSUME AccountingInv, NEW c \in Container, NEW l \in Lock, NEW scan \in Scan,
         EvictClaim(c, l, scan)
  PROVE  LStep
<1> USE DEF AccountingInv, SerialInv, CarryInv
<1>0. /\ sessions \in [Token -> Container \cup {None}] /\ evPc \in [Container -> EvictPc]
      /\ l[1] \in Token
  BY DEF OwnerInv, TypeInv, TypeOK, Lock
<1>1. UNCHANGED <<status, fresh, inflight, warmPool, accessToken, callerVars>>
  BY DEF EvictClaim, poolVars, containerVars, pmVars
<1>2. \A d \in Container : Unpopped(d)' <=> Unpopped(d)
  BY <1>1, PoppedKept
<1>3. CASE ~StillBound(l[1], c)
  BY <1>1, <1>2, <1>3, PlacesKept DEF EvictClaim
<1>4. CASE StillBound(l[1], c)
  <2>1. /\ sessions[l[1]] = c /\ sessions' = [sessions EXCEPT ![l[1]] = None]
        /\ evPc' = [evPc EXCEPT ![c] = FirstEvictStep(c)]
    BY <1>4 DEF EvictClaim, StillBound, WithoutSession
  <2>2. /\ Settled(c) /\ ~Unbound(c) /\ Unpopped(c) /\ status[c] # "none" /\ c # fresh
        /\ c \notin inflight \cup warmPool /\ \A u \in Token : sessions[u] = c => u = l[1]
    BY <1>0, <2>1, NamesAssumption
       DEF OwnerInv, PlaceInv, FreshPlace, InflightPlace, WarmPlace, PoppedPlace,
           SessionPlace, UnusedPlace, Unbound, Unpopped
  <2>3. /\ Unbound(c)' /\ ~Settled(c)'
        /\ \A d \in Container \ {c} : /\ Unbound(d)' <=> Unbound(d)
                                      /\ Settled(d)' <=> Settled(d)
    BY <1>0, <2>1, <2>2, NamesAssumption DEF Unbound, Settled, FirstEvictStep
  <2>4. StageOf(c) = "assigned" /\ StageOf(c)' = "deleting" /\ UserOf(c)' = UserOf(c)
    BY <1>1, <1>2, <2>2, <2>3 DEF StageOf, UserOf
  <2>5. \A d \in Container \ {c} : StageOf(d)' = StageOf(d) /\ UserOf(d)' = UserOf(d)
    BY <1>1, <1>2, <2>3 DEF StageOf, UserOf
  <2>6. Lifecycle!Evict(c)
    BY <2>4, <2>5, Moves, StageIs DEF Lifecycle!Evict, Lifecycle!Move
  <2> QED BY <2>6 DEF LStep, Lifecycle!Next
<1> QED BY <1>3, <1>4

LEMMA EvictDeleteStep ==
  ASSUME AccountingInv, NEW c \in Container, EvictDelete(c)
  PROVE  LStep
<1> USE DEF AccountingInv, SerialInv, CarryInv
<1>0. status \in [Container -> Status] /\ evPc \in [Container -> EvictPc]
  BY DEF OwnerInv, TypeInv, TypeOK
<1>1. /\ evPc[c] = "delete" /\ evPc' = [evPc EXCEPT ![c] = "done"]
      /\ status' = [status EXCEPT ![c] = "deleting"]
      /\ UNCHANGED <<fresh, inflight, warmPool, sessions, accessToken, callerVars>>
  BY DEF EvictDelete, SetStatus, poolVars, pmVars
<1>2. /\ ~Settled(c) /\ Unpopped(c) /\ Unbound(c) /\ status[c] # "none" /\ c # fresh
      /\ c \notin inflight \cup warmPool
  BY <1>1, NamesAssumption
     DEF OwnerInv, PlaceInv, FreshPlace, InflightPlace, WarmPlace, PoppedPlace,
         SessionPlace, UnusedPlace, Settled, Unbound, Unpopped
<1>3. /\ Settled(c)' /\ \A d \in Container \ {c} : Settled(d)' <=> Settled(d)
      /\ \A d \in Container : (Unpopped(d)' <=> Unpopped(d)) /\ (Unbound(d)' <=> Unbound(d))
  BY <1>0, <1>1, PoppedKept DEF Unbound, Settled
<1>4. StageOf(c) = "deleting" /\ StageOf(c)' = "gone" /\ UserOf(c)' = None
  BY <1>0, <1>1, <1>2, <1>3 DEF StageOf, UserOf
<1>5. \A d \in Container \ {c} : StageOf(d)' = StageOf(d) /\ UserOf(d)' = UserOf(d)
  BY <1>0, <1>1, <1>3 DEF StageOf, UserOf
<1> QED BY <1>4, <1>5, DestroyStep

LEMMA EvictionLifecycle ==
  ASSUME AccountingInv, phase = "up", NEW c \in Container,
         \/ EvictWarm(c) \/ EvictAndSnapshot(c) \/ RunDelete(c)
         \/ \E l \in Lock, scan \in Scan : EvictClaim(c, l, scan)
         \/ \E t \in Token, scan \in Scan : EvictSessionAsync(t, scan)
  PROVE  LStep
<1>0. OwnerInv /\ evPc \in [Container -> EvictPc]
  BY DEF AccountingInv, SerialInv, CarryInv, OwnerInv, TypeInv, TypeOK
<1>1. CASE EvictSem(c) \/ EvictPut(c) \/ EvictSnapshot(c)
  <2>1. \A d \in Container : (Unpopped(d)' <=> Unpopped(d)) /\ (Settled(d)' <=> Settled(d))
    BY <1>0, <1>1, PoppedKept DEF EvictSem, EvictPut, EvictSnapshot, Settled
  <2>2. UNCHANGED <<fresh, inflight, warmPool, accessToken>>
    BY <1>1 DEF EvictSem, EvictPut, EvictSnapshot, poolVars, containerVars, pmVars
  <2>3. CASE CleanupSession(accessToken[c])
    BY <1>0, <2>1, <2>2, <2>3, CleanupStep
  <2>4. CASE UNCHANGED <<sessions, status>>
    <3>1. \A d \in Container : StageOf(d)' = StageOf(d) /\ UserOf(d)' = UserOf(d)
      BY <2>1, <2>2, <2>4 DEF StageOf, UserOf, Unbound
    <3> QED BY <3>1, StutterStep
  <2> QED BY <1>1, <2>3, <2>4
      DEF EvictSem, EvictPut, EvictSnapshot, HandleAuthGate, containerVars
<1>2. CASE EvictCancelled(c)
  BY <1>2 DEF EvictCancelled, CtxDone, Done, AccountingInv, SerialInv, LockInv, Swept
<1>3. CASE EvictWarm(c)
  BY <1>3, EvictWarmStep
<1>4. CASE EvictDelete(c)
  BY <1>4, EvictDeleteStep
<1>5. CASE \E l \in Lock, scan \in Scan : EvictClaim(c, l, scan)
  BY <1>5, EvictClaimStep
<1>6. CASE RunDelete(c) \/ \E t \in Token, scan \in Scan : EvictSessionAsync(t, scan)
  <2>1. UNCHANGED <<status, fresh, inflight, warmPool, sessions, evPc, accessToken, callerVars>>
    BY <1>6 DEF RunDelete, EvictSessionAsync, poolVars, containerVars, pmVars, evictVars
  <2> QED BY <2>1, PoppedKept, PlacesKept
<1> QED
  BY <1>1, <1>2, <1>3, <1>4, <1>5, <1>6 DEF EvictAndSnapshot

----------------------------------------------------------------------------
LEMMA NextLifecycle == ASSUME AccountingInv, phase = "up", [Next]_vars PROVE LStep
<1>1. CASE Finish \/ \E c \in Container : SweepDelete(c)
  <2>1. FinishClose
    BY <1>1 DEF Finish, FinishCollect, DeadlineHit, CleanupAll, Exit, SweepDelete,
                AccountingInv, AccountInv, Swept
  <2>2. UNCHANGED <<status, fresh, inflight, warmPool, sessions, evPc, accessToken, callerVars>>
    BY <2>1 DEF FinishClose, poolVars, containerVars, pmVars, evictVars
  <2> QED BY <2>2, PoppedKept, PlacesKept
<1>2. CASE \E t \in Token, scan \in Scan : EvictSessionAsync(t, scan)
  <2>1. UNCHANGED <<status, fresh, inflight, warmPool, sessions, evPc, accessToken, callerVars>>
    BY <1>2 DEF EvictSessionAsync, poolVars, containerVars, pmVars
  <2> QED BY <2>1, PoppedKept, PlacesKept
<1>3. CASE UNCHANGED vars
  <2>1. UNCHANGED <<status, fresh, inflight, warmPool, sessions, evPc, accessToken, callerVars>>
    BY <1>3 DEF vars, poolVars, containerVars, pmVars, evictVars
  <2> QED BY <2>1, PoppedKept, PlacesKept
<1>4. CASE ~(Finish \/ \E c \in Container : SweepDelete(c)) /\ Next
  BY <1>2, <1>4, PoolManagerLifecycle, CallerLifecycle, EvictionLifecycle
     DEF Next, EvictIdleSessions, ScanSessionHealth
<1> QED BY <1>1, <1>2, <1>3, <1>4

(* Whatever the shutdown does later, every step taken before SIGTERM is a step
   of the documented lifecycle: a session gets a container only when its
   former one is gone, and no container leaves "gone". *)
THEOREM LifecycleUntilShutdown ==
  Spec => Lifecycle!Init /\ [][~Done => [Lifecycle!Next]_Lifecycle!vars]_vars
<1>1. AccountingInv /\ [Next]_vars => [~Done => [Lifecycle!Next]_Lifecycle!vars]_vars
  BY NextLifecycle DEF Done, LStep
<1> QED BY <1>1, InitLifecycle, AccountingInvariant, PTL DEF Spec

(* As long as no shutdown begins, Manager implements ContainerLifecycle: the
   pool, the locks and the goroutines of manager.go realise the state diagram
   of the README. *)
THEOREM LifecycleImplemented == Spec /\ []~Done => ImplementsLifecycle
<1>1. AccountingInv /\ ~Done /\ [Next]_vars => [Lifecycle!Next]_Lifecycle!vars
  BY NextLifecycle DEF Done, LStep
<1> QED
  BY <1>1, InitLifecycle, AccountingInvariant, PTL DEF Spec, ImplementsLifecycle, Lifecycle!Spec

----------------------------------------------------------------------------
(* What the lifecycle promises holds of whatever implements it. *)

LEMMA NoReturn == [Next]_vars /\ Done => Done'
<1> USE DEF Done, finishVars
<1> SUFFICES ASSUME [Next]_vars, Done PROVE Done'
  OBVIOUS
<1>1. CASE Finish
  BY <1>1 DEF Finish, FinishClose, FinishCollect, DeadlineHit, CleanupAll, Exit
<1>2. CASE ~Finish
  BY <1>2, OnlyFinish
<1> QED BY <1>1, <1>2

LEMMA OneWorkspaceStep == Lifecycle!OneWorkspace /\ LStep => Lifecycle!OneWorkspace'
<1> USE DEF Lifecycle!OneWorkspace
<1> SUFFICES ASSUME Lifecycle!OneWorkspace, LStep PROVE Lifecycle!OneWorkspace'
  OBVIOUS
<1>1. ASSUME UNCHANGED User PROVE Lifecycle!OneWorkspace'
  BY <1>1
<1>2. ASSUME NEW c \in Container, Lifecycle!Destroy(c) PROVE Lifecycle!OneWorkspace'
  BY <1>2, StageIs DEF Lifecycle!Destroy
<1>3. ASSUME NEW c \in Container, NEW t \in Token, Lifecycle!Assign(c, t)
      PROVE  Lifecycle!OneWorkspace'
  BY <1>3, StageIs DEF Lifecycle!Assign
<1> QED
  BY <1>1, <1>2, <1>3 DEF LStep, Lifecycle!vars, Lifecycle!Next, Lifecycle!Create, Lifecycle!Pop,
     Lifecycle!Recycle, Lifecycle!Evict, Lifecycle!Deploy

(* Until a shutdown begins, no two containers carry the workspace of one
   session: a consequence of the abstract specification, carried over to the
   sessions, back pointers and evictions of Manager by the refinement. *)
THEOREM WorkspacesExclusive == Spec => []WorkspacesAreExclusive
<1> DEFINE Inv == AccountingInv /\ (~Done => Lifecycle!OneWorkspace)
<1>1. Init => (~Done => Lifecycle!OneWorkspace)
  BY InitLifecycle, NamesAssumption DEF Lifecycle!Init, Lifecycle!OneWorkspace
<1>2. Inv /\ AccountingInv' /\ [Next]_vars => Inv'
  <2> SUFFICES ASSUME Inv, [Next]_vars, ~Done' PROVE Lifecycle!OneWorkspace'
    OBVIOUS
  <2>1. ~Done
    BY NoReturn
  <2> QED BY <2>1, NextLifecycle, OneWorkspaceStep DEF Done
<1>3. Inv => WorkspacesAreExclusive
  <2> SUFFICES ASSUME Inv, ~Done, NEW c \in SessionContainers \cup Evicting,
                      NEW d \in SessionContainers \cup Evicting, accessToken[c] = accessToken[d]
               PROVE  c = d
    BY DEF WorkspacesAreExclusive
  <2>1. c \in Container /\ d \in Container
    BY DEF SessionContainers, SessionTokens, Evicting, AccountingInv, SerialInv, CarryInv,
       OwnerInv, TypeInv, TypeOK
  <2>2. User[c] = accessToken[c] /\ User[d] = accessToken[d]
    BY <2>1 DEF User
  <2>3. accessToken[c] # None
    <3>1. CASE c \in SessionContainers
      BY <3>1, NamesAssumption
         DEF SessionContainers, SessionTokens, SessionBinding, AccountingInv, SerialInv, CarryInv
    <3>2. CASE c \in Evicting
      BY <2>1, <3>2, NamesAssumption
         DEF Evicting, Settled, AccountingInv, SerialInv, LockInv, Done, Swept
    <3> QED BY <3>1, <3>2
  <2> QED BY <2>1, <2>2, <2>3 DEF Lifecycle!OneWorkspace
<1>4. AccountingInv /\ (~Done => Lifecycle!OneWorkspace) <=> Inv
  OBVIOUS
<1> HIDE DEF Inv
<1> QED BY <1>1, <1>2, <1>3, <1>4, AccountingInvariant, PTL DEF Spec
=============================================================================
