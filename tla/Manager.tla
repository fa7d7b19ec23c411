------------------------------ MODULE Manager ------------------------------
(***************************************************************************)
(* The container pool and session lifecycle of the orchestrator            *)
(* (src/manager.go, with the parts of src/proxy.go, src/snapshot.go and    *)
(* src/controlplane.go it calls).                                          *)
(*                                                                         *)
(* The goroutines are: one pool manager (poolManagerLoop), one per request *)
(* ("caller": GetOrAssign followed by a proxied call, repeated), one per   *)
(* eviction (evictSessionAsync, or a drain goroutine of Finish), one per   *)
(* asynchronous delete, and Finish itself.  The eviction and health loops  *)
(* appear through what they do: EvictWarm and EvictSessionAsync.           *)
(*                                                                         *)
(* A step is one critical section of Manager.mu, or one HTTP exchange,     *)
(* together with the purely local code around it.                          *)
(*                                                                         *)
(* A definition Name_Mistake, just before the definition Name, is a wrong  *)
(* version of it that a property must be able to tell apart (PROJECT.json, *)
(* "mutants"); no action uses it.                                          *)
(***************************************************************************)
EXTENDS Integers, FiniteSets

CONSTANTS
  Container,               \* ids the controlplane can hand out, never reused
  Token,                   \* accessTokens, the keys of Manager.sessions
  Key,                     \* encryption keys (never "": mcp.go requires one)
  Caller,                  \* concurrent tools/call requests
  Bearer,                  \* is there an api_key: {TRUE} in production builds,
                           \* {TRUE, FALSE} with -tags dev
  Scan,                    \* the periodic scans that evict sessions: idle, health
  None,                    \* Go's nil / "" / absent map entry
  PoolSize,                \* POOL_SIZE
  MaxContainers,           \* MAX_CONTAINERS
  MaxConcurrentSnapshots,  \* MAX_CONCURRENT_SNAPSHOTS
  MayShutDown              \* whether the process may receive SIGTERM

ASSUME ConfigAssumption ==
  /\ PoolSize \in Nat /\ MaxContainers \in Nat /\ MaxConcurrentSnapshots \in Nat
  /\ Bearer \subseteq BOOLEAN /\ MayShutDown \in BOOLEAN

ASSUME FiniteAssumption ==
  IsFiniteSet(Container) /\ IsFiniteSet(Token) /\ IsFiniteSet(Caller)

ASSUME NamesAssumption ==
  /\ None \notin Container \cup Token \cup Key \cup Caller
  /\ Container \cap Caller = {}

VARIABLES
  \* Manager, guarded by Manager.mu
  warmPool, inflight,      \* slices, kept as sets: see README, "Abstractions"
  sessions,                \* [Token -> Container \cup {None}]
  assignLock,              \* holder of each per-session mutex
  snapshotSem,             \* holders of a slot of the semaphore
  \* Container, guarded by Container.mu
  status, accessToken, encKey, bearer,
  \* one GetOrAssign + proxied call per caller
  pc, req, held, sl,
  \* eviction goroutines
  evicts,                  \* spawned by evictSessionAsync, waiting for the lock
  evPc,                    \* evictAndSnapshot, by the container it destroys
  \* DELETE requests to the controlplane
  deletes,                 \* how many were ordered, by container
  pendingDeletes,          \* `go deleteContainer` that has not run yet
  \* the pool manager goroutine
  pm, needed, fresh, ready, failed,
  \* Finish
  phase, deadline, drain, sweeping, skipped

poolVars      == <<warmPool, inflight>>
lockVars      == <<assignLock, snapshotSem>>
containerVars == <<status, accessToken, encKey, bearer>>
callerVars    == <<pc, req, held, sl>>
evictVars     == <<evicts, evPc>>
deleteVars    == <<deletes, pendingDeletes>>
pmVars        == <<pm, needed, fresh, ready, failed>>
finishVars    == <<phase, deadline, drain, sweeping, skipped>>
vars == <<poolVars, sessions, lockVars, containerVars, callerVars, evictVars,
          deleteVars, pmVars, finishVars>>

----------------------------------------------------------------------------
(* Types and derived state.                                                *)

Request == [tok : Token, key : Key, bearer : Bearer]

\* assignLocks is replaced by an empty map in CleanupAll: a mutex is named by
\* its token and by the generation of the map it was found in.
Lock == Token \X {0, 1}

Status  == {"none", "deploying", "ready", "assigned", "failed", "deleting"}
CallPc  == {"idle", "get", "found", "lock", "wait", "probe", "fetch", "push",
            "commit", "call"}
EvictPc == {"none", "sem", "snapshot", "put", "delete", "done"}
PoolPc  == {"idle", "create", "register", "poll", "promote", "stopped"}
Phase   == {"up", "done", "draining", "sweeping", "exited"}

\* `select { case <-m.done: ... }`: the channel Finish closes.
Done == phase # "up"

\* main has not returned: afterwards no goroutine takes a step.
Running == phase # "exited"

\* CleanupAll has replaced the pools, the session map and the lock map.
Swept == phase \in {"sweeping", "exited"}
Generation == IF Swept THEN 1 ELSE 0

\* Between the pop from the warm pool and the commit, requeue or discard.
Popping(x) == pc[x] \in {"probe", "fetch", "push", "commit"}
Popped == {held[x] : x \in {y \in Caller : Popping(y)}}

\* Inside the section sl.Lock() ... defer sl.Unlock() of GetOrAssign.
Critical(x) == pc[x] = "wait" \/ Popping(x)

SessionTokens == {t \in Token : sessions[t] # None}
SessionContainers == {sessions[t] : t \in SessionTokens}
Evicting == {c \in Container : evPc[c] \notin {"none", "done"}}

Init ==
  /\ warmPool = {} /\ inflight = {}
  /\ sessions = [t \in Token |-> None]
  /\ assignLock = [l \in Lock |-> None] /\ snapshotSem = {}
  /\ status = [c \in Container |-> "none"]
  /\ accessToken = [c \in Container |-> None]
  /\ encKey = [c \in Container |-> None]
  /\ bearer = [c \in Container |-> FALSE]
  /\ pc = [x \in Caller |-> "idle"] /\ req = [x \in Caller |-> None]
  /\ held = [x \in Caller |-> None] /\ sl = [x \in Caller |-> None]
  /\ evicts = {} /\ evPc = [c \in Container |-> "none"]
  /\ deletes = [c \in Container |-> 0] /\ pendingDeletes = {}
  /\ pm = "idle" /\ needed = 0 /\ fresh = None /\ ready = {} /\ failed = {}
  /\ phase = "up" /\ deadline = FALSE /\ drain = {} /\ sweeping = {}
  /\ skipped = {}

----------------------------------------------------------------------------
(* Pieces shared by several handlers.                                      *)

SetStatus(c, s) == status' = [status EXCEPT ![c] = s]

\* `go m.cp.deleteContainer(c.ID)`
GoDelete(c) ==
  /\ deletes' = [deletes EXCEPT ![c] = @ + 1]
  /\ pendingDeletes' = pendingDeletes \cup {c}

\* setStatus("failed"); go deleteContainer
Discard(c) == SetStatus(c, "failed") /\ GoDelete(c)

RemoveWarm_Kept(c) == warmPool
\* The entry leaves the slice in the critical section that found it.
RemoveWarm(c) == warmPool \ {c}

SlotFree_OffByOne == Cardinality(snapshotSem) <= MaxConcurrentSnapshots
\* The channel snapshotSem has room for one more tar buffer.
SlotFree == Cardinality(snapshotSem) < MaxConcurrentSnapshots

\* The deferred sl.Unlock() of whoever holds a per-session mutex.
Unlock(h) ==
  assignLock' = [l \in Lock |-> IF assignLock[l] = h THEN None ELSE assignLock[l]]

SlotReturned_Leaked(h) == snapshotSem
\* <-m.snapshotSem, on every path of a holder, success and failure alike.
SlotReturned(h) == snapshotSem \ {h}

\* The two defers of GetOrAssign: the mutex and the semaphore slot.
Deferred(x) ==
  /\ Unlock(x)
  /\ snapshotSem' = SlotReturned(x)
  /\ sl' = [sl EXCEPT ![x] = None]

\* `return nil, msg`: the tool call ends with an error.
Refuse(x) ==
  /\ pc' = [pc EXCEPT ![x] = "idle"]
  /\ req' = [req EXCEPT ![x] = None]
  /\ held' = [held EXCEPT ![x] = None]
  /\ Deferred(x)

\* `return c, ""`: the caller goes on to proxy its call to c.
Return(x, c) ==
  /\ pc' = [pc EXCEPT ![x] = "call"]
  /\ held' = [held EXCEPT ![x] = c]
  /\ req' = req
  /\ Deferred(x)

Requeue_Dropped(c) == UNCHANGED warmPool
\* m.warmPool = append(m.warmPool, c); m.cond.Broadcast()
Requeue(c) == warmPool' = warmPool \cup {c}

WithoutSession_Kept(t) == sessions
\* delete(m.sessions, accessToken)
WithoutSession(t) == [sessions EXCEPT ![t] = None]

\* CleanupSession(accessToken): forget the session, destroy its container.
CleanupSession(t) ==
  IF t \in SessionTokens
  THEN /\ sessions' = WithoutSession(t)
       /\ SetStatus(sessions[t], "deleting")
       /\ GoDelete(sessions[t])
  ELSE UNCHANGED <<sessions, status, deleteVars>>

----------------------------------------------------------------------------
(* What the HTTP exchanges can answer, as far as their callers tell apart.
   Retries happen inside.                                                  *)

\* /health of a container: 200 within five seconds, or not.
CheckContainerHealth == {"healthy", "unhealthy"}

\* GET of a container: ready (and attested), failed (or attestation failed),
\* anything else or no answer.
PollContainer == {"ready", "failed", "other"}

\* The controlplane still knows the id under the same name, or cannot say.
VerifyContainerName == {"same", "unverified"}

\* GET of the session's item: a tar, 404, or an error left after the retries.
BucketsFetch == {"tar", "empty", "error"}

\* POST /restore: restored; network error or 5xx to the end; any 4xx.
PushRestore == {"ok", "transient", "hard"}

\* POST /snapshot: a complete tar; a 403; or an error, a missing or bad
\* trailer, an empty tar.
FetchSnapshotFromContainer == {"tar", "forbidden", "error"}

\* The proxied tool call: any answer but 403, a 403, or no answer in time.
ProxyResult == {"answered", "forbidden", "unavailable"}

\* handleAuthGate: a 403 destroys the session of the container that sent it.
HandleAuthGate(c, result) ==
  IF result = "forbidden"
  THEN CleanupSession(accessToken[c])
  ELSE UNCHANGED <<sessions, status, deleteVars>>

----------------------------------------------------------------------------
(* The pool manager: replenishPool, then pollInflight, then sleep.         *)

Total_NoInflight == Cardinality(warmPool) + Cardinality(SessionTokens)
\* What replenishPool counts against the cap.
Total == Cardinality(warmPool) + Cardinality(inflight) + Cardinality(SessionTokens)

ToCreate_Negative ==
  LET want == Cardinality(SessionTokens) + PoolSize
  IN  (IF want < MaxContainers THEN want ELSE MaxContainers) - Total
\* Iterations of `for range needed`.
ToCreate ==
  LET want   == Cardinality(SessionTokens) + PoolSize
      target == IF want < MaxContainers THEN want ELSE MaxContainers
  IN  IF target > Total THEN target - Total ELSE 0

Replenish ==
  /\ Running /\ pm = "idle"
  /\ needed' = ToCreate
  /\ pm' = IF needed' = 0 THEN "poll" ELSE "create"
  /\ UNCHANGED <<poolVars, sessions, lockVars, containerVars, callerVars,
                 evictVars, deleteVars, fresh, ready, failed, finishVars>>

\* POST /api/containers answers 201.
CreateContainer ==
  /\ pm = "create" /\ ~Done
  /\ \E c \in Container :
       /\ status[c] = "none"
       /\ SetStatus(c, "deploying")
       /\ fresh' = c
  /\ pm' = "register"
  /\ UNCHANGED <<poolVars, sessions, lockVars, accessToken, encKey, bearer,
                 callerVars, evictVars, deleteVars, needed, ready, failed,
                 finishVars>>

\* The loop is left early: m.done is closed, or createContainer failed.
StopCreating ==
  /\ Running /\ pm = "create"
  /\ pm' = "poll" /\ needed' = 0
  /\ UNCHANGED <<poolVars, sessions, lockVars, containerVars, callerVars,
                 evictVars, deleteVars, fresh, ready, failed, finishVars>>

MayRegister_Unchecked == TRUE
\* The second look at m.done, this time under m.mu.
MayRegister == ~Done

Register ==
  /\ Running /\ pm = "register"
  /\ IF MayRegister
     THEN /\ inflight' = inflight \cup {fresh}
          /\ needed' = needed - 1
          /\ pm' = IF needed' = 0 THEN "poll" ELSE "create"
          /\ UNCHANGED deleteVars
     ELSE /\ GoDelete(fresh)
          /\ needed' = 0
          /\ pm' = "poll"
          /\ UNCHANGED inflight
  /\ fresh' = None
  /\ UNCHANGED <<warmPool, sessions, lockVars, containerVars, callerVars,
                 evictVars, ready, failed, finishVars>>

\* Copy inflight under m.mu, then poll each one.
PollInflight ==
  /\ Running /\ pm = "poll"
  /\ \E answer \in [inflight -> PollContainer] :
       /\ ready' = {c \in inflight : answer[c] = "ready"}
       /\ failed' = {c \in inflight : answer[c] = "failed"}
  /\ status' = [c \in Container |-> IF c \in ready' THEN "ready" ELSE status[c]]
  /\ pm' = IF ready' \cup failed' = {} THEN "idle" ELSE "promote"
  /\ UNCHANGED <<poolVars, sessions, lockVars, accessToken, encKey, bearer,
                 callerVars, evictVars, deleteVars, needed, fresh, finishVars>>

Promote ==
  /\ Running /\ pm = "promote"
  /\ inflight' = inflight \ (ready \cup failed)
  /\ warmPool' = warmPool \cup ready
  /\ status' = [c \in Container |-> IF c \in failed THEN "failed" ELSE status[c]]
  /\ deletes' = [c \in Container |-> deletes[c] + (IF c \in failed THEN 1 ELSE 0)]
  /\ pendingDeletes' = pendingDeletes \cup failed
  /\ ready' = {} /\ failed' = {}
  /\ pm' = "idle"
  /\ UNCHANGED <<sessions, lockVars, accessToken, encKey, bearer, callerVars,
                 evictVars, needed, fresh, finishVars>>

PoolStop ==
  /\ Running /\ pm = "idle" /\ Done
  /\ pm' = "stopped"
  /\ UNCHANGED <<poolVars, sessions, lockVars, containerVars, callerVars,
                 evictVars, deleteVars, needed, fresh, ready, failed, finishVars>>

PoolManager ==
  \/ Replenish \/ CreateContainer \/ StopCreating \/ Register
  \/ PollInflight \/ Promote \/ PoolStop

----------------------------------------------------------------------------
(* A request: GetOrAssign, then the proxied call, perhaps several times.   *)

\* A tools/call is dispatched.  srv.Shutdown stops new ones before Finish.
Call(x) ==
  /\ pc[x] = "idle" /\ ~Done
  /\ \E r \in Request : req' = [req EXCEPT ![x] = r]
  /\ pc' = [pc EXCEPT ![x] = "get"]
  /\ UNCHANGED <<poolVars, sessions, lockVars, containerVars, held, sl,
                 evictVars, deleteVars, pmVars, finishVars>>

\* The first m.mu section: existing session, at capacity, or lockSession.
GetOrAssign(x) ==
  /\ Running /\ pc[x] = "get"
  /\ LET t == req[x].tok IN
     \/ /\ t \in SessionTokens
        /\ pc' = [pc EXCEPT ![x] = "found"]
        /\ held' = [held EXCEPT ![x] = sessions[t]]
        /\ UNCHANGED <<req, sl>>
     \/ /\ t \notin SessionTokens
        /\ Cardinality(SessionTokens) >= MaxContainers
        /\ pc' = [pc EXCEPT ![x] = "idle"]
        /\ req' = [req EXCEPT ![x] = None]
        /\ UNCHANGED <<held, sl>>
     \/ /\ t \notin SessionTokens
        /\ Cardinality(SessionTokens) < MaxContainers
        /\ pc' = [pc EXCEPT ![x] = "lock"]
        /\ sl' = [sl EXCEPT ![x] = <<t, Generation>>]
        /\ UNCHANGED <<req, held>>
  /\ UNCHANGED <<poolVars, sessions, lockVars, containerVars, evictVars,
                 deleteVars, pmVars, finishVars>>

\* The c.mu section of the fast path: key compare, bearer rotation.
CheckKey(x) ==
  /\ Running /\ pc[x] = "found"
  /\ \/ /\ encKey[held[x]] # req[x].key
        /\ Refuse(x)
        /\ UNCHANGED bearer
     \/ /\ encKey[held[x]] = req[x].key
        /\ bearer' = IF req[x].bearer THEN [bearer EXCEPT ![held[x]] = TRUE] ELSE bearer
        /\ Return(x, held[x])
  /\ UNCHANGED <<poolVars, sessions, status, accessToken, encKey, evictVars,
                 deleteVars, pmVars, finishVars>>

Reassigned_Unchecked(t) == FALSE
\* "Re-check after acquiring sl: another goroutine may have assigned."
Reassigned(t) == t \in SessionTokens

\* sl.Lock(), the re-check, and the reservation of a tar slot.
LockSession(x) ==
  /\ Running /\ pc[x] = "lock"
  /\ assignLock[sl[x]] = None
  /\ \/ /\ Reassigned(req[x].tok)
        /\ Return(x, sessions[req[x].tok])
     \/ /\ ~Reassigned(req[x].tok)
        /\ req[x].bearer /\ ~SlotFree
        /\ Refuse(x)
     \/ /\ ~Reassigned(req[x].tok)
        /\ req[x].bearer => SlotFree
        /\ pc' = [pc EXCEPT ![x] = "wait"]
        /\ assignLock' = [assignLock EXCEPT ![sl[x]] = x]
        /\ snapshotSem' = snapshotSem \cup (IF req[x].bearer THEN {x} ELSE {})
        /\ UNCHANGED <<req, held, sl>>
  /\ UNCHANGED <<poolVars, sessions, containerVars, evictVars, deleteVars,
                 pmVars, finishVars>>

PopWarm(x) ==
  /\ Running /\ pc[x] = "wait"
  /\ \E c \in warmPool :
       /\ held' = [held EXCEPT ![x] = c]
       /\ warmPool' = RemoveWarm(c)
  /\ pc' = [pc EXCEPT ![x] = "probe"]
  /\ UNCHANGED <<inflight, sessions, lockVars, containerVars, req, sl,
                 evictVars, deleteVars, pmVars, finishVars>>

WaitOver_NoTimeout == Done
\* With the pool empty, a wake-up finds m.done closed or the deadline passed.
WaitOver == TRUE

GiveUp(x) ==
  /\ Running /\ pc[x] = "wait" /\ warmPool = {} /\ WaitOver
  /\ Refuse(x)
  /\ UNCHANGED <<poolVars, sessions, containerVars, evictVars, deleteVars,
                 pmVars, finishVars>>

\* checkContainerHealth on the candidate; an unhealthy one is destroyed and
\* the loop waits for another.
Probe(x) ==
  /\ Running /\ pc[x] = "probe"
  /\ \E health \in CheckContainerHealth :
     \/ /\ health = "healthy"
        /\ pc' = [pc EXCEPT ![x] = IF req[x].bearer THEN "fetch" ELSE "commit"]
        /\ UNCHANGED <<held, status, deleteVars>>
     \/ /\ health = "unhealthy"
        /\ pc' = [pc EXCEPT ![x] = "wait"]
        /\ held' = [held EXCEPT ![x] = None]
        /\ Discard(held[x])
  /\ UNCHANGED <<poolVars, sessions, lockVars, accessToken, encKey, bearer, req,
                 sl, evictVars, pmVars, finishVars>>

\* An error recycles the container; without a snapshot there is nothing to push.
Fetch(x) ==
  /\ Running /\ pc[x] = "fetch"
  /\ \E result \in BucketsFetch :
     \/ /\ result # "error"
        /\ pc' = [pc EXCEPT ![x] = IF result = "tar" THEN "push" ELSE "commit"]
        /\ UNCHANGED <<req, held, sl, warmPool, lockVars>>
     \/ result = "error" /\ Requeue(held[x]) /\ Refuse(x)
  /\ UNCHANGED <<inflight, sessions, containerVars, evictVars, deleteVars,
                 pmVars, finishVars>>

\* A transient failure recycles the container, a hard one destroys it.  The
\* gate of pushRestore is left out: before the commit the container has no
\* accessToken (PoolIsClean), and CleanupSession("") finds no session.
Push(x) ==
  /\ Running /\ pc[x] = "push"
  /\ \E result \in PushRestore :
     \/ /\ result = "ok"
        /\ pc' = [pc EXCEPT ![x] = "commit"]
        /\ UNCHANGED <<req, held, sl, warmPool, lockVars, status, deleteVars>>
     \/ /\ result = "transient"
        /\ Requeue(held[x]) /\ Refuse(x)
        /\ UNCHANGED <<status, deleteVars>>
     \/ /\ result = "hard"
        /\ Discard(held[x]) /\ Refuse(x)
        /\ UNCHANGED warmPool
  /\ UNCHANGED <<inflight, sessions, accessToken, encKey, bearer, evictVars,
                 pmVars, finishVars>>

Commit(x) ==
  /\ Running /\ pc[x] = "commit"
  /\ LET c == held[x]  r == req[x] IN
     /\ SetStatus(c, "assigned")
     /\ accessToken' = [accessToken EXCEPT ![c] = r.tok]
     /\ encKey' = [encKey EXCEPT ![c] = r.key]
     /\ bearer' = [bearer EXCEPT ![c] = r.bearer]
     /\ sessions' = [sessions EXCEPT ![r.tok] = c]
     /\ Return(x, c)
  /\ UNCHANGED <<poolVars, evictVars, deleteVars, pmVars, finishVars>>

\* proxy.  The request then ends, or its handler calls GetOrAssign again.
Proxy(x) ==
  /\ Running /\ pc[x] = "call"
  /\ \E result \in ProxyResult : HandleAuthGate(held[x], result)
  /\ held' = [held EXCEPT ![x] = None]
  /\ \/ /\ pc' = [pc EXCEPT ![x] = "idle"]
        /\ req' = [req EXCEPT ![x] = None]
     \/ /\ pc' = [pc EXCEPT ![x] = "get"]
        /\ UNCHANGED req
  /\ UNCHANGED <<poolVars, lockVars, accessToken, encKey, bearer, sl, evictVars,
                 pmVars, finishVars>>

CallerStep(x) ==
  \/ GetOrAssign(x) \/ CheckKey(x) \/ LockSession(x) \/ PopWarm(x) \/ GiveUp(x)
  \/ Probe(x) \/ Fetch(x) \/ Push(x) \/ Commit(x) \/ Proxy(x)

----------------------------------------------------------------------------
(* Eviction: the idle and health scans, and evictAndSnapshot.              *)

StillWarm_Stale(c) == status[c] = "ready"
\* scanWarmHealth searches the pool again under m.mu after its probes.
StillWarm(c) == c \in warmPool

\* scanWarmHealth: MaxHealthFailures probes in a row failed.
EvictWarm(c) ==
  /\ Running /\ StillWarm(c)
  /\ warmPool' = RemoveWarm(c)
  /\ Discard(c)
  /\ UNCHANGED <<inflight, sessions, lockVars, accessToken, encKey, bearer,
                 callerVars, evictVars, pmVars, finishVars>>

\* `go func() {...}` of evictSessionAsync.  Each of the two scans may have a
\* goroutine waiting for the same session.
EvictSessionAsync(t, scan) ==
  /\ Running /\ t \in SessionTokens
  /\ evicts' = evicts \cup {<<sessions[t], <<t, Generation>>, scan>>}
  /\ UNCHANGED <<poolVars, sessions, lockVars, containerVars, callerVars, evPc,
                 deleteVars, pmVars, finishVars>>

\* The session's LastActivity is IdleTimeout old (calls in progress included:
\* only answers bump it).
EvictIdleSessions(t) == "idle" \in Scan /\ EvictSessionAsync(t, "idle")

\* MaxHealthFailures probes of the session's container failed in a row.
ScanSessionHealth(t) == "health" \in Scan /\ EvictSessionAsync(t, "health")

StillBound_Unchecked(t, c) == TRUE
\* "Re-verifies the session under m.mu" so that c is evicted once.
StillBound(t, c) == sessions[t] = c

\* evictAndSnapshot starts by reading the cached bearer.
FirstEvictStep(c) == IF bearer[c] THEN "sem" ELSE "delete"

LockKept_Released(l, c) == UNCHANGED assignLock
\* The goroutine keeps sl until evictAndSnapshot returns.
LockKept(l, c) == assignLock' = [assignLock EXCEPT ![l] = c]

EvictClaim(c, l, scan) ==
  /\ Running /\ <<c, l, scan>> \in evicts
  /\ assignLock[l] = None
  /\ evicts' = evicts \ {<<c, l, scan>>}
  /\ IF StillBound(l[1], c)
     THEN /\ sessions' = WithoutSession(l[1])
          /\ evPc' = [evPc EXCEPT ![c] = FirstEvictStep(c)]
          /\ LockKept(l, c)
     ELSE UNCHANGED <<sessions, evPc, assignLock>>
  /\ UNCHANGED <<poolVars, snapshotSem, containerVars, callerVars, deleteVars,
                 pmVars, finishVars>>

\* m.snapshotSem <- struct{}{}
EvictSem(c) ==
  /\ Running /\ evPc[c] = "sem" /\ SlotFree
  /\ evPc' = [evPc EXCEPT ![c] = "snapshot"]
  /\ snapshotSem' = snapshotSem \cup {c}
  /\ UNCHANGED <<poolVars, sessions, assignLock, containerVars, callerVars,
                 evicts, deleteVars, pmVars, finishVars>>

\* Finish's deadlined ctx for the sessions it drains, m.lifetime otherwise.
CtxDone(c) == IF c \in drain THEN deadline ELSE Done

NextIfCancelled_Return == "done"
\* Without a slot the snapshot is skipped, but the container still goes.
NextIfCancelled == "delete"

EvictCancelled(c) ==
  /\ Running /\ evPc[c] = "sem" /\ CtxDone(c)
  /\ evPc' = [evPc EXCEPT ![c] = NextIfCancelled]
  /\ UNCHANGED <<poolVars, sessions, lockVars, containerVars, callerVars,
                 evicts, deleteVars, pmVars, finishVars>>

\* The tar is read from the container; its 403 goes through the gate.
EvictSnapshot(c) ==
  /\ Running /\ evPc[c] = "snapshot"
  /\ \E result \in FetchSnapshotFromContainer :
       /\ HandleAuthGate(c, result)
       /\ \/ /\ result = "tar"
             /\ evPc' = [evPc EXCEPT ![c] = "put"]
             /\ UNCHANGED snapshotSem
          \/ /\ result # "tar"
             /\ evPc' = [evPc EXCEPT ![c] = "delete"]
             /\ snapshotSem' = SlotReturned(c)
  /\ UNCHANGED <<poolVars, assignLock, accessToken, encKey, bearer, callerVars,
                 evicts, pmVars, finishVars>>

\* The snapshot is stored, or lost: either way the container goes.
EvictPut(c) ==
  /\ Running /\ evPc[c] = "put"
  /\ evPc' = [evPc EXCEPT ![c] = "delete"]
  /\ snapshotSem' = SlotReturned(c)
  /\ UNCHANGED <<poolVars, sessions, assignLock, containerVars, callerVars,
                 evicts, deleteVars, pmVars, finishVars>>

\* setStatus("deleting"); deleteContainer; then the deferred sl.Unlock().
EvictDelete(c) ==
  /\ Running /\ evPc[c] = "delete"
  /\ evPc' = [evPc EXCEPT ![c] = "done"]
  /\ SetStatus(c, "deleting")
  /\ deletes' = [deletes EXCEPT ![c] = @ + 1]
  /\ Unlock(c)
  /\ UNCHANGED <<poolVars, sessions, snapshotSem, accessToken, encKey, bearer,
                 callerVars, evicts, pendingDeletes, pmVars, finishVars>>

EvictAndSnapshot(c) ==
  EvictSem(c) \/ EvictCancelled(c) \/ EvictSnapshot(c) \/ EvictPut(c) \/ EvictDelete(c)

\* A goroutine started by `go m.cp.deleteContainer(c.ID)` runs.
RunDelete(c) ==
  /\ Running /\ c \in pendingDeletes
  /\ pendingDeletes' = pendingDeletes \ {c}
  /\ UNCHANGED <<poolVars, sessions, lockVars, containerVars, callerVars,
                 evictVars, deletes, pmVars, finishVars>>

----------------------------------------------------------------------------
(* Shutdown.                                                               *)

\* close(m.done); m.cancelLifetime(); Broadcast
FinishClose ==
  /\ MayShutDown /\ phase = "up"
  /\ phase' = "done"
  /\ UNCHANGED <<poolVars, sessions, lockVars, containerVars, callerVars,
                 evictVars, deleteVars, pmVars, deadline, drain, sweeping, skipped>>

SessionsDropped_Late == sessions
\* "Drop session entries up front so CleanupAll doesn't double-delete."
SessionsDropped == [t \in Token |-> None]

\* Take every session out of the map and start a drain goroutine for each.
FinishCollect ==
  /\ phase = "done"
  /\ drain' = SessionContainers
  /\ sessions' = SessionsDropped
  /\ evPc' = [c \in Container |->
                IF c \in SessionContainers THEN FirstEvictStep(c) ELSE evPc[c]]
  /\ phase' = "draining"
  /\ UNCHANGED <<poolVars, lockVars, containerVars, callerVars, evicts,
                 deleteVars, pmVars, deadline, sweeping, skipped>>

\* ShutdownDeadline elapses.
DeadlineHit ==
  /\ phase = "draining" /\ drain # {} /\ ~deadline
  /\ deadline' = TRUE
  /\ UNCHANGED <<poolVars, sessions, lockVars, containerVars, callerVars,
                 evictVars, deleteVars, pmVars, phase, drain, sweeping, skipped>>

DrainOver_AtOnce == TRUE
\* `case <-drained` or `case <-ctx.Done()`: wg.Wait() returned, or the deadline
\* passed.
DrainOver == deadline \/ \A c \in drain : evPc[c] = "done"

Remaining_NoInflight == warmPool \cup SessionContainers
\* `all`, what CleanupAll finds in the pools and the map.
Remaining == warmPool \cup inflight \cup SessionContainers

\* The wait is over; CleanupAll takes everything that is left.
CleanupAll ==
  /\ phase = "draining" /\ DrainOver
  /\ sweeping' = Remaining
  /\ warmPool' = {} /\ inflight' = {}
  /\ sessions' = [t \in Token |-> None]
  /\ phase' = "sweeping"
  /\ UNCHANGED <<lockVars, containerVars, callerVars, evictVars, deleteVars,
                 pmVars, deadline, drain, skipped>>

Swept_NotCounted(c) == IF c \in skipped' THEN sweeping ELSE sweeping \ {c}
\* defer wg.Done(), on the early return too.
WgDone(c) == sweeping \ {c}

\* One goroutine of CleanupAll: verifyContainerName, then deleteContainer.
SweepDelete(c) ==
  /\ c \in sweeping \ skipped
  /\ \E answer \in VerifyContainerName :
     \/ /\ answer = "same"
        /\ deletes' = [deletes EXCEPT ![c] = @ + 1]
        /\ skipped' = skipped
     \/ /\ answer = "unverified"
        /\ skipped' = skipped \cup {c}
        /\ deletes' = deletes
  /\ sweeping' = WgDone(c)
  /\ UNCHANGED <<poolVars, sessions, lockVars, containerVars, callerVars,
                 evictVars, pendingDeletes, pmVars, phase, deadline, drain>>

\* wg.Wait() returns, Finish returns, main returns: every goroutine is gone.
Exit ==
  /\ phase = "sweeping" /\ sweeping = {}
  /\ phase' = "exited"
  /\ UNCHANGED <<poolVars, sessions, lockVars, containerVars, callerVars,
                 evictVars, deleteVars, pmVars, deadline, drain, sweeping, skipped>>

Finish == FinishClose \/ FinishCollect \/ DeadlineHit \/ CleanupAll \/ Exit

----------------------------------------------------------------------------
Next ==
  \/ PoolManager
  \/ \E x \in Caller : Call(x) \/ CallerStep(x)
  \/ \E c \in Container : EvictWarm(c) \/ EvictAndSnapshot(c) \/ RunDelete(c)
  \/ \E t \in Token : EvictIdleSessions(t) \/ ScanSessionHealth(t)
  \/ \E c \in Container, l \in Lock, scan \in Scan : EvictClaim(c, l, scan)
  \/ \E c \in Container : SweepDelete(c)
  \/ Finish

Spec == Init /\ [][Next]_vars

(* Fairness: every goroutine that can run eventually does; HTTP calls have
   client timeouts.  A mutex or a semaphore that is free again and again is
   eventually granted: Go mutexes hand over to a waiter that starved for 1ms,
   and a blocked channel send is queued in FIFO order.  Nothing is assumed of
   the environment: requests, evictions and SIGTERM may never come.          *)
Fairness ==
  /\ WF_vars(PoolManager)
  /\ \A x \in Caller :
       /\ WF_vars(CallerStep(x))
       /\ SF_vars(LockSession(x))
  /\ \A c \in Container :
       /\ WF_vars(EvictAndSnapshot(c))
       /\ SF_vars(EvictSem(c))
       /\ SF_vars(\E l \in Lock, scan \in Scan : EvictClaim(c, l, scan))
  /\ WF_vars(\E c \in Container : SweepDelete(c))
  /\ WF_vars(FinishCollect \/ DeadlineHit \/ CleanupAll \/ Exit)

FairSpec == Spec /\ Fairness

----------------------------------------------------------------------------
(* Safety.                                                                 *)

\* Every variable keeps its type; in particular `needed` is a loop count.
TypeOK ==
  /\ warmPool \subseteq Container /\ inflight \subseteq Container
  /\ sessions \in [Token -> Container \cup {None}]
  /\ assignLock \in [Lock -> Caller \cup Container \cup {None}]
  /\ snapshotSem \subseteq Caller \cup Container
  /\ status \in [Container -> Status]
  /\ accessToken \in [Container -> Token \cup {None}]
  /\ encKey \in [Container -> Key \cup {None}]
  /\ bearer \in [Container -> BOOLEAN]
  /\ pc \in [Caller -> CallPc]
  /\ req \in [Caller -> Request \cup {None}]
  /\ held \in [Caller -> Container \cup {None}]
  /\ sl \in [Caller -> Lock \cup {None}]
  /\ evicts \subseteq Container \X Lock \X Scan
  /\ evPc \in [Container -> EvictPc]
  /\ deletes \in [Container -> Nat]
  /\ pendingDeletes \subseteq Container
  /\ pm \in PoolPc /\ needed \in 0 .. MaxContainers
  /\ fresh \in Container \cup {None}
  /\ ready \subseteq Container /\ failed \subseteq Container
  /\ phase \in Phase /\ deadline \in BOOLEAN
  /\ drain \subseteq Container /\ sweeping \subseteq Container
  /\ skipped \subseteq Container

Fresh == {fresh} \ {None}

\* A container is in at most one place: being registered, inflight, in the warm
\* pool, popped by one request, bound to one session, or being evicted.  Two
\* places would hand one user's workspace to another (m.mu sections of
\* pollInflight, GetOrAssign, scanWarmHealth, evictSessionAsync and Finish).
ExclusiveOwner ==
  /\ inflight \cap warmPool = {}
  /\ Fresh \cap (inflight \cup warmPool) = {}
  /\ Popped \cap (Fresh \cup inflight \cup warmPool) = {}
  /\ SessionContainers \cap (Fresh \cup inflight \cup warmPool \cup Popped) = {}
  /\ Evicting \cap (Fresh \cup inflight \cup warmPool \cup Popped \cup SessionContainers) = {}
  /\ \A x, y \in Caller : Popping(x) /\ Popping(y) /\ held[x] = held[y] => x = y
  /\ \A t, u \in SessionTokens : sessions[t] = sessions[u] => t = u

Owned == Fresh \cup inflight \cup warmPool \cup Popped \cup SessionContainers \cup Evicting

\* A request that was still in GetOrAssign when CleanupAll replaced the lock map
\* can assign a second container to the session of c.
Displaced(c) ==
  Swept /\ accessToken[c] # None /\ \E d \in Container \ {c} : accessToken[d] = accessToken[c]

\* No container is forgotten: each one created is held somewhere, its DELETE
\* was ordered, or CleanupAll has it (or left it because its name was not
\* verified).  Every error path of GetOrAssign, evictAndSnapshot and
\* replenishPool must requeue, assign or destroy what it holds, and CleanupAll
\* must take all that is left.  Only a request that outlives CleanupAll can
\* drop one, by a second assignment to its session.
NoOrphan ==
  \A c \in Container :
    status[c] # "none" /\ deletes[c] = 0 =>
      c \in Owned \cup sweeping \cup skipped \/ Displaced(c)

\* A container is deleted at most once and never while something still holds
\* it ("can't double-evict", evictSessionAsync): until CleanupAll has run every
\* one, and ever after those that Finish drains ("Drop session entries up front
\* so CleanupAll doesn't double-delete").
DeletedOnce ==
  \A c \in Container :
    (~Swept \/ c \in drain) /\ deletes[c] > 0 => deletes[c] = 1 /\ c \notin Owned

\* A tool call is only ever sent to a container that was assigned to the
\* caller's own session, whatever was evicted, recycled or re-assigned between
\* GetOrAssign's critical sections and the call ("found" and "call" hold the
\* pointer with no lock).
CallsOwnSession ==
  \A x \in Caller : pc[x] \in {"found", "call"} => accessToken[held[x]] = req[x].tok

\* sessions and the containers agree: what the map holds for t carries t as
\* its AccessToken, has a key to snapshot under, and is live.  handleAuthGate
\* and evictAndSnapshot rely on the back pointer.
SessionBinding ==
  \A t \in SessionTokens : LET c == sessions[t] IN
    accessToken[c] = t /\ encKey[c] # None /\ status[c] = "assigned"

\* A container that can still be handed to any user carries nothing of a
\* previous one and was not marked for destruction ("no fields written until
\* restore succeeds", GetOrAssign; "accessToken is "" until the container is
\* committed", handleAuthGate).
PoolIsClean ==
  \A c \in Fresh \cup inflight \cup warmPool \cup Popped :
    /\ accessToken[c] = None /\ encKey[c] = None
    /\ status[c] \in {"deploying", "ready"}
    /\ c \in warmPool \cup Popped => status[c] = "ready"

\* At most MaxConcurrentSnapshots workspaces are in memory as tars, restores
\* and snapshots together (MAX_CONCURRENT_SNAPSHOTS: "Backstop against OOM").
TarBuffersCapped ==
  Cardinality({x \in Caller : pc[x] = "push"})
    + Cardinality({c \in Container : evPc[c] \in {"snapshot", "put"}})
      <= MaxConcurrentSnapshots

\* A mutex or a tar slot is held only by a goroutine that is still inside the
\* section that gives it back, and waits in there for no mutex, nor for a slot
\* when it has one: no path leaks either ("defer sl.Unlock()", the releases of
\* snapshotSem), and the waits cannot form a cycle.
HoldersAreAtWork ==
  /\ \A l \in Lock : LET h == assignLock[l] IN
       \/ h = None
       \/ h \in Caller /\ Critical(h) /\ sl[h] = l
       \/ h \in Evicting
  /\ \A h \in snapshotSem :
       \/ h \in Caller /\ Critical(h)
       \/ h \in Container /\ evPc[h] \in {"snapshot", "put"}

\* What the pool manager's accounting misses is bounded by the semaphore: with
\* a bearer on every request, pooled, popped and assigned containers exceed
\* MAX_CONTAINERS by at most the number of restore slots.
Tracked == warmPool \cup inflight \cup Popped \cup SessionContainers
CapacityBound ==
  Bearer = {TRUE} => Cardinality(Tracked) <= MaxContainers + MaxConcurrentSnapshots

\* A request never restores a session's snapshot while the same session's
\* evictor is still writing it: "a concurrent GetOrAssign queues behind us".
\* (The drain goroutines of Finish take no lock and are not covered.)
RestoreWaitsForEviction ==
  ~Swept => \A x \in Caller, c \in Evicting \ drain :
              Critical(x) => accessToken[c] # req[x].tok

\* Until a shutdown begins, no session has a second container while its first
\* still carries, or is writing out, its workspace: two would both claim to be
\* the session's latest state (Commit, evictAndSnapshot).
WorkspacesAreExclusive ==
  ~Done => \A c, d \in SessionContainers \cup Evicting :
             accessToken[c] = accessToken[d] => c = d

\* Once CleanupAll has emptied it, nothing enters inflight again: a container
\* created during shutdown is deleted by replenishPool itself.
NoInflightAfterSweep == Swept => inflight = {}

\* Before the deadline, Finish lets no drain be cut short: when CleanupAll has
\* begun, the container of each session that was alive at SIGTERM was deleted
\* when its eviction ended (only "Sessions whose snapshot doesn't finish within
\* ShutdownDeadline lose state", Finish).
DrainsAreAwaited ==
  Swept /\ ~deadline => \A c \in drain : evPc[c] = "done" /\ deletes[c] > 0

\* Until CleanupAll, an entry of the session map is removed before another
\* takes its place: an assignment never overwrites (and so leaks) a container.
CommitNeverOverwrites ==
  [][~Swept => \A t \in SessionTokens : sessions'[t] \in {sessions[t], None}]_vars

----------------------------------------------------------------------------
(* Liveness.                                                               *)

\* Every tool call gets past GetOrAssign: no cycle of waits among the session
\* mutex, the snapshot semaphore and the warm pool.
RequestsAnswered ==
  \A x \in Caller : pc[x] = "get" ~> pc[x] \in {"call", "idle"} \/ phase = "exited"

\* A session taken out of the map by an evictor ends with its container's
\* DELETE, and the session's mutex is free again.
EvictionCompletes ==
  \A c \in Container : c \in Evicting ~> evPc[c] = "done" \/ phase = "exited"

\* Finish terminates: neither a slow snapshot nor a refused delete holds it.
ShutdownCompletes == Done ~> phase = "exited"

----------------------------------------------------------------------------
(* What the documentation says, and the code does not do (see README).     *)

\* README: the encryption key is "frozen at first assignment", "changing it
\* after that returns an error".  LockSession's re-check compares nothing.
KeyFrozen ==
  \A x \in Caller : pc[x] = "call" /\ held[x] # None /\ accessToken[held[x]] = req[x].tok
                      => encKey[held[x]] = req[x].key

\* README: on SIGTERM "bulk-deletes every container it owns", sessions past the
\* deadline included.  Popped containers, queued deletes and late drains die
\* with the process.  (Stated for containers that reached the pool.)
NoLeakAtExit ==
  phase = "exited" => \A c \in Container :
    status[c] \notin {"none", "deploying"} => c \in skipped \/ (deletes[c] > 0 /\ c \notin pendingDeletes)

\* proxy.go: on a 403 it is the container that rejected the token that is
\* destroyed.  A stale call destroys the session's next container instead.
AuthGateDestroysOwn ==
  [][\A x \in Caller, t \in Token :
       pc[x] = "call" /\ pc'[x] # "call" /\ sessions[t] # None /\ sessions'[t] = None
         => sessions[t] = held[x]]_vars
=============================================================================
