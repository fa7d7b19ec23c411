----------------------------- MODULE HealthCheck -----------------------------
(***************************************************************************)
(* The health checker (src/manager.go, healthCheckLoop) over the lifecycle *)
(* of the containers.  What requests and evictors do to a container in the *)
(* meantime is what ContainerLifecycle lets them do; that Manager does no  *)
(* more is the theorem LifecycleImplemented.                               *)
(*                                                                         *)
(* A scan copies the warm pool, or the sessions, under m.mu and probes the *)
(* copies one by one without it.  The failures of a container are counted  *)
(* in the container: a count begun in the warm pool goes on in the session *)
(* it is assigned to, and the probe before an assignment does not count.   *)
(* Manager lets the scans evict at any moment, and so does not need this.  *)
(***************************************************************************)
EXTENDS ContainerLifecycle, Integers

CONSTANT MaxHealthFailures

ASSUME HealthAssumption == MaxHealthFailures \in Nat \ {0}

VARIABLES
  dead,      \* containers that answer no probe any more; the others may
  probed,    \* popped containers that passed the probe of GetOrAssign
  failures,  \* Container.HealthFailures, bounded by ManyFailures
  scan,      \* what the loop is doing
  targets,   \* the copies that are still to be probed
  judged,    \* the one whose probes have failed too often
  evicting,  \* goroutines of evictSessionAsync that have not taken the session
  ticks,     \* history: ticks with a failure since the last good probe
  failing    \* history: those that failed in this tick

loopVars   == <<scan, targets, judged>>
healthVars == <<dead, probed, failures, loopVars, evicting, ticks, failing>>
hvars == <<vars, healthVars>>

\* Bound: more failures than one above the limit are not told apart.
ManyFailures == MaxHealthFailures + 1

HInit ==
  /\ Init
  /\ dead = {} /\ probed = {} /\ evicting = {} /\ failing = {}
  /\ failures = [c \in Container |-> 0] /\ ticks = [c \in Container |-> 0]
  /\ scan = "sleep" /\ targets = {} /\ judged = None

----------------------------------------------------------------------------
(* The others.                                                             *)

\* /health answers 200, or not.
CheckContainerHealth(c) == IF c \in dead THEN {"unhealthy"} ELSE {"healthy", "unhealthy"}

Die(c) ==
  /\ stage[c] \in {"ready", "assigning", "assigned"} /\ c \notin dead
  /\ dead' = dead \cup {c}
  /\ UNCHANGED <<vars, probed, failures, loopVars, evicting, ticks, failing>>

\* GetOrAssign probes what it popped before it does anything with it.
ProbeCandidate(c) ==
  /\ stage[c] = "assigning" /\ c \notin probed
  /\ \/ "healthy" \in CheckContainerHealth(c) /\ probed' = probed \cup {c} /\ UNCHANGED vars
     \/ Destroy(c) /\ UNCHANGED probed
  /\ UNCHANGED <<dead, failures, loopVars, evicting, ticks, failing>>

\* Then it assigns it, puts it back, or destroys it.
UseCandidate(c) ==
  /\ stage[c] = "assigning" /\ c \in probed
  /\ Recycle(c) \/ Destroy(c) \/ \E t \in Token : Assign(c, t)
  /\ probed' = probed \ {c}
  /\ UNCHANGED <<dead, failures, loopVars, evicting, ticks, failing>>

\* The idle evictor, or a 403; then the end of any eviction.
EndSession(c) ==
  /\ stage[c] = "assigned" /\ (Evict(c) \/ Destroy(c))
  /\ UNCHANGED healthVars

EndEviction(c) == stage[c] = "deleting" /\ Destroy(c) /\ UNCHANGED healthVars

Others ==
  \/ \E c \in Container : ProbeCandidate(c) \/ UseCandidate(c) \/ EndSession(c) \/ EndEviction(c) \/ Die(c)
  \/ /\ \/ \E c \in Container : Create(c) \/ Pop(c)
        \/ \E up, broken \in SUBSET Deploying : up \cap broken = {} /\ Deploy(up, broken)
     /\ UNCHANGED healthVars

----------------------------------------------------------------------------
(* The loop: a tick is scanWarmHealth and then scanSessionHealth.          *)

Staged(s) == {c \in Container : stage[c] = s}

Tick ==
  /\ scan = "sleep"
  /\ scan' = "warm" /\ targets' = Staged("ready") /\ failing' = {}
  /\ UNCHANGED <<vars, dead, probed, failures, judged, evicting, ticks>>

Forgiven_Kept(c) == failures
\* c.HealthFailures = 0
Forgiven(c) == [failures EXCEPT ![c] = 0]

TooMany_Exactly(n) == n = MaxHealthFailures
\* ~(n < m.cfg.MaxHealthFailures)
TooMany(n) == n >= MaxHealthFailures

\* shouldEvictForHealth.
Probe(c) ==
  /\ scan # "sleep" /\ judged = None /\ c \in targets
  /\ targets' = targets \ {c}
  /\ \E health \in CheckContainerHealth(c) :
     \/ /\ health = "healthy"
        /\ failures' = Forgiven(c)
        /\ ticks' = [ticks EXCEPT ![c] = 0]
        /\ UNCHANGED <<judged, failing>>
     \/ /\ health = "unhealthy"
        /\ failures' = [failures EXCEPT ![c] = IF @ < ManyFailures THEN @ + 1 ELSE @]
        /\ judged' = IF TooMany(failures'[c]) THEN c ELSE None
        /\ ticks' = [ticks EXCEPT ![c] =
                       IF c \in failing \/ @ = MaxHealthFailures THEN @ ELSE @ + 1]
        /\ failing' = failing \cup {c}
  /\ UNCHANGED <<vars, dead, probed, scan, evicting>>

\* Destroyed if it is still in the warm pool; or evictSessionAsync.
Judge ==
  /\ judged # None
  /\ \/ /\ scan = "warm"
        /\ IF stage[judged] = "ready" THEN Destroy(judged) ELSE UNCHANGED vars
        /\ UNCHANGED evicting
     \/ /\ scan = "session"
        /\ evicting' = evicting \cup {judged}
        /\ UNCHANGED vars
  /\ judged' = None
  /\ UNCHANGED <<dead, probed, failures, scan, targets, ticks, failing>>

\* The session scan follows the warm scan; then the loop sleeps.
NextScan ==
  /\ scan # "sleep" /\ judged = None /\ targets = {}
  /\ \/ scan = "warm" /\ scan' = "session" /\ targets' = Staged("assigned")
     \/ scan = "session" /\ scan' = "sleep" /\ targets' = {}
  /\ UNCHANGED <<vars, dead, probed, failures, judged, evicting, ticks, failing>>

HealthCheckLoop == Tick \/ NextScan \/ Judge \/ \E c \in Container : Probe(c)

\* The goroutine of evictSessionAsync looks whether c is still the session's.
EvictSession(c) ==
  /\ c \in evicting
  /\ IF stage[c] = "assigned" THEN Evict(c) ELSE UNCHANGED vars
  /\ evicting' = evicting \ {c}
  /\ UNCHANGED <<dead, probed, failures, loopVars, ticks, failing>>

HNext == Others \/ HealthCheckLoop \/ \E c \in Container : EvictSession(c)

(* The loop and the goroutines run when they can; a request comes to an end
   with the container that it popped.  Requests need not come.              *)
HFairness ==
  /\ WF_hvars(HealthCheckLoop)
  /\ \A c \in Container :
       /\ WF_hvars(EvictSession(c)) /\ WF_hvars(EndEviction(c))
       /\ WF_hvars(ProbeCandidate(c) \/ UseCandidate(c))

HSpec == HInit /\ [][HNext]_hvars /\ HFairness

----------------------------------------------------------------------------
(* Safety.                                                                 *)

\* A container is only evicted for its health if it failed every probe of the
\* loop in at least MaxHealthFailures - 1 ticks: the two scans share a count,
\* so that the tick in which it is assigned may count twice, but no other does
\* and no failure before a good probe counts (shouldEvictForHealth).
FailuresSpanTicks == judged # None => ticks[judged] >= MaxHealthFailures - 1

(* Liveness.                                                               *)

\* A container that stops answering does not stay in the pool or in a session,
\* although the scan that counts its last failure may find it popped by a
\* request that then puts it back.
DeadIsEvicted ==
  \A c \in Container :
    c \in dead /\ stage[c] \in {"ready", "assigning", "assigned"} ~> stage[c] = "gone"
=============================================================================
