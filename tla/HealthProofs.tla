---------------------------- MODULE HealthProofs ----------------------------
(***************************************************************************)
(* An eviction for health takes failures in MaxHealthFailures - 1 ticks at *)
(* least (FailuresSpanTicks), for every value of the constants.            *)
(*                                                                         *)
(* A failure counts once in its tick, except for the tick in which the     *)
(* container is assigned between its probe by the warm scan and the start  *)
(* of the session scan.  A container is assigned once, so that the count   *)
(* is never more than one ahead of the ticks (CountInv).                   *)
(***************************************************************************)
EXTENDS HealthCheck, TLAPS

\* Both histories stop at their bound; from there on the count is of no use.
Spans(c, n) == ticks[c] = MaxHealthFailures \/ failures[c] <= ticks[c] + n

HTypeOK ==
  /\ stage \in [Container -> {"none", "deploying", "ready", "assigning", "assigned",
                              "deleting", "gone"}]
  /\ failures \in [Container -> 0 .. ManyFailures]
  /\ ticks \in [Container -> 0 .. MaxHealthFailures]
  /\ scan \in {"sleep", "warm", "session"}
  /\ targets \subseteq Container /\ failing \subseteq Container
  /\ judged \in Container \cup {None}

Pooled(c) == stage[c] \in {"none", "deploying", "ready", "assigning"}

\* Where the two scans are: a target of the warm scan is probed once in it, and
\* one of the session scan is not in the pool any more.
ScanInv ==
  /\ scan = "sleep" => targets = {}
  /\ scan = "warm" => targets \cap failing = {}
  /\ scan = "session" => \A c \in targets : ~Pooled(c)

CountInv ==
  \A c \in Container :
    /\ Spans(c, 1)
    /\ Pooled(c) => Spans(c, 0)
    /\ scan = "warm" /\ c \in targets \cup failing => Spans(c, 0)
    /\ scan = "session" /\ c \in targets \cap failing => Spans(c, 0)

JudgedInv == judged # None => failures[judged] >= MaxHealthFailures

HealthInv == HTypeOK /\ ScanInv /\ CountInv /\ JudgedInv

LEMMA InitHealth == HInit => HealthInv
BY HealthAssumption
   DEF HInit, Init, HealthInv, HTypeOK, ScanInv, CountInv, JudgedInv, Spans, Pooled, ManyFailures

----------------------------------------------------------------------------
\* A step of the lifecycle brings no container back into the pool.
LEMMA LifecycleStep ==
  ASSUME HTypeOK, [Next]_vars
  PROVE  /\ stage' \in [Container -> {"none", "deploying", "ready", "assigning", "assigned",
                                      "deleting", "gone"}]
         /\ \A c \in Container : Pooled(c)' => Pooled(c)
<1>1. CASE \E c \in Container : Create(c) \/ Pop(c) \/ Recycle(c) \/ Evict(c) \/ Destroy(c)
  BY <1>1 DEF HTypeOK, Pooled, Create, Pop, Recycle, Evict, Destroy, Move
<1>2. CASE \E c \in Container, t \in Token : Assign(c, t)
  BY <1>2 DEF HTypeOK, Pooled, Assign, Move
<1>3. CASE \E up, broken \in SUBSET Deploying : Deploy(up, broken)
  BY <1>3 DEF HTypeOK, Pooled, Deploy, Deploying
<1>4. CASE UNCHANGED vars
  BY <1>4 DEF HTypeOK, Pooled, vars
<1> QED BY <1>1, <1>2, <1>3, <1>4 DEF Next

\* So a step that leaves the counts and the scan alone preserves the invariant.
LEMMA FrameHealth ==
  ASSUME HealthInv, [Next]_vars, UNCHANGED <<failures, ticks, scan, targets, failing>>,
         judged' \in {judged, None}
  PROVE  HealthInv'
<1>1. HTypeOK' /\ \A c \in Container : Pooled(c)' => Pooled(c)
  BY LifecycleStep DEF HealthInv, HTypeOK
<1>2. ScanInv'
  BY <1>1 DEF HealthInv, ScanInv, HTypeOK
<1>3. \A c \in Container : Spans(c, 0)' <=> Spans(c, 0)
  BY DEF Spans
<1>4. \A c \in Container : Spans(c, 1)' <=> Spans(c, 1)
  BY DEF Spans
<1>5. CountInv'
  BY <1>1, <1>3, <1>4 DEF HealthInv, CountInv
<1> QED BY <1>1, <1>2, <1>5 DEF HealthInv, JudgedInv

LEMMA OthersHealth == ASSUME HealthInv, Others PROVE HealthInv'
<1>1. [Next]_vars
  BY DEF Others, ProbeCandidate, UseCandidate, EndSession, EndEviction, Die, Next
<1>2. UNCHANGED <<failures, ticks, scan, targets, failing, judged>>
  BY DEF Others, ProbeCandidate, UseCandidate, EndSession, EndEviction, Die, healthVars, loopVars
<1> QED BY <1>1, <1>2, FrameHealth

LEMMA EvictSessionHealth ==
  ASSUME HealthInv, NEW c \in Container, EvictSession(c) PROVE HealthInv'
<1>1. [Next]_vars
  BY DEF EvictSession, Next
<1> QED BY <1>1, FrameHealth DEF EvictSession, loopVars

LEMMA JudgeHealth == ASSUME HealthInv, Judge PROVE HealthInv'
<1>1. [Next]_vars
  BY DEF Judge, Next, HealthInv, HTypeOK
<1> QED BY <1>1, FrameHealth DEF Judge

LEMMA TickHealth == ASSUME HealthInv, Tick PROVE HealthInv'
<1> USE DEF HealthInv, Tick, vars
<1>1. HTypeOK'
  BY DEF HTypeOK, Staged
<1>2. ScanInv'
  BY DEF ScanInv
<1>3. CountInv'
  BY DEF CountInv, Spans, Pooled, Staged
<1> QED BY <1>1, <1>2, <1>3 DEF JudgedInv

LEMMA NextScanHealth == ASSUME HealthInv, NextScan PROVE HealthInv'
<1> USE DEF HealthInv, NextScan, vars
<1>1. HTypeOK'
  BY DEF HTypeOK, Staged
<1>2. ScanInv'
  BY DEF ScanInv, Staged, Pooled
<1>3. CountInv'
  BY DEF CountInv, Spans, Pooled, Staged
<1> QED BY <1>1, <1>2, <1>3 DEF JudgedInv

LEMMA ProbeHealth ==
  ASSUME HealthInv, NEW c \in Container, Probe(c) PROVE HealthInv'
<1>0. /\ scan \in {"warm", "session"} /\ judged = None /\ c \in targets
      /\ targets' = targets \ {c} /\ UNCHANGED <<stage, scan>>
  BY DEF Probe, vars, HealthInv, HTypeOK
<1>1. CASE failures' = Forgiven(c) /\ ticks' = [ticks EXCEPT ![c] = 0]
           /\ UNCHANGED <<judged, failing>>
  <2>1. HTypeOK'
    BY <1>0, <1>1, HealthAssumption DEF HealthInv, HTypeOK, Forgiven, ManyFailures
  <2>2. ScanInv'
    BY <1>0, <1>1 DEF HealthInv, ScanInv, Pooled
  <2>3. CountInv'
    <3> SUFFICES ASSUME NEW d \in Container
                 PROVE  \A n \in {0, 1} : Spans(d, n) \/ d = c => Spans(d, n)'
      BY <1>0, <1>1 DEF HealthInv, CountInv, Pooled
    <3> QED BY <1>1, <1>0 DEF HealthInv, HTypeOK, Spans, Forgiven
  <2> QED BY <1>0, <1>1, <2>1, <2>2, <2>3 DEF HealthInv, JudgedInv
<1>2. CASE /\ failures' = [failures EXCEPT ![c] = IF @ < ManyFailures THEN @ + 1 ELSE @]
           /\ judged' = IF TooMany(failures'[c]) THEN c ELSE None
           /\ ticks' = [ticks EXCEPT ![c] =
                         IF c \in failing \/ @ = MaxHealthFailures THEN @ ELSE @ + 1]
           /\ failing' = failing \cup {c}
  <2>1. HTypeOK'
    BY <1>0, <1>2, HealthAssumption DEF HealthInv, HTypeOK, ManyFailures
  <2>2. ScanInv'
    BY <1>0, <1>2 DEF HealthInv, ScanInv, Pooled
  <2>3. \A d \in Container \ {c}, n \in {0, 1} : Spans(d, n)' <=> Spans(d, n)
    BY <1>2 DEF HealthInv, HTypeOK, Spans
  <2>4. c \notin failing /\ Spans(c, 0) => Spans(c, 0)'
    BY <1>2, HealthAssumption DEF HealthInv, HTypeOK, Spans, ManyFailures
  <2>5. c \notin failing \/ Spans(c, 0) => Spans(c, 1)'
    BY <1>2, HealthAssumption DEF HealthInv, HTypeOK, CountInv, Spans, ManyFailures
  <2>6. CountInv'
    <3>1. CASE scan = "warm"
      BY <1>0, <1>2, <2>3, <2>4, <2>5, <3>1 DEF HealthInv, ScanInv, CountInv, Pooled
    <3>2. CASE scan = "session"
      BY <1>0, <1>2, <2>3, <2>5, <3>2 DEF HealthInv, ScanInv, CountInv, Pooled
    <3> QED BY <1>0, <3>1, <3>2
  <2>7. JudgedInv'
    BY <1>2, HealthAssumption DEF HealthInv, HTypeOK, JudgedInv, TooMany, ManyFailures
  <2> QED BY <2>1, <2>2, <2>6, <2>7 DEF HealthInv
<1> QED BY <1>1, <1>2 DEF Probe, CheckContainerHealth

LEMMA HealthStep == HealthInv /\ [HNext]_hvars => HealthInv'
<1> SUFFICES ASSUME HealthInv, [HNext]_hvars PROVE HealthInv'
  OBVIOUS
<1>1. CASE UNCHANGED hvars
  BY <1>1, FrameHealth DEF hvars, healthVars, loopVars
<1> QED BY <1>1, OthersHealth, EvictSessionHealth, JudgeHealth, TickHealth, NextScanHealth,
           ProbeHealth DEF HNext, HealthCheckLoop

(* shouldEvictForHealth never evicts for fewer than MaxHealthFailures - 1 bad
   ticks in a row, although its count goes from the pool into the session. *)
THEOREM EvictionNeedsTicks == HSpec => []FailuresSpanTicks
<1>1. HealthInv => FailuresSpanTicks
  BY HealthAssumption DEF HealthInv, HTypeOK, CountInv, JudgedInv, Spans, FailuresSpanTicks
<1> QED BY <1>1, InitHealth, HealthStep, PTL DEF HSpec
=============================================================================
