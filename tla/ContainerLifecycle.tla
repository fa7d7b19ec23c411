------------------------- MODULE ContainerLifecycle -------------------------
(***************************************************************************)
(* What the manager promises of each container: the state diagram          *)
(* "Container lifecycle" of the repository's README, in which a session    *)
(* has at most one container until that container is gone.                 *)
(*                                                                         *)
(*   none -> deploying -> ready <-> assigning -> assigned -> deleting      *)
(*                                                                         *)
(* and from any of these but the first to "gone", which is final.  The     *)
(* diagram does not draw the way back from assigning to ready, which the   *)
(* code takes when a restore fails for a transient reason.                 *)
(*                                                                         *)
(* Nothing here says how it is done: no locks, no pool, no messages.       *)
(***************************************************************************)
CONSTANTS Container, Token, None

VARIABLES
  stage,  \* [Container -> the stages above]
  user    \* [Container -> the session whose workspace is in it, or None]

vars == <<stage, user>>

Init ==
  /\ stage = [c \in Container |-> "none"]
  /\ user = [c \in Container |-> None]

Move(c, from, to) ==
  /\ stage[c] = from
  /\ stage' = [stage EXCEPT ![c] = to]

Create(c) == Move(c, "none", "deploying") /\ UNCHANGED user

Deploying == {c \in Container : stage[c] = "deploying"}

\* Deployments end, some well and some badly.
Deploy(up, broken) ==
  /\ stage' = [c \in Container |-> IF c \in up THEN "ready"
                                   ELSE IF c \in broken THEN "gone"
                                   ELSE stage[c]]
  /\ UNCHANGED user

Pop(c)     == Move(c, "ready", "assigning") /\ UNCHANGED user
Recycle(c) == Move(c, "assigning", "ready") /\ UNCHANGED user

\* Only when the session has no other container, not even one that is still
\* being snapshot.
Assign(c, t) ==
  /\ \A d \in Container : user[d] # t
  /\ Move(c, "assigning", "assigned")
  /\ user' = [user EXCEPT ![c] = t]

Evict(c) == Move(c, "assigned", "deleting") /\ UNCHANGED user

Destroy(c) ==
  /\ stage[c] \in {"ready", "assigning", "assigned", "deleting"}
  /\ stage' = [stage EXCEPT ![c] = "gone"]
  /\ user' = [user EXCEPT ![c] = None]

Next ==
  \/ \E c \in Container : Create(c) \/ Pop(c) \/ Recycle(c) \/ Evict(c) \/ Destroy(c)
  \/ \E c \in Container, t \in Token : Assign(c, t)
  \/ \E up, broken \in SUBSET Deploying : Deploy(up, broken)

Spec == Init /\ [][Next]_vars

\* A session's workspace is in one container at a time, from its restore to the
\* end of its snapshot.
OneWorkspace ==
  \A c, d \in Container : user[c] # None /\ user[c] = user[d] => c = d
=============================================================================
