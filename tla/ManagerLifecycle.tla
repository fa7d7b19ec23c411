-------------------------- MODULE ManagerLifecycle --------------------------
(***************************************************************************)
(* Manager implements ContainerLifecycle.  The stage of a container is     *)
(* where the manager holds it; Container.Status is no help, because it     *)
(* lags behind (a popped container still reads "ready").                   *)
(***************************************************************************)
EXTENDS Manager

Stage ==
  [c \in Container |->
     IF status[c] = "none"                   THEN "none"
     ELSE IF c = fresh \/ c \in inflight     THEN "deploying"
     ELSE IF c \in warmPool                  THEN "ready"
     ELSE IF c \in Popped                    THEN "assigning"
     ELSE IF c \in SessionContainers         THEN "assigned"
     ELSE IF c \in Evicting                  THEN "deleting"
     ELSE "gone"]

\* The back pointer outlives the container; the session does not.
User ==
  [c \in Container |->
     IF c \in SessionContainers \cup Evicting THEN accessToken[c] ELSE None]

Lifecycle == INSTANCE ContainerLifecycle WITH stage <- Stage, user <- User

\* As long as no shutdown begins, every step of the goroutines is a step of the
\* documented lifecycle or none: a container is handed to a session only when
\* the session's former container is gone, and what is gone stays gone
\* (GetOrAssign, evictSessionAsync, pollInflight, scanWarmHealth together).
ImplementsLifecycle == Lifecycle!Spec
=============================================================================
