--------------------------- MODULE MCHealthCheck ---------------------------
(* Instances of HealthCheck for TLC. *)
EXTENDS HealthCheck

CONSTANTS c1, c2, t1

TwoContainers == {c1, c2}
OneToken      == {t1}
=============================================================================
