---------------------------- MODULE MCWorkspace ----------------------------
(* Instances of Workspace for TLC. *)
EXTENDS Workspace, TLC

CONSTANTS c1, c2, c3, x1, x2, t1, t2, k1

TwoContainers   == {c1, c2}
ThreeContainers == {c1, c2, c3}
OneCaller  == {x1}
TwoCallers == {x1, x2}
OneToken   == {t1}
TwoTokens  == {t1, t2}
OneKey     == {k1}
OneScan    == {"idle"}
Production == {TRUE}

\* The identities of each kind are interchangeable.
Symmetric == Permutations(Container) \cup Permutations(Caller) \cup Permutations(Token)
=============================================================================
