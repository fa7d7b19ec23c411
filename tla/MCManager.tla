----------------------------- MODULE MCManager -----------------------------
(* Instances of Manager, with its lifecycle view, for TLC. *)
EXTENDS ManagerLifecycle, TLC

CONSTANTS c1, c2, c3, x1, x2, t1, t2, k1, k2

OneContainer    == {c1}
TwoContainers   == {c1, c2}
ThreeContainers == {c1, c2, c3}
OneCaller  == {x1}
TwoCallers == {x1, x2}
OneToken  == {t1}
TwoTokens == {t1, t2}
OneKey  == {k1}
TwoKeys == {k1, k2}
OneScan   == {"idle"}
BothScans == {"idle", "health"}
Production == {TRUE}
Dev        == {TRUE, FALSE}

\* The identities of each kind are interchangeable (safety runs only).
Symmetric == Permutations(Container) \cup Permutations(Caller)
               \cup Permutations(Token) \cup Permutations(Key)
=============================================================================
