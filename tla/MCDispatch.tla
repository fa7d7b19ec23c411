----------------------------- MODULE MCDispatch -----------------------------
(* Instances of Dispatch for TLC. *)
EXTENDS Dispatch, TLC

CONSTANTS x1, x2, k1, k2, f, g, s, t

TwoCallers == {x1, x2}
TwoKeys    == {k1, k2}
TwoNames   == {f, g}
TwoShas    == {s, t}

\* "Clear all", and two files.
SomeManifests == {{}, {<<f, t>>, <<g, s>>}}

\* One of the two files.
SomeAstray == {<<f, t>>}

Symmetric == Permutations(Caller) \cup Permutations(ApiKey)
=============================================================================
