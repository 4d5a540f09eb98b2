------------------------ MODULE MCResourcePersistence -----------------------
(* Two callers and two partition values, interchangeable.                   *)
EXTENDS ResourcePersistence, TLC

CONSTANTS c1, c2, a, b

MCSymmetry == Permutations({c1, c2}) \cup Permutations({a, b})
=============================================================================
