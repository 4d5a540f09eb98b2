----------------------- MODULE MCIncrementalSequence ------------------------
(* IncrementalSequence for TLC: two callers share a process in fast mode,  *)
(* a third runs in a process in standard mode.                             *)
EXTENDS IncrementalSequence, TLC

CONSTANTS w1, w2, w3, p1, p2

MCProcessOf == (w1 :> p1) @@ (w2 :> p1) @@ (w3 :> p2)
TokenSymmetry == Permutations(Token)
=============================================================================
