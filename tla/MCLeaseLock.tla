---------------------------- MODULE MCLeaseLock -----------------------------
(* LeaseLock for TLC. *)
EXTENDS LeaseLock, TLC

\* Tokens are interchangeable: nothing compares them but for equality.
TokenSymmetry == Permutations(Token)
=============================================================================
