--------------------------- MODULE ExclusiveLease ---------------------------
(***************************************************************************)
(* What a caller of DistributedLock relies on: the lock is granted to one  *)
(* worker at a time, and only after whoever held it has let go (or has     *)
(* died).  The abstract specification LeaseLock is shown to implement.     *)
(***************************************************************************)
CONSTANT Worker

VARIABLE holders   \* the workers between the end of acquire and the start of release

Init == holders = {}

Grant(w) == /\ holders = {}
            /\ holders' = {w}

End(w) == /\ w \in holders
          /\ holders' = holders \ {w}

Next == \E w \in Worker : Grant(w) \/ End(w)

Spec == Init /\ [][Next]_holders
=============================================================================
