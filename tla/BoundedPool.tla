---------------------------- MODULE BoundedPool -----------------------------
(***************************************************************************)
(* What a caller of TasksPool relies on: a task goes forward from waiting  *)
(* to being worked on to settled and never back, its promise settles once, *)
(* and only so many tasks are worked on at a time.  The abstract           *)
(* specification TasksPool is shown to implement.                          *)
(***************************************************************************)
CONSTANTS
  Tasks,
  Crowds   \* the sets of tasks that may be worked on at the same time

VARIABLE phase   \* how far each task has come

Phase == {"new", "waiting", "held", "settled"}

Held == {t \in Tasks : phase[t] = "held"}

Onward(p) == CASE p = "new"     -> Phase \ {"settled"}
               [] p = "waiting" -> Phase \ {"new"}
               [] p = "held"    -> {"held", "settled"}
               [] p = "settled" -> {"settled"}

Init == phase = [t \in Tasks |-> "new"]

Next == /\ phase' \in [Tasks -> Phase]
        /\ \A t \in Tasks : phase'[t] \in Onward(phase[t])
        /\ Held' \in Crowds

Spec == Init /\ [][Next]_phase
=============================================================================
