-------------------------- MODULE MCConsolidation ---------------------------
(* Consolidation for TLC: one entry point at a time, with what may fail    *)
(* under it, and the timer next to consolidate(id).                        *)
EXTENDS Consolidation

CONSTANTS w1, w2

Locked ==
  {[kinds |-> {k}, workers |-> {w1, w2}, records |-> BOOLEAN,
    faults |-> {"crash", "scan", "read", "write", "mark"}] : k \in {"field", "record"}}

\* Two workers while no ticket is released for a retry; one worker, whatever fails.
Ticketed ==
  {[kinds |-> {"ticket"}, workers |-> {w1, w2}, records |-> {TRUE},
    faults |-> {"crash", "expire", "scan"}],
   [kinds |-> {"ticket"}, workers |-> {w1}, records |-> BOOLEAN,
    faults |-> {"crash", "expire", "scan", "read", "write", "mark"}]}

OneEntryPoint == Locked \cup Ticketed

TimerAndCalls ==
  {[kinds |-> {"field", "record"}, workers |-> {w1, w2}, records |-> {TRUE}, faults |-> {}]}
=============================================================================
