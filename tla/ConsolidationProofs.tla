------------------------ MODULE ConsolidationProofs -------------------------
(***************************************************************************)
(* What holds of Consolidation for every number of transactions, every     *)
(* choice of sets among them, every set of workers and number of faults.   *)
(***************************************************************************)
EXTENDS Consolidation, WellFoundedInduction, TLAPS

USE ConsolidationAssumption

-----------------------------------------------------------------------------
(* Type correctness, in all scenarios.  What is marked is stored because   *)
(* only what was pending is listed; a claim is checked under a ticket.     *)

Listed ==
  \A p \in Worker :
    /\ list[p] \subseteq stored
    /\ pc[p] = "checking" => kind[p] = "ticket"
    /\ pc[p] = "guarding" => kind[p] = "field"

Typed == TypeOK /\ Listed

Steps == {"idle", "checking", "scanning", "guarding", "reading", "writing", "marking", "closing"}

LEMMA ConsolidatedIsValue ==
  ASSUME NEW txs \in SUBSET Tx, NEW from \in [Tx -> Nat]
  PROVE  /\ Consolidated(txs, from) \in [Tx -> Nat]
         /\ \A t \in Tx :
              Consolidated(txs, from)[t] <= from[t] + (IF t \in txs THEN 1 ELSE 0)
BY DEF Consolidated

LEMMA MissingIsCount ==
  ASSUME missed \in [Tx -> Nat], NEW txs, Missing(txs)
  PROVE  /\ missed' \in [Tx -> Nat]
         /\ \A t \in Tx : missed'[t] = missed[t] + (IF t \in txs THEN 1 ELSE 0)
BY DEF Missing

LEMMA FaultIsCounted ==
  ASSUME faults \in 0 .. MaxFaults, NEW f, Fault(f)
  PROVE  faults' \in 0 .. MaxFaults
BY DEF Fault

LEMMA TypedInit == Init => Typed
<1> SUFFICES ASSUME Init PROVE Typed
  OBVIOUS
<1>1. scenario \in Scenarios /\ record \in BOOLEAN
  BY DEF Init
<1>2. /\ lock = [l \in {"field", "record"} |-> Nobody] /\ pc = [p \in Worker |-> "idle"]
      /\ left = [p \in Worker |-> {}] /\ claim = [p \in Worker |-> NoTicket]
  BY DEF Init
<1>3. /\ \A p \in Worker : left[p] # {} => pc[p] = "marking" /\ left[p] \subseteq list[p]
      /\ \A l \in DOMAIN lock : lock[l] \in Worker => pc[lock[l]] # "idle" /\ kind[lock[l]] # "ticket"
      /\ \A p \in Worker : claim[p] # NoTicket <=> pc[p] # "idle" /\ kind[p] = "ticket"
  BY <1>2
<1>4. value \in [Tx -> Nat] /\ missed \in [Tx -> Nat] /\ base \in [Worker -> [Tx -> Nat]]
  BY DEF Init, Zero
<1>5. faults \in 0 .. MaxFaults /\ applied \subseteq stored /\ stored \subseteq Tx
  BY DEF Init
<1>6. /\ lock \in [{"field", "record"} -> Holder] /\ tickets \in [Ticket -> Tickets \cup {NoTicket}]
      /\ pc \in [Worker -> Steps] /\ kind \in [Worker -> {"field", "record", "ticket"}]
      /\ list \in [Worker -> SUBSET Tx] /\ left \in [Worker -> SUBSET Tx]
      /\ claim \in [Worker -> Ticket \cup {NoTicket}] /\ failed \in [Worker -> BOOLEAN]
      /\ boss \in {"idle", "available", "processing", "creating"} /\ active \in BOOLEAN
      /\ excused \in BOOLEAN
  BY DEF Init, Holder, Steps
<1>7. TypeOK
  BY <1>1, <1>3, <1>4, <1>5, <1>6 DEF TypeOK, Steps
<1> QED
  BY <1>7 DEF Typed, Listed, Init

LEMMA InsertIsTyped ==
  ASSUME Typed, NEW t \in Tx, Insert(t)
  PROVE  Typed'
<1>1. excused' \in BOOLEAN
  BY Zenon DEF Insert
<1>2. /\ stored' = stored \cup {t}
      /\ UNCHANGED <<scenario, applied, record, value, lock, tickets, work, central, missed, faults>>
  BY DEF Insert
<1> QED
  BY <1>1, <1>2 DEF Typed, TypeOK, Listed, work, central

LEMMA BeginIsTyped ==
  ASSUME Typed, NEW p \in Worker,
         \/ \E k \in {"field", "record"} : BeginLocked(p, k)
         \/ \E k \in Ticket : Claim(p, k)
  PROVE  Typed'
<1>1. ASSUME NEW k \in {"field", "record"}, BeginLocked(p, k) PROVE Typed'
  BY <1>1 DEF BeginLocked, Begin, Goto, Typed, TypeOK, Listed, Holder, store, central, ghosts
<1>2. ASSUME NEW k \in Ticket, Claim(p, k) PROVE Typed'
  <2>1. /\ pc[p] = "idle" /\ pc' = [pc EXCEPT ![p] = "checking"]
        /\ kind' = [kind EXCEPT ![p] = "ticket"] /\ failed' = [failed EXCEPT ![p] = FALSE]
        /\ claim' = [claim EXCEPT ![p] = k]
        /\ UNCHANGED <<scenario, store, lock, list, base, left, central, ghosts>>
    BY <1>2 DEF Claim, Begin, Goto
  <2>2. tickets' \in [Ticket -> Tickets \cup {NoTicket}]
    <3>0. tickets[k] # NoTicket
      BY <1>2 DEF Claim
    <3>1. tickets[k] \in Tickets
      BY <3>0 DEF Typed, TypeOK
    <3>2. [tickets[k] EXCEPT !.status = "processing", !.by = p, !.lapsed = FALSE] \in Tickets
      BY <3>1 DEF Tickets, Holder
    <3>3. tickets' = [tickets EXCEPT ![k] =
                        [tickets[k] EXCEPT !.status = "processing", !.by = p, !.lapsed = FALSE]]
      BY <1>2 DEF Claim
    <3> QED
      BY <3>2, <3>3 DEF Typed, TypeOK
  <2>3. TypeOK'
    BY <2>1, <2>2 DEF Typed, TypeOK, store, central, ghosts
  <2> QED
    BY <2>1, <2>3 DEF Typed, TypeOK, Listed, store
<1> QED
  BY <1>1, <1>2

\* A step that leaves locks, tickets and claims alone and moves one call on.
LEMMA MoveIsTyped ==
  ASSUME Typed, NEW p \in Worker, NEW step \in Steps \ {"idle", "checking"},
         pc[p] \notin {"idle", "marking"}, Goto(p, step), step = "guarding" => kind[p] = "field",
         UNCHANGED <<scenario, stored, tickets, kind, claim, central>>, applied' = applied,
         lock' = lock \/ (lock' = [lock EXCEPT !["record"] = p] /\ kind[p] # "ticket"),
         record' \in BOOLEAN, value' \in [Tx -> Nat],
         list' \in [Worker -> SUBSET Tx], list'[p] \subseteq stored,
         \A q \in Worker \ {p} : list'[q] = list[q],
         \/ left' = left
         \/ step = "marking" /\ list' = list /\ left' = [left EXCEPT ![p] = list[p]],
         base' \in [Worker -> [Tx -> Nat]], failed' \in [Worker -> BOOLEAN],
         missed' \in [Tx -> Nat], excused' \in BOOLEAN, faults' \in 0 .. MaxFaults
  PROVE  Typed'
<1>1. pc' = [pc EXCEPT ![p] = step] /\ pc \in [Worker -> Steps]
  BY DEF Goto, Typed, TypeOK, Steps
<1>2. left[p] = {} /\ left \in [Worker -> SUBSET Tx] /\ list \in [Worker -> SUBSET Tx]
  BY DEF Typed, TypeOK
<1>3. ASSUME NEW q \in Worker
      PROVE  left'[q] # {} => pc'[q] = "marking" /\ left'[q] \subseteq list'[q]
  BY <1>1, <1>2 DEF Typed, TypeOK
<1>4. left' \in [Worker -> SUBSET Tx] /\ pc' \in [Worker -> Steps]
  BY <1>1, <1>2
<1>5. /\ lock' \in [{"field", "record"} -> Holder]
      /\ \A l \in DOMAIN lock' : lock'[l] \in Worker =>
           pc'[lock'[l]] # "idle" /\ kind'[lock'[l]] # "ticket"
  <2>1. lock \in [{"field", "record"} -> Holder] /\ p \in Holder
    BY DEF Typed, TypeOK, Holder
  <2>2. lock' \in [{"field", "record"} -> Holder]
    BY <2>1
  <2>3. ASSUME NEW l \in {"field", "record"}, lock'[l] \in Worker
        PROVE  pc'[lock'[l]] # "idle" /\ kind[lock'[l]] # "ticket"
    <3>1. CASE lock'[l] = lock[l]
      BY <1>1, <2>1, <2>3, <3>1 DEF Typed, TypeOK
    <3>2. CASE lock'[l] = p /\ kind[p] # "ticket"
      BY <1>1, <3>2
    <3> QED
      BY <2>1, <3>1, <3>2
  <2> QED
    BY <2>2, <2>3
<1>6. \A q \in Worker : claim'[q] # NoTicket <=> pc'[q] # "idle" /\ kind'[q] = "ticket"
  BY <1>1 DEF Typed, TypeOK
<1>7. TypeOK'
  BY <1>3, <1>4, <1>5, <1>6 DEF Typed, TypeOK, Steps, central
<1>8. Listed'
  BY <1>1 DEF Typed, TypeOK, Listed
<1> QED
  BY <1>7, <1>8 DEF Typed

LEMMA ReadingIsTyped ==
  ASSUME Typed, NEW p \in Worker,
         Scan(p) \/ ScanFails(p) \/ Guard(p) \/ Read(p) \/ ReadFails(p) \/ Write(p) \/ WriteFails(p)
  PROVE  Typed'
<1>0. /\ list[p] \in SUBSET Tx /\ list[p] \subseteq stored /\ base[p] \in [Tx -> Nat]
      /\ value \in [Tx -> Nat] /\ missed \in [Tx -> Nat] /\ record \in BOOLEAN
      /\ stored \subseteq Tx /\ faults \in 0 .. MaxFaults /\ failed \in [Worker -> BOOLEAN]
      /\ base \in [Worker -> [Tx -> Nat]] /\ list \in [Worker -> SUBSET Tx] /\ excused \in BOOLEAN
      /\ left \in [Worker -> SUBSET Tx]
  BY DEF Typed, TypeOK, Listed
<1>1. ASSUME NEW txs \in SUBSET Pending, Scanned(p, txs), excused' \in BOOLEAN, faults' \in 0 .. MaxFaults
      PROVE  Typed'
  <2>1. PICK step \in {"closing", "guarding", "reading"} :
          Goto(p, step) /\ (step = "guarding" => kind[p] = "field")
    BY <1>1 DEF Scanned
  <2>2. /\ pc[p] = "scanning" /\ list' = [list EXCEPT ![p] = txs]
        /\ UNCHANGED <<scenario, store, lock, tickets, kind, base, left, claim, failed, central, missed>>
    BY <1>1 DEF Scanned
  <2> QED
    BY <1>0, <1>1, <2>1, <2>2, MoveIsTyped DEF Pending, store, Steps
<1>2. CASE Scan(p)
  BY <1>0, <1>1, <1>2 DEF Scan, Pending
<1>3. CASE ScanFails(p)
  BY <1>0, <1>1, <1>3, FaultIsCounted DEF ScanFails
<1>4. CASE Guard(p)
  <2>1. PICK step \in {"closing", "reading"} : Goto(p, step)
    BY <1>4 DEF Guard
  <2>2. /\ lock' = lock \/ lock' = [lock EXCEPT !["record"] = p]
        /\ UNCHANGED <<scenario, store, tickets, kind, list, base, left, claim, failed, central, ghosts>>
    BY <1>4 DEF Guard
  <2>3. kind[p] # "ticket"
    BY <1>4 DEF Guard, Typed, Listed
  <2>4. UNCHANGED <<scenario, stored, applied, record, value, tickets, kind, list, base, left, claim,
                    failed, central, missed, excused, faults>>
    BY <2>2 DEF store, ghosts
  <2>5. pc[p] \notin {"idle", "marking"} /\ step \in Steps \ {"idle", "checking"} /\ step # "guarding"
    <3>1. pc[p] = "guarding"
      BY <1>4 DEF Guard
    <3> QED
      BY <2>1, <3>1 DEF Steps
  <2>6. lock' = lock \/ (lock' = [lock EXCEPT !["record"] = p] /\ kind[p] # "ticket")
    BY <2>2, <2>3
  <2> QED
    BY <1>0, <2>1, <2>4, <2>5, <2>6, MoveIsTyped
<1>5. ASSUME Read(p) \/ ReadFails(p)
      PROVE  /\ pc[p] = "reading" /\ base' \in [Worker -> [Tx -> Nat]] /\ failed' \in [Worker -> BOOLEAN]
             /\ \E step \in {"closing", "writing"} : Goto(p, step)
  <2>1. \/ base' = base
        \/ base' = [base EXCEPT ![p] = value]
        \/ base' = [base EXCEPT ![p] = Zero]
    BY <1>5 DEF Read, ReadFails
  <2>2. pc[p] = "reading"
    BY <1>5 DEF Read, ReadFails
  <2>3. failed' = failed \/ failed' = [failed EXCEPT ![p] = TRUE]
    BY <1>5 DEF Read, ReadFails, GiveUp
  <2>4. base' \in [Worker -> [Tx -> Nat]]
    <3>1. Zero \in [Tx -> Nat]
      BY DEF Zero
    <3>2. base \in [Worker -> [Tx -> Nat]] /\ value \in [Tx -> Nat]
      BY <1>0
    <3> QED
      BY <2>1, <3>1, <3>2
  <2>5. failed' \in [Worker -> BOOLEAN]
    BY <1>0, <2>3
  <2>6. \E step \in {"closing", "writing"} : Goto(p, step)
    BY <1>5 DEF Read, ReadFails, GiveUp
  <2> QED
    BY <2>2, <2>4, <2>5, <2>6
<1>6. CASE Read(p)
  <2>1. PICK step \in {"closing", "writing"} : Goto(p, step)
    BY <1>5, <1>6
  <2>2. UNCHANGED <<scenario, store, lock, tickets, kind, list, left, claim, central, ghosts>>
    BY <1>6 DEF Read
  <2>3. UNCHANGED <<stored, applied, record, value, missed, excused, faults>>
    BY <2>2 DEF store, ghosts
  <2> QED
    BY <1>0, <1>5, <1>6, <2>1, <2>2, <2>3, MoveIsTyped DEF Steps
<1>7. CASE ReadFails(p)
  <2>1. PICK step \in {"closing", "writing"} : Goto(p, step)
    BY <1>5, <1>7
  <2>2. UNCHANGED <<scenario, store, lock, tickets, kind, list, left, claim, central, missed>>
    BY <1>7 DEF ReadFails
  <2>3. UNCHANGED <<stored, applied, record, value>>
    BY <2>2 DEF store
  <2>4. faults' \in 0 .. MaxFaults
    BY <1>0, <1>7, FaultIsCounted DEF ReadFails
  <2>5. excused' \in BOOLEAN
    BY <1>0, <1>7 DEF ReadFails
  <2> QED
    BY <1>0, <1>5, <1>7, <2>1, <2>2, <2>3, <2>4, <2>5, MoveIsTyped DEF Steps
<1>8. CASE Write(p)
  BY <1>0, <1>8, MoveIsTyped, ConsolidatedIsValue DEF Write, Steps, ghosts
<1>9. CASE WriteFails(p)
  <2>1. value' \in [Tx -> Nat] /\ record' \in BOOLEAN /\ missed' \in [Tx -> Nat]
    <3>1. Consolidated(list[p], base[p]) \in [Tx -> Nat]
      BY <1>0, ConsolidatedIsValue
    <3>2. /\ value' = value \/ value' = Consolidated(list[p], base[p])
          /\ record' = record \/ record' = TRUE
          /\ missed' = missed \/ Missing(list[p])
      BY <1>9 DEF WriteFails
    <3> QED
      BY <1>0, <3>1, <3>2, MissingIsCount
  <2> QED
    BY <1>0, <1>9, <2>1, MoveIsTyped, FaultIsCounted DEF WriteFails, GiveUp, Steps
<1> QED
  BY <1>2, <1>3, <1>4, <1>6, <1>7, <1>8, <1>9

LEMMA MarkingIsTyped ==
  ASSUME Typed, NEW p \in Worker, NEW t \in Tx, Mark(p, t) \/ MarkFails(p, t)
  PROVE  Typed'
<1>1. /\ pc[p] = "marking" /\ t \in left[p] /\ left' = [left EXCEPT ![p] = left[p] \ {t}]
      /\ UNCHANGED <<scenario, stored, record, value, lock, tickets, pc, kind, list, base, claim,
                     central, excused>>
  <2>1. CASE Mark(p, t)
    BY <2>1 DEF Mark, ghosts
  <2>2. CASE MarkFails(p, t)
    BY <2>2 DEF MarkFails, store
  <2> QED
    BY <2>1, <2>2
<1>2. /\ left' \in [Worker -> SUBSET Tx]
      /\ \A q \in Worker : left'[q] # {} => pc'[q] = "marking" /\ left'[q] \subseteq list'[q]
  BY <1>1 DEF Typed, TypeOK
<1>3. t \in stored
  BY <1>1 DEF Typed, TypeOK, Listed
<1>4. applied' \subseteq stored
  BY <1>3 DEF Mark, MarkFails, store, Typed, TypeOK
<1>5. missed' \in [Tx -> Nat] /\ faults' \in 0 .. MaxFaults
  BY MissingIsCount, FaultIsCounted DEF Mark, MarkFails, ghosts, Typed, TypeOK
<1>6. failed' \in [Worker -> BOOLEAN]
  BY DEF Mark, MarkFails, Typed, TypeOK
<1>7. TypeOK'
  BY <1>1, <1>2, <1>4, <1>5, <1>6 DEF Typed, TypeOK, central
<1> QED
  BY <1>1, <1>7 DEF Typed, Listed

LEMMA ReleasedIsTicket ==
  ASSUME NEW x \in Tickets
  PROVE  /\ Released(x) \in Tickets \cup {NoTicket}
         /\ Released([x EXCEPT !.expired = FALSE]) \in Tickets \cup {NoTicket}
<1>1. [x EXCEPT !.expired = FALSE] \in Tickets
  BY DEF Tickets
<1>2. ASSUME NEW y \in Tickets PROVE Released(y) \in Tickets \cup {NoTicket}
  <2>1. y.tries \in 0 .. MaxRetries /\ Nobody \in Holder
    BY DEF Tickets, Holder
  <2>2. CASE y.tries = MaxRetries
    BY <2>2 DEF Released
  <2>3. CASE y.tries # MaxRetries
    <3>1. y.tries + 1 \in 0 .. MaxRetries
      BY <2>1, <2>3
    <3>2. [y EXCEPT !.status = "available", !.by = Nobody, !.tries = y.tries + 1] \in Tickets
      BY <2>1, <3>1 DEF Tickets
    <3> QED
      BY <2>3, <3>2 DEF Released
  <2> QED
    BY <2>2, <2>3
<1> QED
  BY <1>1, <1>2

\* A worker leaves: it comes to the end, its claim turns out void, or it dies.
LEMMA LeavingIsTyped ==
  ASSUME Typed, NEW p \in Worker, Goto(p, "idle"), claim' = [claim EXCEPT ![p] = NoTicket],
         NEW heir \in {Nobody, Dead},
         \/ lock' = [l \in DOMAIN lock |-> IF lock[l] = p THEN heir ELSE lock[l]]
         \/ lock' = lock /\ kind[p] = "ticket",
         tickets' \in [Ticket -> Tickets \cup {NoTicket}],
         \/ left' = left /\ left[p] = {}
         \/ left' = [left EXCEPT ![p] = {}],
         UNCHANGED <<scenario, stored, applied, record, value, kind, list, base, failed, central, excused>>,
         missed' \in [Tx -> Nat], faults' \in 0 .. MaxFaults
  PROVE  Typed'
<1>1. pc' = [pc EXCEPT ![p] = "idle"] /\ pc \in [Worker -> Steps]
  BY DEF Goto, Typed, TypeOK, Steps
<1>2. pc' \in [Worker -> Steps]
  BY <1>1 DEF Steps
<1>3. /\ left' \in [Worker -> SUBSET Tx]
      /\ \A q \in Worker : left'[q] # {} => pc'[q] = "marking" /\ left'[q] \subseteq list'[q]
  BY <1>1 DEF Typed, TypeOK
<1>4. /\ lock' \in [{"field", "record"} -> Holder]
      /\ \A l \in DOMAIN lock' : lock'[l] \in Worker =>
           pc'[lock'[l]] # "idle" /\ kind'[lock'[l]] # "ticket"
  <2>1. lock \in [{"field", "record"} -> Holder] /\ heir \in Holder /\ heir \notin Worker
    BY DEF Typed, TypeOK, Holder
  <2>2. lock' \in [{"field", "record"} -> Holder]
    BY <2>1
  <2>3. ASSUME NEW l \in {"field", "record"}, lock'[l] \in Worker
        PROVE  pc'[lock'[l]] # "idle" /\ kind'[lock'[l]] # "ticket"
    <3>1. lock'[l] = lock[l] /\ lock[l] # p
      BY <2>1, <2>3 DEF Typed, TypeOK
    <3> QED
      BY <1>1, <2>1, <2>3, <3>1 DEF Typed, TypeOK
  <2> QED
    BY <2>2, <2>3
<1>5. /\ claim' \in [Worker -> Ticket \cup {NoTicket}]
      /\ \A q \in Worker : claim'[q] # NoTicket <=> pc'[q] # "idle" /\ kind'[q] = "ticket"
  BY <1>1 DEF Typed, TypeOK
<1>6. TypeOK'
  BY <1>2, <1>3, <1>4, <1>5 DEF Typed, TypeOK, Steps, central
<1> QED
  BY <1>1, <1>6 DEF Typed, TypeOK, Listed

LEMMA CheckIsTyped ==
  ASSUME Typed, NEW p \in Worker, Check(p)
  PROVE  Typed'
<1>1. pc[p] = "checking" /\ kind[p] = "ticket" /\ left[p] = {}
  BY DEF Check, Typed, TypeOK, Listed
<1>2. UNCHANGED <<scenario, store, lock, tickets, kind, list, base, left, failed, central, ghosts>>
  BY DEF Check
<1>3. UNCHANGED <<stored, applied, record, value, missed, excused, faults>>
  BY <1>2 DEF store, ghosts
<1>4. CASE Goto(p, "scanning") /\ UNCHANGED claim
  BY <1>1, <1>2, <1>3, <1>4, MoveIsTyped DEF Steps, Typed, TypeOK, Listed
<1>5. CASE Goto(p, "idle") /\ claim' = [claim EXCEPT ![p] = NoTicket]
  BY <1>1, <1>2, <1>3, <1>5, LeavingIsTyped DEF Typed, TypeOK
<1> QED
  BY <1>4, <1>5 DEF Check

LEMMA CloseIsTyped ==
  ASSUME Typed, NEW p \in Worker, Close(p)
  PROVE  Typed'
<1>1. left[p] = {}
  BY DEF Close, Finished, Typed, TypeOK
<1>2. /\ Goto(p, "idle") /\ claim' = [claim EXCEPT ![p] = NoTicket]
      /\ lock' = [l \in DOMAIN lock |-> IF lock[l] = p THEN Nobody ELSE lock[l]]
      /\ UNCHANGED <<scenario, stored, applied, record, value, kind, list, base, left, failed, central,
                     missed, excused, faults>>
  BY DEF Close, store, ghosts
<1>3. tickets' \in [Ticket -> Tickets \cup {NoTicket}]
  <2>1. CASE UNCHANGED tickets
    BY <2>1 DEF Typed, TypeOK
  <2>2. CASE claim[p] # NoTicket /\ failed[p] /\ Holds(p, claim[p]) /\
             tickets' = [tickets EXCEPT ![claim[p]] =
                           Released([tickets[claim[p]] EXCEPT !.expired = FALSE])]
    <3>1. tickets[claim[p]] \in Tickets
      BY <2>2 DEF Holds, Typed, TypeOK
    <3> QED
      BY <2>2, <3>1, ReleasedIsTicket DEF Typed, TypeOK
  <2>3. CASE tickets' = [tickets EXCEPT ![claim[p]] = NoTicket]
    BY <2>3 DEF Typed, TypeOK
  <2>4. \/ UNCHANGED tickets
        \/ claim[p] # NoTicket /\ ~(failed[p] /\ ~Holds(p, claim[p])) /\
           tickets' = [tickets EXCEPT ![claim[p]] =
             IF failed[p] THEN Released([tickets[claim[p]] EXCEPT !.expired = FALSE]) ELSE NoTicket]
    BY DEF Close
  <2> QED
    BY <2>1, <2>2, <2>3, <2>4
<1> QED
  BY <1>1, <1>2, <1>3, LeavingIsTyped DEF Typed, TypeOK

LEMMA CrashIsTyped ==
  ASSUME Typed, NEW p \in Worker, Crash(p)
  PROVE  Typed'
<1>1. tickets' \in [Ticket -> Tickets \cup {NoTicket}]
  <2>1. tickets' = [k \in Ticket |-> IF Holds(p, k) THEN [tickets[k] EXCEPT !.by = Dead] ELSE tickets[k]]
    BY DEF Crash
  <2>2. ASSUME NEW k \in Ticket, Holds(p, k)
        PROVE  [tickets[k] EXCEPT !.by = Dead] \in Tickets
    <3>1. tickets[k] \in Tickets
      BY <2>2 DEF Holds, Typed, TypeOK
    <3> QED
      BY <3>1 DEF Tickets, Holder
  <2> QED
    BY <2>1, <2>2 DEF Typed, TypeOK
<1>2. /\ Goto(p, "idle") /\ claim' = [claim EXCEPT ![p] = NoTicket]
      /\ lock' = [l \in DOMAIN lock |-> IF lock[l] = p THEN Dead ELSE lock[l]]
      /\ left' = [left EXCEPT ![p] = {}]
      /\ UNCHANGED <<scenario, stored, applied, record, value, kind, list, base, failed, central, excused>>
  BY DEF Crash, store
<1>3. missed' \in [Tx -> Nat] /\ faults' \in 0 .. MaxFaults
  BY MissingIsCount, FaultIsCounted DEF Crash, Typed, TypeOK
<1> QED
  BY <1>1, <1>2, <1>3, LeavingIsTyped

\* The coordinator and the clock change tickets and nothing else.
LEMMA TicketsAreTyped ==
  ASSUME Typed, tickets' \in [Ticket -> Tickets \cup {NoTicket}],
         boss' \in {"idle", "available", "processing", "creating"}, active' \in BOOLEAN,
         faults' \in 0 .. MaxFaults,
         UNCHANGED <<scenario, store, lock, work, missed, excused>>
  PROVE  Typed'
<1>1. UNCHANGED <<stored, applied, record, value, pc, kind, list, base, left, claim, failed>>
  BY DEF store, work
<1>2. TypeOK'
  BY <1>1 DEF Typed, TypeOK
<1> QED
  BY <1>1, <1>2 DEF Typed, Listed

LEMMA CoordinateIsTyped ==
  ASSUME Typed, Coordinate
  PROVE  Typed'
<1>0. /\ tickets \in [Ticket -> Tickets \cup {NoTicket}] /\ active \in BOOLEAN
      /\ faults \in 0 .. MaxFaults
  BY DEF Typed, TypeOK
<1>1. CASE ReclaimStaleTickets
  <2>1. ASSUME NEW k \in Ticket PROVE Reclaimed(tickets[k]) \in Tickets \cup {NoTicket}
    BY <1>0, ReleasedIsTicket DEF Reclaimed
  <2>2. tickets' \in [Ticket -> Tickets \cup {NoTicket}]
    BY <1>1, <2>1 DEF ReclaimStaleTickets
  <2>3. /\ boss' = "available" /\ active' = FALSE /\ UNCHANGED <<scenario, store, lock, work, ghosts>>
    BY <1>1 DEF ReclaimStaleTickets
  <2> QED
    BY <1>0, <2>2, <2>3, TicketsAreTyped DEF ghosts
<1>2. ASSUME NEW s \in {"available", "processing"}, NEW next \in {"processing", "creating"},
             ListTickets(s, next)
      PROVE  Typed'
  <2>1. active' \in BOOLEAN
    BY <1>2, Zenon DEF ListTickets
  <2>2. boss' = next /\ UNCHANGED <<scenario, store, lock, tickets, work, ghosts>>
    BY <1>2 DEF ListTickets
  <2> QED
    BY <1>0, <2>1, <2>2, TicketsAreTyped DEF ghosts
<1>3. CASE CreateTicket
  <2>1. NewTicket \in Tickets
    BY DEF NewTicket, Tickets, Holder
  <2>2. tickets' = tickets \/ \E k \in Ticket : tickets' = [tickets EXCEPT ![k] = NewTicket]
    BY <1>3 DEF CreateTicket
  <2>3. tickets' \in [Ticket -> Tickets \cup {NoTicket}]
    BY <1>0, <2>1, <2>2
  <2>4. boss' = "idle" /\ UNCHANGED <<scenario, store, lock, work, active, ghosts>>
    BY <1>3 DEF CreateTicket
  <2> QED
    BY <1>0, <2>3, <2>4, TicketsAreTyped DEF ghosts
<1> QED
  BY <1>1, <1>2, <1>3 DEF Coordinate

LEMMA ClockIsTyped ==
  ASSUME Typed, NEW k \in Ticket, Expire(k) \/ LapseOfDead(k) \/ LapseOfSlow(k)
  PROVE  Typed'
<1>0. tickets \in [Ticket -> Tickets \cup {NoTicket}] /\ faults \in 0 .. MaxFaults
  BY DEF Typed, TypeOK
<1>1. tickets[k] # NoTicket
  BY DEF Expire, LapseOfDead, LapseOfSlow, Lapse
<1>2. tickets' = [tickets EXCEPT ![k].expired = TRUE] \/ tickets' = [tickets EXCEPT ![k].lapsed = TRUE]
  BY DEF Expire, LapseOfDead, LapseOfSlow, Lapse
<1>3. tickets' \in [Ticket -> Tickets \cup {NoTicket}]
  <2>1. tickets[k] \in Tickets
    BY <1>0, <1>1
  <2>2. [tickets[k] EXCEPT !.expired = TRUE] \in Tickets /\ [tickets[k] EXCEPT !.lapsed = TRUE] \in Tickets
    BY <2>1 DEF Tickets
  <2> QED
    BY <1>0, <1>2, <2>2
<1>4. faults' \in 0 .. MaxFaults
  BY <1>0, FaultIsCounted DEF Expire, LapseOfDead, LapseOfSlow
<1>5. UNCHANGED <<scenario, store, lock, work, central, missed, excused>>
  BY DEF Expire, LapseOfDead, LapseOfSlow, Lapse
<1>6. UNCHANGED <<boss, active>>
  BY <1>5 DEF central
<1> QED
  BY <1>3, <1>4, <1>5, <1>6, TicketsAreTyped DEF Typed, TypeOK

LEMMA TypedStep == Typed /\ [Next]_vars => Typed'
<1>1. Typed /\ UNCHANGED vars => Typed'
  BY DEF Typed, TypeOK, Listed, vars, store, work, central, ghosts
<1>2. ASSUME Typed, NEW p \in Worker, Continue(p) PROVE Typed'
  BY <1>2, CheckIsTyped, ReadingIsTyped, CloseIsTyped, MarkingIsTyped DEF Continue
<1>3. ASSUME Typed, NEW p \in Worker, Fails(p) PROVE Typed'
  BY <1>3, ReadingIsTyped, MarkingIsTyped, CrashIsTyped DEF Fails
<1> QED
  BY <1>1, <1>2, <1>3, InsertIsTyped, BeginIsTyped, CoordinateIsTyped, ClockIsTyped DEF Next

\* Every variable keeps its type in all scenarios; a lock or a ticket held by a live
\* worker is held by one at work under it, which marks only what it has listed.
THEOREM ConsolidationTypeCorrect == Spec => []TypeOK
<1>1. Typed => TypeOK
  BY DEF Typed
<1> QED
  BY <1>1, TypedInit, TypedStep, PTL DEF Spec

-----------------------------------------------------------------------------
(* One worker at a time.  Where one entry point runs under one lock the    *)
(* lock sees to it.  Tickets do if none is released for a retry: a new one *)
(* is made when neither of two lists has shown a live one, and a ticket    *)
(* that was available at the first and claimed since is in processing at   *)
(* the second.  Nothing then changes between a worker's scan, its read,    *)
(* its write and its marks but what is added.                              *)

UnderOneLock(s) == \E k \in {"field", "record"} : s.kinds = {k}
OneWorker(s) == \A p, q \in s.workers : p = q
\* What releases a ticket is left out, and workers that outlast their tickets.
UnderOneTicket(s) ==
  /\ s.kinds = {"ticket"} /\ s.records = {TRUE}
  /\ s.faults \cap {"read", "write", "mark", "overrun"} = {}

OneAtATime == \A s \in Scenarios : UnderOneLock(s) \/ OneWorker(s) \/ UnderOneTicket(s)

AtWork(p) == pc[p] \notin {"idle", "checking"}
Live(k) == tickets[k] # NoTicket /\ ~tickets[k].expired

Serial ==
  \A p \in Worker : pc[p] # "idle" =>
    /\ p \in scenario.workers /\ kind[p] \in scenario.kinds
    /\ kind[p] # "ticket" => lock[kind[p]] = p

Lasting(p, k) == Holds(p, k) /\ ~tickets[k].expired /\ ~tickets[k].lapsed

OneTicket ==
  /\ record /\ \A p \in Worker : ~failed[p]
  /\ \A j, k \in Ticket : Live(j) /\ Live(k) => j = k
  /\ \A p \in Worker : AtWork(p) => Lasting(p, claim[p])
  /\ boss = "processing" /\ ~active => \A k \in Ticket : Live(k) => tickets[k].status = "processing"
  /\ boss = "creating" /\ ~active => \A k \in Ticket : ~Live(k)

Marking(t) == \E p \in Worker : t \in left[p]
Counts(t) == t \in applied \/ Marking(t)     \* applied, or written and about to be

Working(p) == pc[p] \in {"guarding", "reading", "writing"}

Fresh ==
  \A p \in Worker :
    /\ Working(p) => list[p] \cap applied = {}
    /\ pc[p] = "writing" => \A t \in Tx : base[p][t] <= value[t]

Counted == \A t \in Tx : value[t] <= missed[t] + (IF Counts(t) THEN 1 ELSE 0)

Turns == Serial /\ (UnderOneTicket(scenario) => OneTicket)

Locked == Typed /\ Turns /\ Fresh /\ Counted

LEMMA LockedInit == ASSUME Init PROVE Locked
<1>1. /\ pc = [p \in Worker |-> "idle"] /\ value = [t \in Tx |-> 0] /\ missed = [t \in Tx |-> 0]
      /\ tickets = [k \in Ticket |-> NoTicket] /\ failed = [p \in Worker |-> FALSE]
      /\ boss = "idle" /\ record \in scenario.records
  BY DEF Init, Zero
<1>2. Serial
  BY <1>1 DEF Serial
<1>3. UnderOneTicket(scenario) => OneTicket
  BY <1>1 DEF UnderOneTicket, OneTicket, AtWork, Live
<1> QED
  BY <1>1, <1>2, <1>3, TypedInit DEF Locked, Turns, Fresh, Working, Counted

\* Whoever is at work is alone.
LEMMA Alone ==
  ASSUME OneAtATime, Typed, Turns, NEW p \in Worker, AtWork(p)
  PROVE  /\ \A q \in Worker \ {p} : ~AtWork(q) /\ left[q] = {}
         /\ \A t : Marking(t) <=> t \in left[p]
<1>1. ASSUME NEW q \in Worker, AtWork(q) PROVE q = p
  <2>0. pc[p] # "idle" /\ pc[q] # "idle"
    BY <1>1 DEF AtWork
  <2>1. CASE UnderOneLock(scenario)
    BY <2>0, <2>1 DEF UnderOneLock, Turns, Serial
  <2>2. CASE OneWorker(scenario)
    BY <2>0, <2>2 DEF OneWorker, Turns, Serial
  <2>3. CASE UnderOneTicket(scenario)
    <3>1. kind[p] = "ticket" /\ kind[q] = "ticket"
      BY <2>0, <2>3 DEF UnderOneTicket, Turns, Serial
    <3>2. claim[p] \in Ticket /\ claim[q] \in Ticket
      BY <2>0, <3>1 DEF Typed, TypeOK
    <3>3. Lasting(p, claim[p]) /\ Lasting(q, claim[q])
      BY <1>1, <2>3 DEF Turns, OneTicket
    <3>4. claim[p] = claim[q]
      BY <2>3, <3>2, <3>3 DEF Turns, OneTicket, Live, Lasting, Holds
    <3> QED
      BY <3>3, <3>4 DEF Lasting, Holds
  <2> QED
    BY <2>1, <2>2, <2>3 DEF OneAtATime, Typed, TypeOK
<1>2. \A q \in Worker \ {p} : ~AtWork(q) /\ left[q] = {}
  BY <1>1 DEF AtWork, Typed, TypeOK
<1> QED
  BY <1>2 DEF Marking

-----------------------------------------------------------------------------
(* Locks and tickets are kept until their worker lets them go.             *)

\* One who is at it moves on and keeps its locks, or lets them go and is idle.
LEMMA MoveIsSerial ==
  ASSUME Typed, Serial, NEW p \in Worker, pc[p] # "idle", NEW step \in Steps, Goto(p, step),
         UNCHANGED <<scenario, kind>>, NEW heir,
         \/ lock' = lock
         \/ lock["record"] = Nobody /\ lock' = [lock EXCEPT !["record"] = p]
         \/ step = "idle" /\ lock' = [l \in DOMAIN lock |-> IF lock[l] = p THEN heir ELSE lock[l]]
  PROVE  Serial'
<1>1. /\ pc' = [pc EXCEPT ![p] = step] /\ pc \in [Worker -> Steps]
      /\ kind \in [Worker -> {"field", "record", "ticket"}]
      /\ lock \in [{"field", "record"} -> Holder]
  BY DEF Goto, Typed, TypeOK, Steps
<1>2. ASSUME NEW q \in Worker, pc'[q] # "idle"
      PROVE  /\ q \in scenario.workers /\ kind[q] \in scenario.kinds
             /\ kind[q] # "ticket" => lock'[kind[q]] = q
  <2>1. /\ pc[q] # "idle" /\ q \in scenario.workers /\ kind[q] \in scenario.kinds
        /\ kind[q] # "ticket" => lock[kind[q]] = q
    BY <1>1, <1>2 DEF Serial
  <2>2. CASE kind[q] = "ticket"
    BY <2>1, <2>2
  <2>3. CASE lock["record"] = Nobody /\ lock' = [lock EXCEPT !["record"] = p]
    BY <1>1, <2>1, <2>2, <2>3
  <2>4. CASE step = "idle" /\ lock' = [l \in DOMAIN lock |-> IF lock[l] = p THEN heir ELSE lock[l]]
    BY <1>1, <1>2, <2>1, <2>2, <2>4
  <2> QED
    BY <2>1, <2>3, <2>4
<1> QED
  BY <1>2 DEF Serial

\* A lock is taken while it is free.
LEMMA BeginIsSerial ==
  ASSUME Typed, Serial, NEW p \in Worker, NEW k \in {"field", "record"}, BeginLocked(p, k)
  PROVE  Serial'
<1>1. /\ pc[p] = "idle" /\ k \in scenario.kinds /\ p \in scenario.workers /\ lock[k] = Nobody
      /\ pc' = [pc EXCEPT ![p] = "scanning"] /\ kind' = [kind EXCEPT ![p] = k]
      /\ lock' = [lock EXCEPT ![k] = p] /\ UNCHANGED scenario
  BY DEF BeginLocked, Begin, Goto
<1>2. /\ pc \in [Worker -> Steps] /\ kind \in [Worker -> {"field", "record", "ticket"}]
      /\ lock \in [{"field", "record"} -> Holder]
  BY DEF Typed, TypeOK, Steps
<1>3. ASSUME NEW q \in Worker, pc'[q] # "idle"
      PROVE  /\ q \in scenario.workers /\ kind'[q] \in scenario.kinds
             /\ kind'[q] # "ticket" => lock'[kind'[q]] = q
  <2>1. CASE q = p
    BY <1>1, <1>2, <2>1
  <2>2. CASE q # p
    <3>1. /\ pc[q] # "idle" /\ kind'[q] = kind[q] /\ q \in scenario.workers /\ kind[q] \in scenario.kinds
          /\ kind[q] # "ticket" => lock[kind[q]] = q /\ kind[q] # k
      BY <1>1, <1>2, <1>3, <2>2 DEF Serial
    <3> QED
      BY <1>1, <1>2, <3>1
  <2> QED
    BY <2>1, <2>2
<1> QED
  BY <1>1, <1>3 DEF Serial

LEMMA SerialStep == Typed /\ Serial /\ [Next]_vars => Serial'
<1> SUFFICES ASSUME Typed, Serial, [Next]_vars PROVE Serial'
  OBVIOUS
<1>1. ASSUME NEW p \in Worker, NEW k \in Ticket, Claim(p, k) PROVE Serial'
  <2>1. /\ pc' = [pc EXCEPT ![p] = "checking"] /\ kind' = [kind EXCEPT ![p] = "ticket"]
        /\ "ticket" \in scenario.kinds /\ p \in scenario.workers /\ UNCHANGED <<scenario, lock>>
    BY <1>1 DEF Claim, Begin, Goto
  <2> QED
    BY <2>1 DEF Serial, Typed, TypeOK
<1>2. ASSUME NEW p \in Worker,
             \/ Check(p) \/ Scan(p) \/ ScanFails(p) \/ Guard(p) \/ Read(p) \/ ReadFails(p)
             \/ Write(p) \/ WriteFails(p) \/ Close(p) \/ Crash(p)
      PROVE  Serial'
  <2>1. pc[p] # "idle"
    BY <1>2 DEF Check, Scan, ScanFails, Scanned, Guard, Read, ReadFails, Write, WriteFails, Close,
                Finished, Crash
  <2>2. UNCHANGED <<scenario, kind>>
    BY <1>2, Zenon DEF Check, Scan, ScanFails, Scanned, Guard, Read, ReadFails, Write, WriteFails, Close, Crash
  <2>3. CASE Close(p) \/ Crash(p)
    <3>1. PICK heir \in {Nobody, Dead} : lock' = [l \in DOMAIN lock |-> IF lock[l] = p THEN heir ELSE lock[l]]
      BY <2>3 DEF Close, Crash
    <3>2. Goto(p, "idle")
      BY <2>3 DEF Close, Crash
    <3> QED
      BY <2>1, <2>2, <3>1, <3>2, MoveIsSerial DEF Steps
  <2>4. CASE Guard(p)
    <3>1. PICK step \in Steps : Goto(p, step)
      BY <2>4 DEF Guard, Steps
    <3>2. lock' = lock \/ (lock["record"] = Nobody /\ lock' = [lock EXCEPT !["record"] = p])
      BY <2>4 DEF Guard
    <3> QED
      BY <2>1, <2>2, <3>1, <3>2, MoveIsSerial
  <2>5. CASE Check(p) \/ Scan(p) \/ ScanFails(p) \/ Read(p) \/ ReadFails(p) \/ Write(p) \/ WriteFails(p)
    <3>1. PICK step \in Steps : Goto(p, step)
      BY <2>5 DEF Check, Scan, ScanFails, Scanned, Read, ReadFails, Write, WriteFails, GiveUp, Steps
    <3>2. lock' = lock
      BY <2>5, Zenon DEF Check, Scan, ScanFails, Scanned, Read, ReadFails, Write, WriteFails
    <3> QED
      BY <2>1, <2>2, <3>1, <3>2, MoveIsSerial
  <2> QED
    BY <1>2, <2>3, <2>4, <2>5
<1>3. ASSUME \/ \E p \in Worker, t \in Tx : Mark(p, t) \/ MarkFails(p, t)
             \/ \E t \in Tx : Insert(t)
             \/ Coordinate
             \/ \E k \in Ticket : Expire(k) \/ LapseOfDead(k) \/ LapseOfSlow(k)
             \/ UNCHANGED vars
      PROVE  Serial'
  <2>1. UNCHANGED <<scenario, lock, pc, kind>>
    BY <1>3 DEF Mark, MarkFails, Insert, Coordinate, ReclaimStaleTickets, ListTickets, CreateTicket,
                Expire, LapseOfDead, LapseOfSlow, Lapse, vars, work
  <2> QED
    BY <2>1 DEF Serial
<1> QED
  BY <1>1, <1>2, <1>3, BeginIsSerial DEF Next, Continue, Fails

-----------------------------------------------------------------------------
(* Tickets exclude, where none is released for a retry.                    *)

\* Who is at work stays so under the same ticket, or is not at work any more.
LEMMA MoveKeepsTicket ==
  ASSUME OneTicket, record', \A p \in Worker : AtWork(p)' => AtWork(p) /\ claim'[p] = claim[p],
         UNCHANGED <<tickets, failed, boss, active>>
  PROVE  OneTicket'
BY DEF OneTicket, Lasting, Holds, Live

\* The ticket of one at work stays as it is, and no other comes to life.
LEMMA FewerTickets ==
  ASSUME OneTicket, record', UNCHANGED <<failed, boss, active>>,
         \A p \in Worker : AtWork(p)' => /\ AtWork(p) /\ claim'[p] = claim[p]
                                         /\ tickets'[claim[p]] = tickets[claim[p]],
         \A k \in Ticket : Live(k)' => Live(k) /\ tickets'[k].status = tickets[k].status
  PROVE  OneTicket'
<1>1. \A p \in Worker : AtWork(p)' => Lasting(p, claim[p])'
  BY DEF OneTicket, Lasting, Holds
<1> QED
  BY <1>1 DEF OneTicket

LEMMA WorkKeepsTicket ==
  ASSUME Typed, OneTicket, UnderOneTicket(scenario), NEW p \in Worker,
         \/ Scan(p) \/ ScanFails(p) \/ Guard(p) \/ Read(p) \/ ReadFails(p) \/ Write(p) \/ WriteFails(p)
         \/ \E t \in Tx : Mark(p, t) \/ MarkFails(p, t)
  PROVE  OneTicket'
<1>0. record /\ pc \in [Worker -> Steps]
  BY DEF OneTicket, Typed, TypeOK, Steps
<1>1. ~ReadFails(p) /\ ~WriteFails(p) /\ \A t \in Tx : ~MarkFails(p, t)
  BY DEF UnderOneTicket, ReadFails, WriteFails, MarkFails, Fault
<1>2. UNCHANGED <<tickets, failed, boss, active, claim>> /\ record'
  <2>1. CASE Scan(p) \/ ScanFails(p) \/ Guard(p)
    BY <1>0, <2>1 DEF Scan, ScanFails, Scanned, Guard, store, central
  <2>2. CASE Read(p)
    BY <1>0, <2>2 DEF Read, store, central
  <2>3. CASE Write(p) \/ \E t \in Tx : Mark(p, t)
    BY <1>0, <2>3 DEF Write, Mark, central
  <2> QED
    BY <1>1, <2>1, <2>2, <2>3
<1>3. AtWork(p)
  BY <1>1 DEF Scan, ScanFails, Scanned, Guard, Read, Write, Mark, AtWork
<1>4. \A q \in Worker : q # p => pc'[q] = pc[q]
  BY <1>0, <1>1 DEF Scan, ScanFails, Scanned, Guard, Read, Write, Mark, GiveUp, Goto
<1> QED
  BY <1>2, <1>3, <1>4, MoveKeepsTicket DEF AtWork

LEMMA ClaimKeepsTicket ==
  ASSUME Typed, OneTicket, NEW p \in Worker, NEW k \in Ticket, Claim(p, k)
  PROVE  OneTicket'
<1>0. /\ tickets \in [Ticket -> Tickets \cup {NoTicket}] /\ pc \in [Worker -> Steps]
      /\ claim \in [Worker -> Ticket \cup {NoTicket}] /\ failed \in [Worker -> BOOLEAN]
  BY DEF Typed, TypeOK, Steps
<1>1. /\ pc[p] = "idle" /\ pc' = [pc EXCEPT ![p] = "checking"] /\ claim' = [claim EXCEPT ![p] = k]
      /\ failed' = [failed EXCEPT ![p] = FALSE]
      /\ tickets[k] # NoTicket /\ tickets[k].status = "available" /\ ~tickets[k].expired
      /\ tickets' = [tickets EXCEPT ![k] =
                       [tickets[k] EXCEPT !.status = "processing", !.by = p, !.lapsed = FALSE]]
      /\ UNCHANGED <<record, boss, active>>
  BY DEF Claim, Begin, Goto, store, central
<1>2. /\ tickets'[k].status = "processing" /\ tickets'[k].expired = tickets[k].expired
      /\ \A j \in Ticket : j # k => tickets'[j] = tickets[j]
  BY <1>0, <1>1 DEF Tickets
<1>3. \A j \in Ticket : Live(j)' => Live(j)
  BY <1>1, <1>2 DEF Live
<1>4. Live(k)
  BY <1>1 DEF Live
<1>5. ASSUME NEW q \in Worker, AtWork(q)' PROVE Lasting(q, claim[q])'
  <2>1. AtWork(q) /\ q # p /\ claim'[q] = claim[q]
    BY <1>0, <1>1, <1>5 DEF AtWork
  <2>2. Lasting(q, claim[q])
    BY <2>1 DEF OneTicket
  <2>3. claim[q] # k
    BY <1>1, <2>2 DEF Lasting, Holds
  <2>4. tickets'[claim[q]] = tickets[claim[q]]
    BY <1>0, <1>1, <2>3
  <2> QED
    BY <2>1, <2>2, <2>4 DEF Lasting, Holds
<1>6. /\ record' /\ \A q \in Worker : ~failed'[q]
  BY <1>0, <1>1 DEF OneTicket
<1>7. \A i, j \in Ticket : Live(i)' /\ Live(j)' => i = j
  BY <1>3 DEF OneTicket
<1>8. boss' = "processing" /\ ~active' => \A j \in Ticket : Live(j)' => tickets'[j].status = "processing"
  BY <1>1, <1>2, <1>3 DEF OneTicket
<1>9. boss' = "creating" /\ ~active' => \A j \in Ticket : ~Live(j)'
  BY <1>1, <1>3 DEF OneTicket
<1> QED
  BY <1>5, <1>6, <1>7, <1>8, <1>9 DEF OneTicket

LEMMA CheckKeepsTicket ==
  ASSUME Typed, OneTicket, NEW p \in Worker, Check(p)
  PROVE  OneTicket'
<1>0. pc \in [Worker -> Steps] /\ claim \in [Worker -> Ticket \cup {NoTicket}]
  BY DEF Typed, TypeOK, Steps
<1>1. UNCHANGED <<tickets, failed, record, boss, active>>
  BY DEF Check, store, central
<1>2. \/ pc' = [pc EXCEPT ![p] = "scanning"] /\ claim' = claim /\ Lasting(p, claim[p])
      \/ pc' = [pc EXCEPT ![p] = "idle"] /\ claim' = [claim EXCEPT ![p] = NoTicket]
  BY DEF Check, Goto, Lasting
<1>3. ASSUME NEW q \in Worker, AtWork(q)' PROVE Lasting(q, claim[q])'
  <2>1. CASE q = p
    <3>1. claim' = claim /\ Lasting(p, claim[p])
      BY <1>0, <1>2, <1>3, <2>1 DEF AtWork
    <3> QED
      BY <1>1, <2>1, <3>1 DEF Lasting, Holds
  <2>2. CASE q # p
    <3>1. AtWork(q) /\ claim'[q] = claim[q]
      BY <1>0, <1>2, <1>3, <2>2 DEF AtWork
    <3> QED
      BY <1>1, <3>1 DEF OneTicket, Lasting, Holds
  <2> QED
    BY <2>1, <2>2
<1> QED
  BY <1>1, <1>3 DEF OneTicket, Live

\* A worker that comes to its end deletes its ticket; a dead one's is nobody else's.
LEMMA LeavingKeepsTicket ==
  ASSUME OneAtATime, Typed, Turns, UnderOneTicket(scenario), NEW p \in Worker, Close(p) \/ Crash(p)
  PROVE  OneTicket'
<1>0. /\ OneTicket /\ pc \in [Worker -> Steps] /\ claim \in [Worker -> Ticket \cup {NoTicket}]
      /\ tickets \in [Ticket -> Tickets \cup {NoTicket}]
  BY DEF Turns, Typed, TypeOK, Steps
<1>1. /\ pc' = [pc EXCEPT ![p] = "idle"] /\ claim' = [claim EXCEPT ![p] = NoTicket]
      /\ UNCHANGED <<failed, record, boss, active>>
  BY DEF Close, Crash, Goto, store, central
<1>2. \A q \in Worker : AtWork(q)' => q # p /\ AtWork(q) /\ claim'[q] = claim[q]
  BY <1>0, <1>1 DEF AtWork
<1>3. CASE Close(p)
  <2>1. AtWork(p)
    BY <1>3 DEF Close, Finished, AtWork
  <2>2. \A q \in Worker : ~AtWork(q)'
    BY <1>2, <2>1, Alone
  <2>3. tickets' = tickets \/ tickets' = [tickets EXCEPT ![claim[p]] = NoTicket]
    BY <1>0, <1>3 DEF Close, OneTicket
  <2>4. \A k \in Ticket : tickets'[k] = tickets[k] \/ tickets'[k] = NoTicket
    BY <1>0, <2>3
  <2> QED
    BY <1>0, <1>1, <2>2, <2>4, FewerTickets DEF Live, OneTicket
<1>4. CASE Crash(p)
  <2>1. \A k \in Ticket : tickets'[k] = IF Holds(p, k) THEN [tickets[k] EXCEPT !.by = Dead] ELSE tickets[k]
    BY <1>4 DEF Crash
  <2>2. \A k \in Ticket : Live(k)' => Live(k) /\ tickets'[k].status = tickets[k].status
    BY <1>0, <2>1 DEF Live, Holds, Tickets
  <2>3. ASSUME NEW q \in Worker, AtWork(q)' PROVE tickets'[claim[q]] = tickets[claim[q]]
    <3>1. Lasting(q, claim[q]) /\ q # p /\ pc[q] # "idle"
      BY <1>0, <1>2, <2>3 DEF OneTicket, AtWork
    <3>2. claim[q] \in Ticket
      BY <3>1 DEF Typed, TypeOK, Turns, Serial, UnderOneTicket
    <3> QED
      BY <2>1, <3>1, <3>2 DEF Lasting, Holds
  <2> QED
    BY <1>0, <1>1, <1>2, <2>2, <2>3, FewerTickets DEF OneTicket
<1> QED
  BY <1>3, <1>4

\* A ticket is made only when both lists were without a live one, and none comes to life
\* between them.
LEMMA CoordinatorKeepsTicket ==
  ASSUME Typed, Turns, UnderOneTicket(scenario), Coordinate
  PROVE  OneTicket'
<1>0. /\ OneTicket /\ tickets \in [Ticket -> Tickets \cup {NoTicket}]
      /\ \A p \in Worker : AtWork(p) => claim[p] \in Ticket
  BY DEF Turns, Serial, UnderOneTicket, Typed, TypeOK, AtWork
<1>1. UNCHANGED <<record, pc, claim, failed>>
  BY DEF Coordinate, ReclaimStaleTickets, ListTickets, CreateTicket, store, work
<1>2. record' /\ \A p \in Worker : ~failed'[p] /\ (AtWork(p)' <=> AtWork(p))
  BY <1>0, <1>1 DEF OneTicket, AtWork
<1>3. CASE ReclaimStaleTickets
  <2>1. boss' = "available" /\ \A k \in Ticket : tickets'[k] = Reclaimed(tickets[k])
    BY <1>3 DEF ReclaimStaleTickets
  <2>2. ASSUME NEW p \in Worker, AtWork(p) PROVE Lasting(p, claim[p])'
    <3>1. Lasting(p, claim[p]) /\ claim[p] \in Ticket
      BY <1>0, <2>2 DEF OneTicket
    <3>2. tickets'[claim[p]] = tickets[claim[p]]
      BY <2>1, <3>1 DEF Reclaimed, Lasting, Holds
    <3> QED
      BY <1>1, <3>1, <3>2 DEF Lasting, Holds
  <2>3. ASSUME NEW k \in Ticket, Live(k)' PROVE Live(k)
    BY <2>1, <2>3 DEF Live, Reclaimed
  <2> QED
    BY <1>0, <1>2, <2>1, <2>2, <2>3 DEF OneTicket
<1>4. ASSUME tickets' = tickets PROVE /\ \A p \in Worker : AtWork(p)' => Lasting(p, claim[p])'
                                      /\ \A k \in Ticket : Live(k)' <=> Live(k)
  BY <1>0, <1>1, <1>2, <1>4 DEF OneTicket, Lasting, Holds, Live
<1>5. CASE ListTickets("available", "processing")
  <2>1. tickets' = tickets /\ boss' = "processing" /\ active' = (active \/ InStatus("available"))
    BY <1>5 DEF ListTickets
  <2>2. ASSUME ~active', NEW k \in Ticket, Live(k) PROVE tickets[k].status = "processing"
    <3>1. tickets[k].status # "available"
      BY <2>1, <2>2, Zenon DEF InStatus, Live
    <3> QED
      BY <1>0, <2>2, <3>1 DEF Live, Tickets
  <2> QED
    BY <1>0, <1>2, <1>4, <2>1, <2>2 DEF OneTicket
<1>6. CASE ListTickets("processing", "creating")
  <2>1. /\ tickets' = tickets /\ boss = "processing" /\ boss' = "creating"
        /\ active' = (active \/ InStatus("processing"))
    BY <1>6 DEF ListTickets
  <2>2. ~active' => ~active /\ ~InStatus("processing")
    BY <2>1, Zenon
  <2>3. ASSUME ~active', NEW k \in Ticket, Live(k) PROVE FALSE
    BY <1>0, <2>1, <2>2, <2>3 DEF OneTicket, InStatus, Live
  <2> QED
    BY <1>0, <1>2, <1>4, <2>1, <2>3 DEF OneTicket
<1>7. CASE CreateTicket
  <2>1. boss = "creating" /\ boss' = "idle"
    BY <1>7 DEF CreateTicket
  <2>2. CASE tickets' = tickets
    BY <1>0, <1>2, <1>4, <2>1, <2>2 DEF OneTicket
  <2>3. CASE tickets' # tickets
    <3>1. PICK k \in Ticket : /\ ~active /\ \A p \in Worker : claim[p] # k
                              /\ tickets' = [tickets EXCEPT ![k] = NewTicket]
      BY <1>7, <2>3 DEF CreateTicket
    <3>2. \A j \in Ticket : Live(j)' => j = k
      BY <1>0, <2>1, <3>1 DEF OneTicket, Live
    <3>3. \A p \in Worker : AtWork(p) => tickets'[claim[p]] = tickets[claim[p]]
      BY <1>0, <3>1
    <3>4. \A p \in Worker : AtWork(p)' => Lasting(p, claim[p])'
      BY <1>0, <1>1, <1>2, <3>3 DEF OneTicket, Lasting, Holds
    <3> QED
      BY <1>2, <2>1, <3>2, <3>4 DEF OneTicket
  <2> QED
    BY <2>2, <2>3
<1> QED
  BY <1>3, <1>5, <1>6, <1>7 DEF Coordinate

\* No ticket ends under a worker that keeps within its time.
LEMMA ClockKeepsTicket ==
  ASSUME Typed, Turns, UnderOneTicket(scenario), NEW k \in Ticket,
         Expire(k) \/ LapseOfDead(k) \/ LapseOfSlow(k)
  PROVE  OneTicket'
<1>0. /\ OneTicket /\ tickets \in [Ticket -> Tickets \cup {NoTicket}] /\ tickets[k] # NoTicket
      /\ \A p \in Worker : AtWork(p) => claim[p] \in Ticket
  BY DEF Turns, Serial, UnderOneTicket, AtWork, Typed, TypeOK, Expire, LapseOfDead, LapseOfSlow, Lapse
<1>1. /\ tickets' = [tickets EXCEPT ![k].expired = TRUE] \/ tickets' = [tickets EXCEPT ![k].lapsed = TRUE]
      /\ UNCHANGED <<record, pc, claim, failed, boss, active>>
  BY DEF Expire, LapseOfDead, LapseOfSlow, Lapse, store, work, central
<1>2. ASSUME NEW p \in Worker, AtWork(p) PROVE claim[p] # k
  <2>1. Lasting(p, claim[p])
    BY <1>0, <1>2 DEF OneTicket
  <2>2. CASE LapseOfDead(k)
    BY <2>1, <2>2 DEF LapseOfDead, Lasting, Holds
  <2>3. CASE Expire(k) \/ LapseOfSlow(k)
    BY <1>2, <2>3 DEF Expire, LapseOfSlow, InTime, UnderOneTicket, AtWork
  <2> QED
    BY <2>2, <2>3
<1>3. \A p \in Worker : AtWork(p) => tickets'[claim[p]] = tickets[claim[p]]
  BY <1>0, <1>1, <1>2
<1>4. /\ \A j \in Ticket : j # k => tickets'[j] = tickets[j]
      /\ tickets'[k].status = tickets[k].status
      /\ tickets'[k].expired \/ tickets'[k].expired = tickets[k].expired
  BY <1>0, <1>1 DEF Tickets
<1>5. \A j \in Ticket : Live(j)' => Live(j) /\ tickets'[j].status = tickets[j].status
  BY <1>0, <1>4 DEF Live
<1> QED
  BY <1>0, <1>1, <1>3, <1>5, FewerTickets DEF OneTicket, AtWork

LEMMA TurnsStep ==
  ASSUME OneAtATime, Typed, Turns, [Next]_vars
  PROVE  Turns'
<1>1. Serial' /\ scenario' = scenario
  <2>1. scenario' = scenario
    BY Zenon DEF Next, Continue, Fails, Coordinate, Insert, BeginLocked, Claim, Check, Scan, ScanFails, Scanned, Guard,
           Read, ReadFails, Write, WriteFails, Mark, MarkFails, Close, Crash, ReclaimStaleTickets,
           ListTickets, CreateTicket, Expire, LapseOfDead, LapseOfSlow, Lapse, vars
  <2> QED
    BY <2>1, SerialStep DEF Turns
<1>2. ASSUME UnderOneTicket(scenario) PROVE OneTicket'
  <2>0. OneTicket
    BY <1>2 DEF Turns
  <2>1. ASSUME NEW p \in Worker, NEW k \in {"field", "record"}, BeginLocked(p, k) PROVE FALSE
    BY <1>2, <2>1 DEF BeginLocked, Begin, UnderOneTicket
  <2>2. ASSUME (\E t \in Tx : Insert(t)) \/ UNCHANGED vars PROVE OneTicket'
    <3>1. UNCHANGED <<record, tickets, pc, claim, failed, boss, active>>
      BY <2>2 DEF Insert, work, central, vars, store
    <3> QED
      BY <2>0, <3>1, MoveKeepsTicket DEF AtWork, OneTicket
  <2> QED
    BY <1>2, <2>0, <2>1, <2>2, WorkKeepsTicket, ClaimKeepsTicket, CheckKeepsTicket, LeavingKeepsTicket,
       CoordinatorKeepsTicket, ClockKeepsTicket DEF Next, Continue, Fails
<1> QED
  BY <1>1, <1>2 DEF Turns

-----------------------------------------------------------------------------
(* Under these conditions a transaction is counted once.                   *)

\* A step of one at work that writes nothing.
LEMMA ReadingIsLocked ==
  ASSUME OneAtATime, Locked, NEW p \in Worker, Scan(p) \/ ScanFails(p) \/ Guard(p) \/ Read(p) \/ ReadFails(p)
  PROVE  Fresh' /\ Counted'
<1>0. /\ pc[p] \in {"scanning", "guarding", "reading"} /\ pc \in [Worker -> Steps]
      /\ base \in [Worker -> [Tx -> Nat]] /\ value \in [Tx -> Nat] /\ list \in [Worker -> SUBSET Tx]
  <2>1. pc[p] \in {"scanning", "guarding", "reading"}
    BY DEF Scan, ScanFails, Scanned, Guard, Read, ReadFails
  <2> QED
    BY <2>1 DEF Locked, Typed, TypeOK, Steps
<1>1. AtWork(p) /\ \A q \in Worker \ {p} : ~AtWork(q)
  <2>1. AtWork(p)
    BY <1>0 DEF AtWork
  <2> QED
    BY <2>1, Alone DEF Locked
<1>2. UNCHANGED <<stored, applied, value, left, missed>>
  BY DEF Scan, ScanFails, Scanned, Guard, Read, ReadFails, store, ghosts
<1>3. Counted'
  BY <1>2 DEF Locked, Counted, Counts, Marking
<1>4. ASSUME NEW txs \in SUBSET Pending, Scanned(p, txs) PROVE Fresh'
  <2>1. PICK step \in {"closing", "guarding", "reading"} : Goto(p, step)
    BY <1>4 DEF Scanned
  <2>2. list' = [list EXCEPT ![p] = txs]
    BY <1>4 DEF Scanned
  <2> QED
    BY <1>0, <1>1, <1>2, <2>1, <2>2 DEF Fresh, Working, AtWork, Goto, Pending
<1>5. CASE Scan(p) \/ ScanFails(p)
  BY <1>3, <1>4, <1>5 DEF Scan, ScanFails
<1>6. CASE Guard(p)
  <2>1. /\ pc[p] = "guarding" /\ list' = list
        /\ Goto(p, "reading") \/ Goto(p, "closing")
    BY <1>6 DEF Guard
  <2> QED
    BY <1>0, <1>1, <1>2, <1>3, <2>1 DEF Locked, Fresh, Working, AtWork, Goto
<1>7. CASE Read(p) \/ ReadFails(p)
  <2>1. pc[p] = "reading" /\ list' = list
    BY <1>7 DEF Read, ReadFails
  <2>2. \/ Goto(p, "closing")
        \/ Goto(p, "writing") /\ (base' = [base EXCEPT ![p] = value] \/ base' = [base EXCEPT ![p] = Zero])
    BY <1>7 DEF Read, ReadFails, GiveUp
  <2>3. list[p] \cap applied = {}
    BY <2>1 DEF Locked, Fresh, Working
  <2>4. CASE Goto(p, "closing")
    BY <1>0, <1>1, <1>2, <1>3, <2>1, <2>4 DEF Fresh, Working, AtWork, Goto
  <2>5. CASE Goto(p, "writing") /\ (base' = [base EXCEPT ![p] = value] \/ base' = [base EXCEPT ![p] = Zero])
    <3>1. \A t \in Tx : base'[p][t] <= value[t]
      BY <1>0, <2>5 DEF Zero
    <3> QED
      BY <1>0, <1>1, <1>2, <1>3, <2>1, <2>3, <2>5, <3>1 DEF Fresh, Working, AtWork, Goto
  <2> QED
    BY <2>2, <2>4, <2>5
<1> QED
  BY <1>3, <1>5, <1>6, <1>7

\* What is listed is neither applied nor being marked, and has been counted no more often
\* than it was missed.
LEMMA WriteCounts ==
  ASSUME OneAtATime, Locked, NEW p \in Worker, pc[p] = "writing"
  PROVE  \A t \in Tx :
           Consolidated(list[p], base[p])[t]
             <= missed[t] + (IF t \in applied \/ t \in list[p] THEN 1 ELSE 0)
<1>1. /\ list[p] \in SUBSET Tx /\ base[p] \in [Tx -> Nat] /\ value \in [Tx -> Nat]
      /\ missed \in [Tx -> Nat] /\ left[p] = {} /\ list[p] \cap applied = {}
  BY DEF Locked, Typed, TypeOK, Fresh, Working
<1>2. ASSUME NEW t \in Tx
      PROVE  Consolidated(list[p], base[p])[t]
               <= missed[t] + (IF t \in applied \/ t \in list[p] THEN 1 ELSE 0)
  <2>1. Counts(t) <=> t \in applied
    BY <1>1, Alone DEF Locked, Counts, AtWork
  <2>2. base[p][t] <= value[t] /\ value[t] <= missed[t] + (IF t \in applied THEN 1 ELSE 0)
    BY <2>1 DEF Locked, Fresh, Counted
  <2>3. Consolidated(list[p], base[p])[t] <= base[p][t] + (IF t \in list[p] THEN 1 ELSE 0)
    BY <1>1, ConsolidatedIsValue
  <2>4. Consolidated(list[p], base[p])[t] \in Nat
    BY <1>1, ConsolidatedIsValue
  <2> QED
    BY <1>1, <2>2, <2>3, <2>4
<1> QED
  BY <1>2

LEMMA WriteIsLocked ==
  ASSUME OneAtATime, Locked, NEW p \in Worker, Write(p) \/ WriteFails(p)
  PROVE  Fresh' /\ Counted'
<1>0. /\ pc[p] = "writing" /\ pc \in [Worker -> Steps] /\ left \in [Worker -> SUBSET Tx]
      /\ missed \in [Tx -> Nat] /\ left[p] = {}
  BY DEF Write, WriteFails, Locked, Typed, TypeOK, Steps
<1>1. \A q \in Worker \ {p} : ~AtWork(q) /\ left[q] = {}
  BY <1>0, Alone DEF Locked, AtWork
<1>2. UNCHANGED <<applied, list, base>>
  BY DEF Write, WriteFails, ghosts
<1>3. PICK step \in {"marking", "closing"} : Goto(p, step)
  BY DEF Write, WriteFails, GiveUp
<1>4. Fresh'
  BY <1>0, <1>1, <1>3 DEF Fresh, Working, AtWork, Goto
<1>5. CASE Write(p)
  <2>1. /\ value' = Consolidated(list[p], base[p]) /\ missed' = missed
        /\ left' = [left EXCEPT ![p] = list[p]]
    BY <1>5 DEF Write, ghosts
  <2>2. \A t \in Tx : Marking(t)' <=> t \in list[p]
    BY <1>0, <1>1, <2>1 DEF Marking
  <2>3. \A t \in Tx : Counts(t)' <=> t \in applied \/ t \in list[p]
    BY <1>2, <2>2 DEF Counts
  <2>4. Counted'
    BY <1>0, <2>1, <2>3, WriteCounts DEF Counted
  <2> QED
    BY <1>4, <2>4
<1>6. CASE WriteFails(p)
  <2>1. left' = left
    BY <1>6 DEF WriteFails
  <2>2. \A t \in Tx : (Marking(t)' <=> Marking(t)) /\ (Counts(t)' <=> t \in applied)
    BY <1>0, <1>1, <1>2, <2>1 DEF Marking, Counts
  <2>3. CASE value' = value /\ missed' = missed
    <3>1. \A t \in Tx : Counts(t)' <=> Counts(t)
      BY <1>0, <1>1, <2>2 DEF Counts, Marking
    <3> QED
      BY <1>4, <2>3, <3>1 DEF Locked, Counted
  <2>4. CASE value' = Consolidated(list[p], base[p]) /\ Missing(list[p])
    <3>1. \A t \in Tx : missed'[t] = missed[t] + (IF t \in list[p] THEN 1 ELSE 0)
      BY <1>0, <2>4, MissingIsCount
    <3>2. Consolidated(list[p], base[p]) \in [Tx -> Nat]
      <4>1. list[p] \in SUBSET Tx /\ base[p] \in [Tx -> Nat]
        BY DEF Locked, Typed, TypeOK
      <4> QED
        BY <4>1, ConsolidatedIsValue
    <3>3. ASSUME NEW t \in Tx PROVE value'[t] <= missed'[t] + (IF Counts(t)' THEN 1 ELSE 0)
      <4>1. list[p] \cap applied = {}
        BY <1>0 DEF Locked, Fresh, Working
      <4>2. value'[t] <= missed[t] + (IF t \in applied \/ t \in list[p] THEN 1 ELSE 0)
        BY <1>0, <2>4, WriteCounts
      <4>3. value'[t] \in Nat /\ missed[t] \in Nat
        BY <1>0, <2>4, <3>2
      <4>4. t \in list[p] => ~(t \in applied)
        BY <4>1
      <4> QED
        BY <2>2, <3>1, <4>2, <4>3, <4>4
    <3> QED
      BY <1>4, <3>3 DEF Counted
  <2>5. (value' = value /\ missed' = missed) \/ (value' = Consolidated(list[p], base[p]) /\ Missing(list[p]))
    BY <1>6 DEF WriteFails
  <2> QED
    BY <1>4, <2>3, <2>4, <2>5
<1> QED
  BY <1>5, <1>6

LEMMA MarkIsLocked ==
  ASSUME OneAtATime, Locked, NEW p \in Worker, NEW t \in Tx, Mark(p, t) \/ MarkFails(p, t)
  PROVE  Fresh' /\ Counted'
<1>0. /\ pc[p] = "marking" /\ t \in left[p] /\ left' = [left EXCEPT ![p] = left[p] \ {t}]
      /\ UNCHANGED <<value, pc, list, base>>
  BY DEF Mark, MarkFails, store
<1>1. /\ left \in [Worker -> SUBSET Tx] /\ missed \in [Tx -> Nat] /\ value \in [Tx -> Nat]
      /\ \A q \in Worker \ {p} : ~AtWork(q) /\ left[q] = {}
  BY <1>0, Alone DEF Locked, Typed, TypeOK, AtWork
<1>2. Fresh'
  <2>1. \A q \in Worker : ~Working(q) \/ q # p
    BY <1>0 DEF Working
  <2> QED
    BY <1>0, <1>1, <2>1 DEF Fresh, Working, AtWork
<1>3. \A u \in Tx : (Marking(u) <=> u \in left[p]) /\ (Marking(u)' <=> u \in left[p] /\ u # t)
  BY <1>0, <1>1 DEF Marking
<1>4. CASE Mark(p, t)
  <2>1. applied' = applied \cup {t} /\ missed' = missed
    BY <1>4 DEF Mark, ghosts
  <2>2. \A u \in Tx : Counts(u)' <=> Counts(u)
    BY <1>0, <1>3, <2>1 DEF Counts
  <2> QED
    BY <1>0, <1>2, <2>1, <2>2 DEF Locked, Counted
<1>5. CASE MarkFails(p, t)
  <2>1. applied' = applied /\ Missing({t})
    BY <1>5 DEF MarkFails, store
  <2>2. \A u \in Tx : missed'[u] = missed[u] + (IF u \in {t} THEN 1 ELSE 0)
    BY <1>1, <2>1, MissingIsCount
  <2>3. \A u \in Tx : u # t => (Counts(u)' <=> Counts(u))
    BY <1>3, <2>1 DEF Counts
  <2>4. ASSUME NEW u \in Tx PROVE value'[u] <= missed'[u] + (IF Counts(u)' THEN 1 ELSE 0)
    <3>1. value[u] <= missed[u] + (IF Counts(u) THEN 1 ELSE 0)
      BY DEF Locked, Counted
    <3> QED
      BY <1>0, <1>1, <2>2, <2>3, <3>1
  <2> QED
    BY <1>2, <2>4 DEF Counted
<1> QED
  BY <1>4, <1>5

\* Whoever dies has missed what it had written and not marked.
LEMMA LeavingIsLocked ==
  ASSUME OneAtATime, Locked, NEW p \in Worker, Close(p) \/ Crash(p)
  PROVE  Fresh' /\ Counted'
<1>0. /\ pc \in [Worker -> Steps] /\ left \in [Worker -> SUBSET Tx]
      /\ missed \in [Tx -> Nat] /\ value \in [Tx -> Nat] /\ (~AtWork(p) => left[p] = {})
  BY DEF Locked, Typed, TypeOK, Steps, AtWork
<1>1. Goto(p, "idle") /\ UNCHANGED <<applied, value, list, base>>
  BY DEF Close, Crash, store
<1>2. Fresh'
  BY <1>0, <1>1 DEF Locked, Fresh, Working, Goto
<1>3. CASE Close(p)
  <2>1. UNCHANGED <<left, missed>>
    BY <1>3 DEF Close, ghosts
  <2> QED
    BY <1>1, <1>2, <2>1 DEF Locked, Counted, Counts, Marking
<1>4. CASE Crash(p)
  <2>1. left' = [left EXCEPT ![p] = {}] /\ Missing(left[p])
    BY <1>4 DEF Crash
  <2>2. \A u \in Tx : missed'[u] = missed[u] + (IF u \in left[p] THEN 1 ELSE 0)
    BY <1>0, <2>1, MissingIsCount
  <2>3. \A u \in Tx : u \notin left[p] => (Counts(u)' <=> Counts(u))
    BY <1>0, <1>1, <2>1 DEF Counts, Marking
  <2>4. ASSUME NEW u \in Tx PROVE value'[u] <= missed'[u] + (IF Counts(u)' THEN 1 ELSE 0)
    <3>1. value[u] <= missed[u] + (IF Counts(u) THEN 1 ELSE 0)
      BY DEF Locked, Counted
    <3> QED
      BY <1>0, <1>1, <2>2, <2>3, <3>1
  <2> QED
    BY <1>2, <2>4 DEF Counted
<1> QED
  BY <1>3, <1>4

\* Coming to a lock or a ticket, the coordinator and the clock leave the record, what is read
\* of it and the marks alone.
Aside ==
  \/ \E p \in Worker : \/ \E k \in {"field", "record"} : BeginLocked(p, k)
                       \/ \E k \in Ticket : Claim(p, k)
                       \/ Check(p)
  \/ Coordinate
  \/ \E k \in Ticket : Expire(k) \/ LapseOfDead(k) \/ LapseOfSlow(k)
  \/ UNCHANGED vars

LEMMA AsideChangesNothing ==
  ASSUME Typed, Aside
  PROVE  /\ UNCHANGED <<stored, applied, record, value, list, base, left, missed, excused>>
         /\ \A p \in Worker : pc'[p] = pc[p] \/ pc'[p] \in {"idle", "checking", "scanning"}
<1>0. pc \in [Worker -> Steps]
  BY DEF Typed, TypeOK, Steps
<1>1. ASSUME NEW p \in Worker,
             \/ \E k \in {"field", "record"} : BeginLocked(p, k)
             \/ \E k \in Ticket : Claim(p, k)
             \/ Check(p)
      PROVE  /\ UNCHANGED <<store, list, base, left, ghosts>>
             /\ \E step \in {"idle", "checking", "scanning"} : Goto(p, step)
  <2>1. CASE \E k \in {"field", "record"} : BeginLocked(p, k)
    BY <2>1 DEF BeginLocked
  <2>2. CASE \E k \in Ticket : Claim(p, k)
    BY <2>2 DEF Claim
  <2>3. CASE Check(p)
    BY <2>3 DEF Check
  <2> QED
    BY <1>1, <2>1, <2>2, <2>3
<1>2. ASSUME NEW p \in Worker, NEW step \in {"idle", "checking", "scanning"}, Goto(p, step)
      PROVE  \A q \in Worker : pc'[q] = pc[q] \/ pc'[q] \in {"idle", "checking", "scanning"}
  BY <1>0, <1>2 DEF Goto
<1>3. ASSUME \/ Coordinate
             \/ \E k \in Ticket : Expire(k) \/ LapseOfDead(k) \/ LapseOfSlow(k)
             \/ UNCHANGED vars
      PROVE  UNCHANGED <<stored, applied, record, value, pc, list, base, left, missed, excused>>
  BY <1>3 DEF Coordinate, ReclaimStaleTickets, ListTickets, CreateTicket, Expire, LapseOfDead,
              LapseOfSlow, Lapse, vars, store, work, ghosts
<1> QED
  BY <1>1, <1>2, <1>3 DEF Aside, store, ghosts

LEMMA OthersAreLocked ==
  ASSUME Locked, Aside \/ \E t \in Tx : Insert(t)
  PROVE  Fresh' /\ Counted'
<1>1. /\ UNCHANGED <<applied, value, missed, list, base, left>>
      /\ \A p \in Worker : pc'[p] = pc[p] \/ pc'[p] \in {"idle", "checking", "scanning"}
  <2>1. CASE Aside
    BY <2>1, AsideChangesNothing DEF Locked
  <2>2. CASE \E t \in Tx : Insert(t)
    BY <2>2 DEF Insert, work
  <2> QED
    BY <2>1, <2>2
<1> QED
  BY <1>1 DEF Locked, Fresh, Working, Counted, Counts, Marking

LEMMA LockedStep ==
  ASSUME OneAtATime, Locked, [Next]_vars
  PROVE  Locked'
<1>1. Typed' /\ Turns'
  BY TypedStep, TurnsStep DEF Locked
<1>2. ASSUME NEW p \in Worker, Continue(p) \/ Fails(p) PROVE Fresh' /\ Counted'
  BY <1>2, OthersAreLocked, ReadingIsLocked, WriteIsLocked, LeavingIsLocked, MarkIsLocked DEF Continue, Fails, Aside
<1>3. Fresh' /\ Counted'
  BY <1>2, OthersAreLocked DEF Next, Aside
<1> QED
  BY <1>1, <1>3 DEF Locked

\* Where workers take turns a transaction is counted once, and once more for each time it
\* was written and not marked: no second worker writes what the first is about to mark.
THEOREM ConsolidationCountsOnce ==
  ASSUME OneAtATime
  PROVE  Spec => []CountedOnce
<1>1. Locked => CountedOnce
  <2>1. ASSUME Locked, NEW t \in Tx PROVE value[t] <= 1 + missed[t]
    <3>1. value[t] \in Nat /\ missed[t] \in Nat
      BY <2>1 DEF Locked, Typed, TypeOK
    <3> QED
      BY <2>1, <3>1 DEF Locked, Counted
  <2> QED
    BY <2>1 DEF CountedOnce
<1>2. Init => Locked
  BY LockedInit
<1>3. Locked /\ [Next]_vars => Locked'
  BY LockedStep
<1> QED
  BY <1>1, <1>2, <1>3, PTL DEF Spec

-----------------------------------------------------------------------------
(* Nothing is lost, and the field converges.  A worker that is alone at    *)
(* work knows the value and every pending transaction but those stored     *)
(* after its scan, which are later than all it has listed.                 *)

\* Transactions a worker has not listed were stored after its scan, and are later.
Ordered ==
  /\ ~record => value = Zero
  /\ ~excused =>
       \A p \in Worker :
         /\ pc[p] = "writing" => base[p] = value
         /\ Working(p) =>
              \A u \in Pending \ list[p], v \in list[p] : u \in Sets \/ v \in Sets => v < u

InValue(t) == value[t] > 0 \/ \E s \in Sets : s > t /\ value[s] > 0
SetsMarked == ~excused /\ \A s \in Sets : missed[s] = 0
AllMarked == ~excused /\ missed = Zero

Kept ==
  SetsMarked =>
    /\ \A t \in Tx : Counts(t) => InValue(t)
    /\ \A u \in Sets \cap Pending, t \in Tx : ~Marking(u) /\ Counts(t) => t < u

Exactly ==
  AllMarked =>
    /\ value = Consolidated({t \in Tx : Counts(t)}, Zero)
    /\ \A u \in Pending, t \in Tx :
         ~Marking(u) /\ Counts(t) /\ (u \in Sets \/ t \in Sets) => t < u

\* A nonempty set of transactions has a last one.
LEMMA LatestExists ==
  ASSUME NEW S \in SUBSET Tx, S # {}
  PROVE  Max(S) \in S /\ \A x \in S : x <= Max(S)
<1> DEFINE R == OpToRel(<, Nat)
           T == {N - x : x \in S}
<1>1. S \subseteq Nat /\ \A x \in S : N - x \in Nat
  BY DEF Tx
<1>2. T \subseteq Nat /\ T # {}
  BY <1>1
<1>3. PICK n \in T : \A m \in T : ~(<<m, n>> \in R)
  <2> HIDE DEF R, T
  <2>1. IsWellFoundedOn(R, Nat)
    BY NatLessThanWellFounded, Zenon DEF R
  <2> QED
    BY <1>2, <2>1, WFMin
<1>4. ASSUME NEW m \in T PROVE n <= m
  <2>1. R = {ss \in Nat \X Nat : ss[1] < ss[2]}
    BY DEF OpToRel
  <2> HIDE DEF R, T
  <2>2. m \in Nat /\ n \in Nat /\ ~(<<m, n>> \in R)
    BY <1>2, <1>3
  <2>3. m < n => <<m, n>> \in R
    <3>1. m < n => <<m, n>>[1] < <<m, n>>[2]
      BY <2>2
    <3> QED
      BY <2>1, <2>2, <3>1
  <2> QED
    BY <2>2, <2>3
<1>5. PICK x \in S : n = N - x
  OBVIOUS
<1>6. \A y \in S : y <= x
  BY <1>1, <1>4, <1>5
<1>7. \E z \in S : \A y \in S : z >= y
  BY <1>1, <1>6
<1> QED
  BY <1>1, <1>7 DEF Max

LEMMA WithoutSet ==
  ASSUME NEW txs \in SUBSET Tx, NEW from, Sets \cap txs = {}
  PROVE  Consolidated(txs, from) = [t \in Tx |-> from[t] + (IF t \in txs THEN 1 ELSE 0)]
BY DEF Consolidated

LEMMA WithSet ==
  ASSUME NEW txs \in SUBSET Tx, NEW from, Sets \cap txs # {}
  PROVE  \E m \in Sets \cap txs :
           /\ \A s \in Sets \cap txs : s <= m
           /\ Consolidated(txs, from) = [t \in Tx |-> IF t \in txs /\ t >= m THEN 1 ELSE 0]
<1>1. Sets \cap txs \in SUBSET Tx
  OBVIOUS
<1>2. PICK m \in Sets \cap txs : m = Max(Sets \cap txs)
  BY <1>1, LatestExists
<1>3. \A s \in Sets \cap txs : s <= m
  BY <1>1, <1>2, LatestExists
<1>4. Consolidated(txs, from) = [t \in Tx |-> IF t \in txs /\ t >= m THEN 1 ELSE 0]
  BY <1>2 DEF Consolidated
<1> QED
  BY <1>3, <1>4

\* What was missed or excused stays so.
LEMMA MarkedBefore ==
  ASSUME Typed, [Next]_vars
  PROVE  /\ ~excused' => ~excused
         /\ \A t \in Tx : missed[t] <= missed'[t]
         /\ SetsMarked' => SetsMarked
         /\ AllMarked' => AllMarked
<1>0. missed \in [Tx -> Nat] /\ missed' \in [Tx -> Nat]
  BY TypedStep DEF Typed, TypeOK
<1>1. ASSUME NEW txs, Missing(txs) PROVE \A t \in Tx : missed[t] <= missed'[t]
  BY <1>0, <1>1, MissingIsCount
<1>2. /\ ~excused' => ~excused
      /\ missed' = missed \/ \E txs : Missing(txs)
  <2>1. CASE UNCHANGED vars
    BY <2>1 DEF vars, ghosts
  <2>2. CASE \E t \in Tx : Insert(t)
    BY <2>2 DEF Insert
  <2>3. ASSUME NEW p \in Worker,
               \/ \E k \in {"field", "record"} : BeginLocked(p, k)
               \/ \E k \in Ticket : Claim(p, k)
               \/ Check(p) \/ Guard(p) \/ Read(p) \/ Write(p) \/ Close(p)
        PROVE  UNCHANGED <<missed, excused>>
    <3>1. UNCHANGED ghosts
      BY <2>3, Zenon DEF BeginLocked, Claim, Check, Guard, Read, Write, Close
    <3> QED
      BY <3>1 DEF ghosts
  <2>4. ASSUME NEW p \in Worker, Scan(p) \/ \E t \in Tx : Mark(p, t)
        PROVE  UNCHANGED <<missed, excused>>
    <3>1. CASE Scan(p)
      BY <3>1 DEF Scan, Scanned
    <3>2. CASE \E t \in Tx : Mark(p, t)
      BY <3>2 DEF Mark, ghosts
    <3> QED
      BY <2>4, <3>1, <3>2
  <2>6. ASSUME NEW p \in Worker, Fails(p)
        PROVE  (~excused' => ~excused) /\ (missed' = missed \/ \E txs : Missing(txs))
    <3>1. CASE ScanFails(p) \/ ReadFails(p)
      <4>1. missed' = missed
        BY <3>1 DEF ScanFails, Scanned, ReadFails
      <4>2. excused' = TRUE \/ excused' = excused
        BY <3>1 DEF ScanFails, ReadFails
      <4> QED
        BY <4>1, <4>2
    <3>2. CASE WriteFails(p) \/ Crash(p) \/ \E t \in Tx : MarkFails(p, t)
      <4>1. excused' = excused
        BY <3>2 DEF WriteFails, Crash, MarkFails
      <4>2. missed' = missed \/ Missing(list[p]) \/ Missing(left[p]) \/ \E t \in Tx : Missing({t})
        BY <3>2, Zenon DEF WriteFails, Crash, MarkFails
      <4> QED
        BY <4>1, <4>2, Zenon
    <3> QED
      BY <2>6, <3>1, <3>2 DEF Fails
  <2>5. CASE Coordinate \/ \E k \in Ticket : Expire(k) \/ LapseOfDead(k) \/ LapseOfSlow(k)
    BY <2>5 DEF Coordinate, ReclaimStaleTickets, ListTickets, CreateTicket, Expire, LapseOfDead,
                LapseOfSlow, Lapse, ghosts
  <2> QED
    BY <2>1, <2>2, <2>3, <2>4, <2>5, <2>6 DEF Next, Continue
<1>3. \A t \in Tx : missed[t] <= missed'[t]
  BY <1>0, <1>1, <1>2
<1>4. \A t \in Tx : missed'[t] = 0 => missed[t] = 0
  BY <1>0, <1>3
<1>5. SetsMarked' => SetsMarked
  BY <1>2, <1>4 DEF SetsMarked
<1>6. AllMarked' => AllMarked
  BY <1>0, <1>2, <1>4 DEF AllMarked, Zero
<1> QED
  BY <1>2, <1>3, <1>5, <1>6

Whole == Locked /\ Ordered /\ Kept /\ Exactly

LEMMA WholeInit == ASSUME Init PROVE Whole
<1>1. /\ pc = [p \in Worker |-> "idle"] /\ left = [p \in Worker |-> {}] /\ value = Zero
      /\ applied = {} /\ stored = {}
  BY DEF Init
<1>2. \A t \in Tx : ~Counts(t)
  BY <1>1 DEF Counts, Marking
<1>3. Ordered /\ Kept
  BY <1>1, <1>2 DEF Ordered, Working, Kept, Pending
<1>4. {t \in Tx : Counts(t)} = {} /\ Sets \cap {} = {}
  BY <1>2
<1>5. Consolidated({}, Zero) = [t \in Tx |-> Zero[t] + (IF t \in {} THEN 1 ELSE 0)]
  BY WithoutSet
<1>6. Consolidated({}, Zero) = value
  BY <1>1, <1>5 DEF Zero
<1>7. Exactly
  BY <1>1, <1>4, <1>6 DEF Exactly, Pending
<1> QED
  BY <1>3, <1>7, LockedInit DEF Whole

\* A step that writes nothing, and after which the same transactions count.
LEMMA SameCounts ==
  ASSUME Whole, [Next]_vars, value' = value,
         \A t \in Tx : Counts(t)' <=> Counts(t),
         \A u \in Pending' : u \in Pending /\ (Marking(u) => Marking(u)')
  PROVE  Kept' /\ Exactly'
<1>1. {t \in Tx : Counts(t)}' = {t \in Tx : Counts(t)}
  OBVIOUS
<1>2. \A t \in Tx : InValue(t)' <=> InValue(t)
  BY DEF InValue
<1>3. Kept'
  BY <1>2, MarkedBefore DEF Whole, Locked, Kept
<1>4. Exactly'
  BY <1>1, MarkedBefore DEF Whole, Locked, Exactly
<1> QED
  BY <1>3, <1>4

\* The transaction that arrives is later than those it must follow, or it is excused.
LEMMA InsertIsWhole ==
  ASSUME Whole, NEW t \in Tx, Insert(t)
  PROVE  Ordered' /\ Kept' /\ Exactly'
<1>1. /\ t \notin stored /\ stored' = stored \cup {t}
      /\ UNCHANGED <<applied, record, value, pc, list, base, left, missed>>
  BY DEF Insert, work
<1>2. ~excused' => ~excused /\ \A u \in stored : {t, u} \cap Sets # {} => ~(u > t)
  <2>1. excused' = (excused \/ \E u \in stored : u > t /\ {t, u} \cap Sets # {})
    BY DEF Insert
  <2> QED
    BY <2>1, Zenon
<1>3. ASSUME ~excused', NEW u \in stored, t \in Sets \/ u \in Sets PROVE u < t
  <2>1. u # t /\ ~(u > t) /\ u \in Tx
    BY <1>1, <1>2, <1>3 DEF Whole, Locked, Typed, TypeOK
  <2> QED
    BY <2>1 DEF Tx
<1>4. \A u : (Counts(u)' <=> Counts(u)) /\ (Marking(u)' <=> Marking(u)) /\ (Counts(u) => u \in stored)
  BY <1>1 DEF Counts, Marking, Whole, Locked, Typed, TypeOK, Listed
<1>5. Pending' = Pending \cup {t}
  BY <1>1 DEF Pending, Whole, Locked, Typed, TypeOK
<1>6. ASSUME ~excused', NEW p \in Worker, Working(p), NEW u \in Pending' \ list[p], NEW v \in list[p],
             u \in Sets \/ v \in Sets
      PROVE  v < u
  <2>1. CASE u = t
    BY <1>3, <1>6, <2>1 DEF Whole, Locked, Typed, Listed
  <2>2. CASE u # t
    BY <1>2, <1>5, <1>6, <2>2 DEF Whole, Ordered
  <2> QED
    BY <2>1, <2>2
<1>7. Ordered'
  <2>1. \A p \in Worker : Working(p)' <=> Working(p)
    BY <1>1 DEF Working
  <2>2. ~record' => value' = Zero
    BY <1>1 DEF Whole, Ordered
  <2>3. ~excused' => \A p \in Worker : pc'[p] = "writing" => base'[p] = value'
    BY <1>1, <1>2 DEF Whole, Ordered
  <2>4. ASSUME ~excused', NEW p \in Worker, Working(p)'
        PROVE  \A u \in Pending' \ list'[p], v \in list'[p] : u \in Sets \/ v \in Sets => v < u
    BY <1>1, <1>6, <2>1, <2>4
  <2> QED
    BY <2>2, <2>3, <2>4 DEF Ordered
<1>8. Kept'
  <2>1. SetsMarked' => SetsMarked /\ ~excused'
    BY <1>1, <1>2 DEF SetsMarked
  <2>2. \A u \in Tx : InValue(u)' <=> InValue(u)
    BY <1>1 DEF InValue
  <2>3. ASSUME SetsMarked', NEW u \in Sets \cap Pending', NEW v \in Tx, ~Marking(u), Counts(v) PROVE v < u
    <3>1. CASE u = t
      BY <1>3, <1>4, <2>1, <2>3, <3>1
    <3>2. CASE u # t
      BY <1>5, <2>1, <2>3, <3>2 DEF Whole, Kept
    <3> QED
      BY <3>1, <3>2
  <2> QED
    BY <1>4, <2>1, <2>2, <2>3 DEF Kept, Whole
<1>9. Exactly'
  <2>1. AllMarked' => AllMarked /\ ~excused'
    BY <1>1, <1>2 DEF AllMarked
  <2>2. {u \in Tx : Counts(u)}' = {u \in Tx : Counts(u)}
    BY <1>4
  <2>3. ASSUME AllMarked', NEW u \in Pending', NEW v \in Tx, ~Marking(u), Counts(v), u \in Sets \/ v \in Sets
        PROVE  v < u
    <3>1. CASE u = t
      BY <1>3, <1>4, <2>1, <2>3, <3>1
    <3>2. CASE u # t
      BY <1>5, <2>1, <2>3, <3>2 DEF Whole, Exactly
    <3> QED
      BY <3>1, <3>2
  <2>4. AllMarked' => value' = Consolidated({u \in Tx : Counts(u)}', Zero)
    BY <1>1, <2>1, <2>2 DEF Whole, Exactly
  <2> QED
    BY <1>4, <2>3, <2>4 DEF Exactly
<1> QED
  BY <1>7, <1>8, <1>9

\* A worker at work reads the value nobody else can change.
LEMMA ReadingIsWhole ==
  ASSUME OneAtATime, Whole, NEW p \in Worker, [Next]_vars,
         Scan(p) \/ ScanFails(p) \/ Guard(p) \/ Read(p) \/ ReadFails(p)
  PROVE  Ordered' /\ Kept' /\ Exactly'
<1>0. /\ pc[p] \in {"scanning", "guarding", "reading"} /\ pc \in [Worker -> Steps]
      /\ base \in [Worker -> [Tx -> Nat]] /\ list \in [Worker -> SUBSET Tx]
  <2>1. pc[p] \in {"scanning", "guarding", "reading"}
    BY DEF Scan, ScanFails, Scanned, Guard, Read, ReadFails
  <2> QED
    BY <2>1 DEF Whole, Locked, Typed, TypeOK, Steps
<1>1. \A q \in Worker \ {p} : ~AtWork(q)
  BY <1>0, Alone DEF Whole, Locked, AtWork
<1>2. UNCHANGED <<stored, applied, record, value, left>>
  BY DEF Scan, ScanFails, Scanned, Guard, Read, ReadFails, store
<1>3. Kept' /\ Exactly'
  <2>1. \A t \in Tx : (Counts(t)' <=> Counts(t)) /\ (Marking(t)' <=> Marking(t))
    BY <1>2 DEF Counts, Marking
  <2>2. Pending' = Pending /\ Pending \subseteq Tx
    BY <1>2 DEF Pending, Whole, Locked, Typed, TypeOK
  <2> QED
    BY <1>2, <2>1, <2>2, SameCounts
<1>4. ~record' => value' = Zero
  BY <1>2 DEF Whole, Ordered
<1>5. ~excused' => ~excused
  BY MarkedBefore DEF Whole, Locked
<1>6. PICK step \in Steps : Goto(p, step)
  BY DEF Scan, ScanFails, Scanned, Guard, Read, ReadFails, GiveUp, Steps
<1>7. \A q \in Worker : (Working(q)' \/ pc'[q] = "writing") => q = p
  BY <1>0, <1>1, <1>6 DEF Working, AtWork, Goto
<1>8. ASSUME ~excused', pc'[p] = "writing" PROVE base'[p] = value'
  <2>1. Read(p) /\ base' = [base EXCEPT ![p] = IF record THEN value ELSE Zero]
    BY <1>0, <1>6, <1>8 DEF Scan, ScanFails, Scanned, Guard, Read, ReadFails, GiveUp, Goto
  <2> QED
    BY <1>0, <1>2, <2>1 DEF Whole, Ordered
<1>9. ASSUME ~excused', Working(p)', NEW u \in Pending' \ list'[p], NEW v \in list'[p],
             u \in Sets \/ v \in Sets
      PROVE  v < u
  <2>1. CASE Scan(p) \/ ScanFails(p)
    <3>1. Scan(p)
      BY <1>9, <2>1 DEF ScanFails
    <3>2. list'[p] = Pending /\ Pending' = Pending
      BY <1>0, <1>2, <3>1 DEF Scan, Scanned, Pending
    <3> QED
      BY <1>9, <3>2
  <2>2. CASE Guard(p) \/ Read(p) \/ ReadFails(p)
    <3>1. list' = list /\ Working(p) /\ Pending' = Pending
      BY <1>2, <2>2 DEF Guard, Read, ReadFails, Working, Pending
    <3> QED
      BY <1>5, <1>9, <3>1 DEF Whole, Ordered
  <2> QED
    BY <2>1, <2>2
<1>10. Ordered'
  BY <1>4, <1>7, <1>8, <1>9 DEF Ordered
<1> QED
  BY <1>3, <1>10

\* Of two batches, the sets of the later one after all of the earlier, consolidation on top
\* of a value loses nothing the value has.
LEMMA BatchKeeps ==
  ASSUME NEW K \in SUBSET Tx, NEW L \in SUBSET Tx, NEW v \in [Tx -> Nat],
         \A t \in K : v[t] > 0 \/ \E s \in Sets : s > t /\ v[s] > 0,
         \A u \in Sets \cap L, t \in K : t < u
  PROVE  \A t \in K \cup L :
           Consolidated(L, v)[t] > 0 \/ \E s \in Sets : s > t /\ Consolidated(L, v)[s] > 0
<1>0. PICK w : w = Consolidated(L, v)
  OBVIOUS
<1>1. CASE Sets \cap L = {}
  <2>1. w = [t \in Tx |-> v[t] + (IF t \in L THEN 1 ELSE 0)]
    BY <1>0, <1>1, WithoutSet
  <2>2. \A t \in Tx : w[t] >= v[t] /\ (t \in L => w[t] > 0)
    BY <2>1
  <2>3. \A t \in Tx : w[t] \in Nat /\ v[t] \in Nat
    BY <2>1
  <2>4. \A t \in Tx : v[t] > 0 => w[t] > 0
    BY <2>2, <2>3
  <2> QED
    BY <1>0, <2>2, <2>4
<1>2. CASE Sets \cap L # {}
  <2>1. PICK m \in Sets \cap L : w = [t \in Tx |-> IF t \in L /\ t >= m THEN 1 ELSE 0]
    BY <1>0, <1>2, WithSet
  <2>2. m \in Tx /\ w[m] > 0
    BY <2>1 DEF Tx
  <2>3. ASSUME NEW t \in K \cup L PROVE t < m \/ w[t] > 0
    BY <2>1, <2>2 DEF Tx
  <2> QED
    BY <1>0, <2>1, <2>2, <2>3 DEF Tx
<1> QED
  BY <1>1, <1>2

\* Two such batches add up to one.
LEMMA BatchesAddUp ==
  ASSUME NEW K \in SUBSET Tx, NEW L \in SUBSET Tx, K \cap L = {},
         \A u \in L, t \in K : u \in Sets \/ t \in Sets => t < u
  PROVE  Consolidated(L, Consolidated(K, Zero)) = Consolidated(K \cup L, Zero)
<1> PICK U \in SUBSET Tx : \A t : t \in U <=> t \in K \/ t \in L
  <2>1. K \cup L \in SUBSET Tx
    OBVIOUS
  <2> QED
    BY <2>1
<1>0. Zero \in [Tx -> Nat] /\ \A t \in Tx : Zero[t] = 0
  BY DEF Zero
<1>1. PICK v : v = Consolidated(K, Zero)
  OBVIOUS
<1>2. PICK w : w = Consolidated(U, Zero)
  OBVIOUS
<1> SUFFICES Consolidated(L, Consolidated(K, Zero)) = Consolidated(U, Zero)
  <2>1. U = K \cup L
    OBVIOUS
  <2> QED
    BY <2>1
<1>3. CASE Sets \cap L = {}
  <2>1. Consolidated(L, v) = [t \in Tx |-> v[t] + (IF t \in L THEN 1 ELSE 0)]
    BY <1>3, WithoutSet
  <2>2. CASE Sets \cap K = {}
    <3>1. v = [t \in Tx |-> IF t \in K THEN 1 ELSE 0]
      <4>1. v = [t \in Tx |-> Zero[t] + (IF t \in K THEN 1 ELSE 0)]
        BY <1>0, <1>1, <2>2, WithoutSet
      <4>2. \A t \in Tx : Zero[t] + (IF t \in K THEN 1 ELSE 0) = IF t \in K THEN 1 ELSE 0
        BY <1>0
      <4> QED
        BY <4>1, <4>2
    <3>2. Sets \cap (U) = {}
      BY <1>3, <2>2
    <3>3. Consolidated(U, Zero) = [t \in Tx |-> IF t \in U THEN 1 ELSE 0]
      <4>1. Consolidated(U, Zero) = [t \in Tx |-> Zero[t] + (IF t \in U THEN 1 ELSE 0)]
        BY <1>0, <3>2, WithoutSet
      <4>2. \A t \in Tx : Zero[t] + (IF t \in U THEN 1 ELSE 0) = IF t \in U THEN 1 ELSE 0
        BY <1>0
      <4> QED
        BY <4>1, <4>2
    <3>4. \A t \in Tx : v[t] + (IF t \in L THEN 1 ELSE 0) = IF t \in U THEN 1 ELSE 0
      BY <3>1
    <3> QED
      BY <1>1, <2>1, <3>3, <3>4
  <2>3. CASE Sets \cap K # {}
    <3>1. PICK m \in Sets \cap K :
            /\ \A s \in Sets \cap K : s <= m
            /\ v = [t \in Tx |-> IF t \in K /\ t >= m THEN 1 ELSE 0]
      BY <1>1, <2>3, WithSet
    <3>2. Sets \cap (U) = Sets \cap K
      BY <1>3
    <3>3. PICK n \in Sets \cap K :
            /\ \A s \in Sets \cap K : s <= n
            /\ w = [t \in Tx |-> IF t \in U /\ t >= n THEN 1 ELSE 0]
      BY <1>2, <2>3, <3>2, WithSet
    <3>4. n = m
      BY <3>1, <3>3 DEF Tx
    <3>5. \A t \in L : m < t
      BY <3>1
    <3>6. \A t \in Tx : v[t] + (IF t \in L THEN 1 ELSE 0) = IF t \in U /\ t >= m THEN 1 ELSE 0
      BY <3>1, <3>5 DEF Tx
    <3> QED
      BY <1>1, <1>2, <2>1, <3>3, <3>4, <3>6
  <2> QED
    BY <2>2, <2>3
<1>4. CASE Sets \cap L # {}
  <2>1. PICK m \in Sets \cap L :
          /\ \A s \in Sets \cap L : s <= m
          /\ Consolidated(L, v) = [t \in Tx |-> IF t \in L /\ t >= m THEN 1 ELSE 0]
    BY <1>4, WithSet
  <2>2. Sets \cap (U) # {}
    BY <1>4
  <2>3. PICK n \in Sets \cap (U) :
          /\ \A s \in Sets \cap (U) : s <= n
          /\ w = [t \in Tx |-> IF t \in U /\ t >= n THEN 1 ELSE 0]
    BY <1>2, <2>2, WithSet
  <2>4. n = m
    <3>1. m <= n
      BY <2>1, <2>3
    <3>2. n \in K => n < m
      BY <2>1
    <3>3. n \in L => n <= m
      BY <2>1, <2>3
    <3> QED
      BY <2>3, <3>1, <3>2, <3>3 DEF Tx
  <2>5. \A t \in K : t < m
    BY <2>1
  <2>6. \A t \in Tx : (t \in L /\ t >= m) <=> (t \in U /\ t >= m)
    BY <2>1, <2>5 DEF Tx
  <2> QED
    BY <1>1, <1>2, <2>1, <2>3, <2>4, <2>6
<1> QED
  BY <1>3, <1>4

LEMMA WriteIsWhole ==
  ASSUME OneAtATime, Whole, NEW p \in Worker, [Next]_vars, Write(p) \/ WriteFails(p)
  PROVE  Ordered' /\ Kept' /\ Exactly'
<1>0. /\ pc[p] = "writing" /\ pc \in [Worker -> Steps] /\ left \in [Worker -> SUBSET Tx]
      /\ missed \in [Tx -> Nat] /\ missed' \in [Tx -> Nat] /\ value \in [Tx -> Nat]
      /\ list[p] \in SUBSET Tx /\ applied \in SUBSET Tx /\ left[p] = {}
      /\ list[p] \subseteq Pending /\ Pending \subseteq Tx
  <2>1. pc[p] = "writing" /\ Typed
    BY DEF Write, WriteFails, Whole, Locked
  <2>2. missed' \in [Tx -> Nat]
    BY <2>1, TypedStep DEF Typed, TypeOK
  <2>3. list[p] \subseteq Pending
    BY <2>1 DEF Whole, Locked, Fresh, Working, Typed, Listed, Pending
  <2> QED
    BY <2>1, <2>2, <2>3 DEF Typed, TypeOK, Steps, Pending
<1>1. \A q \in Worker \ {p} : ~AtWork(q) /\ left[q] = {}
  BY <1>0, Alone DEF Whole, Locked, AtWork
<1>2. UNCHANGED <<stored, applied, list, base>>
  BY DEF Write, WriteFails, ghosts
<1>3. \A t : ~Marking(t) /\ (Counts(t) <=> t \in applied)
  BY <1>0, <1>1 DEF Marking, Counts
<1>4. PICK step \in {"marking", "closing"} : Goto(p, step)
  BY DEF Write, WriteFails, GiveUp
<1>5. Ordered'
  <2>1. \A q \in Worker : ~Working(q)' /\ pc'[q] # "writing"
    BY <1>0, <1>1, <1>4 DEF Working, AtWork, Goto
  <2>2. ~record' => value' = Zero
    BY DEF Write, WriteFails, Whole, Ordered
  <2> QED
    BY <2>1, <2>2 DEF Ordered
<1>6. Pending' = Pending
  BY <1>2 DEF Pending
<1>7. SetsMarked' \/ AllMarked' => base[p] = value
  BY <1>0, MarkedBefore DEF Whole, Locked, Ordered, SetsMarked, AllMarked
<1>8. ASSUME SetsMarked' \/ AllMarked', NEW u \in Pending \ list[p], NEW v \in list[p],
             u \in Sets \/ v \in Sets
      PROVE  v < u
  BY <1>0, <1>8, MarkedBefore DEF Whole, Locked, Ordered, Working, SetsMarked, AllMarked
<1>9. SetsMarked' => SetsMarked
  BY MarkedBefore DEF Whole, Locked
<1>10. AllMarked' => AllMarked
  BY MarkedBefore DEF Whole, Locked
<1>11. CASE Write(p)
  <2>1. value' = Consolidated(list[p], base[p]) /\ left' = [left EXCEPT ![p] = list[p]]
    BY <1>11 DEF Write
  <2>2. \A t : (Marking(t)' <=> t \in list[p]) /\ (Counts(t)' <=> t \in applied \cup list[p])
    BY <1>0, <1>1, <1>2, <2>1 DEF Marking, Counts
  <2>3. Kept'
    <3>1. ASSUME SetsMarked' PROVE \A t \in Tx : Counts(t)' => InValue(t)'
      <4>1. \A t \in applied : value[t] > 0 \/ \E s \in Sets : s > t /\ value[s] > 0
        BY <1>0, <1>3, <1>9, <3>1 DEF Whole, Kept, InValue
      <4>2. \A u \in Sets \cap list[p], t \in applied : t < u
        BY <1>0, <1>3, <1>9, <3>1 DEF Whole, Kept
      <4>3. value' = Consolidated(list[p], value)
        BY <1>7, <2>1, <3>1
      <4>4. \A t \in applied \cup list[p] : value'[t] > 0 \/ \E s \in Sets : s > t /\ value'[s] > 0
        BY <1>0, <4>1, <4>2, <4>3, BatchKeeps
      <4> QED
        BY <2>2, <4>4 DEF InValue
    <3>2. ASSUME SetsMarked', NEW u \in Sets \cap Pending', NEW t \in Tx, ~Marking(u)', Counts(t)'
          PROVE  t < u
      <4>1. u \in Pending \ list[p] /\ (t \in applied \/ t \in list[p])
        BY <1>6, <2>2, <3>2
      <4> QED
        BY <1>3, <1>8, <1>9, <3>2, <4>1 DEF Whole, Kept
    <3> QED
      BY <3>1, <3>2 DEF Kept
  <2>4. Exactly'
    <3>1. ASSUME AllMarked' PROVE value' = Consolidated({t \in Tx : Counts(t)}', Zero)
      <4>1. {t \in Tx : Counts(t)} = applied /\ {t \in Tx : Counts(t)}' = applied \cup list[p]
        BY <1>0, <1>3, <2>2
      <4>2. value' = Consolidated(list[p], Consolidated(applied, Zero))
        BY <1>7, <1>10, <2>1, <3>1, <4>1 DEF Whole, Exactly
      <4>3. \A u \in list[p], t \in applied : u \in Sets \/ t \in Sets => t < u
        BY <1>0, <1>3, <1>10, <3>1 DEF Whole, Exactly
      <4>4. applied \cap list[p] = {}
        BY <1>0 DEF Pending
      <4> QED
        BY <1>0, <4>1, <4>2, <4>3, <4>4, BatchesAddUp
    <3>2. ASSUME AllMarked', NEW u \in Pending', NEW t \in Tx, ~Marking(u)', Counts(t)',
                 u \in Sets \/ t \in Sets
          PROVE  t < u
      <4>1. u \in Pending \ list[p] /\ (t \in applied \/ t \in list[p])
        BY <1>6, <2>2, <3>2
      <4> QED
        BY <1>3, <1>8, <1>10, <3>2, <4>1 DEF Whole, Exactly
    <3> QED
      BY <3>1, <3>2 DEF Exactly
  <2> QED
    BY <1>5, <2>3, <2>4
<1>12. CASE WriteFails(p)
  <2>1. left' = left
    BY <1>12 DEF WriteFails
  <2>2. \A t : (Marking(t)' <=> Marking(t)) /\ (Counts(t)' <=> t \in applied)
    BY <1>0, <1>1, <1>2, <2>1 DEF Marking, Counts
  <2>3. CASE value' = value
    BY <1>3, <1>5, <1>6, <2>2, <2>3, SameCounts
  <2>4. CASE value' = Consolidated(list[p], base[p]) /\ Missing(list[p])
    <3>1. \A t \in list[p] : missed'[t] > 0
      BY <1>0, <2>4, MissingIsCount
    <3>2. SetsMarked' => Sets \cap list[p] = {}
      BY <3>1 DEF SetsMarked
    <3>3. AllMarked' => list[p] = {}
      BY <1>0, <3>1 DEF AllMarked, Zero
    <3>4. Kept'
      <4>1. ASSUME SetsMarked', NEW t \in Tx, t \in applied PROVE InValue(t)'
        <5>1. \A u \in applied : value[u] > 0 \/ \E s \in Sets : s > u /\ value[s] > 0
          BY <1>0, <1>3, <1>9, <4>1 DEF Whole, Kept, InValue
        <5>2. value' = Consolidated(list[p], value)
          BY <1>7, <2>4, <4>1
        <5>3. \A u \in applied \cup list[p] : value'[u] > 0 \/ \E s \in Sets : s > u /\ value'[s] > 0
          BY <1>0, <3>2, <4>1, <5>1, <5>2, BatchKeeps
        <5> QED
          BY <4>1, <5>3 DEF InValue
      <4>2. SetsMarked' => \A u \in Sets \cap Pending, t \in Tx : ~Marking(u) /\ Counts(t) => t < u
        BY <1>9 DEF Whole, Kept
      <4> QED
        BY <1>3, <1>6, <2>2, <4>1, <4>2 DEF Kept
    <3>5. Exactly'
      <4>1. ASSUME AllMarked' PROVE value' = value
        <5>1. Consolidated({}, value) = [t \in Tx |-> value[t] + (IF t \in {} THEN 1 ELSE 0)]
          BY WithoutSet
        <5>2. Consolidated({}, value) = value
          BY <1>0, <5>1
        <5> QED
          BY <1>7, <2>4, <3>3, <4>1, <5>2
      <4>2. {t \in Tx : Counts(t)}' = {t \in Tx : Counts(t)}
        BY <1>3, <2>2
      <4> QED
        BY <1>3, <1>6, <1>10, <2>2, <4>1, <4>2 DEF Whole, Exactly
    <3> QED
      BY <1>5, <3>4, <3>5
  <2>5. value' = value \/ (value' = Consolidated(list[p], base[p]) /\ Missing(list[p]))
    BY <1>12 DEF WriteFails
  <2> QED
    BY <2>3, <2>4, <2>5
<1> QED
  BY <1>11, <1>12

LEMMA MarkIsWhole ==
  ASSUME OneAtATime, Whole, NEW p \in Worker, NEW t \in Tx, [Next]_vars, Mark(p, t) \/ MarkFails(p, t)
  PROVE  Ordered' /\ Kept' /\ Exactly'
<1>0. /\ pc[p] = "marking" /\ t \in left[p] /\ left' = [left EXCEPT ![p] = left[p] \ {t}]
      /\ UNCHANGED <<stored, record, value, pc, list, base>>
  BY DEF Mark, MarkFails, store
<1>1. /\ left \in [Worker -> SUBSET Tx] /\ missed \in [Tx -> Nat] /\ applied \subseteq Tx /\ stored \subseteq Tx
      /\ \A q \in Worker \ {p} : ~AtWork(q) /\ left[q] = {}
  BY <1>0, Alone DEF Whole, Locked, Typed, TypeOK, AtWork
<1>2. Ordered'
  <2>1. \A q \in Worker : ~Working(q)' /\ pc'[q] # "writing"
    BY <1>0, <1>1 DEF Working, AtWork
  <2> QED
    BY <1>0, <2>1 DEF Whole, Ordered
<1>3. \A u : (Marking(u) <=> u \in left[p]) /\ (Marking(u)' <=> u \in left[p] /\ u # t)
  BY <1>0, <1>1 DEF Marking
<1>4. CASE Mark(p, t)
  <2>1. applied' = applied \cup {t}
    BY <1>4 DEF Mark
  <2>2. \A u \in Tx : Counts(u)' <=> Counts(u)
    BY <1>0, <1>3, <2>1 DEF Counts
  <2>3. \A u \in Pending' : u \in Pending /\ (Marking(u) => Marking(u)')
    BY <1>0, <1>3, <2>1 DEF Pending
  <2> QED
    BY <1>0, <1>2, <2>2, <2>3, SameCounts
<1>5. CASE MarkFails(p, t)
  <2>1. applied' = applied /\ Missing({t})
    BY <1>5 DEF MarkFails, store
  <2>2. missed'[t] = missed[t] + 1 /\ missed[t] \in Nat
    BY <1>1, <2>1, MissingIsCount
  <2>3. ~AllMarked' /\ (SetsMarked' => t \notin Sets)
    BY <2>2 DEF AllMarked, Zero, SetsMarked
  <2>4. \A u : Counts(u)' => Counts(u)
    BY <1>3, <2>1 DEF Counts
  <2>5. Pending' = Pending
    BY <1>0, <2>1 DEF Pending
  <2>6. SetsMarked' => SetsMarked
    BY MarkedBefore DEF Whole, Locked
  <2>7. \A u \in Tx : InValue(u)' <=> InValue(u)
    BY <1>0 DEF InValue
  <2>8. Kept'
    BY <1>3, <2>3, <2>4, <2>5, <2>6, <2>7 DEF Whole, Kept
  <2> QED
    BY <1>2, <2>3, <2>8 DEF Exactly
<1> QED
  BY <1>4, <1>5

LEMMA LeavingIsWhole ==
  ASSUME OneAtATime, Whole, NEW p \in Worker, [Next]_vars, Close(p) \/ Crash(p)
  PROVE  Ordered' /\ Kept' /\ Exactly'
<1>0. /\ pc \in [Worker -> Steps] /\ left \in [Worker -> SUBSET Tx]
      /\ missed \in [Tx -> Nat] /\ stored \subseteq Tx
  BY DEF Whole, Locked, Typed, TypeOK, Steps
<1>1. ~excused' => ~excused
  BY MarkedBefore DEF Whole, Locked
<1>2. Goto(p, "idle") /\ UNCHANGED <<stored, applied, record, value, list, base>>
  BY DEF Close, Crash, store
<1>3. Ordered'
  <2>1. \A q \in Worker : (Working(q)' => Working(q)) /\ (pc'[q] = "writing" => pc[q] = "writing")
    BY <1>0, <1>2 DEF Working, Goto
  <2> QED
    BY <1>1, <1>2, <2>1 DEF Whole, Ordered, Pending
<1>4. Pending' = Pending /\ Pending \subseteq Tx
  BY <1>0, <1>2 DEF Pending
<1>5. ASSUME left' = left PROVE Kept' /\ Exactly'
  <2>1. \A u : (Counts(u)' <=> Counts(u)) /\ (Marking(u)' <=> Marking(u))
    BY <1>2, <1>5 DEF Counts, Marking
  <2> QED
    BY <1>2, <1>4, <2>1, SameCounts
<1>6. CASE Close(p)
  BY <1>3, <1>5, <1>6 DEF Close
<1>7. CASE Crash(p)
  <2>1. left' = [left EXCEPT ![p] = {}] /\ Missing(left[p])
    BY <1>7 DEF Crash
  <2>2. \A u \in left[p] : missed'[u] = missed[u] + 1 /\ missed[u] \in Nat
    BY <1>0, <2>1, MissingIsCount
  <2>3. (SetsMarked' => Sets \cap left[p] = {}) /\ (AllMarked' => left[p] = {})
    BY <1>0, <2>2 DEF SetsMarked, AllMarked, Zero
  <2>4. \A u : (Counts(u)' => Counts(u)) /\ (u \notin left[p] => (Marking(u)' <=> Marking(u)))
    BY <1>0, <1>2, <2>1 DEF Marking, Counts
  <2>5. SetsMarked' => SetsMarked
    BY MarkedBefore DEF Whole, Locked
  <2>6. \A u \in Tx : InValue(u)' <=> InValue(u)
    BY <1>2 DEF InValue
  <2>7. Kept'
    BY <1>4, <2>3, <2>4, <2>5, <2>6 DEF Whole, Kept
  <2>8. CASE left[p] = {}
    BY <1>0, <1>3, <1>5, <2>1, <2>8
  <2>9. CASE left[p] # {}
    BY <1>3, <2>3, <2>7, <2>9 DEF Exactly
  <2> QED
    BY <2>8, <2>9
<1> QED
  BY <1>6, <1>7

LEMMA OthersAreWhole ==
  ASSUME Whole, [Next]_vars, Aside
  PROVE  Ordered' /\ Kept' /\ Exactly'
<1>1. /\ UNCHANGED <<stored, applied, record, value, list, base, left>>
      /\ \A p \in Worker : pc'[p] = pc[p] \/ pc'[p] \in {"idle", "checking", "scanning"}
  BY AsideChangesNothing DEF Whole, Locked
<1>2. \A p \in Worker : (Working(p)' => Working(p)) /\ (pc'[p] = "writing" => pc[p] = "writing")
  BY <1>1 DEF Working
<1>3. Pending' = Pending /\ Pending \subseteq Tx
  BY <1>1 DEF Pending, Whole, Locked, Typed, TypeOK
<1>4. ~excused' => ~excused
  BY MarkedBefore DEF Whole, Locked
<1>5. Ordered'
  BY <1>1, <1>2, <1>3, <1>4 DEF Whole, Ordered
<1>6. \A u : (Counts(u)' <=> Counts(u)) /\ (Marking(u)' <=> Marking(u))
  BY <1>1 DEF Counts, Marking
<1> QED
  BY <1>1, <1>3, <1>5, <1>6, SameCounts

LEMMA WholeStep ==
  ASSUME OneAtATime, Whole, [Next]_vars
  PROVE  Whole'
<1>1. Locked'
  BY LockedStep DEF Whole
<1>2. ASSUME NEW p \in Worker, Continue(p) \/ Fails(p) PROVE Ordered' /\ Kept' /\ Exactly'
  BY <1>2, OthersAreWhole, ReadingIsWhole, WriteIsWhole, LeavingIsWhole, MarkIsWhole DEF Continue, Fails, Aside
<1>3. Ordered' /\ Kept' /\ Exactly'
  BY <1>2, InsertIsWhole, OthersAreWhole DEF Next, Aside
<1> QED
  BY <1>1, <1>3 DEF Whole

\* Where workers take turns what is marked applied stays in the value, or under a later set in it.
THEOREM ConsolidationLosesNothing ==
  ASSUME OneAtATime
  PROVE  Spec => []NothingLost
<1>1. Whole => NothingLost
  <2>1. ASSUME Whole, SetsMarked, NEW t \in applied
        PROVE  value[t] > 0 \/ \E s \in Sets : s > t /\ value[s] > 0
    <3>1. t \in Tx /\ Counts(t)
      BY <2>1 DEF Counts, Whole, Locked, Typed, TypeOK
    <3> QED
      BY <2>1, <3>1 DEF Whole, Kept, InValue
  <2> QED
    BY <2>1 DEF NothingLost, SetsMarked
<1>2. Init => Whole
  BY WholeInit
<1>3. Whole /\ [Next]_vars => Whole'
  BY WholeStep
<1> QED
  BY <1>1, <1>2, <1>3, PTL DEF Spec

\* Where workers take turns the field ends at what the transactions amount to in the order of their
\* timestamps, whatever batches they were applied in.
THEOREM ConsolidationConverges ==
  ASSUME OneAtATime
  PROVE  Spec => []Converges
<1>1. Whole => Converges
  <2>1. ASSUME Whole, ~excused, missed = Zero, applied = stored
        PROVE  value = Consolidated(stored, Zero)
    <3>1. \A t \in Tx : Counts(t) <=> t \in stored
      BY <2>1 DEF Counts, Marking, Whole, Locked, Typed, TypeOK, Listed
    <3>2. {t \in Tx : Counts(t)} = stored
      <4>1. stored \subseteq Tx
        BY <2>1 DEF Whole, Locked, Typed, TypeOK
      <4> QED
        BY <3>1, <4>1
    <3> QED
      BY <2>1, <3>2 DEF Whole, Exactly, AllMarked
  <2> QED
    BY <2>1 DEF Converges
<1>2. Init => Whole
  BY WholeInit
<1>3. Whole /\ [Next]_vars => Whole'
  BY WholeStep
<1> QED
  BY <1>1, <1>2, <1>3, PTL DEF Spec
=============================================================================
