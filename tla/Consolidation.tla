--------------------------- MODULE Consolidation ----------------------------
(***************************************************************************)
(* The eventual consistency plugin: add, sub and set do not write a        *)
(* record's field but store a transaction; consolidation later reads the   *)
(* pending transactions, writes their effect to the record and marks them  *)
(* applied.  Three entry points do this: the timer's runConsolidation      *)
(* under a lock of the field, consolidate(id) (runRecordConsolidation)     *)
(* under a lock of the record, and, with a coordinator, processTicket      *)
(* under a claimed ticket.  Nothing makes the write and the marks one      *)
(* step, and any process may die between two storage calls.                *)
(*                                                                         *)
(* One record and one field.  Transactions are numbered in the order of    *)
(* compareTransactionsByTimestamp; the value of the field is how often     *)
(* each of them is counted in it.  A lock is an ExclusiveLease of 300 s    *)
(* taken with timeout 0: a caller that finds it taken gives up, and nobody *)
(* reclaims the lock of a dead owner.                                      *)
(***************************************************************************)
EXTENDS Naturals, FiniteSets, FiniteSetsExt

CONSTANTS
  N,          \* number of transactions
  Sets,       \* those whose operation is 'set'; the others add
  Worker,     \* consolidations that may run side by side
  Ticket,     \* slots for tickets
  NoTicket,
  Nobody,     \* holds what is free
  Dead,       \* holds what a crashed worker held
  Scenarios,  \* which entry points and workers are in use, whether the record exists, what may fail
  MaxRetries, \* ticketMaxRetries
  MaxFaults   \* bound on failures

Tx == 1 .. N
Holder == Worker \cup {Nobody, Dead}

ASSUME ConsolidationAssumption ==
  /\ N \in Nat /\ Sets \subseteq Tx /\ MaxRetries \in Nat /\ MaxFaults \in Nat
  /\ Nobody \notin Worker /\ Dead \notin Worker /\ NoTicket \notin Ticket
  /\ Scenarios \subseteq
       [kinds : SUBSET {"field", "record", "ticket"}, workers : SUBSET Worker,
        records : SUBSET BOOLEAN,
        faults : SUBSET {"crash", "scan", "read", "write", "mark", "expire", "overrun"}]

VARIABLES
  scenario,
  stored,  \* transactions in the transaction resource
  applied, \* those with applied = true
  record,  \* the target record exists
  value,   \* its field
  lock,    \* holders of the field's and the record's lock
  tickets,
  pc,      \* where each worker is
  kind,    \* its entry point
  list,    \* the pending transactions it read
  base,    \* the value it read
  left,    \* the transactions it still has to mark
  claim,   \* its ticket
  failed,  \* hadErrors
  boss,    \* where coordinatorWork is
  active,  \* getActiveTicketRecords has seen a ticket for the record
  missed,  \* ghost: how often a transaction was written and not marked
  excused, \* ghost: transactions met out of order, or a read failed
  faults

store == <<stored, applied, record, value>>
work == <<pc, kind, list, base, left, claim, failed>>
central == <<boss, active>>
ghosts == <<missed, excused, faults>>
vars == <<scenario, store, lock, tickets, work, central, ghosts>>

Zero == [t \in Tx |-> 0]
Tickets ==
  [status : {"available", "processing"}, by : Holder, expired : BOOLEAN, lapsed : BOOLEAN,
   tries : 0 .. MaxRetries]

(***************************************************************************)
(* A worker marks only what it read and has written; a lock or a ticket    *)
(* held by a live worker is held by one that is at work under it.          *)
(***************************************************************************)
TypeOK ==
  /\ scenario \in Scenarios
  /\ stored \subseteq Tx /\ applied \subseteq stored
  /\ record \in BOOLEAN /\ value \in [Tx -> Nat]
  /\ lock \in [{"field", "record"} -> Holder]
  /\ tickets \in [Ticket -> Tickets \cup {NoTicket}]
  /\ pc \in [Worker -> {"idle", "checking", "scanning", "guarding", "reading", "writing",
                        "marking", "closing"}]
  /\ kind \in [Worker -> {"field", "record", "ticket"}]
  /\ list \in [Worker -> SUBSET Tx] /\ left \in [Worker -> SUBSET Tx]
  /\ \A p \in Worker : left[p] # {} => pc[p] = "marking" /\ left[p] \subseteq list[p]
  /\ base \in [Worker -> [Tx -> Nat]]
  /\ claim \in [Worker -> Ticket \cup {NoTicket}]
  /\ failed \in [Worker -> BOOLEAN]
  /\ boss \in {"idle", "available", "processing", "creating"} /\ active \in BOOLEAN
  /\ missed \in [Tx -> Nat] /\ excused \in BOOLEAN /\ faults \in 0 .. MaxFaults
  /\ \A l \in DOMAIN lock : lock[l] \in Worker => pc[lock[l]] # "idle" /\ kind[lock[l]] # "ticket"
  /\ \A p \in Worker : claim[p] # NoTicket <=> pc[p] # "idle" /\ kind[p] = "ticket"

Init ==
  /\ scenario \in Scenarios
  /\ stored = {} /\ applied = {}
  /\ record \in scenario.records /\ value = Zero
  /\ lock = [l \in {"field", "record"} |-> Nobody]
  /\ tickets = [k \in Ticket |-> NoTicket]
  /\ pc = [p \in Worker |-> "idle"]
  /\ kind = [p \in Worker |-> "field"]
  /\ list = [p \in Worker |-> {}] /\ left = [p \in Worker |-> {}]
  /\ base = [p \in Worker |-> Zero]
  /\ claim = [p \in Worker |-> NoTicket]
  /\ failed = [p \in Worker |-> FALSE]
  /\ boss = "idle" /\ active = FALSE
  /\ missed = Zero /\ excused = FALSE /\ faults = 0

-----------------------------------------------------------------------------
Fault(f) == f \in scenario.faults /\ faults < MaxFaults /\ faults' = faults + 1
Pending == stored \ applied
Goto(p, step) == pc' = [pc EXCEPT ![p] = step]

\* Mutant: a set overrides the stored value only, not the adds before it.
ConsolidatedUnsorted(txs, from) ==
  LET sets == Sets \cap txs
  IN [t \in Tx |->
        IF sets = {} THEN from[t] + (IF t \in txs THEN 1 ELSE 0)
        ELSE IF t = Max(sets) \/ t \in txs \ Sets THEN 1 ELSE 0]

\* Sorted by timestamp, the last set and what follows it; without a set, everything on top
\* of the stored value.
Consolidated(txs, from) ==
  LET sets == Sets \cap txs
  IN [t \in Tx |->
        IF sets = {} THEN from[t] + (IF t \in txs THEN 1 ELSE 0)
        ELSE IF t \in txs /\ t >= Max(sets) THEN 1 ELSE 0]

\* createTransaction takes the timestamp before it awaits the insert: transactions may
\* arrive in another order, which matters when one of them is a set.
Insert(t) ==
  /\ t \notin stored
  /\ stored' = stored \cup {t}
  /\ excused' = (excused \/ \E u \in stored : u > t /\ {t, u} \cap Sets # {})
  /\ UNCHANGED <<scenario, applied, record, value, lock, tickets, work, central, missed, faults>>

-----------------------------------------------------------------------------
(* The lock of the field, of the record, or a ticket.                      *)

Begin(p, k) ==
  /\ k \in scenario.kinds /\ p \in scenario.workers
  /\ pc[p] = "idle"
  /\ kind' = [kind EXCEPT ![p] = k]
  /\ failed' = [failed EXCEPT ![p] = FALSE]

\* Mutant: a lock that is taken is not respected.
BeginUnlocked(p, k) ==
  /\ Begin(p, k)
  /\ lock' = [lock EXCEPT ![k] = p]
  /\ Goto(p, "scanning")
  /\ UNCHANGED <<scenario, store, tickets, list, base, left, claim, central, ghosts>>

BeginLocked(p, k) ==
  /\ Begin(p, k)
  /\ lock[k] = Nobody
  /\ lock' = [lock EXCEPT ![k] = p]
  /\ Goto(p, "scanning")
  /\ UNCHANGED <<scenario, store, tickets, list, base, left, claim, central, ghosts>>

Claim(p, k) ==
  /\ Begin(p, "ticket")
  /\ tickets[k] # NoTicket
  /\ tickets[k].status = "available" /\ ~tickets[k].expired
  /\ tickets' = [tickets EXCEPT ![k] =
                    [@ EXCEPT !.status = "processing", !.by = p, !.lapsed = FALSE]]
  /\ claim' = [claim EXCEPT ![p] = k]
  /\ Goto(p, "checking")
  /\ UNCHANGED <<scenario, store, lock, list, base, left, central, ghosts>>

\* Mutant: a ticket in processing is taken for one's own.
HoldsAnybodys(p, k) == tickets[k] # NoTicket /\ tickets[k].status = "processing"

\* processTicket reads its ticket again: several may have been claimed at once.
Holds(p, k) ==
  tickets[k] # NoTicket /\ tickets[k].status = "processing" /\ tickets[k].by = p

Check(p) ==
  LET k == claim[p]
  IN /\ pc[p] = "checking"
     /\ IF Holds(p, k) /\ ~tickets[k].expired /\ ~tickets[k].lapsed
          THEN Goto(p, "scanning") /\ UNCHANGED claim
          ELSE Goto(p, "idle") /\ claim' = [claim EXCEPT ![p] = NoTicket]
     /\ UNCHANGED <<scenario, store, lock, tickets, kind, list, base, left, failed, central, ghosts>>

-----------------------------------------------------------------------------
(* Reading, writing and marking.                                           *)

Scanned(p, txs) ==
  /\ pc[p] = "scanning"
  /\ list' = [list EXCEPT ![p] = txs]
  /\ Goto(p, IF txs = {} THEN "closing" ELSE IF kind[p] = "field" THEN "guarding" ELSE "reading")
  /\ UNCHANGED <<scenario, store, lock, tickets, kind, base, left, claim, failed, central, missed>>

Scan(p) == Scanned(p, Pending) /\ UNCHANGED <<excused, faults>>

\* A page or a cohort that cannot be read counts as empty.
ScanFails(p) ==
  /\ \E txs \in SUBSET Pending : txs # Pending /\ Scanned(p, txs)
  /\ Fault("scan")
  /\ excused' = TRUE

\* runConsolidation takes the record's lock after the scan, and does not scan again.
Guard(p) ==
  /\ pc[p] = "guarding"
  /\ IF lock["record"] = Nobody
       THEN lock' = [lock EXCEPT !["record"] = p] /\ Goto(p, "reading")
       ELSE Goto(p, "closing") /\ UNCHANGED lock
  /\ UNCHANGED <<scenario, store, tickets, kind, list, base, left, claim, failed, central, ghosts>>

\* What processTicket does when the record cannot be read or written.
GiveUp(p) ==
  /\ Goto(p, "closing")
  /\ failed' = [failed EXCEPT ![p] = TRUE]

\* A set needs no value to start from; a missing record has the initial one, except that
\* processTicket wants it to exist.
Read(p) ==
  /\ pc[p] = "reading"
  /\ IF kind[p] = "ticket" /\ ~record /\ Sets \cap list[p] = {}
       THEN GiveUp(p) /\ UNCHANGED base
       ELSE /\ base' = [base EXCEPT ![p] = IF record THEN value ELSE Zero]
            /\ Goto(p, "writing")
            /\ UNCHANGED failed
  /\ UNCHANGED <<scenario, store, lock, tickets, kind, list, left, claim, central, ghosts>>

\* consolidateRecord takes any failure for a missing record.
ReadFails(p) ==
  /\ pc[p] = "reading" /\ Sets \cap list[p] = {}
  /\ Fault("read")
  /\ IF kind[p] = "ticket"
       THEN GiveUp(p) /\ UNCHANGED <<base, excused>>
       ELSE /\ base' = [base EXCEPT ![p] = Zero]
            /\ Goto(p, "writing")
            /\ excused' = TRUE
            /\ UNCHANGED failed
  /\ UNCHANGED <<scenario, store, lock, tickets, kind, list, left, claim, central, missed>>

Write(p) ==
  /\ pc[p] = "writing"
  /\ value' = Consolidated(list[p], base[p])
  /\ record' = TRUE
  /\ left' = [left EXCEPT ![p] = list[p]]
  /\ Goto(p, "marking")
  /\ UNCHANGED <<scenario, stored, applied, lock, tickets, kind, list, base, claim, failed,
                 central, ghosts>>

Missing(txs) == missed' = [t \in Tx |-> missed[t] + (IF t \in txs THEN 1 ELSE 0)]

\* The write is refused, or is done and its answer lost; nothing is marked.
WriteFails(p) ==
  /\ pc[p] = "writing"
  /\ Fault("write")
  /\ \/ UNCHANGED <<record, value, missed>>
     \/ value' = Consolidated(list[p], base[p]) /\ record' = TRUE /\ Missing(list[p])
  /\ GiveUp(p)
  /\ UNCHANGED <<scenario, stored, applied, lock, tickets, kind, list, base, left, claim,
                 central, excused>>

Mark(p, t) ==
  /\ pc[p] = "marking" /\ t \in left[p]
  /\ applied' = applied \cup {t}
  /\ left' = [left EXCEPT ![p] = @ \ {t}]
  /\ UNCHANGED <<scenario, stored, record, value, lock, tickets, pc, kind, list, base, claim,
                 failed, central, ghosts>>

\* consolidateRecord ignores it; processTicket releases its ticket for a retry.
MarkFails(p, t) ==
  /\ pc[p] = "marking" /\ t \in left[p]
  /\ Fault("mark")
  /\ left' = [left EXCEPT ![p] = @ \ {t}]
  /\ failed' = [failed EXCEPT ![p] = TRUE]
  /\ Missing({t})
  /\ UNCHANGED <<scenario, store, lock, tickets, pc, kind, list, base, claim, central, excused>>

Finished(p) == pc[p] = "closing" \/ (pc[p] = "marking" /\ left[p] = {})

Released(t) ==
  IF t.tries = MaxRetries THEN NoTicket
  ELSE [t EXCEPT !.status = "available", !.by = Nobody, !.tries = @ + 1]

\* Mutant: the early returns skip the release.
CloseKeepsLock(p) ==
  /\ Finished(p) /\ claim[p] = NoTicket
  /\ Goto(p, "idle")
  /\ lock' = [l \in DOMAIN lock |-> IF lock[l] = p /\ list[p] # {} THEN Nobody ELSE lock[l]]
  /\ UNCHANGED <<scenario, store, tickets, kind, list, base, left, claim, failed, central, ghosts>>

\* The locks are released one after the other, or the ticket is deleted, or released for a
\* retry with its expiry pushed back.
Close(p) ==
  LET k == claim[p]
  IN /\ Finished(p)
     /\ Goto(p, "idle")
     /\ lock' = [l \in DOMAIN lock |-> IF lock[l] = p THEN Nobody ELSE lock[l]]
     /\ claim' = [claim EXCEPT ![p] = NoTicket]
     /\ IF k = NoTicket \/ (failed[p] /\ ~Holds(p, k)) THEN UNCHANGED tickets
        ELSE tickets' = [tickets EXCEPT ![k] =
               IF failed[p] THEN Released([@ EXCEPT !.expired = FALSE]) ELSE NoTicket]
     /\ UNCHANGED <<scenario, store, kind, list, base, left, failed, central, ghosts>>

-----------------------------------------------------------------------------
(* The coordinator, the clock and crashes.                                 *)

\* Mutant: only expired tickets are stale.
ReclaimedExpired(t) == IF t = NoTicket \/ t.expired THEN NoTicket ELSE t

\* reclaimStaleTickets: each ticket is read again and its release is conditional on that.
Reclaimed(t) ==
  IF t = NoTicket \/ t.expired THEN NoTicket
  ELSE IF t.status = "processing" /\ t.lapsed THEN Released(t)
  ELSE t

CoordinatorWork == "ticket" \in scenario.kinds

ReclaimStaleTickets ==
  /\ CoordinatorWork
  /\ boss = "idle" /\ boss' = "available"
  /\ tickets' = [k \in Ticket |-> Reclaimed(tickets[k])]
  /\ active' = FALSE
  /\ UNCHANGED <<scenario, store, lock, work, ghosts>>

InStatus(s) ==
  \E k \in Ticket : tickets[k] # NoTicket /\ tickets[k].status = s /\ ~tickets[k].expired

\* getActiveTicketRecords lists the available tickets, then those in processing.
ListTickets(s, next) ==
  /\ boss = s /\ boss' = next
  /\ active' = (active \/ InStatus(s))
  /\ UNCHANGED <<scenario, store, lock, tickets, work, ghosts>>

NewTicket ==
  [status |-> "available", by |-> Nobody, expired |-> FALSE, lapsed |-> FALSE, tries |-> 0]

\* What was pending at the scan may be applied when the ticket is inserted.
CreateTicket ==
  /\ boss = "creating" /\ boss' = "idle"
  /\ \/ (active \/ Pending = {}) /\ UNCHANGED tickets
     \/ /\ ~active /\ stored # {}
        /\ \E k \in Ticket :
             /\ tickets[k] = NoTicket /\ \A p \in Worker : claim[p] # k
             /\ tickets' = [tickets EXCEPT ![k] = NewTicket]
  /\ UNCHANGED <<scenario, store, lock, work, active, ghosts>>

Coordinate ==
  \/ ReclaimStaleTickets
  \/ ListTickets("available", "processing")
  \/ ListTickets("processing", "creating")
  \/ CreateTicket

\* A worker past its check finishes while its ticket lasts, unless it overruns.
InTime(k) ==
  \A p \in Worker : claim[p] = k /\ pc[p] # "checking" => "overrun" \in scenario.faults

Expire(k) ==
  /\ tickets[k] # NoTicket /\ ~tickets[k].expired
  /\ InTime(k) /\ Fault("expire")
  /\ tickets' = [tickets EXCEPT ![k].expired = TRUE]
  /\ UNCHANGED <<scenario, store, lock, work, central, missed, excused>>

Lapse(k) ==
  /\ tickets[k] # NoTicket /\ tickets[k].status = "processing" /\ ~tickets[k].lapsed
  /\ tickets' = [tickets EXCEPT ![k].lapsed = TRUE]
  /\ UNCHANGED <<scenario, store, lock, work, central, missed, excused>>

\* Of a dead worker's ticket surely, of another's only as a failure.
LapseOfDead(k) == tickets[k] # NoTicket /\ tickets[k].by = Dead /\ Lapse(k) /\ UNCHANGED faults
LapseOfSlow(k) == Lapse(k) /\ tickets[k].by # Dead /\ InTime(k) /\ Fault("expire")

Crash(p) ==
  /\ pc[p] # "idle"
  /\ Fault("crash")
  /\ Goto(p, "idle")
  /\ lock' = [l \in DOMAIN lock |-> IF lock[l] = p THEN Dead ELSE lock[l]]
  /\ tickets' = [k \in Ticket |-> IF Holds(p, k) THEN [tickets[k] EXCEPT !.by = Dead] ELSE tickets[k]]
  /\ claim' = [claim EXCEPT ![p] = NoTicket]
  /\ left' = [left EXCEPT ![p] = {}]
  /\ Missing(left[p])
  /\ UNCHANGED <<scenario, store, kind, list, base, failed, central, excused>>

-----------------------------------------------------------------------------
Continue(p) ==
  \/ Check(p) \/ Scan(p) \/ Guard(p) \/ Read(p) \/ Write(p) \/ Close(p)
  \/ \E t \in Tx : Mark(p, t)

Fails(p) ==
  \/ ScanFails(p) \/ ReadFails(p) \/ WriteFails(p) \/ Crash(p)
  \/ \E t \in Tx : MarkFails(p, t)

Next ==
  \/ \E t \in Tx : Insert(t)
  \/ \E p \in Worker :
       \/ \E k \in {"field", "record"} : BeginLocked(p, k)
       \/ \E k \in Ticket : Claim(p, k)
       \/ Continue(p) \/ Fails(p)
  \/ Coordinate
  \/ \E k \in Ticket : Expire(k) \/ LapseOfDead(k) \/ LapseOfSlow(k)

Spec == Init /\ [][Next]_vars

(***************************************************************************)
(* The consolidation timer, the worker loop and coordinatorWork repeat;    *)
(* storage calls are answered; the lease of a dead worker's ticket ends.   *)
(* Nobody has to call consolidate(id).                                     *)
(***************************************************************************)
Fairness ==
  /\ WF_vars(\E p \in Worker : BeginLocked(p, "field"))
  /\ WF_vars(\E p \in Worker, k \in Ticket : Claim(p, k))
  /\ \A p \in Worker : WF_vars(Continue(p))
  /\ WF_vars(Coordinate)
  /\ WF_vars(\E k \in Ticket : LapseOfDead(k))

FairSpec == Spec /\ Fairness
-----------------------------------------------------------------------------
(***************************************************************************)
(* Whoever consolidates, a transaction is counted once, and once more only *)
(* for each time it was written without being marked: its worker died, or  *)
(* the answer to a write or a mark was lost.                               *)
(***************************************************************************)
CountedOnce == \A t \in Tx : value[t] <= 1 + missed[t]

(***************************************************************************)
(* What is marked applied is in the value, or a later set that is in it    *)
(* has overridden it: no consolidation overwrites another's.  Transactions *)
(* met out of order, a read failure and a set that is applied again after  *)
(* its mark was missed do undo others.                                     *)
(***************************************************************************)
NothingLost ==
  ~excused /\ (\A s \in Sets : missed[s] = 0) =>
    \A t \in applied : value[t] > 0 \/ \E s \in Sets : s > t /\ value[s] > 0

(***************************************************************************)
(* Once every transaction is applied, however they were batched, the field *)
(* holds what they amount to in the order of their timestamps.             *)
(***************************************************************************)
Converges ==
  ~excused /\ missed = Zero /\ applied = stored => value = Consolidated(stored, Zero)

(***************************************************************************)
(* Each transaction is applied in the end.  The timer keeps this promise   *)
(* unless a worker dies with the field's lock, which no caller reclaims;   *)
(* the workers of a coordinator keep it after crashes too, but not for an  *)
(* add to a record that does not exist.                                    *)
(***************************************************************************)
Served ==
  IF CoordinatorWork THEN record
  ELSE "field" \in scenario.kinds /\ Dead \notin {lock["field"], lock["record"]}

TransactionsApplied == \A t \in Tx : t \in stored ~> t \in applied \/ ~Served
=============================================================================
