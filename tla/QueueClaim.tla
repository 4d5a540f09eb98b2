----------------------------- MODULE QueueClaim -----------------------------
(***************************************************************************)
(* How the workers of the S3 queue plugin share its messages               *)
(* (plugins/s3-queue/src/index.ts).                                        *)
(*                                                                         *)
(* A message is an entry of the queue resource.  A worker claims it under  *)
(* a short lock of its own, which covers only a marker "recently           *)
(* processed", then by an update of the entry, which carries a token and   *)
(* hides the message for the visibility timeout.  The update is            *)
(* conditional on the entry's ETag, but the entry's attributes are in the  *)
(* metadata and the ETag digests the body, which is empty: it refuses      *)
(* nothing, and every update is a read and an unconditional write.         *)
(*                                                                         *)
(* In mode "tickets" (enableCoordinator and orderingGuarantee, the         *)
(* defaults, once there is a leader) workers claim what the leader         *)
(* publishes tickets for; in mode "direct" they query the queue, and       *)
(* recover the messages whose visibility timeout is over.                  *)
(*                                                                         *)
(* Each worker is a process with one loop (createWorker).  A storage call  *)
(* takes much less than a tick; a handler takes as long as it likes.  The  *)
(* renewals a handler asks for run beside it: a handler that does not wait *)
(* for one may settle its message while the renewal is under way.          *)
(*                                                                         *)
(* Four things break what the marker and the status hold together, and the *)
(* history "exposed" says to which messages they have happened: the        *)
(* recovery of the message, a marker that is not written, a marker that is *)
(* there and not read, and a settlement beside a renewal.                  *)
(***************************************************************************)
EXTENDS Naturals, FiniteSetsExt

CONSTANTS
  Workers, Messages,
  Tickets,      \* bound on the tickets that exist at a time
  NoMessage, NoTicket, NoEntry, Free, Abandoned,
  Modes,        \* subset of {"tickets", "direct"}
  Strategies,   \* failureStrategy.mode: subset of {"retry", "hybrid", "dead-letter"}
  MaxAttempts,  \* maxAttempts
  Visibility,   \* visibilityTimeout, in ticks
  MarkerTTL,    \* processedCacheTTL
  Backoff,      \* the delay of a retry
  MaxWait,      \* bound on how far renewals push a message away
  Faults,       \* subset of {"crash", "call", "hasty"}: what may go wrong; hasty, a handler
                \* does not wait for its renewal
  MaxFaults     \* bound on how often they happen

ASSUME QueueAssumption ==
  /\ IsFiniteSet(Workers) /\ IsFiniteSet(Messages)
  /\ {NoMessage, Free, Abandoned} \cap (Messages \cup Workers) = {}
  /\ NoTicket \notin Tickets
  /\ Modes \subseteq {"tickets", "direct"}
  /\ Strategies \subseteq {"retry", "hybrid", "dead-letter"}
  /\ {MaxAttempts, Visibility, MarkerTTL, Backoff} \subseteq Nat \ {0}
  /\ MaxWait \in Nat /\ MaxWait >= Visibility /\ MaxWait >= Backoff
  /\ Faults \subseteq {"crash", "call", "hasty"}
  /\ MaxFaults \in Nat

VARIABLES
  mode, strategy,
  entry,      \* the queue resource: an entry per message, its visibleAt as a time to wait
  lock,       \* msg-<id>
  marker,     \* cache/processed/<id>: what is left of its ttl
  letters,    \* the messages with a dead letter
  ticket,     \* tickets/<id>: the message and who claimed the ticket
  pc,         \* where the worker is
  local,      \* processedCache of the worker
  msg,        \* the message it is busy with
  todo,       \* the messages it still has to try, or to recover
  held,       \* the ticket it is busy with
  recovery,   \* it is in recoverStalledMessages
  op,         \* the update it is about to make
  claim,      \* ClaimedMessage: token and attempts
  next,       \* the entry it is about to write
  renewal,    \* the renewal under way: of which message, until when, what it is about to write
  deliveries, \* history: how often a handler was given the message
  exposed,    \* history: it was recovered, its marker missed, or it was settled beside a renewal
  due,        \* the clock is about to tick: storage calls under way end, no worker polls
  faults

worker  == <<pc, local, msg, todo, held, recovery, op, claim, next>>
context == <<mode, strategy, due, renewal>>   \* what no step of a worker's loop changes
store  == <<entry, lock, marker, letters, ticket>>
ghosts == <<deliveries, exposed>>
vars   == <<context, store, worker, ghosts, faults>>

Final == {"completed", "failed", "dead"}
Entry == [status : {"pending", "processing"} \cup Final, token : Nat, wait : 0 .. MaxWait,
          attempts : Nat]
ASSUME NoEntryAssumption == NoEntry \notin Entry

NoToken == 0
NoClaim == [token |-> NoToken, attempts |-> 0]
NoRenewal == [msg |-> NoMessage, wait |-> 0, next |-> NoEntry]
Operations == {"claim", "complete", "retry", "fail", "dead", "recover"}

TypeOK ==
  /\ mode \in Modes
  /\ strategy \in Strategies
  /\ entry \in [Messages -> Entry \cup {NoEntry}]
  /\ lock \in [Messages -> Workers \cup {Free, Abandoned}]
  /\ marker \in [Messages -> 0 .. MarkerTTL]
  /\ letters \subseteq Messages
  /\ ticket \in [Tickets -> {NoTicket} \cup [msg : Messages, by : Workers \cup {Free}]]
  /\ pc \in [Workers -> {"idle", "recovering", "taking", "locking", "checking", "marking",
                         "getting", "merging", "putting", "loading", "handling",
                         "lettering", "settling", "clearing", "releasing"}]
  /\ local \in [Workers -> [Messages -> 0 .. MarkerTTL]]
  /\ msg \in [Workers -> Messages \cup {NoMessage}]
  /\ todo \in [Workers -> SUBSET Messages]
  /\ held \in [Workers -> Tickets \cup {NoTicket}]
  /\ recovery \in [Workers -> BOOLEAN]
  /\ op \in [Workers -> Operations \cup {"none"}]
  /\ claim \in [Workers -> [token : Nat, attempts : Nat]]
  /\ next \in [Workers -> Entry \cup {NoEntry}]
  /\ renewal \in [Workers -> [msg : Messages \cup {NoMessage}, wait : 0 .. MaxWait,
                              next : Entry \cup {NoEntry}]]
  /\ deliveries \in [Messages -> Nat]
  /\ exposed \in [Messages -> BOOLEAN]
  /\ due \in BOOLEAN
  /\ faults \in 0 .. MaxFaults

Init ==
  /\ mode \in Modes
  /\ strategy \in Strategies
  /\ entry = [m \in Messages |-> NoEntry]
  /\ lock = [m \in Messages |-> Free]
  /\ marker = [m \in Messages |-> 0]
  /\ letters = {}
  /\ ticket = [t \in Tickets |-> NoTicket]
  /\ pc = [w \in Workers |-> "idle"]
  /\ local = [w \in Workers |-> [m \in Messages |-> 0]]
  /\ msg = [w \in Workers |-> NoMessage]
  /\ todo = [w \in Workers |-> {}]
  /\ held = [w \in Workers |-> NoTicket]
  /\ recovery = [w \in Workers |-> FALSE]
  /\ op = [w \in Workers |-> "none"]
  /\ claim = [w \in Workers |-> NoClaim]
  /\ next = [w \in Workers |-> NoEntry]
  /\ renewal = [w \in Workers |-> NoRenewal]
  /\ deliveries = [m \in Messages |-> 0]
  /\ exposed = [m \in Messages |-> FALSE]
  /\ due = FALSE
  /\ faults = 0

-----------------------------------------------------------------------------
Goto(w, where) == pc' = [pc EXCEPT ![w] = where]

Fault(kind) ==
  /\ kind \in Faults
  /\ faults < MaxFaults
  /\ faults' = faults + 1

Status(m)  == IF entry[m] = NoEntry THEN "absent" ELSE entry[m].status
Visible(m) == entry[m] # NoEntry /\ entry[m].wait = 0
Pending    == {m \in Messages : Status(m) = "pending" /\ Visible(m)}
Stalled    == {m \in Messages : Status(m) = "processing" /\ Visible(m)}

\* _resolveMaxAttempts: a message of the dead-letter strategy is not tried again.
Limit == IF strategy = "dead-letter" THEN 0 ELSE MaxAttempts

\* A token nobody has seen: _generateLockToken.
TokensInUse ==
  {entry[m].token : m \in {n \in Messages : entry[n] # NoEntry}} \cup
  {claim[w].token : w \in Workers} \cup
  {next[w].token : w \in {v \in Workers : next[v] # NoEntry}} \cup
  {renewal[w].next.token : w \in {v \in Workers : renewal[v].next # NoEntry}} \cup {NoToken}
FreshToken == Min((1 .. Cardinality(TokensInUse) + 1) \ TokensInUse)

\* The histories: no property of the number of deliveries survives an exposure, and none
\* looks further than one delivery too many.
Expose(m) ==
  /\ exposed' = [exposed EXCEPT ![m] = TRUE]
  /\ deliveries' = [deliveries EXCEPT ![m] = 0]
Deliver(m) ==
  /\ deliveries' = [deliveries EXCEPT ![m] = IF exposed[m] THEN 0 ELSE Min({@ + 1, MaxAttempts + 1})]
  /\ UNCHANGED exposed

\* The worker is done with its message and turns to the next, or to its loop.
Proceed(w) ==
  /\ Goto(w, IF held[w] # NoTicket THEN "releasing"
             ELSE IF todo[w] = {} THEN "idle"
             ELSE IF recovery[w] THEN "recovering" ELSE "locking")
  /\ recovery' = [recovery EXCEPT ![w] = @ /\ todo[w] # {}]
  /\ msg' = [msg EXCEPT ![w] = NoMessage]
  /\ op' = [op EXCEPT ![w] = "none"]
  /\ claim' = [claim EXCEPT ![w] = NoClaim]
  /\ next' = [next EXCEPT ![w] = NoEntry]
  /\ UNCHANGED <<todo, held>>

\* An error reaches createWorker, which logs it and polls again.
Thrown(w) ==
  /\ Goto(w, "idle")
  /\ recovery' = [recovery EXCEPT ![w] = FALSE]
  /\ msg' = [msg EXCEPT ![w] = NoMessage]
  /\ op' = [op EXCEPT ![w] = "none"]
  /\ claim' = [claim EXCEPT ![w] = NoClaim]
  /\ next' = [next EXCEPT ![w] = NoEntry]
  /\ todo' = [todo EXCEPT ![w] = {}]
  /\ held' = [held EXCEPT ![w] = NoTicket]
-----------------------------------------------------------------------------
\* enqueue: the record is inserted, then the entry.
Enqueue(m) ==
  /\ entry[m] = NoEntry
  /\ entry' = [entry EXCEPT ![m] = [status |-> "pending", token |-> NoToken, wait |-> 0,
                                    attempts |-> 0]]
  /\ UNCHANGED <<context, lock, marker, letters, ticket, worker, ghosts, faults>>

\* The leader's dispatch does not ask whether the message has a ticket already.
Publish(t) ==
  /\ mode = "tickets"
  /\ ~due
  /\ ticket[t] = NoTicket
  /\ \E m \in Pending : ticket' = [ticket EXCEPT ![t] = [msg |-> m, by |-> Free]]
  /\ UNCHANGED <<context, entry, lock, marker, letters, worker, ghosts, faults>>

\* Mutant: a ticket somebody has claimed is kept.
ExpireUnclaimed(t) ==
  /\ ticket[t] # NoTicket
  /\ ticket[t].by = Free
  /\ ticket' = [ticket EXCEPT ![t] = NoTicket]
  /\ UNCHANGED <<context, entry, lock, marker, letters, worker, ghosts, faults>>

\* The recovery of stalled tickets returns at once, because the loop that calls it has set
\* the flag it looks at: only the end of its ttl removes a ticket nobody releases.
ExpireTicket(t) ==
  /\ ticket[t] # NoTicket
  /\ ticket' = [ticket EXCEPT ![t] = NoTicket]
  /\ UNCHANGED <<context, entry, lock, marker, letters, worker, ghosts, faults>>

-----------------------------------------------------------------------------
\* claimFromTicket.
TakeTicket(w) ==
  /\ mode = "tickets"
  /\ pc[w] = "idle"
  /\ ~due
  /\ \E t \in Tickets :
       /\ IF ticket[t] = NoTicket THEN FALSE ELSE ticket[t].by = Free
       /\ held' = [held EXCEPT ![w] = t]
       /\ msg' = [msg EXCEPT ![w] = ticket[t].msg]
  /\ Goto(w, "taking")
  /\ UNCHANGED <<context, store, local, todo, recovery, op, claim, next, ghosts, faults>>

\* setIfVersion returns null when it loses, and does not throw: the worker goes on.
SetTicket(w) ==
  /\ pc[w] = "taking"
  /\ ticket' = [ticket EXCEPT ![held[w]] =
                  IF @ = [msg |-> msg[w], by |-> Free] THEN [@ EXCEPT !.by = w] ELSE @]
  /\ todo' = [todo EXCEPT ![w] = {msg[w]}]
  /\ Goto(w, "locking")
  /\ UNCHANGED <<context, entry, lock, marker, letters, local, msg, held, recovery, op,
                 claim, next, ghosts, faults>>

ReleaseTicket(w) ==
  /\ pc[w] = "releasing"
  /\ ticket' = [ticket EXCEPT ![held[w]] =
                  IF @ = NoTicket THEN @ ELSE IF @.by = w THEN [@ EXCEPT !.by = Free] ELSE @]
  /\ Thrown(w)
  /\ UNCHANGED <<context, entry, lock, marker, letters, local, ghosts, faults>>

\* claimMessage without tickets: the visible messages are tried one after the other.
Query(w) ==
  /\ mode = "direct"
  /\ pc[w] = "idle"
  /\ ~due
  /\ Pending # {}
  /\ todo' = [todo EXCEPT ![w] = Pending]
  /\ Goto(w, "locking")
  /\ UNCHANGED <<context, store, local, msg, held, recovery, op, claim, next, ghosts,
                 faults>>

-----------------------------------------------------------------------------
\* attemptClaim: the lock is asked for once, with timeout 0.  Who holds it is refused or
\* dead; an abandoned lock is never looked at again.
LockMessage(w) ==
  /\ pc[w] = "locking"
  /\ \E m \in todo[w] :
       /\ lock[m] = Free
       /\ lock' = [lock EXCEPT ![m] = w]
       /\ msg' = [msg EXCEPT ![w] = m]
       /\ todo' = [todo EXCEPT ![w] = @ \ {m}]
  /\ Goto(w, "checking")
  /\ UNCHANGED <<context, entry, marker, letters, ticket, local, held, recovery, op, claim,
                 next, ghosts, faults>>

LockRefused(w) ==
  /\ pc[w] = "locking"
  /\ \E m \in todo[w] :
       /\ lock[m] # Free
       /\ todo' = [todo EXCEPT ![w] = @ \ {m}]
  /\ Goto(w, IF todo'[w] # {} THEN "locking" ELSE IF held[w] # NoTicket THEN "releasing" ELSE "idle")
  /\ msg' = [msg EXCEPT ![w] = NoMessage]
  /\ UNCHANGED <<context, store, local, held, recovery, op, claim, next, ghosts, faults>>

\* Mutant: only the worker's own cache is looked at.
RecentlyHere(w, m) == local[w][m] > 0

Recently(w, m) == local[w][m] > 0 \/ marker[m] > 0

CheckMarker(w) ==
  /\ pc[w] = "checking"
  /\ ~Recently(w, msg[w])
  /\ Goto(w, "marking")
  /\ UNCHANGED <<context, store, local, msg, todo, held, recovery, op, claim, next, ghosts,
                 faults>>

\* The marker is there, and its read fails, which is only logged: the claim goes on.
MissMarker(w) ==
  /\ Fault("call")
  /\ pc[w] = "checking"
  /\ local[w][msg[w]] = 0
  /\ marker[msg[w]] > 0
  /\ Expose(msg[w])
  /\ Goto(w, "marking")
  /\ UNCHANGED <<context, store, local, msg, todo, held, recovery, op, claim, next>>

\* A marker found in the storage is remembered for another ttl.
FindMarker(w) ==
  /\ pc[w] = "checking"
  /\ Recently(w, msg[w])
  /\ local' = [local EXCEPT ![w][msg[w]] = IF @ > 0 THEN @ ELSE MarkerTTL]
  /\ lock' = [lock EXCEPT ![msg[w]] = Free]
  /\ Proceed(w)
  /\ UNCHANGED <<context, entry, marker, letters, ticket, ghosts, faults>>

\* The message is marked, and the lock released.
Mark(w) ==
  /\ pc[w] = "marking"
  /\ local' = [local EXCEPT ![w][msg[w]] = MarkerTTL]
  /\ \/ /\ marker' = [marker EXCEPT ![msg[w]] = MarkerTTL]
        /\ lock' = [lock EXCEPT ![msg[w]] = Free]
        /\ UNCHANGED <<ghosts, faults>>
     \/ /\ Fault("call")  \* the marker is not written, which is only logged
        /\ lock' = [lock EXCEPT ![msg[w]] = Free]
        /\ Expose(msg[w])
        /\ UNCHANGED marker
     \/ /\ Fault("call")  \* the lock is not deleted, which is only logged
        /\ marker' = [marker EXCEPT ![msg[w]] = MarkerTTL]
        /\ lock' = [lock EXCEPT ![msg[w]] = Abandoned]
        /\ UNCHANGED ghosts
  /\ Goto(w, "getting")
  /\ UNCHANGED <<context, entry, letters, ticket, msg, todo, held, recovery, op, claim, next>>

\* _clearProcessedMarker: not under the message's lock.
ClearMarker(w) ==
  /\ local' = [local EXCEPT ![w][msg[w]] = 0]
  /\ marker' = [marker EXCEPT ![msg[w]] = 0]

\* Mutant: the status of the entry is not looked at again.
ClaimableByTime(m) == Visible(m)

Claimable(m) == m \in Pending

\* A claim writes every attribute the model has: what updateConditional reads is no matter.
GetEntry(w) ==
  /\ pc[w] = "getting"
  /\ Claimable(msg[w])
  /\ op' = [op EXCEPT ![w] = "claim"]
  /\ claim' = [claim EXCEPT ![w] = [token |-> FreshToken,
                                    attempts |-> entry[msg[w]].attempts + 1]]
  /\ next' = [next EXCEPT ![w] = [status |-> "processing", token |-> FreshToken,
                                  wait |-> Visibility, attempts |-> entry[msg[w]].attempts + 1]]
  /\ Goto(w, "putting")
  /\ UNCHANGED <<context, store, local, msg, todo, held, recovery, ghosts, faults>>

\* Only the worker's own cache forgets the message; the marker in the storage stays.
NotClaimable(w) ==
  /\ pc[w] = "getting"
  /\ ~Claimable(msg[w])
  /\ local' = [local EXCEPT ![w][msg[w]] = 0]
  /\ Proceed(w)
  /\ UNCHANGED <<context, store, ghosts, faults>>

\* Without an answer about the entry the marker is cleared.
GetEntryFails(w) ==
  /\ Fault("call")
  /\ pc[w] = "getting"
  /\ ClearMarker(w)
  /\ Proceed(w)
  /\ UNCHANGED <<context, entry, lock, letters, ticket, ghosts>>

-----------------------------------------------------------------------------
\* updateConditional reads the entry once more and merges the attributes into it.
Merged(w) ==
  LET e == entry[msg[w]] IN
  CASE op[w] = "complete" -> [e EXCEPT !.status = "completed", !.token = NoToken]
    [] op[w] = "retry"    -> [e EXCEPT !.status = "pending", !.token = NoToken, !.wait = Backoff]
    [] op[w] = "fail"     -> [e EXCEPT !.status = "failed", !.token = NoToken]
    [] op[w] = "dead"     -> [e EXCEPT !.status = "dead", !.token = NoToken]
    [] op[w] = "recover"  -> [e EXCEPT !.status = "pending", !.token = NoToken, !.wait = 0]

Merge(w) ==
  /\ pc[w] = "merging"
  /\ next' = [next EXCEPT ![w] = Merged(w)]
  /\ Goto(w, "putting")
  /\ UNCHANGED <<context, store, local, msg, todo, held, recovery, op, claim, ghosts, faults>>

\* ifMatch is the ETag of an empty body, whatever has been written in between.
Write(m, e) ==
  /\ entry' = [entry EXCEPT ![m] = e]
  /\ UNCHANGED <<lock, marker, letters, ticket>>

PutClaim(w) ==
  /\ pc[w] = "putting"
  /\ op[w] = "claim"
  /\ Write(msg[w], next[w])
  /\ Goto(w, "loading")
  /\ next' = [next EXCEPT ![w] = NoEntry]
  /\ UNCHANGED <<context, local, msg, todo, held, recovery, op, claim, ghosts, faults>>

PutCompleted(w) ==
  /\ pc[w] = "putting"
  /\ op[w] = "complete"
  /\ Write(msg[w], next[w])
  /\ Proceed(w)
  /\ UNCHANGED <<context, local, ghosts, faults>>

PutReleased(w) ==
  /\ pc[w] = "putting"
  /\ op[w] \in {"retry", "fail", "dead", "recover"}
  /\ Write(msg[w], next[w])
  /\ Goto(w, "clearing")
  /\ claim' = [claim EXCEPT ![w] = NoClaim]
  /\ next' = [next EXCEPT ![w] = NoEntry]
  /\ UNCHANGED <<context, local, msg, todo, held, recovery, op, ghosts, faults>>

\* The put throws, applied or not, or the read before it does.  A claim gives up, a recovery
\* goes on; the outcome of a message is lost with the error.
PutFails(w) ==
  /\ Fault("call")
  /\ pc[w] = "putting"
  /\ Write(msg[w], next[w]) \/ UNCHANGED store
  /\ \/ op[w] = "claim" /\ local' = [local EXCEPT ![w][msg[w]] = 0] /\ Proceed(w)
     \/ op[w] = "recover" /\ Proceed(w) /\ UNCHANGED local
     \/ op[w] \in {"complete", "retry", "fail", "dead"} /\ Thrown(w) /\ UNCHANGED local
  /\ UNCHANGED <<context, ghosts>>

Clear(w) ==
  /\ pc[w] = "clearing"
  /\ ClearMarker(w)
  /\ Proceed(w)
  /\ UNCHANGED <<context, entry, lock, letters, ticket, ghosts, faults>>

\* The marker is not deleted, which is only logged.
ClearFails(w) ==
  /\ Fault("call")
  /\ pc[w] = "clearing"
  /\ local' = [local EXCEPT ![w][msg[w]] = 0]
  /\ Proceed(w)
  /\ UNCHANGED <<context, store, ghosts>>

-----------------------------------------------------------------------------
\* The original record is there: the ticket is deleted, and the handler called.
Load(w) ==
  /\ pc[w] = "loading"
  /\ Deliver(msg[w])
  /\ ticket' = [t \in Tickets |-> IF t = held[w] THEN NoTicket ELSE ticket[t]]
  /\ held' = [held EXCEPT ![w] = NoTicket]
  /\ todo' = [todo EXCEPT ![w] = {}]
  /\ op' = [op EXCEPT ![w] = "none"]
  /\ Goto(w, "handling")
  /\ UNCHANGED <<context, entry, lock, marker, letters, local, msg, recovery, claim,
                 next, faults>>

\* The application has deleted the record: failMessage.
LoadMissing(w) ==
  /\ pc[w] = "loading"
  /\ op' = [op EXCEPT ![w] = "fail"]
  /\ Goto(w, "settling")
  /\ UNCHANGED <<context, store, local, msg, todo, held, recovery, claim, next, ghosts,
                 faults>>

-----------------------------------------------------------------------------
\* renewLock, called by the handler: refused unless the token is still the entry's.
Renew(w) ==
  /\ pc[w] = "handling"
  /\ renewal[w] = NoRenewal
  /\ entry[msg[w]].token = claim[w].token
  /\ entry[msg[w]].status = "processing"
  /\ entry[msg[w]].wait + Visibility <= MaxWait
  /\ renewal' = [renewal EXCEPT ![w] = [msg |-> msg[w], next |-> NoEntry,
                                        wait |-> entry[msg[w]].wait + Visibility]]
  /\ UNCHANGED <<mode, strategy, due, store, worker, ghosts, faults>>

\* updateConditional merges the new visibleAt into the entry as it is by then.
MergeRenewal(w) ==
  /\ renewal[w] # NoRenewal
  /\ renewal[w].next = NoEntry
  /\ renewal' = [renewal EXCEPT ![w].next = [entry[renewal[w].msg] EXCEPT !.wait = renewal[w].wait]]
  /\ UNCHANGED <<mode, strategy, due, store, worker, ghosts, faults>>

EndRenewal(w) ==
  /\ renewal' = [renewal EXCEPT ![w] = NoRenewal]
  /\ UNCHANGED <<mode, strategy, due, worker, ghosts>>

PutRenewed(w) ==
  /\ renewal[w].next # NoEntry
  /\ Write(renewal[w].msg, renewal[w].next)
  /\ EndRenewal(w)
  /\ UNCHANGED faults

\* The put throws, applied or not: the renewal answers false.
RenewalFails(w) ==
  /\ Fault("call")
  /\ renewal[w].next # NoEntry
  /\ Write(renewal[w].msg, renewal[w].next) \/ UNCHANGED store
  /\ EndRenewal(w)

Settling(w, how) ==
  /\ op' = [op EXCEPT ![w] = how]
  /\ Goto(w, IF how = "dead" THEN "lettering" ELSE "settling")

\* The handler is through; whether it has waited for its renewal is its own affair.
EndHandler(w) ==
  /\ pc[w] = "handling"
  /\ \/ renewal[w].msg # msg[w] /\ UNCHANGED <<ghosts, faults>>
     \/ renewal[w].msg = msg[w] /\ Fault("hasty") /\ Expose(msg[w])
  /\ UNCHANGED <<context, store, local, msg, todo, held, recovery, claim, next>>

\* The handler acknowledges.
Ack(w) == EndHandler(w) /\ Settling(w, "complete")

\* Mutant: the last attempt is retried.
RetriesOnceMore(w) == claim[w].attempts <= Limit

\* _handleProcessingFailure: attempts < maxAttempts.
Retries(w) == claim[w].attempts < Limit

FailureOp(w) ==
  IF strategy = "dead-letter" THEN "dead"
  ELSE IF Retries(w) THEN "retry"
  ELSE IF strategy = "hybrid" THEN "dead" ELSE "fail"

\* The handler throws, rejects the message, or returns without acknowledging it.
Nack(w) == EndHandler(w) /\ Settling(w, FailureOp(w))

\* Mutant: the dead letter is left to whoever reads the queue.
InsertNoLetter(w) ==
  /\ pc[w] = "lettering"
  /\ Goto(w, "settling")
  /\ UNCHANGED <<context, store, local, msg, todo, held, recovery, op, claim, next, ghosts,
                 faults>>

\* moveToDeadLetter inserts the dead letter before it asks whether the message is its own.
InsertLetter(w) ==
  /\ pc[w] = "lettering"
  /\ letters' = letters \cup {msg[w]}
  /\ Goto(w, "settling")
  /\ UNCHANGED <<context, entry, lock, marker, ticket, local, msg, todo, held, recovery, op,
                 claim, next, ghosts, faults>>

InsertLetterFails(w) ==
  /\ Fault("call")
  /\ pc[w] = "lettering"
  /\ Thrown(w)
  /\ UNCHANGED <<context, store, local, ghosts>>

\* _updateQueueEntryWithLock: the token decides, as of this read.
Settle(w) ==
  /\ pc[w] = "settling"
  /\ entry[msg[w]].token = claim[w].token
  /\ Goto(w, "merging")
  /\ UNCHANGED <<context, store, local, msg, todo, held, recovery, op, claim, next, ghosts,
                 faults>>

TokenMismatch(w) ==
  /\ pc[w] = "settling"
  /\ entry[msg[w]].token # claim[w].token
  /\ Thrown(w)
  /\ UNCHANGED <<context, store, local, ghosts, faults>>

-----------------------------------------------------------------------------
\* recoverStalledMessages, which only claimMessage without tickets reaches.
StartRecovery(w) ==
  /\ mode = "direct"
  /\ pc[w] = "idle"
  /\ ~due
  /\ Stalled # {}
  /\ todo' = [todo EXCEPT ![w] = Stalled]
  /\ recovery' = [recovery EXCEPT ![w] = TRUE]
  /\ Goto(w, "recovering")
  /\ UNCHANGED <<context, store, local, msg, held, op, claim, next, ghosts, faults>>

Candidate(w, m) ==
  /\ pc[w] = "recovering"
  /\ m \in todo[w]
  /\ todo' = [todo EXCEPT ![w] = @ \ {m}]
  /\ UNCHANGED <<context, store, local, held, faults>>

NoLongerStalled(w, m) ==
  /\ Candidate(w, m)
  /\ m \notin Stalled
  /\ Goto(w, IF todo'[w] = {} THEN "idle" ELSE "recovering")
  /\ recovery' = [recovery EXCEPT ![w] = todo'[w] # {}]
  /\ UNCHANGED <<msg, op, claim, next, ghosts>>

Recover(w, m) ==
  /\ Candidate(w, m)
  /\ m \in Stalled
  /\ entry[m].attempts < Limit
  /\ Expose(m)
  /\ msg' = [msg EXCEPT ![w] = m]
  /\ op' = [op EXCEPT ![w] = "recover"]
  /\ Goto(w, "merging")
  /\ UNCHANGED <<recovery, claim, next>>

\* No attempt is left: the message is given up under the token of its last claim.
RecoverExhausted(w, m) ==
  /\ Candidate(w, m)
  /\ m \in Stalled
  /\ entry[m].attempts >= Limit
  /\ Expose(m)
  /\ msg' = [msg EXCEPT ![w] = m]
  /\ claim' = [claim EXCEPT ![w] = [token |-> entry[m].token, attempts |-> entry[m].attempts]]
  /\ Settling(w, IF strategy = "retry" THEN "fail" ELSE "dead")
  /\ UNCHANGED <<recovery, next>>

-----------------------------------------------------------------------------
\* The process dies and another takes its place.  The lock it holds, and its claim, stay.
Crash(w) ==
  /\ Fault("crash")
  /\ pc[w] # "idle"
  /\ Thrown(w)
  /\ local' = [local EXCEPT ![w] = [m \in Messages |-> 0]]
  /\ lock' = [m \in Messages |-> IF lock[m] = w THEN Abandoned ELSE lock[m]]
  /\ renewal' = [renewal EXCEPT ![w] = NoRenewal]
  /\ UNCHANGED <<mode, strategy, due, entry, marker, letters, ticket, ghosts>>

\* Mutant: what is over goes on counting.
SoonerStill(n) == n - 1

\* What is left of a ttl, or of the time until visibleAt.
Sooner(n) == IF n = 0 THEN 0 ELSE n - 1
Older(e)  == IF e = NoEntry THEN NoEntry ELSE [e EXCEPT !.wait = Sooner(@)]

\* Nothing but handlers is under way when the clock ticks.
Due ==
  /\ ~due
  /\ due' = TRUE
  /\ UNCHANGED <<mode, strategy, renewal, store, worker, ghosts, faults>>

Tick ==
  /\ due
  /\ due' = FALSE
  /\ \A w \in Workers : pc[w] \in {"idle", "handling"} /\ renewal[w] = NoRenewal
  /\ entry' = [m \in Messages |-> Older(entry[m])]
  /\ marker' = [m \in Messages |-> Sooner(marker[m])]
  /\ local' = [w \in Workers |-> [m \in Messages |-> Sooner(local[w][m])]]
  /\ UNCHANGED <<mode, strategy, renewal, lock, letters, ticket, pc, msg, todo, held, recovery,
                 op, claim, next, ghosts, faults>>

Step(w) ==
  \/ TakeTicket(w) \/ SetTicket(w) \/ ReleaseTicket(w) \/ Query(w)
  \/ LockMessage(w) \/ LockRefused(w) \/ CheckMarker(w) \/ FindMarker(w) \/ Mark(w)
  \/ GetEntry(w) \/ NotClaimable(w) \/ Merge(w)
  \/ PutClaim(w) \/ PutCompleted(w) \/ PutReleased(w) \/ Clear(w)
  \/ Load(w) \/ LoadMissing(w) \/ Ack(w) \/ Nack(w)
  \/ InsertLetter(w) \/ Settle(w) \/ TokenMismatch(w)
  \/ StartRecovery(w)
  \/ \E m \in Messages : NoLongerStalled(w, m) \/ Recover(w, m) \/ RecoverExhausted(w, m)

\* What fails.
Trouble(w) ==
  \/ MissMarker(w) \/ GetEntryFails(w) \/ PutFails(w) \/ ClearFails(w) \/ InsertLetterFails(w)
  \/ RenewalFails(w) \/ Crash(w)

Next ==
  \/ \E m \in Messages : Enqueue(m)
  \/ \E t \in Tickets : Publish(t) \/ ExpireTicket(t)
  \/ \E w \in Workers : Step(w) \/ Renew(w) \/ MergeRenewal(w) \/ PutRenewed(w) \/ Trouble(w)
  \/ Due \/ Tick

Spec == Init /\ [][Next]_vars

\* Some worker goes on polling, handlers return and storage calls are answered; time goes
\* on, tickets expire, and the leader's dispatch comes round.
FairSpec ==
  /\ Spec
  /\ \A t \in Tickets : WF_vars(ExpireTicket(t)) /\ SF_vars(Publish(t))
  /\ WF_vars(\E w \in Workers : Step(w) \/ MergeRenewal(w) \/ PutRenewed(w))
  /\ SF_vars(\E w \in Workers : TakeTicket(w) \/ Query(w))
  /\ SF_vars(\E w \in Workers : StartRecovery(w))
  /\ \A w \in Workers : SF_vars(Ack(w) \/ Nack(w))
  /\ WF_vars(Due \/ Tick)

-----------------------------------------------------------------------------
\* The handler of the worker has the message.
Handling(w, m) == msg[w] = m /\ pc[w] = "handling"
Handlers(m)    == {w \in Workers : Handling(w, m)}

\* Until a worker sets out to recover a message from one that did not finish in time, or its
\* marker is not written or not read, or its handler settles it beside a renewal of its own,
\* one handler at most has it, and it is given to handlers no more often than maxAttempts
\* (attemptClaim, _handleProcessingFailure); the marker and the status have to make up for
\* the ETag that refuses nothing.
OneHandlerAtATime == \A m \in Messages : exposed[m] \/ Cardinality(Handlers(m)) <= 1

AttemptsBounded ==
  \A m \in Messages : exposed[m] \/ deliveries[m] <= (IF Limit = 0 THEN 1 ELSE Limit)

\* A message that was given up for dead has its dead letter (moveToDeadLetter).
DeadHasLetter == \A m \in Messages : Status(m) = "dead" => m \in letters

\* What is over stays so: a message that was never exposed leaves no final status, however
\* late the tickets, retries and claims about it arrive.
FinalIsFinal ==
  [][\A m \in Messages : Status(m) \in Final /\ ~exposed[m] => Status(m)' = Status(m)]_vars

\* Nobody will look at the message again: its lock was left behind, or, as nothing is
\* recovered while there are tickets, its claim was.
Lost(m) ==
  \/ lock[m] = Abandoned
  \/ /\ mode = "tickets"
     /\ Status(m) = "processing"
     /\ \A w \in Workers : msg[w] # m \/ claim[w].token # entry[m].token

\* Every message is brought to an end, unless a crash or a failed call lost it.
MessagesSettle ==
  \A m \in Messages : (Status(m) = "pending") ~> (Status(m) \in Final \/ Lost(m))

\* Every message is brought to an end, whoever dies on the way: the plugin's README.md
\* promises 'visibility leases, retry and dead-letter policies, FIFO/LIFO ordering,
\* coordinated workers, recovery'.
EveryMessageSettles == \A m \in Messages : (Status(m) = "pending") ~> (Status(m) \in Final)
=============================================================================
