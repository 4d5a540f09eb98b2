------------------------- MODULE IncrementalSequence ------------------------
(***************************************************************************)
(* Incremental ids (core/src/concerns/incremental-sequence.ts): a counter  *)
(* object read and rewritten under the DistributedLock, and in `fast' mode *)
(* a batch of ids each process reserves and hands out from memory.         *)
(* A worker of LeaseLock is one pending call here; the calls of one        *)
(* process share its localBatches and interleave at every await.           *)
(***************************************************************************)
EXTENDS LeaseLock

CONSTANTS
  ProcessOf,     \* the process each caller runs in
  Fast,          \* the processes whose IncrementalSequence is in fast mode
  Start, Increment, BatchSize,
  NoValue,       \* the counter object does not exist
  NoBatch,
  MaxCalls       \* bound on the calls of one behaviour

Process == {ProcessOf[w] : w \in Worker}

Larger(m, n) == IF m > n THEN m ELSE n
\* Where a reset moves the counter: past every id the calls can reach.
ResetTo == Start + MaxCalls * Larger(Increment, BatchSize)
MaxId   == ResetTo + MaxCalls * Larger(Increment, BatchSize)
Id    == 0 .. MaxId

ASSUME SequenceAssumption ==
  /\ Fast \subseteq Process
  /\ Start \in Nat /\ Increment \in Nat \ {0} /\ BatchSize \in Nat \ {0}
  /\ MaxCalls \in Nat
  /\ NoValue \notin Int

VARIABLES
  value,      \* the counter object: the next value to give out
  batch,      \* localBatches of each process: NoBatch or [current, end]
  step,       \* where each caller is in nextSequence or resetSequence
  asked,      \* the value a reset writes, or NoValue for a next
  got,        \* what the caller read from the counter, then its reserved value
  issued,     \* how many times each id was returned
  calls

seqVars == <<value, batch, step, asked, got, issued, calls>>
vars == <<lockVars, seqVars>>

TypeOK ==
  /\ LockTypeOK
  /\ value \in Id \cup {NoValue}
  /\ batch \in [Process -> [current : Id, end : Id] \cup {NoBatch}]
  /\ step \in [Worker -> {"ready", "locking", "read", "write", "written", "failed"}]
  /\ asked \in [Worker -> Id \cup {NoValue}]
  /\ got \in [Worker -> Id \cup {NoValue}]
  /\ issued \in [Id -> Nat]
  /\ calls \in 0 .. MaxCalls

Init ==
  /\ LockInit
  /\ value = NoValue
  /\ batch = [p \in Process |-> NoBatch]
  /\ step = [w \in Worker |-> "ready"]
  /\ asked = [w \in Worker |-> NoValue]
  /\ got = [w \in Worker |-> NoValue]
  /\ issued = [i \in Id |-> 0]
  /\ calls = 0

-----------------------------------------------------------------------------
Current    == IF value = NoValue THEN Start ELSE value
By(p)      == IF p \in Fast THEN BatchSize ELSE Increment
Issue(i)   == issued' = [issued EXCEPT ![i] = @ + 1]
NewCall    == calls < MaxCalls /\ calls' = calls + 1

\* Mutant: one id more than was reserved.
UsedUpOneLate(b) == b.current > b.end

\* batch.current >= batch.end: the test that sends nextValueFast to the counter.
UsedUp(b) == b.current >= b.end
Stocked(p) == p \in Fast /\ batch[p] # NoBatch /\ ~UsedUp(batch[p])

\* nextValueFast with ids in stock: no await, no lock.
TakeLocal(w) ==
  LET p == ProcessOf[w] IN
  /\ step[w] = "ready" /\ pc[w] = "idle"
  /\ Stocked(p)
  /\ NewCall
  /\ Issue(batch[p].current)
  /\ batch' = [batch EXCEPT ![p].current = @ + 1]
  /\ UNCHANGED <<lockVars, value, step, asked, got>>

\* nextValue, or nextValueFast with nothing in stock: reserveBatch.
BeginNext(w) ==
  /\ step[w] = "ready" /\ ~Stocked(ProcessOf[w])
  /\ NewCall
  /\ BeginAcquire(w)
  /\ step' = [step EXCEPT ![w] = "locking"]
  /\ UNCHANGED <<value, batch, asked, got, issued>>

\* reset(field, v): the process drops its batch, then waits for the lock.  The
\* code lets v be anything; a reset that moves the counter back asks for
\* duplicates, so the only reset taken here jumps past the ids in use.
BeginReset(w) ==
  /\ step[w] = "ready"
  /\ value # NoValue => value < ResetTo
  /\ \A v \in Worker : asked[v] = NoValue
  /\ NewCall
  /\ BeginAcquire(w)
  /\ asked' = [asked EXCEPT ![w] = ResetTo]
  /\ batch' = [batch EXCEPT ![ProcessOf[w]] = NoBatch]
  /\ step' = [step EXCEPT ![w] = "locking"]
  /\ UNCHANGED <<value, got, issued>>

\* The lock's own steps.  withLock runs its callback once acquire returns a
\* handle; a call whose acquire gives up or throws ends with an error.
AfterLockStep(w) ==
  step' = [step EXCEPT ![w] =
             CASE @ = "locking" /\ pc'[w] = "holding" -> "read"
               [] @ = "locking" /\ pc'[w] = "idle"    -> "failed"
               [] OTHER                               -> @]

LockStep(w) ==
  /\ \/ Put(w) \/ Read(w) \/ ReadThrows(w) \/ Judge(w)
     \/ Delete(w) \/ DeleteFails(w) \/ WakeUp(w)
  /\ AfterLockStep(w)
  /\ UNCHANGED <<value, batch, asked, got, issued, calls>>

ReadCounter(w) ==
  /\ Holding(w) /\ step[w] = "read"
  /\ got' = [got EXCEPT ![w] = Current]
  /\ step' = [step EXCEPT ![w] = "write"]
  /\ UNCHANGED <<lockVars, value, batch, asked, issued, calls>>

\* The value stored: what was read plus the increment, whatever is stored now.
NextCounter(w) == got[w] + By(ProcessOf[w])

Written(w) == IF asked[w] = NoValue THEN NextCounter(w) ELSE asked[w]

WriteCounter(w) ==
  /\ Holding(w) /\ step[w] = "write"
  /\ value' = Written(w)
  /\ step' = [step EXCEPT ![w] = "written"]
  /\ UNCHANGED <<lockVars, batch, asked, got, issued, calls>>

\* The get or the put of the counter throws; the put may have been applied.
CounterThrows(w) ==
  /\ Holding(w) /\ step[w] \in {"read", "write"}
  /\ \/ UNCHANGED value
     \/ step[w] = "write" /\ value' = Written(w)
  /\ step' = [step EXCEPT ![w] = "failed"]
  /\ UNCHANGED <<lockVars, batch, asked, got, issued, calls>>

\* The finally of withLock.
Unlock(w) ==
  /\ step[w] \in {"written", "failed"}
  /\ BeginRelease(w)
  /\ UNCHANGED seqVars

\* The call returns: a fast caller puts its batch in localBatches, over any
\* batch another caller of the process put there meanwhile.
ReturnId(w) ==
  LET p == ProcessOf[w] IN
  /\ pc[w] = "idle" /\ step[w] = "written" /\ asked[w] = NoValue
  /\ Issue(got[w])
  /\ batch' = IF p \in Fast
              THEN [batch EXCEPT ![p] = [current |-> got[w] + 1, end |-> got[w] + BatchSize]]
              ELSE batch
  /\ step' = [step EXCEPT ![w] = "ready"]
  /\ got' = [got EXCEPT ![w] = NoValue]
  /\ UNCHANGED <<lockVars, value, asked, calls>>

\* A reset, or a call that failed, returns.
ReturnNothing(w) ==
  /\ pc[w] = "idle"
  /\ step[w] = "failed" \/ (step[w] = "written" /\ asked[w] # NoValue)
  /\ step' = [step EXCEPT ![w] = "ready"]
  /\ asked' = [asked EXCEPT ![w] = NoValue]
  /\ got' = [got EXCEPT ![w] = NoValue]
  /\ UNCHANGED <<lockVars, value, batch, issued, calls>>

ReleaseBatch(p) ==
  /\ batch[p] # NoBatch
  /\ batch' = [batch EXCEPT ![p] = NoBatch]
  /\ UNCHANGED <<lockVars, value, step, asked, got, issued, calls>>

Next ==
  \/ \E w \in Worker : \/ TakeLocal(w) \/ BeginNext(w) \/ BeginReset(w)
                       \/ LockStep(w) \/ ReadCounter(w) \/ WriteCounter(w)
                       \/ CounterThrows(w) \/ Unlock(w) \/ ReturnId(w) \/ ReturnNothing(w)
  \/ \E p \in Process : ReleaseBatch(p)
  \/ Tick /\ UNCHANGED seqVars

Spec == Init /\ [][Next]_vars

-----------------------------------------------------------------------------
\* No id is returned twice: not by two processes, not by two calls of one
\* process that both find the batch used up and both reserve, and not by a
\* batch that outlives a reset.
UniqueIds == \A i \in Id : issued[i] <= 1

\* The counter object never moves back while callers reset forward: no writer
\* overwrites a later value with one computed from an earlier read.
CounterNeverMovesBack ==
  [][value # NoValue => value' >= value]_value
=============================================================================
