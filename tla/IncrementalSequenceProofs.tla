---------------------- MODULE IncrementalSequenceProofs ---------------------
(***************************************************************************)
(* What holds of IncrementalSequence for every set of callers and          *)
(* processes, every increment, batch size and number of calls.             *)
(***************************************************************************)
EXTENDS IncrementalSequence, LeaseLockProofs, FiniteSetTheorems

-----------------------------------------------------------------------------
(* The callers use the lock as LeaseLock lets them, so what is proved of   *)
(* the lock holds of it here.                                              *)

LEMMA LockNextStep == [Next]_vars => [LockNext]_lockVars
<1> USE DEF LockNext
<1>1. ASSUME NEW w \in Worker, BeginNext(w) \/ BeginReset(w) PROVE LockNext
  BY <1>1 DEF BeginNext, BeginReset, CallStep
<1>2. ASSUME NEW w \in Worker, LockStep(w) PROVE LockNext
  BY <1>2 DEF LockStep, CallStep
<1>3. ASSUME NEW w \in Worker, Unlock(w) PROVE LockNext
  BY <1>3 DEF Unlock
<1>4. ASSUME NEW w \in Worker,
             TakeLocal(w) \/ ReadCounter(w) \/ WriteCounter(w) \/ CounterThrows(w)
               \/ ReturnId(w) \/ ReturnNothing(w)
      PROVE  UNCHANGED lockVars
  BY <1>4 DEF TakeLocal, ReadCounter, WriteCounter, CounterThrows, ReturnId, ReturnNothing
<1>5. ASSUME NEW p \in Process, ReleaseBatch(p) PROVE UNCHANGED lockVars
  BY <1>5 DEF ReleaseBatch
<1>6. UNCHANGED vars => UNCHANGED lockVars
  BY DEF vars
<1> QED
  BY <1>1, <1>2, <1>3, <1>4, <1>5, <1>6 DEF Next

\* withLock drives the lock by its own operations alone: every behaviour of the
\* sequence is one of DistributedLock.
THEOREM SequenceUsesLock == Spec => LockSpec
<1>1. Init => LockInit
  BY DEF Init
<1> QED
  BY <1>1, LockNextStep, PTL DEF Spec, LockSpec

\* The counter's lock object belongs to the one call between acquire and release,
\* with any number of calls of any number of processes.
THEOREM SequenceLockInvariant ==
  ASSUME SafeUse PROVE Spec => []LockInv
BY SequenceUsesLock, LockInvariant, PTL

\* Two calls are never both inside withLock with live leases.
THEOREM SequenceIsExclusive ==
  ASSUME SafeUse PROVE Spec => []MutualExclusion
BY SequenceUsesLock, LockIsExclusive, PTL

\* The counter's critical section passes from one call to the next, never shared.
THEOREM SequenceImplementsLease ==
  ASSUME SafeUse PROVE Spec => GrantsOneAtATime
BY SequenceUsesLock, LockImplementsLease, PTL

-----------------------------------------------------------------------------
(* How far the counter can get.  Every call writes it once at most, so the *)
(* calls that are over or have written bound the value it has.             *)

Most      == Larger(Increment, BatchSize)
Low(n)    == Start + n * Most
Reach(n)  == ResetTo + n * Most

LEMMA SizeFacts ==
  /\ Most \in Nat \ {0}
  /\ ResetTo \in Nat
  /\ MaxId \in Nat
  /\ \A p : By(p) \in 1 .. Most
  /\ \A p \in Fast : By(p) = BatchSize
  /\ \A i \in Id : i # NoValue
  /\ ResetTo \in Id
<1>1. Most \in Nat \ {0} /\ Increment <= Most /\ BatchSize <= Most
  BY SequenceAssumption DEF Most, Larger
<1>2. \A p : By(p) \in 1 .. Most
  BY <1>1, SequenceAssumption DEF By
<1>3. \A p \in Fast : By(p) = BatchSize
  BY DEF By
<1>4. PICK n \in Nat : n = MaxCalls * Most
  BY <1>1, SequenceAssumption
<1>5. ResetTo = Start + n /\ MaxId = ResetTo + n
  BY <1>4 DEF ResetTo, MaxId, Most
<1>6. ResetTo \in Nat /\ MaxId \in Nat /\ ResetTo <= MaxId
  BY <1>5, SequenceAssumption
<1>7. \A i \in Id : i # NoValue
  BY <1>6, SequenceAssumption DEF Id
<1> QED
  BY <1>1, <1>2, <1>3, <1>6, <1>7 DEF Id

LEMMA ProductStep ==
  ASSUME NEW m \in Nat, NEW n \in Nat, NEW k \in Nat
  PROVE  /\ n * k \in Nat
         /\ (n + 1) * k = n * k + k
         /\ m <= n => m * k <= n * k
<1>1. n * k \in Nat /\ (n + 1) * k = n * k + k
  OBVIOUS
<1>2. ASSUME m <= n PROVE m * k <= n * k
  <2>1. PICK d \in Nat : n = m + d
    BY <1>2
  <2>2. n * k = m * k + d * k
    BY <2>1
  <2>3. d * k \in Nat /\ m * k \in Nat
    OBVIOUS
  <2> QED
    BY <2>2, <2>3
<1> QED
  BY <1>1, <1>2

LEMMA ReachFacts ==
  ASSUME NEW n \in 0 .. MaxCalls
  PROVE  /\ Low(n) \in Nat /\ Reach(n) \in Nat
         /\ Low(n) <= Reach(n)
         /\ Start <= Low(n)
         /\ Low(n) <= ResetTo /\ Reach(n) <= MaxId
         /\ Low(n + 1) = Low(n) + Most /\ Reach(n + 1) = Reach(n) + Most
         /\ ResetTo <= Reach(n)
<1> USE SequenceAssumption
<1>1. n \in Nat /\ MaxCalls \in Nat /\ n <= MaxCalls /\ Most \in Nat
  BY SizeFacts
<1>2. PICK m \in Nat : m = MaxCalls * Most
  BY <1>1
<1>3. PICK k \in Nat : k = n * Most
  BY <1>1
<1>4. k <= m
  BY <1>1, <1>2, <1>3, ProductStep
<1>5. (n + 1) * Most = k + Most
  BY <1>1, <1>3, ProductStep
<1>6. ResetTo = Start + m /\ MaxId = ResetTo + m
  BY <1>2 DEF ResetTo, MaxId, Most
<1> QED
  BY <1>1, <1>2, <1>3, <1>4, <1>5, <1>6 DEF Low, Reach

-----------------------------------------------------------------------------
(* Type correctness, with no assumption on how the lock is used.           *)

Unwritten == {w \in Worker : step[w] \in {"locking", "read", "write"}}
\* The calls that have written the counter, or never will.
Spent     == calls - Cardinality(Unwritten)
\* A next that has reserved ids and not returned.
Taken(w)  == step[w] = "written" /\ asked[w] = NoValue

SeqTypeOK ==
  /\ value \in Id \cup {NoValue}
  /\ batch \in [Process -> [current : Id, end : Id] \cup {NoBatch}]
  /\ step \in [Worker -> {"ready", "locking", "read", "write", "written", "failed"}]
  /\ asked \in [Worker -> {NoValue, ResetTo}]
  /\ got \in [Worker -> Id \cup {NoValue}]
  /\ issued \in [Id -> Nat]
  /\ calls \in 0 .. MaxCalls

CallsOK == IsFiniteSet(Unwritten) /\ Spent >= 0

BoundsOK ==
  /\ value # NoValue => value <= Reach(Spent)
  /\ \A w \in Worker :
       /\ step[w] = "write" => got[w] # NoValue /\ got[w] <= Reach(Spent)
       /\ Taken(w) => got[w] # NoValue /\ got[w] + By(ProcessOf[w]) <= Reach(Spent)

SeqTyped == SeqTypeOK /\ CallsOK /\ BoundsOK

\* What a step of the lock does to the caller's place in the sequence.
LEMMA LockStepEffect ==
  ASSUME SeqTypeOK, NEW w \in Worker, LockStep(w)
  PROVE  /\ step' \in [Worker -> {"ready", "locking", "read", "write", "written", "failed"}]
         /\ \A v \in Worker : v # w => step'[v] = step[v]
         /\ \/ step'[w] = step[w] /\ ~(step[w] = "locking" /\ pc'[w] \in {"holding", "idle"})
            \/ step[w] = "locking" /\ step'[w] = "read" /\ pc'[w] = "holding"
            \/ step[w] = "locking" /\ step'[w] = "failed" /\ pc'[w] = "idle"
         /\ UNCHANGED <<value, batch, asked, got, issued, calls>>
BY DEF SeqTypeOK, LockStep, AfterLockStep

\* A call counts as unwritten from its start to its write, and no other step
\* changes what the calls that are over can have written.
LEMMA EnterUnwritten ==
  ASSUME SeqTypeOK, CallsOK, NEW w \in Worker, step[w] = "ready", NewCall,
         step' = [step EXCEPT ![w] = "locking"]
  PROVE  CallsOK' /\ Spent' = Spent
<1>1. Unwritten' = Unwritten \cup {w} /\ w \notin Unwritten
  BY DEF Unwritten, SeqTypeOK
<1>2. IsFiniteSet(Unwritten') /\ Cardinality(Unwritten') = Cardinality(Unwritten) + 1
  BY <1>1, FS_AddElement DEF CallsOK
<1>3. Cardinality(Unwritten) \in Nat
  BY FS_CardinalityType DEF CallsOK
<1> QED
  BY <1>2, <1>3 DEF CallsOK, Spent, NewCall, SeqTypeOK

LEMMA LeaveUnwritten ==
  ASSUME SeqTypeOK, CallsOK, NEW w \in Worker, w \in Unwritten, UNCHANGED calls,
         step'[w] \in {"written", "failed"},
         \A v \in Worker : v # w => step'[v] = step[v]
  PROVE  CallsOK' /\ Spent' = Spent + 1 /\ Spent < MaxCalls
<1>1. Unwritten' = Unwritten \ {w}
  BY DEF Unwritten, SeqTypeOK
<1>2. IsFiniteSet(Unwritten') /\ Cardinality(Unwritten') = Cardinality(Unwritten) - 1
  BY <1>1, FS_RemoveElement DEF CallsOK
<1>3. Cardinality(Unwritten) \in Nat /\ Cardinality(Unwritten') \in Nat
  BY <1>2, FS_CardinalityType DEF CallsOK
<1> QED
  BY <1>2, <1>3, SequenceAssumption DEF CallsOK, Spent, SeqTypeOK

LEMMA KeepUnwritten ==
  ASSUME SeqTypeOK, CallsOK, Unwritten' = Unwritten, UNCHANGED calls \/ NewCall
  PROVE  CallsOK' /\ Spent' \in {Spent, Spent + 1} /\ Spent \in 0 .. MaxCalls /\ Spent' <= MaxCalls
<1>1. Cardinality(Unwritten) \in Nat
  BY FS_CardinalityType DEF CallsOK
<1>2. Cardinality(Unwritten') = Cardinality(Unwritten)
  OBVIOUS
<1> QED
  BY <1>1, <1>2, SequenceAssumption DEF CallsOK, Spent, NewCall, SeqTypeOK

LEMMA SpentStep ==
  ASSUME SeqTypeOK, CallsOK, [Next]_vars
  PROVE  /\ CallsOK'
         /\ Spent \in 0 .. MaxCalls /\ Spent' \in 0 .. MaxCalls
         /\ Spent' \in {Spent, Spent + 1}
         /\ \A w \in Worker : WriteCounter(w) \/ CounterThrows(w) => Spent' = Spent + 1
<1>0. Cardinality(Unwritten) \in Nat /\ Spent \in 0 .. MaxCalls
  BY FS_CardinalityType, SequenceAssumption DEF CallsOK, SeqTypeOK, Spent
<1>1. ASSUME NEW w \in Worker, WriteCounter(w) \/ CounterThrows(w)
      PROVE  CallsOK' /\ Spent' = Spent + 1 /\ Spent < MaxCalls
  <2>1. /\ w \in Unwritten /\ UNCHANGED calls /\ step'[w] \in {"written", "failed"}
        /\ \A v \in Worker : v # w => step'[v] = step[v]
    BY <1>1 DEF WriteCounter, CounterThrows, Unwritten, SeqTypeOK
  <2> QED
    BY <2>1, LeaveUnwritten
<1>2. ASSUME NEW w \in Worker, BeginNext(w) \/ BeginReset(w)
      PROVE  CallsOK' /\ Spent' = Spent
  <2>1. step[w] = "ready" /\ NewCall /\ step' = [step EXCEPT ![w] = "locking"]
    BY <1>2 DEF BeginNext, BeginReset
  <2> QED
    BY <2>1, EnterUnwritten
<1>3. ASSUME NEW w \in Worker, LockStep(w)
      PROVE  CallsOK' /\ Spent' \in {Spent, Spent + 1} /\ Spent' <= MaxCalls
  <2>1. CASE step[w] = "locking" /\ step'[w] = "failed"
    <3>1. w \in Unwritten
      BY <2>1 DEF Unwritten
    <3>2. CallsOK' /\ Spent' = Spent + 1 /\ Spent < MaxCalls
      BY <1>3, <2>1, <3>1, LockStepEffect, LeaveUnwritten
    <3> QED
      BY <3>2, <1>0, SequenceAssumption
  <2>2. CASE ~(step[w] = "locking" /\ step'[w] = "failed")
    <3>1. Unwritten' = Unwritten /\ UNCHANGED calls
      BY <1>3, <2>2, LockStepEffect DEF Unwritten, SeqTypeOK
    <3> QED
      BY <3>1, KeepUnwritten
  <2> QED
    BY <2>1, <2>2
<1>4. ASSUME NEW w \in Worker,
             TakeLocal(w) \/ ReadCounter(w) \/ Unlock(w) \/ ReturnId(w) \/ ReturnNothing(w)
      PROVE  CallsOK' /\ Spent' \in {Spent, Spent + 1} /\ Spent' <= MaxCalls
  <2>1. Unwritten' = Unwritten /\ (UNCHANGED calls \/ NewCall)
    BY <1>4 DEF TakeLocal, ReadCounter, Unlock, ReturnId, ReturnNothing, seqVars, Unwritten,
                SeqTypeOK
  <2> QED
    BY <2>1, KeepUnwritten
<1>5. ASSUME (\E p \in Process : ReleaseBatch(p)) \/ UNCHANGED seqVars
      PROVE  CallsOK' /\ Spent' \in {Spent, Spent + 1} /\ Spent' <= MaxCalls
  <2>1. Unwritten' = Unwritten /\ UNCHANGED calls
    BY <1>5 DEF ReleaseBatch, seqVars, Unwritten
  <2> QED
    BY <2>1, KeepUnwritten
<1>6. Spent \in Int /\ (CallsOK' /\ Spent' \in {Spent, Spent + 1} => Spent' \in Nat)
  BY <1>0, SequenceAssumption
<1>7. \/ \E w \in Worker : WriteCounter(w) \/ CounterThrows(w)
      \/ \E w \in Worker : BeginNext(w) \/ BeginReset(w)
      \/ \E w \in Worker : LockStep(w)
      \/ \E w \in Worker : TakeLocal(w) \/ ReadCounter(w) \/ Unlock(w) \/ ReturnId(w)
                             \/ ReturnNothing(w)
      \/ (\E p \in Process : ReleaseBatch(p)) \/ UNCHANGED seqVars
  BY DEF Next, vars
<1>8. CallsOK' /\ Spent' \in {Spent, Spent + 1} /\ Spent' <= MaxCalls
  BY <1>0, <1>1, <1>2, <1>3, <1>4, <1>5, <1>7, SequenceAssumption
<1> QED
  BY <1>0, <1>1, <1>6, <1>8, SequenceAssumption

LEMMA SeqTypedInit == Init => SeqTyped
<1> SUFFICES ASSUME Init PROVE SeqTyped
  OBVIOUS
<1> USE DEF Init
<1>1. SeqTypeOK
  BY SizeFacts, SequenceAssumption DEF SeqTypeOK
<1>2. Unwritten = {}
  BY DEF Unwritten
<1>3. CallsOK
  BY <1>2, FS_EmptySet DEF CallsOK, Spent
<1>4. BoundsOK
  BY DEF BoundsOK, Taken
<1> QED
  BY <1>1, <1>3, <1>4 DEF SeqTyped

LEMMA BoundStep ==
  ASSUME SeqTypeOK, CallsOK, [Next]_vars
  PROVE  /\ Reach(Spent) \in Nat /\ Reach(Spent)' \in Nat
         /\ Start <= Reach(Spent) /\ ResetTo <= Reach(Spent)'
         /\ Reach(Spent) <= Reach(Spent)' /\ Reach(Spent)' <= MaxId
         /\ \A w \in Worker : WriteCounter(w) \/ CounterThrows(w) =>
                                Reach(Spent)' = Reach(Spent) + Most
<1>1. PICK m \in 0 .. MaxCalls : m = Spent
  BY SpentStep
<1>2. PICK n \in 0 .. MaxCalls : n = Spent'
  BY SpentStep
<1>3. n = m \/ n = m + 1
  BY <1>1, <1>2, SpentStep
<1>4. Reach(Spent) = Reach(m) /\ Reach(Spent)' = Reach(n)
  BY <1>1, <1>2 DEF Reach
<1>5. Reach(m) \in Nat /\ Reach(n) \in Nat /\ Reach(m + 1) = Reach(m) + Most
      /\ Start <= Reach(m) /\ Reach(n) <= MaxId /\ ResetTo <= Reach(n)
  BY ReachFacts, SizeFacts, SequenceAssumption
<1>6. \A w \in Worker : WriteCounter(w) \/ CounterThrows(w) => n = m + 1
  BY <1>1, <1>2, SpentStep
<1> QED
  BY <1>3, <1>4, <1>5, <1>6, SizeFacts

\* What WriteCounter stores, or CounterThrows may have stored.
LEMMA WrittenBound ==
  ASSUME SeqTyped, NEW w \in Worker, step[w] = "write",
         WriteCounter(w) \/ CounterThrows(w), [Next]_vars
  PROVE  Written(w) \in Id /\ Written(w) <= Reach(Spent)'
<1> USE DEF SeqTyped
<1>1. CASE asked[w] = NoValue
  <2>1. got[w] \in Id /\ got[w] <= Reach(Spent) /\ By(ProcessOf[w]) \in 1 .. Most
    BY SizeFacts DEF BoundsOK, SeqTypeOK
  <2>2. Written(w) = got[w] + By(ProcessOf[w])
    BY <1>1 DEF Written, NextCounter
  <2> QED
    BY <2>1, <2>2, BoundStep, SizeFacts DEF Id
<1>2. CASE asked[w] = ResetTo
  BY <1>2, SizeFacts, BoundStep DEF Written, SeqTypeOK
<1> QED
  BY <1>1, <1>2 DEF SeqTypeOK

LEMMA SeqTypedStep == SeqTyped /\ [Next]_vars => SeqTyped'
<1> SUFFICES ASSUME SeqTyped, [Next]_vars PROVE SeqTyped'
  OBVIOUS
<1>0. SeqTypeOK /\ CallsOK /\ BoundsOK
  BY DEF SeqTyped
<1> USE DEF SeqTypeOK, BoundsOK, Taken
<1>b. PICK r \in Nat : r = Reach(Spent)
  BY <1>0, BoundStep
<1>c. PICK s \in Nat : s = Reach(Spent)' /\ r <= s /\ s <= MaxId /\ Start <= r
  BY <1>0, <1>b, BoundStep
<1>e. /\ value # NoValue => value <= s
      /\ \A w \in Worker :
           /\ step[w] = "write" => got[w] # NoValue /\ got[w] <= s
           /\ Taken(w) => got[w] # NoValue /\ got[w] + By(ProcessOf[w]) <= s
  BY <1>0, <1>b, <1>c, SizeFacts DEF Id
<1>d. CallsOK'
  BY <1>0, SpentStep
<1>1. ASSUME NEW w \in Worker, TakeLocal(w) PROVE SeqTypeOK' /\ BoundsOK'
  <2>1. /\ ProcessOf[w] \in Process
        /\ batch[ProcessOf[w]] \in [current : Id, end : Id]
        /\ batch[ProcessOf[w]].current < batch[ProcessOf[w]].end
    BY <1>0, <1>1, SizeFacts DEF TakeLocal, Stocked, UsedUp, Process, Id
  <2>2. batch' \in [Process -> [current : Id, end : Id] \cup {NoBatch}]
    BY <1>0, <1>1, <2>1, SizeFacts DEF TakeLocal, Id
  <2>3. issued' \in [Id -> Nat]
    BY <1>0, <1>1, <2>1 DEF TakeLocal, Issue
  <2>4. calls' \in 0 .. MaxCalls
    BY <1>0, <1>1, SequenceAssumption DEF TakeLocal, NewCall
  <2>5. SeqTypeOK'
    BY <1>0, <1>1, <2>2, <2>3, <2>4 DEF TakeLocal
  <2>6. BoundsOK'
    BY <1>0, <1>1, <1>c, <1>e DEF TakeLocal
  <2> QED
    BY <2>5, <2>6
<1>2. ASSUME NEW w \in Worker, BeginNext(w) \/ BeginReset(w) PROVE SeqTypeOK' /\ BoundsOK'
  <2>1. SeqTypeOK'
    BY <1>0, <1>2, SizeFacts, SequenceAssumption DEF BeginNext, BeginReset, NewCall
  <2>2. BoundsOK'
    BY <1>0, <1>2, <1>c, <1>e DEF BeginNext, BeginReset
  <2> QED
    BY <2>1, <2>2
<1>3. ASSUME NEW w \in Worker, LockStep(w) PROVE SeqTypeOK' /\ BoundsOK'
  <2>1. SeqTypeOK'
    BY <1>0, <1>3, LockStepEffect
  <2>2. \A v \in Worker : /\ step'[v] = "write" => step[v] = "write"
                          /\ Taken(v)' => Taken(v)
    BY <1>0, <1>3, LockStepEffect
  <2>3. BoundsOK'
    BY <1>0, <1>3, <2>2, <1>c, <1>e, LockStepEffect
  <2> QED
    BY <2>1, <2>3
<1>4. ASSUME NEW w \in Worker, ReadCounter(w) PROVE SeqTypeOK' /\ BoundsOK'
  <2>1. Current \in Id /\ Current <= s /\ Current # NoValue
    BY <1>0, <1>b, <1>c, SizeFacts, SequenceAssumption DEF Current, Id, ResetTo
  <2>2. SeqTypeOK'
    BY <1>0, <1>4, <2>1 DEF ReadCounter
  <2>3. BoundsOK'
    BY <1>0, <1>4, <2>1, <1>c, <1>e DEF ReadCounter
  <2> QED
    BY <2>2, <2>3
<1>5. ASSUME NEW w \in Worker, WriteCounter(w) PROVE SeqTypeOK' /\ BoundsOK'
  <2>1. step[w] = "write" /\ Written(w) \in Id /\ Written(w) <= s
    BY <1>5, <1>c, WrittenBound DEF WriteCounter
  <2>2. SeqTypeOK'
    BY <1>0, <1>5, <2>1 DEF WriteCounter
  <2>3. Taken(w)' => got[w] # NoValue /\ got[w] + By(ProcessOf[w]) <= s
    BY <1>0, <1>5, <2>1 DEF WriteCounter, Written, NextCounter
  <2>4. BoundsOK'
    BY <1>0, <1>5, <2>1, <2>3, <1>c, <1>e DEF WriteCounter
  <2> QED
    BY <2>2, <2>4
<1>6. ASSUME NEW w \in Worker, CounterThrows(w) PROVE SeqTypeOK' /\ BoundsOK'
  <2>1. step[w] = "write" => Written(w) \in Id /\ Written(w) <= s
    BY <1>6, <1>c, WrittenBound
  <2>2. SeqTypeOK'
    BY <1>0, <1>6, <2>1 DEF CounterThrows
  <2>3. BoundsOK'
    BY <1>0, <1>6, <2>1, <1>c, <1>e DEF CounterThrows
  <2> QED
    BY <2>2, <2>3
<1>7. ASSUME NEW w \in Worker, ReturnId(w) PROVE SeqTypeOK' /\ BoundsOK'
  <2>1. /\ ProcessOf[w] \in Process /\ got[w] \in Id
        /\ got[w] + By(ProcessOf[w]) <= MaxId /\ By(ProcessOf[w]) \in Nat \ {0}
        /\ ProcessOf[w] \in Fast => By(ProcessOf[w]) = BatchSize
    BY <1>0, <1>7, <1>b, <1>c, SizeFacts DEF ReturnId, Process, Id
  <2>2. batch' \in [Process -> [current : Id, end : Id] \cup {NoBatch}]
    <3>1. ASSUME ProcessOf[w] \in Fast
          PROVE  [current |-> got[w] + 1, end |-> got[w] + BatchSize] \in [current : Id, end : Id]
      <4>1. got[w] + 1 \in Id /\ got[w] + BatchSize \in Id
        BY <3>1, <2>1, SizeFacts, SequenceAssumption DEF Id
      <4> QED
        BY <4>1
    <3> QED
      BY <1>0, <1>7, <2>1, <3>1 DEF ReturnId
  <2>3. issued' \in [Id -> Nat]
    BY <1>0, <1>7, <2>1 DEF ReturnId, Issue
  <2>4. SeqTypeOK'
    BY <1>0, <1>7, <2>2, <2>3 DEF ReturnId
  <2>5. BoundsOK'
    BY <1>0, <1>7, <1>c, <1>e DEF ReturnId
  <2> QED
    BY <2>4, <2>5
<1>8. ASSUME NEW w \in Worker, ReturnNothing(w) PROVE SeqTypeOK' /\ BoundsOK'
  <2>1. SeqTypeOK'
    BY <1>0, <1>8 DEF ReturnNothing
  <2>2. BoundsOK'
    BY <1>0, <1>8, <1>c, <1>e DEF ReturnNothing
  <2> QED
    BY <2>1, <2>2
<1>9. ASSUME NEW p \in Process, ReleaseBatch(p) PROVE SeqTypeOK' /\ BoundsOK'
  <2>1. SeqTypeOK'
    BY <1>0, <1>9 DEF ReleaseBatch
  <2>2. BoundsOK'
    BY <1>0, <1>9, <1>c, <1>e DEF ReleaseBatch
  <2> QED
    BY <2>1, <2>2
<1>10. ASSUME UNCHANGED seqVars PROVE SeqTypeOK' /\ BoundsOK'
  <2>1. SeqTypeOK'
    BY <1>0, <1>10 DEF seqVars
  <2>2. BoundsOK'
    BY <1>0, <1>10, <1>c, <1>e DEF seqVars
  <2> QED
    BY <2>1, <2>2
<1>11. ASSUME NEW w \in Worker, Unlock(w) PROVE UNCHANGED seqVars
  BY <1>11 DEF Unlock
<1>12. SeqTypeOK' /\ BoundsOK'
  BY <1>1, <1>2, <1>3, <1>4, <1>5, <1>6, <1>7, <1>8, <1>9, <1>10, <1>11 DEF Next, vars
<1> QED
  BY <1>12, <1>d DEF SeqTyped

\* Every id a call can return lies within the range the calls can reserve, and
\* every variable keeps its type, whether or not the lock is used safely.
THEOREM SequenceTypeCorrect == Spec => []TypeOK
<1>1. SeqTyped => /\ value \in Id \cup {NoValue}
                  /\ batch \in [Process -> [current : Id, end : Id] \cup {NoBatch}]
                  /\ step \in [Worker -> {"ready", "locking", "read", "write", "written", "failed"}]
                  /\ asked \in [Worker -> Id \cup {NoValue}]
                  /\ got \in [Worker -> Id \cup {NoValue}]
                  /\ issued \in [Id -> Nat]
                  /\ calls \in 0 .. MaxCalls
  BY SizeFacts DEF SeqTyped, SeqTypeOK
<1>2. LockTypeOK /\ SeqTyped => TypeOK
  BY <1>1 DEF TypeOK
<1> QED
  BY <1>2, SeqTypedInit, SeqTypedStep, SequenceUsesLock, LockTypeCorrect, PTL DEF Spec

-----------------------------------------------------------------------------
(* Where a call is in nextSequence says where it is in withLock.           *)

Releasing(w) == goal[w] = "release" /\ InCall(w)

StepsOK == \A w \in Worker :
  /\ step[w] = "ready" => pc[w] = "idle"
  /\ step[w] = "locking" => Acquiring(w)
  /\ step[w] \in {"read", "write"} => Holding(w)
  /\ step[w] \in {"written", "failed"} => Holding(w) \/ Releasing(w) \/ pc[w] = "idle"

LEMMA StepsStep ==
  ASSUME SeqTypeOK, LockTypeOK, StepsOK, [Next]_vars
  PROVE  StepsOK'
<1> USE DEF SeqTypeOK, LockTypeOK, StepsOK, Acquiring, Releasing, Holding, InCall, PC
<1>1. ASSUME NEW w \in Worker, BeginNext(w) \/ BeginReset(w) PROVE StepsOK'
  BY <1>1 DEF BeginNext, BeginReset, BeginAcquire, Goto
<1>2. ASSUME NEW w \in Worker, LockStep(w) PROVE StepsOK'
  <2>1. /\ \A v \in Worker : v # w => pc'[v] = pc[v] /\ goal'[v] = goal[v]
        /\ goal'[w] = goal[w]
    BY <1>2 DEF LockStep, Put, PutAccepted, PutRefusedGiveUp, PutRefusedRead, PutThrows,
                Read, ReadThrows, Judge, JudgeExpired, JudgeAcquire, JudgeProbe, JudgeRelease,
                Delete, DeleteFails, AfterDelete, WakeUp, Return, SendPut, Goto
  <2>2. pc[w] \notin {"idle", "holding"}
    BY <1>2 DEF LockStep, Put, PutAccepted, PutRefusedGiveUp, PutRefusedRead, PutThrows,
                Read, ReadThrows, Judge, JudgeExpired, JudgeAcquire, JudgeProbe, JudgeRelease,
                Delete, DeleteFails, WakeUp
  <2>3. ASSUME step[w] = "locking", pc'[w] \notin {"idle", "holding"} PROVE Acquiring(w)'
    <3>1. pc'[w] \in {"putting", "reading", "judging", "deleting", "backoff"}
      BY <1>2, <2>3, <2>2 DEF LockStep, Put, PutAccepted, PutRefusedGiveUp, PutRefusedRead,
                PutThrows, Read, ReadThrows, Judge, JudgeExpired, JudgeAcquire, JudgeProbe,
                JudgeRelease, Delete, DeleteFails, AfterDelete, WakeUp, Return, SendPut, Goto
    <3> QED
      BY <2>1, <2>3, <3>1
  <2>4. ASSUME step[w] \in {"written", "failed"} PROVE Releasing(w)' \/ pc'[w] = "idle"
    <3>1. Releasing(w)
      BY <2>2, <2>4
    <3>2. pc'[w] \in {"judging", "deleting", "idle"}
      BY <1>2, <3>1 DEF LockStep, Put, PutAccepted, PutRefusedGiveUp, PutRefusedRead,
                PutThrows, Read, ReadThrows, Judge, JudgeExpired, JudgeAcquire, JudgeProbe,
                JudgeRelease, Delete, DeleteFails, AfterDelete, WakeUp, Return, SendPut, Goto
    <3> QED
      BY <2>1, <3>1, <3>2
  <2>5. step[w] \in {"locking", "written", "failed"}
    BY <2>2
  <2> QED
    BY <1>2, <2>1, <2>3, <2>4, <2>5, LockStepEffect
<1>3. ASSUME NEW w \in Worker,
             ReadCounter(w) \/ WriteCounter(w) \/ CounterThrows(w)
      PROVE  StepsOK'
  BY <1>3 DEF ReadCounter, WriteCounter, CounterThrows, lockVars
<1>4. ASSUME NEW w \in Worker, TakeLocal(w) \/ ReturnId(w) \/ ReturnNothing(w) PROVE StepsOK'
  BY <1>4 DEF TakeLocal, ReturnId, ReturnNothing, lockVars
<1>5. ASSUME NEW w \in Worker, Unlock(w) PROVE StepsOK'
  BY <1>5 DEF Unlock, BeginRelease, Goto, seqVars
<1>6. ASSUME (\E p \in Process : ReleaseBatch(p)) \/ (Tick /\ UNCHANGED seqVars) \/ UNCHANGED vars
      PROVE  UNCHANGED <<pc, goal, step>>
  BY <1>6 DEF ReleaseBatch, Tick, vars, lockVars, seqVars
<1>7. UNCHANGED <<pc, goal, step>> => StepsOK'
  OBVIOUS
<1> QED
  BY <1>1, <1>2, <1>3, <1>4, <1>5, <1>6, <1>7 DEF Next

\* The lock admits one caller to the counter at a time.
LEMMA OneHolder ==
  ASSUME LockInv, NEW v \in Worker, NEW w \in Worker, Holding(v), Holding(w)
  PROVE  v = w
BY DEF LockInv, LockTypeOK, TokensOK, OwnersOK, Owner

-----------------------------------------------------------------------------
(* The counter only grows, when the lock is used as SafeUse says.  A call  *)
(* writes what it read plus its step, and no other call writes in between; *)
(* a reset that waits for the lock finds the counter below what it asks    *)
(* for, because no other reset has moved it there.                         *)

CounterOK ==
  /\ \A w \in Worker : step[w] = "write" => got[w] = Current
  /\ value # NoValue => value >= ResetTo \/ value <= Low(Spent)

ResetsOK ==
  /\ \A v, w \in Worker : asked[v] # NoValue /\ asked[w] # NoValue => v = w
  /\ \A w \in Worker : asked[w] # NoValue => step[w] # "ready"
  /\ \A w \in Unwritten : asked[w] # NoValue /\ value # NoValue => value <= Low(Spent)

LEMMA LowStep ==
  ASSUME SeqTypeOK, CallsOK, [Next]_vars
  PROVE  /\ Low(Spent) \in Nat /\ Low(Spent)' \in Nat
         /\ Start <= Low(Spent) /\ Low(Spent) <= Low(Spent)'
         /\ Low(Spent) <= ResetTo
         /\ \A w \in Worker : WriteCounter(w) \/ CounterThrows(w) =>
                                Low(Spent)' = Low(Spent) + Most
<1>1. PICK m \in 0 .. MaxCalls : m = Spent
  BY SpentStep
<1>2. PICK n \in 0 .. MaxCalls : n = Spent'
  BY SpentStep
<1>3. n = m \/ n = m + 1
  BY <1>1, <1>2, SpentStep
<1>4. Low(Spent) = Low(m) /\ Low(Spent)' = Low(n)
  BY <1>1, <1>2 DEF Low
<1>5. Low(m) \in Nat /\ Low(n) \in Nat /\ Low(m + 1) = Low(m) + Most
      /\ Start <= Low(m) /\ Low(m) <= ResetTo
  BY ReachFacts, SizeFacts, SequenceAssumption
<1>6. \A w \in Worker : WriteCounter(w) \/ CounterThrows(w) => n = m + 1
  BY <1>1, <1>2, SpentStep
<1> QED
  BY <1>3, <1>4, <1>5, <1>6, SizeFacts

\* What a write stores, against what is stored.
LEMMA WriteAdvances ==
  ASSUME SeqTyped, CounterOK, ResetsOK, [Next]_vars, NEW w \in Worker, step[w] = "write"
  PROVE  /\ Written(w) \in Nat /\ Current \in Nat
         /\ asked[w] = NoValue => Written(w) = Current + By(ProcessOf[w])
         /\ asked[w] # NoValue => Written(w) = ResetTo
         /\ Current <= Written(w)
         /\ Written(w) >= ResetTo \/ Written(w) <= Low(Spent) + Most
         /\ By(ProcessOf[w]) \in 1 .. Most
<1> USE DEF SeqTyped
<1>1. Current \in Nat /\ (value = NoValue => Current <= Low(Spent)) /\ Low(Spent) \in Nat
  BY LowStep, SequenceAssumption DEF Current, SeqTypeOK, Id
<1>2. By(ProcessOf[w]) \in 1 .. Most /\ ResetTo \in Nat
  BY SizeFacts
<1>3. Current >= ResetTo \/ Current <= Low(Spent)
  BY <1>1 DEF CounterOK, Current
<1>4. CASE asked[w] = NoValue
  BY <1>1, <1>2, <1>3, <1>4, SizeFacts DEF Written, NextCounter, CounterOK
<1>5. CASE asked[w] # NoValue
  <2>1. Current <= Low(Spent)
    BY <1>1, <1>5 DEF ResetsOK, Unwritten, Current
  <2> QED
    BY <1>1, <1>2, <2>1, <1>5, LowStep, SizeFacts DEF Written, SeqTypeOK
<1> QED
  BY <1>4, <1>5

LEMMA CounterStep ==
  ASSUME LockInv, SeqTyped, StepsOK, CounterOK, ResetsOK, [Next]_vars
  PROVE  CounterOK' /\ ResetsOK'
<1> USE DEF SeqTyped, CounterOK, ResetsOK
<1>a. PICK l \in Nat : l = Low(Spent)
  BY LowStep
<1>b. PICK m \in Nat : m = Low(Spent)' /\ l <= m
  BY <1>a, LowStep
<1>c. SeqTypeOK /\ (value # NoValue => value \in Nat)
  BY DEF SeqTypeOK, Id
<1>1. ASSUME NEW w \in Worker, BeginNext(w) PROVE CounterOK' /\ ResetsOK'
  BY <1>1, <1>a, <1>b, <1>c DEF BeginNext, Unwritten, Current, SeqTypeOK
<1>2. ASSUME NEW w \in Worker, BeginReset(w) PROVE CounterOK' /\ ResetsOK'
  <2>1. value # NoValue => value <= l
    BY <1>2, <1>a, <1>c, SizeFacts DEF BeginReset
  <2>2. CounterOK'
    BY <1>2, <1>a, <1>b, <1>c DEF BeginReset, Current, SeqTypeOK
  <2>3. ResetsOK'
    BY <1>2, <2>1, <1>b, <1>c, SizeFacts DEF BeginReset, Unwritten, SeqTypeOK
  <2> QED
    BY <2>2, <2>3
<1>3. ASSUME NEW w \in Worker, LockStep(w) PROVE CounterOK' /\ ResetsOK'
  <2>1. \A v \in Worker : /\ step'[v] = "write" => step[v] = "write"
                          /\ step'[v] = "ready" => step[v] = "ready"
                          /\ v \in Unwritten' => v \in Unwritten
    BY <1>3, <1>c, LockStepEffect DEF Unwritten
  <2>2. UNCHANGED <<value, asked, got>>
    BY <1>3, <1>c, LockStepEffect
  <2>3. CounterOK'
    BY <2>1, <2>2, <1>a, <1>b, <1>c DEF Current
  <2>4. ResetsOK'
    BY <2>1, <2>2, <1>a, <1>b, <1>c DEF Unwritten
  <2> QED
    BY <2>3, <2>4
<1>4. ASSUME NEW w \in Worker, ReadCounter(w) PROVE CounterOK' /\ ResetsOK'
  <2>1. /\ \A v \in Worker : v # w => step'[v] = step[v] /\ got'[v] = got[v]
        /\ got'[w] = Current /\ step[w] = "read" /\ step'[w] = "write"
        /\ UNCHANGED <<value, asked>>
    BY <1>4, <1>c DEF ReadCounter, SeqTypeOK
  <2>2. Current' = Current
    BY <2>1 DEF Current
  <2>3. CounterOK'
    BY <2>1, <2>2, <1>a, <1>b, <1>c
  <2>4. ResetsOK'
    BY <2>1, <1>a, <1>b, <1>c DEF Unwritten
  <2> QED
    BY <2>3, <2>4
<1>5. ASSUME NEW w \in Worker, WriteCounter(w) \/ CounterThrows(w) PROVE CounterOK' /\ ResetsOK'
  <2>1. /\ \A v \in Worker : v # w => step'[v] = step[v]
        /\ step'[w] \in {"written", "failed"} /\ w \in Unwritten
        /\ UNCHANGED <<asked, got>>
    BY <1>5, <1>c DEF WriteCounter, CounterThrows, Unwritten, SeqTypeOK
  <2>2. \A v \in Worker : step'[v] # "write"
    <3> SUFFICES ASSUME NEW v \in Worker, v # w, step[v] = "write" PROVE FALSE
      BY <2>1
    <3>1. Holding(v) /\ Holding(w)
      BY <1>5 DEF StepsOK, WriteCounter, CounterThrows
    <3> QED
      BY <3>1, OneHolder
  <2>3. UNCHANGED value \/ (step[w] = "write" /\ value' = Written(w))
    BY <1>5 DEF WriteCounter, CounterThrows
  <2>4. m = l + Most
    BY <1>5, <1>a, <1>b, LowStep
  <2>5. value' # NoValue => value' >= ResetTo \/ value' <= m
    BY <2>3, <2>4, <1>a, <1>b, <1>c, WriteAdvances, SizeFacts
  <2>6. ASSUME NEW v \in Worker, v \in Unwritten', asked[v] # NoValue, value' # NoValue
        PROVE  value' <= m
    <3>1. v # w /\ v \in Unwritten
      BY <2>1, <2>6 DEF Unwritten
    <3>2. asked[w] = NoValue
      BY <3>1, <2>6
    <3>3. value # NoValue => value <= l
      BY <3>1, <2>6, <1>a
    <3>4. Current <= l
      BY <3>3, <1>a, LowStep DEF Current
    <3>5. step[w] = "write" => Written(w) <= m
      BY <3>2, <3>4, <2>4, <1>a, <1>b, WriteAdvances, SizeFacts
    <3> QED
      BY <2>3, <2>6, <3>3, <3>5, <1>b, <1>c
  <2>7. CounterOK'
    BY <2>2, <2>5, <1>b
  <2>8. \A v \in Worker : asked[v] # NoValue => step'[v] # "ready"
    BY <2>1
  <2>9. ResetsOK'
    BY <2>1, <2>6, <2>8, <1>b DEF Unwritten
  <2> QED
    BY <2>7, <2>9
<1>6. ASSUME NEW w \in Worker, ReturnId(w) \/ ReturnNothing(w) PROVE CounterOK' /\ ResetsOK'
  <2>1. /\ \A v \in Worker : v # w => /\ step'[v] = step[v] /\ got'[v] = got[v]
                                      /\ asked'[v] = asked[v]
        /\ step'[w] = "ready" /\ asked'[w] = NoValue
        /\ UNCHANGED value
    BY <1>6, <1>c DEF ReturnId, ReturnNothing, SeqTypeOK
  <2>2. CounterOK'
    BY <2>1, <1>a, <1>b, <1>c DEF Current
  <2>3. ResetsOK'
    BY <2>1, <1>a, <1>b, <1>c DEF Unwritten
  <2> QED
    BY <2>2, <2>3
<1>7. ASSUME UNCHANGED <<value, step, asked, got>> PROVE CounterOK' /\ ResetsOK'
  BY <1>7, <1>a, <1>b, <1>c DEF Current, Unwritten
<1>8. ASSUME NEW w \in Worker, TakeLocal(w) \/ Unlock(w) PROVE UNCHANGED <<value, step, asked, got>>
  BY <1>8 DEF TakeLocal, Unlock, seqVars
<1>9. ASSUME (\E p \in Process : ReleaseBatch(p)) \/ UNCHANGED seqVars
      PROVE  UNCHANGED <<value, step, asked, got>>
  BY <1>9 DEF ReleaseBatch, seqVars
<1> QED
  BY <1>1, <1>2, <1>3, <1>4, <1>5, <1>6, <1>7, <1>8, <1>9 DEF Next, vars

SequenceInv == SeqTyped /\ StepsOK /\ CounterOK /\ ResetsOK

LEMMA SequenceInvInit == Init => SequenceInv
BY SeqTypedInit DEF SequenceInv, Init, LockInit, StepsOK, CounterOK, ResetsOK, Unwritten

LEMMA SequenceInvStep == LockInv /\ SequenceInv /\ [Next]_vars => SequenceInv'
BY SeqTypedStep, StepsStep, CounterStep DEF SequenceInv, SeqTyped, LockInv

LEMMA SequenceInvariant ==
  ASSUME SafeUse PROVE Spec => [](LockInv /\ SequenceInv)
BY SequenceLockInvariant, SequenceInvInit, SequenceInvStep, PTL DEF Spec

LEMMA ValueStep ==
  ASSUME LockInv, SequenceInv, [Next]_vars, value' # value
  PROVE  \E w \in Worker : /\ step[w] = "write" /\ value' = Written(w)
                           /\ WriteCounter(w) \/ CounterThrows(w)
<1>1. ASSUME NEW w \in Worker,
             BeginNext(w) \/ BeginReset(w) \/ LockStep(w) \/ ReadCounter(w) \/ TakeLocal(w)
               \/ Unlock(w) \/ ReturnId(w) \/ ReturnNothing(w)
      PROVE  UNCHANGED value
  BY <1>1 DEF BeginNext, BeginReset, LockStep, ReadCounter, TakeLocal, Unlock, ReturnId,
              ReturnNothing, seqVars
<1>2. ASSUME (\E p \in Process : ReleaseBatch(p)) \/ UNCHANGED seqVars PROVE UNCHANGED value
  BY <1>2 DEF ReleaseBatch, seqVars
<1>3. PICK w \in Worker : WriteCounter(w) \/ CounterThrows(w)
  BY <1>1, <1>2 DEF Next, vars
<1> QED
  BY <1>3 DEF WriteCounter, CounterThrows

\* While every call reserves under the lock, no writer overwrites a later counter
\* with one computed from an earlier read, and no reset finds it further on.
THEOREM CounterIsMonotone ==
  ASSUME SafeUse PROVE Spec => CounterNeverMovesBack
<1>1. ASSUME LockInv, SequenceInv, [Next]_vars
      PROVE  [value # NoValue => value' >= value]_value
  <2> SUFFICES ASSUME value' # value, value # NoValue PROVE value' >= value
    OBVIOUS
  <2>1. PICK w \in Worker : step[w] = "write" /\ value' = Written(w)
    BY <1>1, ValueStep
  <2>2. Current <= Written(w) /\ Current = value
    BY <1>1, <2>1, WriteAdvances DEF SequenceInv, Current
  <2>3. Written(w) \in Nat /\ Current \in Nat
    BY <1>1, <2>1, WriteAdvances DEF SequenceInv
  <2> QED
    BY <2>1, <2>2, <2>3
<1> QED
  BY <1>1, SequenceInvariant, PTL DEF Spec, CounterNeverMovesBack

-----------------------------------------------------------------------------
(* No id is returned twice.  An id is at any time unreserved (the counter  *)
(* has not passed it), in the hand of the one call that reserved it, in    *)
(* the batch of one process, or returned; it moves along that order only.  *)

Hand(w)  == {i \in Id : Taken(w) /\ got[w] <= i /\ i < got[w] + By(ProcessOf[w])}
Stock(p) == {i \in Id : /\ p \in Fast /\ batch[p] # NoBatch
                        /\ batch[p].current <= i /\ i < batch[p].end}
Given    == {i \in Id : issued[i] > 0}
Below    == {i \in Id : value # NoValue /\ i < value}

ClaimsOK ==
  /\ UniqueIds
  /\ Given \subseteq Below
  /\ \A w \in Worker : Hand(w) \subseteq Below \ Given
  /\ \A p \in Process : Stock(p) \subseteq Below \ Given
  /\ \A v, w \in Worker : v # w => Hand(v) \cap Hand(w) = {}
  /\ \A p, q \in Process : p # q => Stock(p) \cap Stock(q) = {}
  /\ \A w \in Worker, p \in Process : Hand(w) \cap Stock(p) = {}

LEMMA ClaimsInit == Init => ClaimsOK
BY DEF Init, ClaimsOK, UniqueIds, Given, Hand, Stock, Taken

\* A step that only drops claims keeps them apart.
LEMMA ClaimsShrink ==
  ASSUME ClaimsOK, UNCHANGED issued, Below \subseteq Below',
         \A w \in Worker : Hand(w)' \subseteq Hand(w),
         \A p \in Process : Stock(p)' \subseteq Stock(p)
  PROVE  ClaimsOK'
<1>1. Given' = Given /\ (UniqueIds' <=> UniqueIds)
  BY DEF Given, UniqueIds
<1> QED
  BY <1>1 DEF ClaimsOK

\* An id given out of a batch, or by the call that reserved it, was nowhere else.
LEMMA ClaimsIssue ==
  ASSUME ClaimsOK, SeqTypeOK, UNCHANGED value, NEW i \in Id, Issue(i),
         i \in Below \ Given,
         \A w \in Worker : Hand(w)' \subseteq Hand(w) /\ i \notin Hand(w)',
         \A p \in Process : i \notin Stock(p)',
         \A p, q \in Process : p # q => Stock(p)' \cap Stock(q)' = {},
         \A p \in Process : Stock(p)' \subseteq Below \ Given,
         \A w \in Worker, p \in Process : Hand(w)' \cap Stock(p)' = {}
  PROVE  ClaimsOK'
<1>1. issued[i] = 0 /\ issued'[i] = 1 /\ \A j \in Id : j # i => issued'[j] = issued[j]
  BY DEF Issue, SeqTypeOK, Given
<1>2. Given' = Given \cup {i}
  BY <1>1 DEF Given
<1>3. UniqueIds'
  BY <1>1 DEF UniqueIds, ClaimsOK
<1>4. Below' = Below
  BY DEF Below
<1> QED
  BY <1>2, <1>3, <1>4 DEF ClaimsOK

LEMMA TakeLocalClaims ==
  ASSUME SequenceInv, ClaimsOK, NEW w \in Worker, TakeLocal(w)
  PROVE  ClaimsOK'
<1>0. SeqTypeOK /\ ProcessOf[w] \in Process
  BY DEF SequenceInv, SeqTyped, Process
<1>1. PICK p \in Process : p = ProcessOf[w]
  BY <1>0
<1>2. PICK b \in [current : Id, end : Id] : b = batch[p]
  BY <1>0, <1>1 DEF TakeLocal, Stocked, SeqTypeOK
<1>3. /\ p \in Fast /\ b # NoBatch /\ ~(b.current >= b.end)
      /\ Issue(b.current) /\ batch' = [batch EXCEPT ![p].current = @ + 1]
      /\ UNCHANGED <<value, step, asked, got>>
  BY <1>1, <1>2 DEF TakeLocal, Stocked, UsedUp
<1>4. b.current \in Stock(p)
  BY <1>2, <1>3, SizeFacts DEF Stock, Id
<1>5. \A v \in Worker : Hand(v)' = Hand(v)
  BY <1>3 DEF Hand, Taken
<1>6. \A q \in Process : q # p => Stock(q)' = Stock(q)
  BY <1>0, <1>3 DEF Stock, SeqTypeOK
<1>7. Stock(p)' \subseteq Stock(p) \ {b.current}
  <2>1. batch'[p].current = b.current + 1 /\ batch'[p].end = b.end
    BY <1>0, <1>2, <1>3 DEF SeqTypeOK
  <2> QED
    BY <1>2, <1>3, <2>1, SizeFacts DEF Stock, Id
<1>8. /\ b.current \in Below \ Given
      /\ \A v \in Worker : b.current \notin Hand(v)
      /\ \A q \in Process : q # p => b.current \notin Stock(q)
  BY <1>4 DEF ClaimsOK
<1>9. /\ \A q \in Process : b.current \notin Stock(q)' /\ Stock(q)' \subseteq Stock(q)
      /\ \A q \in Process : Stock(q)' \subseteq Below \ Given
      /\ \A q, r \in Process : q # r => Stock(q)' \cap Stock(r)' = {}
      /\ \A v \in Worker, q \in Process : Hand(v)' \cap Stock(q)' = {}
  BY <1>5, <1>6, <1>7, <1>8 DEF ClaimsOK
<1> QED
  BY <1>0, <1>2, <1>3, <1>5, <1>8, <1>9, ClaimsIssue

LEMMA ReturnIdClaims ==
  ASSUME SequenceInv, ClaimsOK, NEW w \in Worker, ReturnId(w)
  PROVE  ClaimsOK'
<1>0. SeqTypeOK /\ ProcessOf[w] \in Process
  BY DEF SequenceInv, SeqTyped, Process
<1>1. PICK p \in Process : p = ProcessOf[w]
  BY <1>0
<1>2. Taken(w) /\ got[w] # NoValue
  BY DEF ReturnId, Taken, SequenceInv, SeqTyped, BoundsOK
<1>3. PICK i \in Id : i = got[w]
  BY <1>0, <1>2 DEF SeqTypeOK
<1>4. i \in Nat /\ By(p) \in Nat \ {0} /\ (p \in Fast => By(p) = BatchSize)
  BY SizeFacts DEF Id
<1>5. i \in Hand(w)
  BY <1>1, <1>2, <1>3, <1>4 DEF Hand
<1>6. /\ Issue(i) /\ UNCHANGED <<value, asked>>
      /\ step' = [step EXCEPT ![w] = "ready"]
      /\ got' = [got EXCEPT ![w] = NoValue]
  BY <1>3 DEF ReturnId
<1>7. Hand(w)' = {} /\ \A v \in Worker : v # w => Hand(v)' = Hand(v)
  BY <1>0, <1>6 DEF Hand, Taken, SeqTypeOK
<1>8. \A q \in Process : q # p \/ p \notin Fast => Stock(q)' = Stock(q)
  BY <1>0, <1>1 DEF ReturnId, Stock, SeqTypeOK
<1>9. p \in Fast => Stock(p)' \subseteq Hand(w) \ {i}
  <2> SUFFICES ASSUME p \in Fast, NEW j \in Id, j \in Stock(p)' PROVE j \in Hand(w) /\ j # i
    BY DEF Stock
  <2>1. batch'[p] = [current |-> i + 1, end |-> i + BatchSize]
    BY <1>0, <1>1, <1>3 DEF ReturnId, SeqTypeOK
  <2>2. i + 1 <= j /\ j < i + BatchSize
    BY <2>1 DEF Stock
  <2>3. j \in Nat
    BY SizeFacts DEF Id
  <2> QED
    BY <2>2, <2>3, <1>1, <1>2, <1>3, <1>4 DEF Hand
<1>10. /\ i \in Below \ Given
       /\ \A v \in Worker : v # w => i \notin Hand(v)
       /\ \A q \in Process : i \notin Stock(q)
  BY <1>5 DEF ClaimsOK
<1>11. \A q \in Process : Stock(q)' = Stock(q) \/ (q = p /\ Stock(q)' \subseteq Hand(w) \ {i})
  BY <1>8, <1>9
<1>12. \A q \in Process : i \notin Stock(q)' /\ Stock(q)' \subseteq Below \ Given
  BY <1>10, <1>11 DEF ClaimsOK
<1>13. \A q, r \in Process : q # r => Stock(q)' \cap Stock(r)' = {}
  BY <1>11 DEF ClaimsOK
<1>14. \A v \in Worker, q \in Process : Hand(v)' \cap Stock(q)' = {}
  BY <1>7, <1>11 DEF ClaimsOK
<1> QED
  BY <1>0, <1>6, <1>7, <1>10, <1>12, <1>13, <1>14, ClaimsIssue

\* The ids a write reserves are those the counter moves over.
LEMMA WriteClaims ==
  ASSUME LockInv, SequenceInv, ClaimsOK, [Next]_vars,
         NEW w \in Worker, WriteCounter(w) \/ CounterThrows(w)
  PROVE  ClaimsOK'
<1>0. SeqTypeOK
  BY DEF SequenceInv, SeqTyped
<1>1. /\ \A v \in Worker : v # w => Hand(v)' = Hand(v)
      /\ \A p \in Process : Stock(p)' = Stock(p)
      /\ UNCHANGED <<issued, asked, got>>
      /\ step[w] \in {"read", "write"}
  BY <1>0 DEF WriteCounter, CounterThrows, Hand, Stock, Taken, SeqTypeOK
<1>2. UNCHANGED value \/ (step[w] = "write" /\ value' = Written(w))
  BY DEF WriteCounter, CounterThrows
<1>3. step[w] = "write" => /\ Written(w) \in Nat /\ Current \in Nat
                           /\ asked[w] = NoValue => Written(w) = Current + By(ProcessOf[w])
                           /\ Current <= Written(w)
                           /\ got[w] = Current
  BY WriteAdvances DEF SequenceInv, CounterOK
<1>4. Below \subseteq Below'
  <2> SUFFICES ASSUME NEW i \in Id, value # NoValue, i < value PROVE i \in Below'
    BY DEF Below
  <2>1. value \in Nat /\ Current = value /\ i \in Nat
    BY <1>0, SizeFacts DEF SeqTypeOK, Id, Current
  <2>2. value' \in Nat /\ i < value'
    BY <1>2, <1>3, <2>1
  <2>3. value' # NoValue
    BY <2>2, SequenceAssumption
  <2> QED
    BY <2>2, <2>3 DEF Below
<1>5. Hand(w)' \subseteq Below' \ Below
  <2> SUFFICES ASSUME NEW i \in Id, i \in Hand(w)' PROVE i \in Below' /\ i \notin Below
    BY DEF Hand
  <2>1. Taken(w)' /\ got[w] <= i /\ i < got[w] + By(ProcessOf[w])
    BY <1>1 DEF Hand
  <2>2. WriteCounter(w) /\ asked[w] = NoValue
    BY <1>0, <2>1 DEF Taken, WriteCounter, CounterThrows, SeqTypeOK
  <2>3. value' = Current + By(ProcessOf[w]) /\ got[w] = Current
    BY <1>3, <2>2 DEF WriteCounter
  <2>4. i \in Nat /\ By(ProcessOf[w]) \in Nat /\ Current \in Nat
    BY <1>3, <2>2, SizeFacts DEF Id, WriteCounter
  <2>5. value' # NoValue
    BY <2>3, <2>4, SequenceAssumption
  <2>6. value # NoValue => Current = value
    BY DEF Current
  <2> QED
    BY <2>1, <2>3, <2>4, <2>5, <2>6 DEF Below
<1>6. Given' = Given /\ (UniqueIds' <=> UniqueIds)
  BY <1>1 DEF Given, UniqueIds
<1>7. /\ Given' \subseteq Below'
      /\ \A v \in Worker : Hand(v)' \subseteq Below' \ Given'
      /\ \A p \in Process : Stock(p)' \subseteq Below' \ Given'
  BY <1>1, <1>4, <1>5, <1>6 DEF ClaimsOK
<1>8. /\ \A u, v \in Worker : u # v => Hand(u)' \cap Hand(v)' = {}
      /\ \A v \in Worker, p \in Process : Hand(v)' \cap Stock(p)' = {}
  BY <1>1, <1>5 DEF ClaimsOK
<1> QED
  BY <1>1, <1>6, <1>7, <1>8 DEF ClaimsOK

LEMMA ClaimsStep ==
  ASSUME LockInv, SequenceInv, ClaimsOK, [Next]_vars
  PROVE  ClaimsOK'
<1>0. SeqTypeOK
  BY DEF SequenceInv, SeqTyped
<1>1. ASSUME UNCHANGED <<value, issued>>,
             \A w \in Worker : Taken(w)' => Taken(w) /\ got'[w] = got[w],
             \A p \in Process : batch'[p] \in {batch[p], NoBatch}
      PROVE  ClaimsOK'
  <2>1. Below' = Below
    BY <1>1 DEF Below
  <2>2. \A w \in Worker : Hand(w)' \subseteq Hand(w)
    BY <1>1 DEF Hand
  <2>3. \A p \in Process : Stock(p)' \subseteq Stock(p)
    BY <1>1 DEF Stock
  <2> QED
    BY <1>1, <2>1, <2>2, <2>3, ClaimsShrink
<1>2. ASSUME NEW w \in Worker, BeginNext(w) \/ BeginReset(w) PROVE ClaimsOK'
  BY <1>0, <1>1, <1>2 DEF BeginNext, BeginReset, SeqTypeOK, Taken
<1>3. ASSUME NEW w \in Worker, LockStep(w) PROVE ClaimsOK'
  BY <1>0, <1>1, <1>3, LockStepEffect DEF Taken
<1>4. ASSUME NEW w \in Worker, ReadCounter(w) \/ ReturnNothing(w) PROVE ClaimsOK'
  BY <1>0, <1>1, <1>4 DEF ReadCounter, ReturnNothing, SeqTypeOK, Taken
<1>5. ASSUME NEW p \in Process, ReleaseBatch(p) PROVE ClaimsOK'
  BY <1>0, <1>1, <1>5 DEF ReleaseBatch, SeqTypeOK, Taken
<1>6. ASSUME UNCHANGED seqVars PROVE ClaimsOK'
  BY <1>1, <1>6 DEF seqVars, Taken
<1>7. ASSUME NEW w \in Worker, Unlock(w) PROVE UNCHANGED seqVars
  BY <1>7 DEF Unlock
<1> QED
  BY <1>2, <1>3, <1>4, <1>5, <1>6, <1>7, TakeLocalClaims, ReturnIdClaims, WriteClaims
  DEF Next, vars

\* No id is returned twice, to any number of callers in any number of processes,
\* fast or not, through resets, failed calls and lost answers, as long as the lock
\* is exclusive.
THEOREM IdsAreUnique ==
  ASSUME SafeUse PROVE Spec => []UniqueIds
<1>1. LockInv /\ SequenceInv /\ ClaimsOK /\ [Next]_vars => ClaimsOK'
  BY ClaimsStep
<1>2. ClaimsOK => UniqueIds
  BY DEF ClaimsOK
<1> QED
  BY <1>1, <1>2, ClaimsInit, SequenceInvariant, PTL DEF Spec
=============================================================================
