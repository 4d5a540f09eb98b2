-------------------------- MODULE LeaseLockProofs ---------------------------
(***************************************************************************)
(* What holds of LeaseLock for every set of workers, every lease and every *)
(* number of faults.                                                       *)
(***************************************************************************)
EXTENDS LeaseLock, TLAPS

USE LeaseLockAssumption

-----------------------------------------------------------------------------
(* Type correctness, with no assumption on how the lock is used.  A put    *)
(* stores the caller's token, so the types rest on acquire having one.     *)

PutsHaveTokens ==
  \A w \in Worker :
    \/ pc[w] \in {"putting", "backoff"}
    \/ goal[w] = "acquire" /\ InCall(w)
    => token[w] \in Token

LockTyped == LockTypeOK /\ PutsHaveTokens

LEMMA LockTypedInit == LockInit => LockTyped
BY DEF LockInit, LockTyped, LockTypeOK, PutsHaveTokens, InCall, PC, Left, Payload

LEMMA LockTypedStep == LockTyped /\ [LockNext]_lockVars => LockTyped'
<1> SUFFICES ASSUME LockTyped, [LockNext]_lockVars
             PROVE  LockTyped'
  OBVIOUS
<1> USE DEF LockTyped, LockTypeOK, PutsHaveTokens, InCall, PC, Left, Payload
<1>1. ASSUME NEW w \in Worker, BeginAcquire(w) PROVE LockTyped'
  BY <1>1 DEF BeginAcquire, Goto, Fresh
<1>2. ASSUME NEW w \in Worker, BeginProbe(w) PROVE LockTyped'
  BY <1>2 DEF BeginProbe, Goto
<1>3. ASSUME NEW w \in Worker, PutAccepted(w) PROVE LockTyped'
  BY <1>3 DEF PutAccepted, Goto
<1>4. ASSUME NEW w \in Worker, PutRefusedGiveUp(w) PROVE LockTyped'
  BY <1>4 DEF PutRefusedGiveUp, Goto, Return
<1>5. ASSUME NEW w \in Worker, PutRefusedRead(w) PROVE LockTyped'
  BY <1>5 DEF PutRefusedRead, Goto
<1>6. ASSUME NEW w \in Worker, PutThrows(w) PROVE LockTyped'
  BY <1>6 DEF PutThrows, Goto, Return, Fault
<1>7. ASSUME NEW w \in Worker, Read(w) PROVE LockTyped'
  BY <1>7 DEF Read, Goto
<1>8. ASSUME NEW w \in Worker, ReadThrows(w) PROVE LockTyped'
  BY <1>8 DEF ReadThrows, Goto
<1>9. ASSUME NEW w \in Worker, JudgeExpired(w) PROVE LockTyped'
  BY <1>9 DEF JudgeExpired, Goto
<1>10. ASSUME NEW w \in Worker, JudgeAcquire(w) PROVE LockTyped'
  BY <1>10 DEF JudgeAcquire, Goto, SendPut
<1>11. ASSUME NEW w \in Worker, JudgeProbe(w) PROVE LockTyped'
  BY <1>11 DEF JudgeProbe, Goto, Return
<1>12. ASSUME NEW w \in Worker, JudgeRelease(w) PROVE LockTyped'
  BY <1>12 DEF JudgeRelease, Goto, Return, Mine
<1>13. ASSUME NEW w \in Worker, Delete(w) PROVE LockTyped'
  BY <1>13 DEF Delete, Goto, Return, SendPut, AfterDelete
<1>14. ASSUME NEW w \in Worker, DeleteFails(w) PROVE LockTyped'
  BY <1>14 DEF DeleteFails, Goto, Return, SendPut, AfterDelete, Fault
<1>15. ASSUME NEW w \in Worker, WakeUp(w) PROVE LockTyped'
  BY <1>15 DEF WakeUp, Goto, SendPut
<1>16. ASSUME NEW w \in Worker, Restart(w) PROVE LockTyped'
  BY <1>16 DEF Restart, Goto
<1>17. ASSUME NEW w \in Worker, BeginRelease(w) PROVE LockTyped'
  BY <1>17 DEF BeginRelease, Goto
<1>18. ASSUME NEW w \in Worker, Crash(w) PROVE LockTyped'
  BY <1>18 DEF Crash, Goto, Fault
<1>19. ASSUME Tick PROVE LockTyped'
  BY <1>19 DEF Tick, Drop, DropLease
<1>20. ASSUME UNCHANGED lockVars PROVE LockTyped'
  BY <1>20 DEF lockVars
<1> QED
  BY <1>1, <1>2, <1>3, <1>4, <1>5, <1>6, <1>7, <1>8, <1>9, <1>10, <1>11, <1>12, <1>13,
     <1>14, <1>15, <1>16, <1>17, <1>18, <1>19, <1>20 DEF LockNext, CallStep, Put, Judge

\* Every variable keeps its type whatever the workers, the lease and the faults.
THEOREM LockTypeCorrect == LockSpec => []LockTypeOK
<1>1. LockTyped => LockTypeOK
  BY DEF LockTyped
<1> QED
  BY <1>1, LockTypedInit, LockTypedStep, PTL DEF LockSpec

-----------------------------------------------------------------------------
(* Exclusion, when the lock is used as SafeUse says.                       *)

Exclusive == PhasesOK /\ TokensOK /\ OwnersOK /\ RemovalsOK /\ OrphansOK

LEMMA ExclusiveInit == LockInit => Exclusive
BY DEF LockInit, Exclusive, PhasesOK, TokensOK, OwnersOK, RemovalsOK, OrphansOK,
       Owner, Acquiring, Removing, InCall, Holding

LEMMA ExclusiveStep ==
  ASSUME SafeUse, LockTyped, LockTyped', Exclusive, [LockNext]_lockVars
  PROVE  Exclusive'
<1> USE DEF Exclusive, PhasesOK, TokensOK, OwnersOK, RemovalsOK, OrphansOK,
            Owner, Acquiring, Removing, InCall, Holding, Expired,
            LockTyped, LockTypeOK, PC, Left, Payload, SafeUse
<1>1. ASSUME NEW w \in Worker, BeginAcquire(w) PROVE Exclusive'
  BY <1>1 DEF BeginAcquire, Goto, Fresh
<1>2. ASSUME NEW w \in Worker, BeginProbe(w) PROVE Exclusive'
  BY <1>2 DEF BeginProbe, Goto
<1>3. ASSUME NEW w \in Worker, PutAccepted(w) PROVE Exclusive'
  BY <1>3 DEF PutAccepted, Goto
<1>4. ASSUME NEW w \in Worker, PutRefusedGiveUp(w) PROVE Exclusive'
  BY <1>4 DEF PutRefusedGiveUp, Goto, Return
<1>5. ASSUME NEW w \in Worker, PutRefusedRead(w) PROVE Exclusive'
  BY <1>5 DEF PutRefusedRead, Goto
<1>6. ASSUME NEW w \in Worker, PutThrows(w) PROVE Exclusive'
  BY <1>6 DEF PutThrows, Goto, Return, Fault
<1>7. ASSUME NEW w \in Worker, Read(w) PROVE Exclusive'
  BY <1>7 DEF Read, Goto
<1>8. ASSUME NEW w \in Worker, ReadThrows(w) PROVE Exclusive'
  BY <1>8 DEF ReadThrows, Goto
<1>9. ASSUME NEW w \in Worker, JudgeExpired(w) PROVE Exclusive'
  BY <1>9 DEF JudgeExpired, Goto
<1>10. ASSUME NEW w \in Worker, JudgeAcquire(w) PROVE Exclusive'
  BY <1>10 DEF JudgeAcquire, Goto, SendPut
<1>11. ASSUME NEW w \in Worker, JudgeProbe(w) PROVE Exclusive'
  BY <1>11 DEF JudgeProbe, Goto, Return
<1>12. ASSUME NEW w \in Worker, JudgeRelease(w) PROVE Exclusive'
  BY <1>12 DEF JudgeRelease, Goto, Return, Mine
<1>13. ASSUME NEW w \in Worker, Delete(w) PROVE Exclusive'
  BY <1>13 DEF Delete, Goto, Return, SendPut, AfterDelete
<1>14. ASSUME NEW w \in Worker, DeleteFails(w) PROVE Exclusive'
  BY <1>14 DEF DeleteFails, Goto, Return, SendPut, AfterDelete, Fault
<1>15. ASSUME NEW w \in Worker, WakeUp(w) PROVE Exclusive'
  BY <1>15 DEF WakeUp, Goto, SendPut
<1>16. ASSUME NEW w \in Worker, Restart(w) PROVE Exclusive'
  BY <1>16 DEF Restart, Goto
<1>17. ASSUME NEW w \in Worker, BeginRelease(w) PROVE Exclusive'
  BY <1>17 DEF BeginRelease, Goto
<1>18. ASSUME NEW w \in Worker, Crash(w) PROVE Exclusive'
  BY <1>18 DEF Crash, Goto, Fault
<1>19. ASSUME Tick PROVE Exclusive'
  BY <1>19 DEF Tick, Drop, DropLease, OnTime, Leased
<1>20. ASSUME UNCHANGED lockVars PROVE Exclusive'
  BY <1>20 DEF lockVars
<1> QED
  BY <1>1, <1>2, <1>3, <1>4, <1>5, <1>6, <1>7, <1>8, <1>9, <1>10, <1>11, <1>12, <1>13,
     <1>14, <1>15, <1>16, <1>17, <1>18, <1>19, <1>20 DEF LockNext, CallStep, Put, Judge

\* Whoever is between acquire and the end of release owns the stored object, and a
\* delete that is not its own removes a lease that is over.
THEOREM LockInvariant ==
  ASSUME SafeUse PROVE LockSpec => []LockInv
<1>1. LockInit => LockTyped /\ Exclusive
  BY LockTypedInit, ExclusiveInit
<1>2. LockTyped /\ Exclusive /\ [LockNext]_lockVars => (LockTyped /\ Exclusive)'
  BY LockTypedStep, ExclusiveStep
<1>3. LockTyped /\ Exclusive => LockInv
  BY DEF LockTyped, Exclusive, LockInv
<1> QED
  BY <1>1, <1>2, <1>3, PTL DEF LockSpec

\* However many workers contend and crash, no two of them hold the lock with live
\* leases: the owners of one object have one token, and tokens differ.
THEOREM LockIsExclusive ==
  ASSUME SafeUse PROVE LockSpec => []MutualExclusion
<1>1. LockInv => MutualExclusion
  BY DEF LockInv, LockTypeOK, TokensOK, OwnersOK, MutualExclusion, InLease, Owner, Holding
<1> QED
  BY <1>1, LockInvariant, PTL

-----------------------------------------------------------------------------
(* The lock implements ExclusiveLease: the only step that adds a holder is *)
(* an accepted put, and then there was no lock object, hence no owner.     *)

holderSet == {w \in Worker : Holding(w)}

LEMMA GrantStep ==
  ASSUME LockTyped, Exclusive, NEW w \in Worker, PutAccepted(w)
  PROVE  Lease!Grant(w)
<1>1. \A v \in Worker : ~Holding(v)
  BY DEF Exclusive, OwnersOK, Owner, PutAccepted
<1>2. \A v \in Worker : Holding(v)' <=> v = w
  BY <1>1 DEF PutAccepted, Goto, Holding, LockTyped, LockTypeOK
<1> QED
  BY <1>1, <1>2 DEF Lease!Grant

LEMMA EndStep ==
  ASSUME LockTyped, NEW w \in Worker, Holding(w), ~Holding(w)',
         \A v \in Worker : v # w => pc'[v] = pc[v]
  PROVE  Lease!End(w)
BY DEF Lease!End, Holding

LEMMA LeaseStep ==
  ASSUME LockTyped, Exclusive, [LockNext]_lockVars
  PROVE  [Lease!Next]_holderSet
<1> DEFINE Same == \A v \in Worker : Holding(v)' <=> Holding(v)
<1>1. Same => holderSet' = holderSet
  BY DEF holderSet
<1>2. ASSUME NEW w \in Worker, PutAccepted(w) PROVE Lease!Next
  BY <1>2, GrantStep DEF Lease!Next
<1>3. ASSUME NEW w \in Worker, BeginRelease(w) PROVE Lease!Next
  <2>1. Lease!End(w)
    BY <1>3, EndStep DEF BeginRelease, Goto, Holding, LockTyped, LockTypeOK
  <2> QED
    BY <2>1 DEF Lease!Next
<1>4. ASSUME NEW w \in Worker, Crash(w) PROVE [Lease!Next]_holderSet
  <2>1. CASE Holding(w)
    <3>1. Lease!End(w)
      BY <1>4, <2>1, EndStep DEF Crash, Goto, Holding, LockTyped, LockTypeOK
    <3> QED
      BY <3>1 DEF Lease!Next
  <2>2. CASE ~Holding(w)
    BY <1>1, <1>4, <2>2 DEF Crash, Goto, Holding, LockTyped, LockTypeOK
  <2> QED
    BY <2>1, <2>2
<1>5. ASSUME NEW w \in Worker, CallStep(w), ~PutAccepted(w) PROVE Same
  <2> USE <1>5 DEF Holding, Goto, LockTyped, LockTypeOK
  <2>1. CASE BeginAcquire(w) \/ BeginProbe(w) \/ WakeUp(w) \/ Restart(w)
    BY <2>1 DEF BeginAcquire, BeginProbe, WakeUp, Restart, SendPut
  <2>2. CASE PutRefusedGiveUp(w) \/ PutRefusedRead(w) \/ PutThrows(w)
    BY <2>2 DEF PutRefusedGiveUp, PutRefusedRead, PutThrows, Return
  <2>3. CASE Read(w) \/ ReadThrows(w)
    BY <2>3 DEF Read, ReadThrows
  <2>4. CASE Judge(w)
    BY <2>4 DEF Judge, JudgeExpired, JudgeAcquire, JudgeProbe, JudgeRelease, Return, SendPut
  <2>5. CASE Delete(w) \/ DeleteFails(w)
    BY <2>5 DEF Delete, DeleteFails, AfterDelete, Return, SendPut
  <2> QED
    BY <2>1, <2>2, <2>3, <2>4, <2>5 DEF CallStep, Put
<1>6. CASE Tick \/ UNCHANGED lockVars
  BY <1>1, <1>6 DEF Tick, lockVars, Holding
<1> QED
  BY <1>1, <1>2, <1>3, <1>4, <1>5, <1>6 DEF LockNext

\* acquire hands the lock over only when nobody holds it: DistributedLock
\* implements ExclusiveLease under SafeUse.
THEOREM LockImplementsLease ==
  ASSUME SafeUse PROVE LockSpec => GrantsOneAtATime
<1>1. LockInit => LockTyped /\ Exclusive /\ Lease!Init
  BY LockTypedInit, ExclusiveInit DEF LockInit, Lease!Init, Holding
<1>2. LockTyped /\ Exclusive /\ [LockNext]_lockVars => (LockTyped /\ Exclusive)'
  BY LockTypedStep, ExclusiveStep
<1>3. LockTyped /\ Exclusive /\ [LockNext]_lockVars => [Lease!Next]_holderSet
  BY LeaseStep
<1> QED
  BY <1>1, <1>2, <1>3, PTL DEF LockSpec, GrantsOneAtATime, Lease!Spec, holderSet
=============================================================================
