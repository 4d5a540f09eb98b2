------------------------- MODULE CoordinatorProofs --------------------------
(***************************************************************************)
(* What holds of Coordinator for every number of processes, every lease    *)
(* and every choice and number of faults.                                  *)
(***************************************************************************)
EXTENDS Coordinator, WellFoundedInduction, TLAPS

USE CoordinatorAssumption

-----------------------------------------------------------------------------
(* Type correctness.  The heartbeat uses what it has read only at the      *)
(* steps that come after a read, and its bid only after it has one; the    *)
(* clock is due only when it can tick.                                     *)

HeartbeatOK ==
  \A p \in Process :
    /\ pc[p] = "checking" => read[p] # NoState
    /\ pc[p] \in {"reading", "creating", "swapping"} => bid[p] # NoState

ClockOK == due => now < MaxTime

Typed == TypeOK /\ HeartbeatOK /\ ClockOK

\* The first of the active workers is one of them.
LEMMA LeastExists ==
  ASSUME NEW S \in SUBSET Worker, S # {}
  PROVE  Min(S) \in S
<1> DEFINE R == OpToRel(<, Nat)
<1>1. S \subseteq Nat
  BY DEF Worker
<1>2. PICK n \in S : \A m \in S : ~(<<m, n>> \in R)
  <2> HIDE DEF R
  <2>1. IsWellFoundedOn(R, Nat)
    BY NatLessThanWellFounded, Zenon DEF R
  <2> QED
    BY <1>1, <2>1, WFMin
<1>3. ASSUME NEW m \in S PROVE n <= m
  <2>1. R = {ss \in Nat \X Nat : ss[1] < ss[2]}
    BY DEF OpToRel
  <2> HIDE DEF R
  <2>2. m \in Nat /\ n \in Nat /\ ~(<<m, n>> \in R)
    BY <1>1, <1>2
  <2>3. m < n => <<m, n>> \in R
    <3>1. m < n => <<m, n>>[1] < <<m, n>>[2]
      BY <2>2
    <3> QED
      BY <2>1, <2>2, <3>1
  <2> QED
    BY <2>2, <2>3
<1> HIDE DEF R
<1>4. \E x \in S : \A y \in S : x <= y
  BY <1>2, <1>3
<1> QED
  BY <1>4 DEF Min

-----------------------------------------------------------------------------
PCs == {"idle", "fetching", "checking", "listing", "reading", "creating", "swapping", "saving"}

LEMMA LargerIsNat ==
  ASSUME NEW i \in Nat, NEW j \in Nat
  PROVE  Larger(i, j) \in Nat
BY DEF Larger

LEMMA FaultIsCounted ==
  ASSUME faults \in 0 .. MaxFaults, NEW kind, Fault(kind)
  PROVE  faults' \in 0 .. MaxFaults
BY DEF Fault

\* A leader and an epoch, typed, can always be adopted.
LEMMA AdoptTyped ==
  ASSUME Typed, NEW p \in Process, NEW leader \in Worker \cup {Nobody}, NEW epoch \in Nat,
         Adopt(p, leader, epoch)
  PROVE  /\ view' \in [Process -> [leader : Worker \cup {Nobody}, epoch : Nat]]
         /\ coordinator' \in [Process -> BOOLEAN]
         /\ subscribed' \in [Process -> BOOLEAN]
         /\ pc' \in [Process -> PCs]
         /\ previous' \in [Process -> Nat]
         /\ read' \in [Process -> State \cup {NoState}]
         /\ bid' \in [Process -> State \cup {NoState}]
         /\ HeartbeatOK'
<1> USE DEF Typed, TypeOK
<1>1. Larger(epoch, 1) \in Nat
  BY LargerIsNat
<1>2. view' \in [Process -> [leader : Worker \cup {Nobody}, epoch : Nat]]
  BY <1>1 DEF Adopt
<1>3. coordinator' \in [Process -> BOOLEAN]
  BY DEF Adopt
<1>4. /\ pc' \in [Process -> PCs] /\ previous' \in [Process -> Nat]
      /\ read' \in [Process -> State \cup {NoState}]
      /\ bid' \in [Process -> State \cup {NoState}]
      /\ subscribed' \in [Process -> BOOLEAN]
  BY DEF Adopt, Goto, PCs
<1>5. HeartbeatOK'
  BY DEF Adopt, Goto, HeartbeatOK
<1> QED
  BY <1>2, <1>3, <1>4, <1>5

\* A heartbeat that moves on and keeps what it has read and its bid.
LEMMA GotoTyped ==
  ASSUME Typed, NEW p \in Process, NEW where \in PCs, Goto(p, where),
         \A q \in Process \ {p} : read'[q] = read[q] /\ bid'[q] = bid[q],
         where = "checking" => read'[p] # NoState,
         where \in {"reading", "creating", "swapping"} => bid'[p] # NoState
  PROVE  pc' \in [Process -> PCs] /\ HeartbeatOK'
BY DEF Typed, TypeOK, HeartbeatOK, Goto, PCs

LEMMA ConsiderTyped ==
  ASSUME Typed, NEW p \in Process, NEW s \in State \cup {NoState}, Consider(p, s)
  PROVE  /\ view' \in [Process -> [leader : Worker \cup {Nobody}, epoch : Nat]]
         /\ coordinator' \in [Process -> BOOLEAN]
         /\ subscribed' \in [Process -> BOOLEAN]
         /\ pc' \in [Process -> PCs]
         /\ previous' \in [Process -> Nat]
         /\ read' \in [Process -> State \cup {NoState}]
         /\ bid' \in [Process -> State \cup {NoState}]
         /\ HeartbeatOK'
<1> USE DEF Typed
<1>1. CASE NeedsElection(s) /\ Goto(p, "listing")
           /\ previous' = [previous EXCEPT ![p] = IF s = NoState THEN view[p].epoch ELSE s.epoch]
           /\ UNCHANGED <<view, read, bid, plugin>>
  <2>1. previous' \in [Process -> Nat]
    BY <1>1 DEF TypeOK, State
  <2>2. pc' \in [Process -> PCs] /\ HeartbeatOK'
    BY <1>1, GotoTyped DEF PCs
  <2> QED
    BY <1>1, <2>1, <2>2 DEF TypeOK, plugin
<1>2. CASE ~NeedsElection(s) /\ Goto(p, "checking") /\ read' = [read EXCEPT ![p] = s]
           /\ UNCHANGED <<view, previous, bid, plugin>>
  <2>1. s # NoState
    BY <1>2 DEF NeedsElection
  <2>2. read' \in [Process -> State \cup {NoState}]
    BY <1>2 DEF TypeOK
  <2>3. pc' \in [Process -> PCs] /\ HeartbeatOK'
    BY <1>2, <2>1, GotoTyped DEF PCs, TypeOK
  <2> QED
    BY <1>2, <2>2, <2>3 DEF TypeOK, plugin
<1>3. CASE ~NeedsElection(s) /\ Adopt(p, s.leader, s.epoch)
  <2>1. s.leader \in Worker \cup {Nobody} /\ s.epoch \in Nat
    BY <1>3 DEF NeedsElection, State
  <2> QED
    BY <1>3, <2>1, AdoptTyped
<1> QED
  BY <1>1, <1>2, <1>3 DEF Consider

LEMMA TypedInit == Init => Typed
<1> SUFFICES ASSUME Init PROVE Typed
  OBVIOUS
<1> USE DEF Init
<1>1. view \in [Process -> [leader : Worker \cup {Nobody}, epoch : Nat]]
  OBVIOUS
<1>2. /\ status \in [Process -> {"off", "starting", "up", "stopping", "gone"}]
      /\ pc \in [Process -> PCs]
      /\ known \in [Process -> Nat] /\ previous \in [Process -> Nat]
      /\ cache \in [Process -> State \cup {NoState}]
      /\ read \in [Process -> State \cup {NoState}]
      /\ bid \in [Process -> State \cup {NoState}]
      /\ subscribed \in [Process -> BOOLEAN] /\ coordinator \in [Process -> BOOLEAN]
  BY DEF PCs
<1>3. now \in 0 .. MaxTime /\ faults \in 0 .. MaxFaults /\ checkpoint \in Nat
  OBVIOUS
<1>5. due \in BOOLEAN
  BY Zenon
<1>6. state \in State \cup {NoState} /\ workers \subseteq Worker /\ age \in [Worker -> 0 .. Outlive]
  OBVIOUS
<1>4. HeartbeatOK
  BY DEF HeartbeatOK
<1>7. ClockOK
  BY DEF ClockOK
<1> QED
  BY <1>1, <1>2, <1>3, <1>4, <1>5, <1>6, <1>7 DEF Typed, TypeOK, PCs

LEMMA TypedStep == Typed /\ [Next]_vars => Typed'
<1> SUFFICES ASSUME Typed, [Next]_vars PROVE Typed'
  OBVIOUS
<1>0. TypeOK /\ HeartbeatOK /\ ClockOK
  BY DEF Typed
<1> USE DEF ClockOK
<1>s. \A s \in State : /\ s.leader \in Worker /\ s.epoch \in Nat /\ s.end \in Nat /\ s # NoState
  BY DEF State
<1>w. \A p \in Process : Service(p) \in Worker /\ p \in Worker /\ IdsOf(p) \subseteq Worker
  BY DEF Process, Worker, Service, IdsOf
\* What a handler that ends in one of the lemmas above leaves to check.
<1>rest. ASSUME /\ view' \in [Process -> [leader : Worker \cup {Nobody}, epoch : Nat]]
                /\ coordinator' \in [Process -> BOOLEAN]
                /\ subscribed' \in [Process -> BOOLEAN]
                /\ pc' \in [Process -> PCs]
                /\ previous' \in [Process -> Nat]
                /\ read' \in [Process -> State \cup {NoState}]
                /\ bid' \in [Process -> State \cup {NoState}]
                /\ HeartbeatOK',
                /\ UNCHANGED <<now, due, age, workers, checkpoint, status>>
                /\ state' \in State \cup {NoState}
                /\ known' \in [Process -> Nat]
                /\ cache' \in [Process -> State \cup {NoState}]
                /\ faults' \in 0 .. MaxFaults
         PROVE  Typed'
  BY <1>0, <1>rest DEF Typed, TypeOK, PCs
<1>1. ASSUME NEW p \in Process, Start(p) \/ Subscribe(p) \/ AskAgain(p) \/ Unsubscribe(p) PROVE Typed'
  <2>1. view' \in [Process -> [leader : Worker \cup {Nobody}, epoch : Nat]]
    BY <1>0, <1>1 DEF TypeOK, Start, Subscribe, AskAgain, Unsubscribe, heartbeat
  <2>2. /\ status' \in [Process -> {"off", "starting", "up", "stopping", "gone"}]
        /\ known' \in [Process -> Nat]
    BY <1>0, <1>1 DEF TypeOK, Start, Subscribe, AskAgain, Unsubscribe, heartbeat
  <2>7. subscribed' \in [Process -> BOOLEAN]
    <3>1. \/ subscribed' = subscribed
          \/ \E b \in BOOLEAN : subscribed' = [subscribed EXCEPT ![p] = b]
      BY <1>1, Zenon DEF Start, Subscribe, AskAgain, Unsubscribe, plugin
    <3> QED
      BY <1>0, <3>1 DEF TypeOK
  <2>3. coordinator' \in [Process -> BOOLEAN]
    BY <1>0, <1>1 DEF TypeOK, Start, Subscribe, AskAgain, Unsubscribe, plugin
  <2>4. UNCHANGED <<now, due, age, shared, pc, cache, previous, read, bid>>
    BY <1>1 DEF Start, Subscribe, AskAgain, Unsubscribe, heartbeat
  <2>5. faults' \in 0 .. MaxFaults
    BY <1>0, <1>1, FaultIsCounted DEF TypeOK, Start, Subscribe, AskAgain, Unsubscribe
  <2>6. HeartbeatOK'
    BY <1>0, <2>4 DEF HeartbeatOK
  <2> QED
    BY <1>0, <2>1, <2>2, <2>3, <2>4, <2>5, <2>6, <2>7 DEF Typed, TypeOK, shared
<1>2. ASSUME NEW p \in Process, StopService(p) PROVE Typed'
  <2>1. view' \in [Process -> [leader : Worker \cup {Nobody}, epoch : Nat]]
    BY <1>0, <1>2 DEF TypeOK, StopService
  <2>2. status' \in [Process -> {"off", "starting", "up", "stopping", "gone"}] /\ workers' \subseteq Worker
    BY <1>0, <1>2 DEF TypeOK, StopService
  <2>3. faults' \in 0 .. MaxFaults
    BY <1>0, <1>2, FaultIsCounted DEF TypeOK, StopService
  <2>4. HeartbeatOK'
    BY <1>0, <1>2 DEF HeartbeatOK, StopService
  <2> QED
    BY <1>0, <1>2, <2>1, <2>2, <2>3, <2>4 DEF Typed, TypeOK, StopService, plugin
<1>3. ASSUME NEW p \in Process, StopPlugin(p) \/ Crash(p) PROVE Typed'
  <2>1. Leave(p)
    BY <1>3 DEF StopPlugin, Crash
  <2>2. view' \in [Process -> [leader : Worker \cup {Nobody}, epoch : Nat]]
    BY <1>0, <2>1 DEF TypeOK, Leave
  <2>3. /\ status' \in [Process -> {"off", "starting", "up", "stopping", "gone"}]
        /\ pc' \in [Process -> PCs]
        /\ known' \in [Process -> Nat] /\ previous' \in [Process -> Nat]
        /\ cache' \in [Process -> State \cup {NoState}]
    BY <1>0, <2>1 DEF TypeOK, Leave, PCs
  <2>4. /\ read' \in [Process -> State \cup {NoState}]
        /\ bid' \in [Process -> State \cup {NoState}]
        /\ subscribed' \in [Process -> BOOLEAN] /\ coordinator' \in [Process -> BOOLEAN]
    BY <1>0, <2>1 DEF TypeOK, Leave
  <2>5. faults' \in 0 .. MaxFaults
    BY <1>0, <1>3, FaultIsCounted DEF TypeOK, StopPlugin, Crash
  <2>6. HeartbeatOK'
    BY <1>0, <2>1 DEF HeartbeatOK, Leave, TypeOK
  <2> QED
    BY <1>0, <2>1, <2>2, <2>3, <2>4, <2>5, <2>6 DEF Typed, TypeOK, Leave, shared, PCs
<1>4. ASSUME NEW p \in Process, RegisterSoon(p) \/ RegisterLate(p) PROVE Typed'
  <2>1. Register(p) /\ cache' \in [Process -> State \cup {NoState}]
    BY <1>0, <1>4 DEF RegisterSoon, RegisterLate, TypeOK
  <2>2. workers' \subseteq Worker
    BY <1>0, <1>w, <2>1 DEF TypeOK, Register
  <2>3. pc' \in [Process -> PCs] /\ HeartbeatOK'
    BY <1>0, <2>1, GotoTyped DEF Typed, Register, PCs
  <2> QED
    BY <1>0, <2>1, <2>2, <2>3 DEF Typed, TypeOK, Register, plugin, PCs
<1>5. ASSUME NEW p \in Process, FetchCached(p) PROVE Typed'
  <2>1. cache[p] \in State \cup {NoState} /\ Consider(p, cache[p])
    BY <1>0, <1>5 DEF FetchCached, TypeOK
  <2>2. /\ UNCHANGED <<now, due, age, workers, checkpoint, status>>
        /\ state' \in State \cup {NoState}
        /\ known' \in [Process -> Nat]
        /\ cache' \in [Process -> State \cup {NoState}]
        /\ faults' \in 0 .. MaxFaults
    BY <1>0, <1>5 DEF FetchCached, shared, TypeOK
  <2> QED
    BY <2>1, <2>2, <1>rest, ConsiderTyped
<1>6. ASSUME NEW p \in Process, Fetch(p) PROVE Typed'
  <2>1. state \in State \cup {NoState} /\ Consider(p, state)
    BY <1>0, <1>6 DEF Fetch, TypeOK
  <2>2. known' \in [Process -> Nat]
    BY <1>0, <1>s, <1>6, LargerIsNat DEF Fetch, TypeOK
  <2>3. /\ UNCHANGED <<now, due, age, workers, checkpoint, status>>
        /\ state' \in State \cup {NoState}
        /\ cache' \in [Process -> State \cup {NoState}]
        /\ faults' \in 0 .. MaxFaults
    BY <1>0, <1>6 DEF Fetch, shared, TypeOK
  <2> QED
    BY <2>1, <2>2, <2>3, <1>rest, ConsiderTyped
<1>7. ASSUME NEW p \in Process, Check(p) \/ CheckFails(p) PROVE Typed'
  <2>1. read[p] \in State
    BY <1>0, <1>7 DEF Check, CheckFails, TypeOK, HeartbeatOK
  <2>2. /\ UNCHANGED <<now, due, age, workers, checkpoint, status>>
        /\ state' \in State \cup {NoState}
        /\ known' \in [Process -> Nat]
        /\ cache' \in [Process -> State \cup {NoState}]
        /\ faults' \in 0 .. MaxFaults
    BY <1>0, <1>7, FaultIsCounted DEF Check, CheckFails, shared, TypeOK
  <2>3. CASE Adopt(p, read[p].leader, read[p].epoch)
    BY <1>s, <2>1, <2>2, <2>3, <1>rest, AdoptTyped
  <2>4. CASE /\ previous' = [previous EXCEPT ![p] = read[p].epoch]
             /\ read' = [read EXCEPT ![p] = NoState]
             /\ Goto(p, "listing")
             /\ UNCHANGED <<view, bid, plugin>>
    <3>1. previous' \in [Process -> Nat] /\ read' \in [Process -> State \cup {NoState}]
      BY <1>0, <1>s, <2>1, <2>4 DEF TypeOK
    <3>2. pc' \in [Process -> PCs] /\ HeartbeatOK'
      BY <1>0, <2>4, GotoTyped DEF PCs, TypeOK
    <3>3. /\ view' \in [Process -> [leader : Worker \cup {Nobody}, epoch : Nat]]
          /\ coordinator' \in [Process -> BOOLEAN] /\ subscribed' \in [Process -> BOOLEAN]
          /\ bid' \in [Process -> State \cup {NoState}]
      BY <1>0, <2>4 DEF TypeOK, plugin
    <3> QED
      BY <3>1, <3>2, <3>3, <2>2, <1>rest
  <2> QED
    BY <1>7, <2>3, <2>4 DEF Check, CheckFails
<1>8. ASSUME NEW p \in Process, List(p) \/ ListFails(p) PROVE Typed'
  <2>1. PICK ids \in SUBSET Worker : Nominate(p, ids)
    BY <1>0, <1>8 DEF List, ListFails, TypeOK
  <2>2. Elected(p, ids) \in Worker
    BY <1>w, LeastExists DEF Elected
  <2>3. PICK b \in State : b = [leader |-> Elected(p, ids), epoch |-> 0, end |-> 0, by |-> p]
    BY <2>2 DEF State
  <2>4. bid' = [bid EXCEPT ![p] = b] /\ Goto(p, "reading")
    BY <2>1, <2>3 DEF Nominate
  <2>5. bid' \in [Process -> State \cup {NoState}]
    BY <1>0, <2>4 DEF TypeOK
  <2>6. bid'[p] # NoState /\ \A q \in Process \ {p} : bid'[q] = bid[q] /\ read'[q] = read[q]
    BY <1>0, <1>s, <2>1, <2>4 DEF TypeOK, Nominate
  <2>7. pc' \in [Process -> PCs] /\ HeartbeatOK'
    BY <1>0, <2>4, <2>6, GotoTyped DEF PCs
  <2>8. faults' \in 0 .. MaxFaults
    BY <1>0, <1>8, FaultIsCounted DEF TypeOK, List, ListFails
  <2> QED
    BY <1>0, <2>1, <2>5, <2>7, <2>8, <1>rest DEF Nominate, TypeOK, shared, plugin
<1>9. ASSUME NEW p \in Process, ReadForElection(p) PROVE Typed'
  <2>1. /\ UNCHANGED <<now, due, age, workers, checkpoint, status>>
        /\ state' \in State \cup {NoState}
        /\ cache' \in [Process -> State \cup {NoState}]
        /\ faults' \in 0 .. MaxFaults
    BY <1>0, <1>9 DEF ReadForElection, shared, TypeOK
  <2>2. CASE /\ read' = [read EXCEPT ![p] = state]
             /\ bid' = [bid EXCEPT ![p].epoch = NextEpoch(p), ![p].end = now + Lease]
             /\ Goto(p, IF state = NoState THEN "creating" ELSE "swapping")
             /\ UNCHANGED <<view, known, previous, plugin>>
    <3>1. NextEpoch(p) \in Nat /\ now + Lease \in Nat
      <4>1. PICK e \in Nat : e = IF read[p] = NoState THEN 0 ELSE read[p].epoch
        BY <1>0, <1>s DEF TypeOK
      <4>2. BaseEpoch(p) \in Nat
        BY <1>0, LargerIsNat DEF BaseEpoch, TypeOK
      <4>3. Larger(BaseEpoch(p), e) \in Nat
        BY <4>2, LargerIsNat
      <4> QED
        BY <1>0, <4>1, <4>3 DEF NextEpoch, TypeOK
    <3>2. bid[p] \in State
      BY <1>0, <1>9 DEF ReadForElection, TypeOK, HeartbeatOK
    <3>3. PICK b \in State : b = [bid[p] EXCEPT !.epoch = NextEpoch(p), !.end = now + Lease]
      BY <3>1, <3>2 DEF State
    <3>4. bid' = [bid EXCEPT ![p] = b]
      BY <1>0, <2>2, <3>3 DEF TypeOK
    <3>5. bid' \in [Process -> State \cup {NoState}]
      BY <1>0, <3>4 DEF TypeOK
    <3>8. read' \in [Process -> State \cup {NoState}]
      BY <1>0, <2>2 DEF TypeOK
    <3>6. bid'[p] # NoState /\ \A q \in Process \ {p} : bid'[q] = bid[q] /\ read'[q] = read[q]
      BY <1>0, <1>s, <2>2, <3>4 DEF TypeOK
    <3>7. pc' \in [Process -> PCs] /\ HeartbeatOK'
      <4>1. PICK where \in {"creating", "swapping"} : Goto(p, where)
        BY <2>2
      <4> QED
        BY <3>6, <4>1, GotoTyped DEF PCs
    <3> QED
      BY <1>0, <2>1, <2>2, <3>5, <3>7, <3>8, <1>rest DEF TypeOK, plugin
  <2>3. CASE /\ state # NoState
             /\ known' = [known EXCEPT ![p] = state.epoch]
             /\ Adopt(p, state.leader, state.epoch)
    <3>1. state \in State
      BY <1>0, <2>3 DEF TypeOK
    <3>2. known' \in [Process -> Nat]
      BY <1>0, <1>s, <2>3, <3>1 DEF TypeOK
    <3> QED
      BY <1>s, <2>1, <2>3, <3>1, <3>2, <1>rest, AdoptTyped
  <2> QED
    BY <1>9, <2>2, <2>3 DEF ReadForElection
<1>10. ASSUME NEW p \in Process, Create(p) \/ Swap(p) PROVE Typed'
  <2>1. bid[p] \in State /\ Believe(p)
    BY <1>0, <1>10 DEF Create, Swap, TypeOK, HeartbeatOK
  <2>2. state' \in State \cup {NoState}
    BY <1>0, <1>10, <2>1 DEF Create, Swap, TypeOK
  <2>3. known' \in [Process -> Nat] /\ cache' \in [Process -> State \cup {NoState}]
    BY <1>0, <1>s, <2>1 DEF Believe, TypeOK
  <2>4. Adopt(p, bid[p].leader, bid[p].epoch)
        /\ UNCHANGED <<now, due, age, workers, checkpoint, status, faults>>
    BY <2>1 DEF Believe
  <2> QED
    BY <1>0, <1>s, <2>1, <2>2, <2>3, <2>4, <1>rest, AdoptTyped DEF TypeOK
<1>11. ASSUME NEW p \in Process, Save(p) PROVE Typed'
  <2>1. checkpoint' \in Nat
    BY <1>0, <1>11 DEF Save, TypeOK
  <2>2. pc' \in [Process -> PCs] /\ HeartbeatOK'
    BY <1>11, GotoTyped DEF Save, PCs
  <2>3. faults' \in 0 .. MaxFaults
    BY <1>0, <1>11, FaultIsCounted DEF Save, TypeOK
  <2>4. status' \in [Process -> {"off", "starting", "up", "stopping", "gone"}]
    BY <1>0, <1>11 DEF Save, TypeOK
  <2> QED
    BY <1>0, <1>11, <2>1, <2>2, <2>3, <2>4 DEF Typed, TypeOK, Save, plugin, PCs
<1>12. ASSUME NEW p \in Process, FetchFails(p) PROVE Typed'
  <2>1. previous' \in [Process -> Nat]
    BY <1>0, <1>12 DEF FetchFails, TypeOK
  <2>2. pc' \in [Process -> PCs] /\ HeartbeatOK'
    BY <1>12, GotoTyped DEF FetchFails, PCs
  <2>3. faults' \in 0 .. MaxFaults
    BY <1>0, <1>12, FaultIsCounted DEF FetchFails, TypeOK
  <2> QED
    BY <1>0, <1>12, <2>1, <2>2, <2>3, <1>rest DEF TypeOK, FetchFails, plugin, shared
<1>13. ASSUME NEW p \in Process, ElectionFails(p) PROVE Typed'
  <2>1. faults' \in 0 .. MaxFaults
    BY <1>0, <1>13, FaultIsCounted DEF ElectionFails, TypeOK
  <2>2. Adopt(p, Nobody, previous[p]) /\ previous[p] \in Nat
    BY <1>0, <1>13 DEF ElectionFails, TypeOK
  <2> QED
    BY <1>0, <1>13, <2>1, <2>2, <1>rest, AdoptTyped DEF TypeOK, ElectionFails, shared
<1>14. ASSUME NEW p \in Process, WriteFails(p) PROVE Typed'
  <2>1. bid[p] \in State
    BY <1>0, <1>14 DEF WriteFails, TypeOK, HeartbeatOK
  <2>2. state' \in State \cup {NoState}
    BY <1>0, <1>14, <2>1 DEF WriteFails, TypeOK
  <2>3. pc' \in [Process -> PCs] /\ HeartbeatOK'
    BY <1>14, <1>s, <2>1, GotoTyped DEF WriteFails, PCs
  <2>4. faults' \in 0 .. MaxFaults
    BY <1>0, <1>14, FaultIsCounted DEF WriteFails, TypeOK
  <2> QED
    BY <1>0, <1>14, <2>2, <2>3, <2>4, <1>rest DEF TypeOK, WriteFails, plugin
<1>15. ASSUME (\E w \in Worker : WorkerExpires(w)) \/ Due \/ Tick PROVE Typed'
  <2>1. HeartbeatOK'
    BY <1>0, <1>15 DEF HeartbeatOK, WorkerExpires, Due, Tick, heartbeat
  <2>2. workers' \subseteq Worker
    BY <1>0, <1>15 DEF TypeOK, WorkerExpires, Due, Tick, shared
  <2>7. age' \in [Worker -> 0 .. Outlive]
    BY <1>0, <1>15 DEF TypeOK, WorkerExpires, Due, Tick, Abandoned
  <2>3. now' \in 0 .. MaxTime
    BY <1>0, <1>15 DEF TypeOK, WorkerExpires, Due, Tick
  <2>5. due' \in BOOLEAN
    BY <1>0, <1>15, Zenon DEF TypeOK, WorkerExpires, Due, Tick
  <2>4. UNCHANGED <<state, checkpoint, status, heartbeat, plugin, faults>>
    BY <1>15 DEF WorkerExpires, Due, Tick, shared
  <2>6. ClockOK'
    BY <1>0, <1>15 DEF WorkerExpires, Due, Tick
  <2> QED
    BY <1>0, <2>1, <2>2, <2>3, <2>4, <2>5, <2>6, <2>7 DEF Typed, TypeOK, heartbeat, plugin
<1>16. ASSUME UNCHANGED vars PROVE Typed'
  BY <1>0, <1>16 DEF vars, shared, heartbeat, plugin, Typed, TypeOK, HeartbeatOK
<1> QED
  BY <1>1, <1>2, <1>3, <1>4, <1>5, <1>6, <1>7, <1>8, <1>9, <1>10, <1>11, <1>12, <1>13, <1>14,
     <1>15, <1>16 DEF Next, Call, Fails

\* A heartbeat that other processes, timeouts and failures overtake at every await
\* still hands on a leader that is a worker and an epoch that is a number.
THEOREM CoordinatorTypeCorrect == Spec => []TypeOK
<1>1. Typed => TypeOK
  BY DEF Typed
<1> QED
  BY <1>1, TypedInit, TypedStep, PTL DEF Spec

-----------------------------------------------------------------------------
(* The plugin and its service.  Every change of the leader a running       *)
(* service knows goes through Adopt, where the plugin hears of it, and a   *)
(* plugin that subscribes asks; nothing subscribes before its service is   *)
(* up.                                                                     *)

NotBeforeUp == \A p \in Process : status[p] \in {"off", "starting"} => ~subscribed[p]

Follows == NotBeforeUp /\ PluginFollowsService

LEMMA FollowsInit == Init => Follows
BY DEF Init, Follows, NotBeforeUp, PluginFollowsService, Up

LEMMA AdoptFollows ==
  ASSUME Typed, Follows, NEW p \in Process, NEW leader \in Worker \cup {Nobody}, NEW epoch,
         Adopt(p, leader, epoch), UNCHANGED status
  PROVE  Follows'
<1>1. /\ view' = [view EXCEPT ![p] = [leader |-> leader, epoch |-> Larger(epoch, 1)]]
      /\ UNCHANGED subscribed
  BY DEF Adopt
<1>2. view'[p].leader = leader /\ \A q \in Process : q # p => view'[q] = view[q]
  BY <1>1 DEF Typed, TypeOK
<1>3. \A q \in Process : q # p => coordinator'[q] = coordinator[q]
  BY DEF Adopt, Typed, TypeOK
<1>4. status[p] = "up" /\ subscribed[p] => (coordinator'[p] <=> leader = p)
  <2>1. CASE leader # view[p].leader /\ subscribed[p]
    <3>1. coordinator' = [coordinator EXCEPT ![p] = leader = p]
      BY <2>1 DEF Adopt
    <3> QED
      BY <3>1, Zenon DEF Typed, TypeOK
  <2>2. CASE ~(leader # view[p].leader /\ subscribed[p])
    <3>1. UNCHANGED coordinator
      BY <2>2, Zenon DEF Adopt
    <3> QED
      BY <2>2, <3>1 DEF Follows, PluginFollowsService, Up
  <2> QED
    BY <2>1, <2>2
<1>5. NotBeforeUp'
  BY <1>1 DEF Follows, NotBeforeUp
<1>6. ASSUME NEW q \in Process, status[q] = "up", subscribed[q]
      PROVE  coordinator'[q] <=> view'[q].leader = q
  BY <1>2, <1>3, <1>4, <1>6 DEF Follows, PluginFollowsService, Up
<1> QED
  BY <1>1, <1>5, <1>6 DEF Follows, PluginFollowsService, Up

LEMMA FollowsStep == Typed /\ Follows /\ [Next]_vars => Follows'
<1> SUFFICES ASSUME Typed, Follows, [Next]_vars PROVE Follows'
  OBVIOUS
<1>0. TypeOK /\ HeartbeatOK
  BY DEF Typed
<1>s. \A s \in State : s.leader \in Worker
  BY DEF State
<1> USE DEF Follows, NotBeforeUp, PluginFollowsService, Up
<1>1. ASSUME UNCHANGED <<status, view, plugin>> PROVE Follows'
  BY <1>1 DEF plugin
<1>2. ASSUME NEW p \in Process, Start(p) PROVE Follows'
  BY <1>0, <1>2 DEF Start, TypeOK, plugin
<1>3. ASSUME NEW p \in Process, Subscribe(p) PROVE Follows'
  <2>1. coordinator' = [coordinator EXCEPT ![p] = view[p].leader = p]
    BY <1>3 DEF Subscribe
  <2>2. (coordinator'[p] <=> view[p].leader = p)
        /\ \A q \in Process : q # p => coordinator'[q] = coordinator[q]
    BY <1>0, <2>1, Zenon DEF TypeOK
  <2>3. /\ \A q \in Process : q # p => subscribed'[q] = subscribed[q]
        /\ status[p] = "up"
        /\ UNCHANGED <<view, status>>
    BY <1>0, <1>3 DEF Subscribe, TypeOK, heartbeat
  <2> QED
    BY <2>2, <2>3
<1>16. ASSUME NEW p \in Process, AskAgain(p) PROVE Follows'
  <2>1. coordinator' = [coordinator EXCEPT ![p] = status[p] = "up" /\ view[p].leader = p]
        /\ UNCHANGED <<view, status, subscribed>>
    BY <1>16 DEF AskAgain, heartbeat
  <2>2. (coordinator'[p] <=> status[p] = "up" /\ view[p].leader = p)
        /\ \A q \in Process : q # p => coordinator'[q] = coordinator[q]
    BY <1>0, <2>1, Zenon DEF TypeOK
  <2> QED
    BY <2>1, <2>2
<1>17. ASSUME NEW p \in Process, Save(p) PROVE Follows'
  <2>1. /\ UNCHANGED <<view, plugin>>
        /\ \A q \in Process : status'[q] = IF q = p /\ status[q] = "starting" THEN "up" ELSE status[q]
    BY <1>0, <1>17 DEF Save, TypeOK
  <2> QED
    BY <2>1 DEF plugin
<1>4. ASSUME NEW p \in Process, Unsubscribe(p) PROVE Follows'
  BY <1>0, <1>4 DEF Unsubscribe, TypeOK, heartbeat
<1>5. ASSUME NEW p \in Process, StopService(p) PROVE Follows'
  BY <1>0, <1>5 DEF StopService, TypeOK, plugin
<1>6. ASSUME NEW p \in Process, StopPlugin(p) \/ Crash(p) PROVE Follows'
  <2>1. Leave(p)
    BY <1>6 DEF StopPlugin, Crash
  <2>2. \A q \in Process : /\ status'[q] = IF q = p THEN "gone" ELSE status[q]
                           /\ q # p => /\ subscribed'[q] = subscribed[q]
                                       /\ coordinator'[q] = coordinator[q]
                                       /\ view'[q] = view[q]
    BY <1>0, <2>1 DEF Leave, TypeOK
  <2> QED
    BY <2>2
<1>7. ASSUME NEW p \in Process, NEW leader \in Worker \cup {Nobody}, NEW epoch,
             Adopt(p, leader, epoch), UNCHANGED status
      PROVE  Follows'
  BY <1>7, AdoptFollows
<1>8. ASSUME NEW p \in Process, NEW s \in State \cup {NoState}, Consider(p, s), UNCHANGED status
      PROVE  Follows'
  <2>1. ~NeedsElection(s) => s \in State
    BY DEF NeedsElection
  <2>2. CASE ~NeedsElection(s) /\ Adopt(p, s.leader, s.epoch)
    BY <1>s, <1>7, <1>8, <2>1, <2>2
  <2>3. CASE UNCHANGED <<view, plugin>>
    BY <1>1, <1>8, <2>3
  <2> QED
    BY <1>8, <2>2, <2>3 DEF Consider
<1>9. ASSUME NEW p \in Process, FetchCached(p) \/ Fetch(p) PROVE Follows'
  BY <1>0, <1>8, <1>9 DEF FetchCached, Fetch, TypeOK
<1>10. ASSUME NEW p \in Process, Check(p) \/ CheckFails(p) PROVE Follows'
  <2>1. read[p] \in State /\ UNCHANGED status
    BY <1>0, <1>10 DEF Check, CheckFails, TypeOK, HeartbeatOK
  <2>2. Adopt(p, read[p].leader, read[p].epoch) \/ UNCHANGED <<view, plugin>>
    BY <1>10 DEF Check, CheckFails
  <2> QED
    BY <1>1, <1>s, <1>7, <2>1, <2>2
<1>11. ASSUME NEW p \in Process, ReadForElection(p) PROVE Follows'
  <2>1. state # NoState => state \in State
    BY <1>0 DEF TypeOK
  <2>2. UNCHANGED status /\ \/ UNCHANGED <<view, plugin>>
                            \/ state # NoState /\ Adopt(p, state.leader, state.epoch)
    BY <1>11 DEF ReadForElection
  <2> QED
    BY <1>1, <1>s, <1>7, <2>1, <2>2
<1>12. ASSUME NEW p \in Process, Create(p) \/ Swap(p) PROVE Follows'
  <2>1. bid[p] \in State /\ Believe(p)
    BY <1>0, <1>12 DEF Create, Swap, TypeOK, HeartbeatOK
  <2> QED
    BY <1>s, <1>7, <2>1 DEF Believe
<1>13. ASSUME NEW p \in Process, ElectionFails(p) PROVE Follows'
  BY <1>7, <1>13 DEF ElectionFails
<1>14. ASSUME NEW p \in Process,
              RegisterSoon(p) \/ RegisterLate(p) \/ List(p) \/ ListFails(p)
                \/ FetchFails(p) \/ WriteFails(p)
       PROVE  UNCHANGED <<status, view, plugin>>
  BY <1>14 DEF RegisterSoon, RegisterLate, Register, List, ListFails, Nominate, FetchFails,
               WriteFails
<1>15. ASSUME (\E w \in Worker : WorkerExpires(w)) \/ Due \/ Tick \/ UNCHANGED vars
       PROVE  UNCHANGED <<status, view, plugin>>
  BY <1>15 DEF WorkerExpires, Due, Tick, vars, heartbeat
<1> QED
  BY <1>1, <1>2, <1>3, <1>4, <1>5, <1>6, <1>9, <1>10, <1>11, <1>12, <1>13, <1>14, <1>15,
     <1>16, <1>17
  DEF Next, Call, Fails

\* No order of subscription, election, lost race, failed call and notification loses a
\* promotion or a demotion, with any number of processes.
THEOREM PluginsFollow == Spec => []PluginFollowsService
<1>1. Init => Typed /\ Follows
  BY TypedInit, FollowsInit
<1>2. Typed /\ Follows /\ [Next]_vars => (Typed /\ Follows)'
  BY TypedStep, FollowsStep
<1>3. Follows => PluginFollowsService
  BY DEF Follows
<1> QED
  BY <1>1, <1>2, <1>3, PTL DEF Spec
=============================================================================
