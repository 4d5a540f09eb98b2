-------------------------- MODULE TasksPoolProofs ---------------------------
(***************************************************************************)
(* What holds of TasksPool for every finite set of tasks, every set of     *)
(* callers, every profile, every concurrency and every number of retries.  *)
(***************************************************************************)
EXTENDS TasksPool, FiniteSetTheorems, TLAPS

USE TasksPoolAssumption

-----------------------------------------------------------------------------
(* The inductive invariant: the invariants of the runs, the bound on the   *)
(* slots, and what an attempt may still do in each state of its task.      *)

HoldingIn(st) ==
  {t \in Tasks : st[t] \in {"running", "delay", "cancelled"} \cup
                           IF mode = "rich" THEN {} ELSE {"settled"}}

ExactFor(st, act, cnt) ==
  IF mode = "rich" THEN act = HoldingIn(st) /\ cnt = 0
                   ELSE act = {} /\ cnt = Cardinality(HoldingIn(st))

WithinLimit == Cardinality(Holding) <= MaxLimit

\* Before its first attempt a task has no function running, and in its delay it
\* has an attempt left.
AttemptsFit ==
  \A t \in Tasks :
    /\ state[t] \in {"new", "queued"} => attempt[t] = 0
    /\ state[t] = "delay" => attempt[t] <= Retries

Inv == /\ TypeOK
       /\ SlotsExact
       /\ WithinLimit
       /\ AttemptsFit
       /\ BodiesBounded
       /\ WorkConserving
       /\ PausedIsQuiet

-----------------------------------------------------------------------------
(* Slots as finite sets.                                                   *)

LEMMA HoldingFinite ==
  ASSUME NEW st
  PROVE  IsFiniteSet(HoldingIn(st)) /\ Cardinality(HoldingIn(st)) \in Nat
<1>1. HoldingIn(st) \subseteq Tasks
  BY DEF HoldingIn
<1>2. IsFiniteSet(HoldingIn(st))
  BY <1>1, FS_Subset
<1> QED
  BY <1>2, FS_CardinalityType

\* The loop of processNext gives slots to waiting tasks, as many as there are
\* free slots, and changes nothing else.
LEMMA ProcessNextFills ==
  ASSUME NEW open \in BOOLEAN, NEW st \in [Tasks -> State], NEW cnt \in Nat,
         NEW lim \in 1..MaxLimit,
         mode' = mode, attempt \in [Tasks -> Nat], active \in SUBSET Tasks,
         ExactFor(st, active, cnt), Cardinality(HoldingIn(st)) <= MaxLimit,
         ProcessNext(open, st, cnt, lim)
  PROVE  /\ state' \in [Tasks -> State] /\ attempt' \in [Tasks -> Nat]
         /\ active' \in SUBSET Tasks /\ light' \in Nat
         /\ SlotsExact' /\ WithinLimit'
         /\ open /\ Queued' # {} => Used' >= lim
         /\ ~open => active' = active
         /\ \A t \in Tasks :
              \/ state'[t] = st[t] /\ attempt'[t] = attempt[t]
              \/ /\ open
                 /\ st[t] = "queued" /\ state'[t] = "running" /\ attempt'[t] = 1
<1> DEFINE q == {t \in Tasks : st[t] = "queued"}
<1> DEFINE used == IF mode = "rich" THEN Cardinality(active) ELSE cnt
<1>1. PICK S \in SUBSET q :
        /\ IF open THEN Fits(S, q, used, lim) ELSE S = {}
        /\ state' = [t \in Tasks |-> IF t \in S THEN "running" ELSE st[t]]
        /\ attempt' = [t \in Tasks |-> IF t \in S THEN 1 ELSE attempt[t]]
        /\ active' = IF mode = "rich" THEN active \cup S ELSE active
        /\ light' = IF mode = "rich" THEN cnt ELSE cnt + Cardinality(S)
  BY DEF ProcessNext
<1>2. IsFiniteSet(S) /\ Cardinality(S) \in Nat
  BY <1>1, FS_Subset, FS_CardinalityType
<1>3. Holding' = HoldingIn(st) \cup S
  BY <1>1 DEF Holding, HoldingIn, State
<1>4. HoldingIn(st) \cap S = {}
  BY <1>1 DEF HoldingIn
<1>5. Cardinality(Holding') = Cardinality(HoldingIn(st)) + Cardinality(S)
  <2>1. Cardinality(HoldingIn(st) \cap S) = 0
    BY <1>4, FS_EmptySet
  <2>2. Cardinality(HoldingIn(st) \cup S)
          = Cardinality(HoldingIn(st)) + Cardinality(S) - Cardinality(HoldingIn(st) \cap S)
    BY <1>2, HoldingFinite, FS_Union
  <2>3. Cardinality(HoldingIn(st)) \in Nat
    BY HoldingFinite
  <2> QED
    BY <1>2, <1>3, <2>1, <2>2, <2>3
<1>6. used = Cardinality(HoldingIn(st))
  BY DEF ExactFor
<1>7. SlotsExact'
  BY <1>1, <1>3, <1>5 DEF SlotsExact, ExactFor
<1>8. Used' = used + Cardinality(S)
  BY <1>1, <1>3, <1>5, <1>6, <1>7 DEF SlotsExact, Used
<1>9. WithinLimit'
  <2>1. CASE S = {}
    BY <1>3, <2>1 DEF WithinLimit
  <2>2. CASE S # {}
    <3>1. used + Cardinality(S) <= lim
      BY <1>1, <2>2 DEF Fits
    <3> QED
      BY <1>5, <1>6, <3>1, <1>2, HoldingFinite DEF WithinLimit
  <2> QED
    BY <2>1, <2>2
<1>10. open /\ Queued' # {} => Used' >= lim
  <2> SUFFICES ASSUME open, Queued' # {} PROVE Used' >= lim
    OBVIOUS
  <2>1. S # q
    BY <1>1 DEF Queued, In
  <2> QED
    BY <1>1, <1>8, <2>1 DEF Fits
<1>11. /\ state' \in [Tasks -> State] /\ attempt' \in [Tasks -> Nat]
       /\ active' \in SUBSET Tasks
  BY <1>1 DEF State
<1>12. light' \in Nat
  BY <1>1, <1>2
<1>13. \A t \in Tasks :
         \/ state'[t] = st[t] /\ attempt'[t] = attempt[t]
         \/ /\ open
            /\ st[t] = "queued" /\ state'[t] = "running" /\ attempt'[t] = 1
  BY <1>1
<1>14. ~open => active' = active
  BY <1>1
<1> QED
  BY <1>7, <1>9, <1>10, <1>11, <1>12, <1>13, <1>14

-----------------------------------------------------------------------------
(* The steps of a task.                                                    *)

LEMMA LimitInRange == TypeOK => limit \in 1..MaxLimit /\ mode \in {"rich", "light", "bare"}
BY DEF TypeOK

\* The .then or .catch of a task: the rich mode takes the slot back, the light
\* modes keep it until the .finally.
LEMMA SettleKeepsSlots ==
  ASSUME Inv, NEW t \in Tasks, state[t] \in {"running", "cancelled"}, Settle(t),
         mode' = mode, light' = light
  PROVE  SlotsExact' /\ WithinLimit'
<1>1. Holding' = IF mode = "rich" THEN Holding \ {t} ELSE Holding
  BY DEF Settle, Holding, Inv, TypeOK, State
<1>2. IsFiniteSet(Holding) /\ Cardinality(Holding) \in Nat
  <2>1. Holding = HoldingIn(state)
    BY DEF Holding, HoldingIn
  <2> QED
    BY <2>1, HoldingFinite
<1>3. Cardinality(Holding') <= Cardinality(Holding) /\ Cardinality(Holding') \in Nat
  <2>1. Holding' \in SUBSET Holding
    BY <1>1
  <2>2. IsFiniteSet(Holding')
    BY <1>2, <2>1, FS_Subset
  <2> QED
    BY <1>2, <2>1, <2>2, FS_Subset, FS_CardinalityType
<1>4. WithinLimit'
  BY <1>2, <1>3 DEF WithinLimit, Inv
<1>5. SlotsExact'
  BY <1>1 DEF SlotsExact, Settle, Inv
<1> QED
  BY <1>4, <1>5

\* A step in which an attempt ends with its task settled.
LEMMA SettleKeepsInv ==
  ASSUME Inv, NEW t \in Tasks, state[t] \in {"running", "cancelled"}, Settle(t),
         orphans' \in [Tasks -> Nat],
         \A u \in Tasks : IF u = t /\ state[t] = "running"
                          THEN orphans'[u] <= orphans[u] + 1 ELSE orphans'[u] = orphans[u],
         UNCHANGED <<mode, limit, paused, stopped, attempt, light, asking, waiters, quiet>>
  PROVE  Inv'
<1>1. TypeOK'
  BY DEF Inv, TypeOK, Settle, State
<1>2. SlotsExact' /\ WithinLimit'
  BY SettleKeepsSlots
<1>3. AttemptsFit'
  BY DEF Inv, TypeOK, AttemptsFit, Settle, State
<1>4. BodiesBounded'
  <2> SUFFICES ASSUME NEW u \in Tasks
               PROVE  /\ orphans'[u] + (IF state'[u] = "running" THEN 1 ELSE 0) <= attempt[u]
                      /\ attempt[u] <= Retries + 1
    BY DEF BodiesBounded
  <2>1. /\ orphans[u] \in Nat /\ orphans'[u] \in Nat /\ attempt[u] \in Nat
        /\ orphans[u] + (IF state[u] = "running" THEN 1 ELSE 0) <= attempt[u]
        /\ attempt[u] <= Retries + 1
    BY DEF Inv, TypeOK, BodiesBounded
  <2>2. CASE u = t
    <3>1. state'[u] = "settled"
      BY <2>2 DEF Inv, TypeOK, Settle
    <3> QED
      BY <2>1, <2>2, <3>1
  <2>3. CASE u # t
    <3>1. state'[u] = state[u] /\ orphans'[u] = orphans[u]
      BY <2>3 DEF Inv, TypeOK, Settle
    <3> QED
      BY <2>1, <3>1
  <2> QED
    BY <2>2, <2>3
<1>5. WorkConserving'
  <2>1. t \in In("settled")'
    BY DEF Settle, In, Inv, TypeOK
  <2> QED
    BY <2>1 DEF WorkConserving
<1>6. PausedIsQuiet'
  BY DEF Inv, PausedIsQuiet, Settle
<1> QED
  BY <1>1, <1>2, <1>3, <1>4, <1>5, <1>6 DEF Inv

\* A step in which a task moves between running, delay and cancelled keeps the
\* slots as they are.
LEMMA HeldKeepsSlots ==
  ASSUME Inv, UNCHANGED <<mode, limit, active, light>>, state' \in [Tasks -> State],
         \A u \in Tasks : \/ state'[u] = state[u]
                          \/ /\ state[u] \in {"running", "delay", "cancelled"}
                             /\ state'[u] \in {"running", "delay", "cancelled"}
  PROVE  /\ SlotsExact' /\ WithinLimit'
         /\ Queued' = Queued /\ Used' = Used /\ In("settled")' = In("settled")
<1>1. Holding' = Holding
  BY DEF Holding
<1>2. Queued' = Queued /\ In("settled")' = In("settled")
  BY DEF Queued, In
<1> QED
  BY <1>1, <1>2 DEF Inv, SlotsExact, WithinLimit, Used

\* The .finally of a task gives back the slot of the light modes, so the fields
\* it leaves for processNext agree.
LEMMA FinallyIsExact ==
  ASSUME Inv, NEW t \in Tasks, state[t] = "settled"
  PROVE  LET st  == [state EXCEPT ![t] = "gone"]
             cnt == IF mode = "rich" THEN light ELSE light - 1
         IN  /\ st \in [Tasks -> State] /\ cnt \in Nat
             /\ ExactFor(st, active, cnt)
             /\ Cardinality(HoldingIn(st)) <= MaxLimit
<1> DEFINE st  == [state EXCEPT ![t] = "gone"]
<1> DEFINE cnt == IF mode = "rich" THEN light ELSE light - 1
<1>1. st \in [Tasks -> State]
  BY DEF Inv, TypeOK, State
<1>2. Holding = HoldingIn(state)
  BY DEF Holding, HoldingIn
<1>3. IsFiniteSet(Holding) /\ Cardinality(Holding) \in Nat
  BY <1>2, HoldingFinite
<1>4. Cardinality(HoldingIn(st)) \in Nat
  BY HoldingFinite
<1>5. CASE mode = "rich"
  <2>1. HoldingIn(st) = Holding
    BY <1>5 DEF Holding, HoldingIn, Inv, TypeOK
  <2> QED
    BY <1>1, <1>5, <2>1 DEF Inv, SlotsExact, ExactFor, WithinLimit, TypeOK
<1>6. CASE mode # "rich"
  <2>1. HoldingIn(st) = Holding \ {t} /\ t \in Holding
    BY <1>6 DEF Holding, HoldingIn, Inv, TypeOK
  <2>2. Cardinality(HoldingIn(st)) = Cardinality(Holding) - 1
    BY <1>3, <2>1, FS_RemoveElement
  <2>3. light = Cardinality(Holding) /\ active = {}
    BY <1>6 DEF Inv, SlotsExact
  <2>4. Cardinality(Holding) <= MaxLimit
    BY DEF Inv, WithinLimit
  <2> QED
    BY <1>1, <1>3, <1>4, <1>6, <2>2, <2>3, <2>4 DEF ExactFor
<1> QED
  BY <1>5, <1>6

\* A step that ends with processNext.
LEMMA FillingKeepsInv ==
  ASSUME Inv, NEW open \in BOOLEAN, NEW st \in [Tasks -> State], NEW cnt \in Nat,
         NEW lim \in Limits,
         ExactFor(st, active, cnt), Cardinality(HoldingIn(st)) <= MaxLimit,
         ProcessNext(open, st, cnt, lim),
         \A u \in Tasks : \/ st[u] = state[u]
                          \/ state[u] = "new" /\ st[u] = "queued"
                          \/ state[u] = "settled" /\ st[u] = "gone",
         limit' = lim, paused' \in BOOLEAN, quiet' \in BOOLEAN,
         mode = "bare" \/ (open <=> ~paused' /\ ~stopped),
         ~open => \/ paused' \/ stopped,
         mode = "rich" /\ mode = "rich" /\ quiet' => quiet /\ paused', waiters' \in SUBSET Callers,
         UNCHANGED <<mode, stopped, orphans, asking>>
  PROVE  Inv'
<1>1. lim \in 1..MaxLimit /\ attempt \in [Tasks -> Nat] /\ active \in SUBSET Tasks
  BY DEF Inv, TypeOK
<1>2. /\ state' \in [Tasks -> State] /\ attempt' \in [Tasks -> Nat]
      /\ active' \in SUBSET Tasks /\ light' \in Nat
      /\ SlotsExact' /\ WithinLimit'
      /\ open /\ Queued' # {} => Used' >= lim
      /\ ~open => active' = active
      /\ \A t \in Tasks :
           \/ state'[t] = st[t] /\ attempt'[t] = attempt[t]
           \/ open /\ st[t] = "queued" /\ state'[t] = "running" /\ attempt'[t] = 1
  BY <1>1, ProcessNextFills
<1>3. TypeOK'
  BY <1>2 DEF Inv, TypeOK
<1>4. AttemptsFit'
  BY <1>2 DEF Inv, TypeOK, AttemptsFit
<1>5. BodiesBounded'
  BY <1>2 DEF Inv, TypeOK, AttemptsFit, BodiesBounded
<1>6. WorkConserving'
  <2>1. Used' \in Nat
    <3>1. IsFiniteSet(active') /\ Cardinality(active') \in Nat
      BY <1>2, FS_Subset, FS_CardinalityType
    <3> QED
      BY <1>2, <3>1 DEF Used
  <2> QED
    BY <1>1, <1>2, <2>1 DEF WorkConserving
<1>7. PausedIsQuiet'
  BY <1>2 DEF Inv, PausedIsQuiet
<1> QED
  BY <1>2, <1>3, <1>4, <1>5, <1>6, <1>7 DEF Inv

-----------------------------------------------------------------------------
(* Each action keeps the invariant.                                        *)

LEMMA InvInit == Init => Inv
<1> SUFFICES ASSUME Init PROVE Inv
  OBVIOUS
<1>1. TypeOK
  BY DEF Init, TypeOK, State
<1>2. Holding = {}
  BY DEF Init, Holding
<1>3. SlotsExact /\ WithinLimit
  BY <1>2, FS_EmptySet DEF Init, SlotsExact, WithinLimit
<1>4. AttemptsFit /\ BodiesBounded /\ PausedIsQuiet
  BY DEF Init, AttemptsFit, BodiesBounded, PausedIsQuiet
<1>5. WorkConserving
  BY DEF Init, WorkConserving, Queued, In
<1> QED
  BY <1>1, <1>3, <1>4, <1>5 DEF Inv

\* The fields as they are agree with each other.
LEMMA InvIsExact ==
  Inv => /\ ExactFor(state, active, light)
         /\ Cardinality(HoldingIn(state)) <= MaxLimit
         /\ state \in [Tasks -> State] /\ light \in Nat /\ limit \in Limits
<1>1. Holding = HoldingIn(state)
  BY DEF Holding, HoldingIn
<1> QED
  BY <1>1 DEF Inv, SlotsExact, ExactFor, WithinLimit, TypeOK

LEMMA EnqueueKeepsInv ==
  ASSUME Inv, NEW S \in SUBSET Tasks, Enqueue(S)
  PROVE  Inv'
<1> DEFINE st == [t \in Tasks |-> IF t \in S THEN "queued" ELSE state[t]]
<1>1. S \subseteq In("new") /\ ProcessNext(Open, st, light, limit)
  BY DEF Enqueue
<1>2. st \in [Tasks -> State]
  BY InvIsExact DEF State
<1>3. HoldingIn(st) = HoldingIn(state)
  BY <1>1 DEF HoldingIn, In
<1>4. ExactFor(st, active, light) /\ Cardinality(HoldingIn(st)) <= MaxLimit
  BY <1>3, InvIsExact DEF ExactFor
<1>5. \A u \in Tasks : \/ st[u] = state[u]
                       \/ state[u] = "new" /\ st[u] = "queued"
                       \/ state[u] = "settled" /\ st[u] = "gone"
  BY <1>1 DEF In
<1>6. /\ Open \in BOOLEAN /\ limit' = limit /\ paused' \in BOOLEAN /\ quiet' \in BOOLEAN
      /\ mode = "bare" \/ (Open <=> ~paused' /\ ~stopped)
      /\ ~Open => \/ paused' \/ stopped
      /\ mode = "rich" /\ quiet' => quiet /\ paused'
      /\ waiters' \in SUBSET Callers
      /\ UNCHANGED <<mode, stopped, orphans, asking>>
  <2>1. mode \in {"rich", "light", "bare"}
    BY LimitInRange DEF Inv
  <2> QED
    BY <2>1 DEF Enqueue, Open, Inv, TypeOK, PausedIsQuiet
<1> QED
  BY <1>1, <1>2, <1>4, <1>5, <1>6, InvIsExact, FillingKeepsInv

LEMMA SetConcurrencyKeepsInv ==
  ASSUME Inv, NEW n \in Limits, SetConcurrency(n)
  PROVE  Inv'
<1>1. ProcessNext(Open, state, light, n)
  BY DEF SetConcurrency
<1>2. /\ Open \in BOOLEAN /\ limit' = n /\ paused' \in BOOLEAN /\ quiet' \in BOOLEAN
      /\ mode = "bare" \/ (Open <=> ~paused' /\ ~stopped)
      /\ ~Open => \/ paused' \/ stopped
      /\ mode = "rich" /\ quiet' => quiet /\ paused'
      /\ waiters' \in SUBSET Callers
      /\ UNCHANGED <<mode, stopped, orphans, asking>>
  BY DEF SetConcurrency, Open, Inv, TypeOK, PausedIsQuiet
<1> QED
  BY <1>1, <1>2, InvIsExact, FillingKeepsInv

LEMMA ResumeKeepsInv ==
  ASSUME Inv, Resume
  PROVE  Inv'
<1>1. ProcessNext(~stopped, state, light, limit)
  BY DEF Resume
<1>2. /\ (~stopped) \in BOOLEAN /\ limit' = limit
      /\ paused' = FALSE /\ quiet' = FALSE
      /\ waiters' \in SUBSET Callers
      /\ UNCHANGED <<mode, stopped, orphans, asking>>
  BY DEF Resume, Inv, TypeOK
<1> QED
  BY <1>1, <1>2, InvIsExact, FillingKeepsInv

LEMMA FinishedKeepsInv ==
  ASSUME Inv, NEW t \in Tasks, Finished(t)
  PROVE  Inv'
<1> DEFINE st   == [state EXCEPT ![t] = "gone"]
<1> DEFINE cnt  == IF mode = "rich" THEN light ELSE light - 1
<1> DEFINE open == mode = "bare" \/ Open
<1>1. state[t] = "settled" /\ ProcessNext(open, st, cnt, limit)
  BY DEF Finished
<1>2. /\ st \in [Tasks -> State] /\ cnt \in Nat
      /\ ExactFor(st, active, cnt)
      /\ Cardinality(HoldingIn(st)) <= MaxLimit
  BY <1>1, FinallyIsExact
<1>3. \A u \in Tasks : \/ st[u] = state[u]
                       \/ state[u] = "new" /\ st[u] = "queued"
                       \/ state[u] = "settled" /\ st[u] = "gone"
  BY <1>1 DEF Inv, TypeOK
<1>4. /\ open \in BOOLEAN /\ limit' = limit /\ paused' \in BOOLEAN /\ quiet' \in BOOLEAN
      /\ mode = "bare" \/ (open <=> ~paused' /\ ~stopped)
      /\ ~open => \/ paused' \/ stopped
      /\ mode = "rich" /\ quiet' => quiet /\ paused'
      /\ waiters' \in SUBSET Callers
      /\ UNCHANGED <<mode, stopped, orphans, asking>>
  BY DEF Finished, Open, Inv, TypeOK, PausedIsQuiet
<1> HIDE DEF st, cnt, open
<1> QED
  BY <1>1, <1>2, <1>3, <1>4, InvIsExact, FillingKeepsInv

\* A task that is retried goes to its delay, with its slot.
LEMMA RetriedKeepsInv ==
  ASSUME Inv, NEW t \in Tasks, NEW r \in BOOLEAN, state[t] = "running", Retried(t, r),
         state' = [state EXCEPT ![t] = "delay"],
         orphans' \in [Tasks -> Nat],
         \A u \in Tasks : IF u = t THEN orphans'[u] <= orphans[u] + 1
                                   ELSE orphans'[u] = orphans[u],
         UNCHANGED <<mode, limit, paused, stopped, attempt, active, light, asking,
                     waiters, quiet>>
  PROVE  Inv'
<1>1. TypeOK'
  BY DEF Inv, TypeOK, State
<1>2. /\ SlotsExact' /\ WithinLimit'
      /\ Queued' = Queued /\ Used' = Used /\ In("settled")' = In("settled")
  BY <1>1, HeldKeepsSlots DEF Inv, TypeOK
<1>3. AttemptsFit'
  BY DEF Inv, TypeOK, AttemptsFit, Retried
<1>4. BodiesBounded'
  <2> SUFFICES ASSUME NEW u \in Tasks
               PROVE  /\ orphans'[u] + (IF state'[u] = "running" THEN 1 ELSE 0) <= attempt[u]
                      /\ attempt[u] <= Retries + 1
    BY DEF BodiesBounded
  <2>1. /\ orphans[u] \in Nat /\ orphans'[u] \in Nat /\ attempt[u] \in Nat
        /\ orphans[u] + (IF state[u] = "running" THEN 1 ELSE 0) <= attempt[u]
        /\ attempt[u] <= Retries + 1
    BY DEF Inv, TypeOK, BodiesBounded
  <2>2. CASE u = t
    <3>1. state'[u] = "delay"
      BY <2>2 DEF Inv, TypeOK
    <3> QED
      BY <2>1, <2>2, <3>1
  <2>3. CASE u # t
    <3>1. state'[u] = state[u] /\ orphans'[u] = orphans[u]
      BY <2>3 DEF Inv, TypeOK
    <3> QED
      BY <2>1, <3>1
  <2> QED
    BY <2>2, <2>3
<1>5. WorkConserving' /\ PausedIsQuiet'
  BY <1>2 DEF Inv, WorkConserving, PausedIsQuiet
<1> QED
  BY <1>1, <1>2, <1>3, <1>4, <1>5 DEF Inv

LEMMA FailedKeepsInv ==
  ASSUME Inv, NEW t \in Tasks, NEW r \in BOOLEAN, state[t] = "running", Failed(t, r),
         orphans' \in [Tasks -> Nat],
         \A u \in Tasks : IF u = t THEN orphans'[u] <= orphans[u] + 1
                                   ELSE orphans'[u] = orphans[u],
         UNCHANGED <<mode, limit, paused, stopped, attempt, light, asking, waiters, quiet>>
  PROVE  Inv'
<1>1. CASE Retried(t, r)
  BY <1>1, RetriedKeepsInv DEF Failed
<1>2. CASE ~Retried(t, r)
  BY <1>2, SettleKeepsInv DEF Failed
<1> QED
  BY <1>1, <1>2

LEMMA WakeUpKeepsInv ==
  ASSUME Inv, NEW t \in Tasks, WakeUp(t)
  PROVE  Inv'
<1>1. TypeOK'
  BY DEF Inv, TypeOK, WakeUp, State
<1>2. /\ SlotsExact' /\ WithinLimit'
      /\ Queued' = Queued /\ Used' = Used /\ In("settled")' = In("settled")
  BY <1>1, HeldKeepsSlots DEF Inv, TypeOK, WakeUp
<1>3. AttemptsFit'
  BY DEF Inv, TypeOK, AttemptsFit, WakeUp
<1>4. BodiesBounded'
  BY DEF Inv, TypeOK, AttemptsFit, BodiesBounded, WakeUp
<1>5. WorkConserving' /\ PausedIsQuiet'
  BY <1>2 DEF Inv, WorkConserving, PausedIsQuiet, WakeUp
<1> QED
  BY <1>1, <1>2, <1>3, <1>4, <1>5 DEF Inv

LEMMA OrphanEndsKeepsInv ==
  ASSUME Inv, NEW t \in Tasks, OrphanEnds(t)
  PROVE  Inv'
<1>1. TypeOK'
  BY DEF Inv, TypeOK, OrphanEnds
<1>2. /\ SlotsExact' /\ WithinLimit'
      /\ Queued' = Queued /\ Used' = Used /\ In("settled")' = In("settled")
  BY HeldKeepsSlots DEF Inv, TypeOK, OrphanEnds
<1>3. AttemptsFit' /\ PausedIsQuiet'
  BY DEF Inv, AttemptsFit, PausedIsQuiet, OrphanEnds
<1>4. BodiesBounded'
  BY DEF Inv, TypeOK, BodiesBounded, OrphanEnds
<1>5. WorkConserving'
  BY <1>2 DEF Inv, WorkConserving, OrphanEnds
<1> QED
  BY <1>1, <1>2, <1>3, <1>4, <1>5 DEF Inv

LEMMA PauseLoopKeepsInv ==
  ASSUME Inv, NEW c \in Callers, PauseLoop(c), paused' \in BOOLEAN,
         paused => paused',
         UNCHANGED <<mode, limit, stopped, state, attempt, orphans, active, light>>
  PROVE  Inv'
<1>1. TypeOK'
  BY DEF Inv, TypeOK, PauseLoop
<1>2. /\ SlotsExact' /\ WithinLimit'
      /\ Queued' = Queued /\ Used' = Used /\ In("settled")' = In("settled")
  BY HeldKeepsSlots DEF Inv, TypeOK
<1>3. AttemptsFit' /\ BodiesBounded'
  BY DEF Inv, AttemptsFit, BodiesBounded
<1>4. WorkConserving'
  BY <1>2 DEF Inv, WorkConserving
<1>5. PausedIsQuiet'
  BY DEF Inv, PausedIsQuiet, PauseLoop
<1> QED
  BY <1>1, <1>2, <1>3, <1>4, <1>5 DEF Inv

LEMMA DrainLoopKeepsInv ==
  ASSUME Inv, NEW c \in Callers, DrainLoop(c)
  PROVE  Inv'
<1>1. TypeOK'
  BY DEF Inv, TypeOK, DrainLoop
<1>2. /\ SlotsExact' /\ WithinLimit'
      /\ Queued' = Queued /\ Used' = Used /\ In("settled")' = In("settled")
  BY HeldKeepsSlots DEF Inv, TypeOK, DrainLoop
<1>3. AttemptsFit' /\ BodiesBounded' /\ PausedIsQuiet'
  BY DEF Inv, AttemptsFit, BodiesBounded, PausedIsQuiet, DrainLoop
<1>4. WorkConserving'
  BY <1>2 DEF Inv, WorkConserving, DrainLoop
<1> QED
  BY <1>1, <1>2, <1>3, <1>4 DEF Inv

LEMMA StopKeepsInv ==
  ASSUME Inv, Stop
  PROVE  Inv'
<1>1. \A t \in Tasks : state'[t] = Stopped(t)
  BY DEF Stop
<1>2. TypeOK'
  BY DEF Inv, TypeOK, Stop, Stopped, State
<1>3. Holding' = Holding
  BY <1>1 DEF Holding, Stop, Stopped
<1>4. SlotsExact' /\ WithinLimit'
  BY <1>3 DEF Inv, SlotsExact, WithinLimit, Stop
<1>5. AttemptsFit'
  BY <1>1 DEF Inv, AttemptsFit, Stop, Stopped
<1>6. BodiesBounded'
  BY <1>1 DEF Inv, BodiesBounded, Stop, Stopped
<1>7. WorkConserving' /\ PausedIsQuiet'
  BY DEF Inv, WorkConserving, PausedIsQuiet, Stop
<1> QED
  BY <1>2, <1>4, <1>5, <1>6, <1>7 DEF Inv

LEMMA InvStep == Inv /\ [Next]_vars => Inv'
<1> SUFFICES ASSUME Inv, [Next]_vars PROVE Inv'
  OBVIOUS
<1>1. ASSUME NEW S \in SUBSET Tasks, Enqueue(S) PROVE Inv'
  BY <1>1, EnqueueKeepsInv
<1>2. ASSUME NEW n \in Limits, SetConcurrency(n) PROVE Inv'
  BY <1>2, SetConcurrencyKeepsInv
<1>3. ASSUME NEW t \in Tasks, Returns(t) PROVE Inv'
  <2>1. /\ state[t] = "running" /\ Settle(t) /\ UNCHANGED orphans
        /\ UNCHANGED <<mode, limit, paused, stopped, attempt, light, asking, waiters, quiet>>
    BY <1>3 DEF Returns
  <2>2. orphans' \in [Tasks -> Nat] /\ \A u \in Tasks : orphans'[u] = orphans[u] /\ orphans[u] \in Nat
    BY <2>1 DEF Inv, TypeOK
  <2> QED
    BY <2>1, <2>2, SettleKeepsInv
<1>4. ASSUME NEW t \in Tasks, NEW r \in BOOLEAN, Throws(t, r) PROVE Inv'
  <2>1. /\ state[t] = "running" /\ Failed(t, r) /\ UNCHANGED orphans
        /\ UNCHANGED <<mode, limit, paused, stopped, attempt, light, asking, waiters, quiet>>
    BY <1>4 DEF Throws
  <2>2. orphans' \in [Tasks -> Nat] /\ \A u \in Tasks : orphans'[u] = orphans[u] /\ orphans[u] \in Nat
    BY <2>1 DEF Inv, TypeOK
  <2> QED
    BY <2>1, <2>2, FailedKeepsInv
<1>5. ASSUME NEW t \in Tasks, NEW r \in BOOLEAN, TimesOut(t, r) PROVE Inv'
  <2>1. /\ state[t] = "running" /\ Failed(t, r)
        /\ orphans' = [orphans EXCEPT ![t] = @ + 1]
        /\ UNCHANGED <<mode, limit, paused, stopped, attempt, light, asking, waiters, quiet>>
    BY <1>5 DEF TimesOut
  <2>2. /\ orphans' \in [Tasks -> Nat]
        /\ \A u \in Tasks : IF u = t THEN orphans'[u] <= orphans[u] + 1
                                     ELSE orphans'[u] = orphans[u]
    BY <2>1 DEF Inv, TypeOK
  <2> QED
    BY <2>1, <2>2, FailedKeepsInv
<1>6. ASSUME NEW t \in Tasks, OrphanEnds(t) PROVE Inv'
  BY <1>6, OrphanEndsKeepsInv
<1>7. ASSUME NEW t \in Tasks, WakeUp(t) PROVE Inv'
  BY <1>7, WakeUpKeepsInv
<1>8. ASSUME NEW t \in Tasks, DelayAborted(t) PROVE Inv'
  <2>1. /\ state[t] = "cancelled" /\ Settle(t) /\ UNCHANGED orphans
        /\ UNCHANGED <<mode, limit, paused, stopped, attempt, light, asking, waiters, quiet>>
    BY <1>8 DEF DelayAborted
  <2>2. orphans' \in [Tasks -> Nat] /\ \A u \in Tasks : orphans'[u] = orphans[u] /\ orphans[u] \in Nat
    BY <2>1 DEF Inv, TypeOK
  <2> QED
    BY <2>1, <2>2, SettleKeepsInv
<1>9. ASSUME NEW t \in Tasks, Finished(t) PROVE Inv'
  BY <1>9, FinishedKeepsInv
<1>10. ASSUME NEW c \in Callers, Pause(c) PROVE Inv'
  BY <1>10, PauseLoopKeepsInv DEF Pause
<1>11. ASSUME NEW c \in Callers, PauseWakes(c) PROVE Inv'
  <2>1. paused' \in BOOLEAN /\ (paused => paused')
    BY <1>11 DEF PauseWakes, Inv, TypeOK
  <2> QED
    BY <1>11, <2>1, PauseLoopKeepsInv DEF PauseWakes
<1>12. ASSUME NEW c \in Callers, Drain(c) \/ DrainWakes(c) PROVE Inv'
  BY <1>12, DrainLoopKeepsInv DEF Drain, DrainWakes
<1>13. ASSUME Resume PROVE Inv'
  BY <1>13, ResumeKeepsInv
<1>14. ASSUME Stop PROVE Inv'
  BY <1>14, StopKeepsInv
<1>15. ASSUME UNCHANGED vars PROVE Inv'
  <2> USE <1>15 DEF vars
  <2>1. TypeOK' /\ SlotsExact' /\ WithinLimit'
    BY DEF Inv, TypeOK, SlotsExact, WithinLimit, Holding
  <2>2. AttemptsFit' /\ BodiesBounded' /\ PausedIsQuiet'
    BY DEF Inv, AttemptsFit, BodiesBounded, PausedIsQuiet
  <2>3. WorkConserving'
    BY DEF Inv, WorkConserving, Queued, Used, In
  <2> QED
    BY <2>1, <2>2, <2>3 DEF Inv
<1> QED
  BY <1>1, <1>2, <1>3, <1>4, <1>5, <1>6, <1>7, <1>8, <1>9, <1>10, <1>11, <1>12,
     <1>13, <1>14, <1>15 DEF Next, TaskStep, AttemptEnds, CallerStep

-----------------------------------------------------------------------------
(* The invariants of the runs.                                             *)

LEMMA PoolInvariant == Spec => []Inv
BY InvInit, InvStep, PTL DEF Spec

\* Every field of the pool stays within its type (constructor, enqueue,
\* processNext, pause, stop and drain).
THEOREM PoolTypeCorrect == Spec => []TypeOK
<1>1. Inv => TypeOK
  BY DEF Inv
<1> QED
  BY <1>1, PoolInvariant, PTL

\* The active map and _lightActiveTasks account for every slot, whichever way
\* tasks end: no slot leaks and none is freed twice (_drainQueue,
\* _processLightQueue, _processBareQueue).
THEOREM PoolSlotsExact == Spec => []SlotsExact
<1>1. Inv => SlotsExact
  BY DEF Inv
<1> QED
  BY <1>1, PoolInvariant, PTL

\* processNext is called wherever it has to be: no task waits beside a free slot
\* of a pool that is neither paused nor stopped.
THEOREM PoolWorkConserving == Spec => []WorkConserving
<1>1. Inv => WorkConserving
  BY DEF Inv
<1> QED
  BY <1>1, PoolInvariant, PTL

\* Once pause() has resolved in the rich mode, no task has a slot until resume().
THEOREM PoolPausedIsQuiet == Spec => []PausedIsQuiet
<1>1. Inv => PausedIsQuiet
  BY DEF Inv
<1> QED
  BY <1>1, PoolInvariant, PTL

\* The functions of a task that run at once, those of timed-out attempts
\* included, are at most retries + 1 (_executeTaskWithRetry, _executeWithTimeout).
THEOREM PoolBodiesBounded == Spec => []BodiesBounded
<1>1. Inv => BodiesBounded
  BY DEF Inv
<1> QED
  BY <1>1, PoolInvariant, PTL

-----------------------------------------------------------------------------
(* TasksPool implements BoundedPool.                                       *)

\* What may become of a task in one step.
After(s) ==
  CASE s = "new"       -> {"new", "queued", "running"}
    [] s = "queued"    -> {"queued", "running", "gone"}
    [] s = "running"   -> {"running", "delay", "settled"}
    [] s = "delay"     -> {"delay", "running", "cancelled"}
    [] s = "cancelled" -> {"cancelled", "settled"}
    [] s = "settled"   -> {"settled", "gone"}
    [] s = "gone"      -> {"gone"}

\* In a step that ends with processNext.
LEMMA FillingMoves ==
  ASSUME Inv, NEW open, NEW st \in [Tasks -> State], NEW cnt, NEW lim,
         ProcessNext(open, st, cnt, lim),
         \A u \in Tasks : \/ st[u] = state[u]
                          \/ state[u] = "new" /\ st[u] = "queued"
                          \/ state[u] = "settled" /\ st[u] = "gone"
  PROVE  \A u \in Tasks : state'[u] \in After(state[u])
<1>1. \A u \in Tasks : \/ state'[u] = st[u]
                       \/ st[u] = "queued" /\ state'[u] = "running"
  BY DEF ProcessNext
<1>2. \A u \in Tasks : state[u] \in State
  BY DEF Inv, TypeOK
<1> QED
  BY <1>1, <1>2 DEF After, State

LEMMA TasksMove ==
  Inv /\ [Next]_vars => \A u \in Tasks : state'[u] \in After(state[u])
<1> SUFFICES ASSUME Inv, [Next]_vars
             PROVE  \A u \in Tasks : state'[u] \in After(state[u])
  OBVIOUS
<1>0. state \in [Tasks -> State] /\ \A u \in Tasks : state[u] \in After(state[u])
  BY DEF Inv, TypeOK, After, State
<1> DEFINE Moves == \A u \in Tasks : state'[u] \in After(state[u])
<1>1. ASSUME NEW S \in SUBSET Tasks, Enqueue(S) PROVE Moves
  <2> DEFINE st == [t \in Tasks |-> IF t \in S THEN "queued" ELSE state[t]]
  <2>1. S \subseteq In("new") /\ ProcessNext(Open, st, light, limit)
    BY <1>1 DEF Enqueue
  <2>2. st \in [Tasks -> State]
    BY <1>0 DEF State
  <2>3. \A u \in Tasks : \/ st[u] = state[u]
                         \/ state[u] = "new" /\ st[u] = "queued"
                         \/ state[u] = "settled" /\ st[u] = "gone"
    BY <2>1 DEF In
  <2> HIDE DEF st
  <2> QED
    BY <2>1, <2>2, <2>3, FillingMoves
<1>2. ASSUME NEW n \in Limits, SetConcurrency(n) PROVE Moves
  BY <1>0, <1>2, FillingMoves DEF SetConcurrency
<1>3. ASSUME NEW t \in Tasks, AttemptEnds(t) \/ DelayAborted(t) PROVE Moves
  BY <1>0, <1>3 DEF AttemptEnds, Returns, Throws, TimesOut, DelayAborted, Failed,
                    Settle, After
<1>4. ASSUME NEW t \in Tasks, WakeUp(t) PROVE Moves
  BY <1>0, <1>4 DEF WakeUp, After
<1>5. ASSUME NEW t \in Tasks, Finished(t) PROVE Moves
  <2> DEFINE st == [state EXCEPT ![t] = "gone"]
  <2>1. \E open, cnt : ProcessNext(open, st, cnt, limit)
    BY <1>5 DEF Finished
  <2>2. st \in [Tasks -> State]
    BY <1>0 DEF State
  <2>3. \A u \in Tasks : \/ st[u] = state[u]
                         \/ state[u] = "new" /\ st[u] = "queued"
                         \/ state[u] = "settled" /\ st[u] = "gone"
    BY <1>0, <1>5 DEF Finished
  <2> HIDE DEF st
  <2> QED
    BY <2>1, <2>2, <2>3, FillingMoves
<1>6. ASSUME Resume PROVE Moves
  BY <1>0, <1>6, FillingMoves DEF Resume
<1>7. ASSUME Stop PROVE Moves
  BY <1>0, <1>7 DEF Stop, Stopped, After
<1>8. ASSUME UNCHANGED state PROVE Moves
  BY <1>0, <1>8
<1>9. ASSUME NEW t \in Tasks, OrphanEnds(t) PROVE UNCHANGED state
  BY <1>9 DEF OrphanEnds
<1>10. ASSUME NEW c \in Callers, CallerStep(c) PROVE UNCHANGED state
  BY <1>10 DEF CallerStep, Pause, PauseWakes, Drain, DrainWakes, DrainLoop
<1> QED
  BY <1>1, <1>2, <1>3, <1>4, <1>5, <1>6, <1>7, <1>8, <1>9, <1>10
     DEF Next, TaskStep, vars

LEMMA PromiseInit == Init => Promise!Init
BY DEF Init, Promise!Init, Phase

LEMMA PromiseStep == Inv /\ Inv' /\ [Next]_vars => Promise!Next
<1> SUFFICES ASSUME Inv, Inv', [Next]_vars PROVE Promise!Next
  OBVIOUS
<1>1. \A t \in Tasks : state[t] \in State /\ state'[t] \in State /\ state'[t] \in After(state[t])
  BY TasksMove DEF Inv, TypeOK
<1>2. [t \in Tasks |-> Phase(t)]' \in [Tasks -> Promise!Phase]
  BY <1>1 DEF Phase, Promise!Phase, State
<1>3. \A t \in Tasks : Phase(t)' \in Promise!Onward(Phase(t))
  BY <1>1 DEF Phase, Promise!Onward, Promise!Phase, State, After
<1>4. Promise!Held' \in {S \in SUBSET Tasks : Cardinality(S) <= MaxLimit}
  <2>1. Promise!Held' \in SUBSET Holding'
    BY <1>1 DEF Promise!Held, Holding, Phase, State
  <2>2. Holding' \in SUBSET Tasks
    BY DEF Holding
  <2>3. IsFiniteSet(Holding') /\ Cardinality(Holding') \in Nat
    BY <2>2, FS_Subset, FS_CardinalityType
  <2>4. /\ Cardinality(Promise!Held') <= Cardinality(Holding')
        /\ Cardinality(Promise!Held') \in Nat
    BY <2>1, <2>3, FS_Subset, FS_CardinalityType
  <2> QED
    BY <2>1, <2>2, <2>3, <2>4 DEF Inv, WithinLimit
<1>5. \A t \in Tasks : [u \in Tasks |-> Phase(u)]'[t]
                        \in Promise!Onward([u \in Tasks |-> Phase(u)][t])
  BY <1>3
<1> QED
  BY <1>2, <1>4, <1>5 DEF Promise!Next

\* Whatever callers do, a task goes from waiting to a slot to settled and never
\* back, settles once, and at most MaxLimit tasks have a slot.
THEOREM PoolImplementsPromise == Spec => PoolKeepsPromise
<1>1. Inv /\ Inv' /\ [Next]_vars => [Promise!Next]_([t \in Tasks |-> Phase(t)])
  BY PromiseStep
<1> QED
  BY <1>1, PromiseInit, PoolInvariant, PTL DEF Spec, PoolKeepsPromise, Promise!Spec
=============================================================================
