----------------------------- MODULE TasksPool ------------------------------
(***************************************************************************)
(* The bounded task pool of src/core/src/tasks/tasks-pool.class.ts: tasks  *)
(* wait in a queue for one of effectiveConcurrency slots, an attempt that  *)
(* fails is retried after a delay, an attempt that times out is abandoned  *)
(* while its function goes on running, and callers pause, resume, stop and *)
(* drain the pool.                                                         *)
(*                                                                         *)
(* The code runs on one thread, so a step is what happens between two      *)
(* turns of the event loop: processNext with its whole loop, the .then or  *)
(* .catch that settles a task, the .finally that follows it.  The queue's  *)
(* order (fifo in the light modes, priority with aging in the rich one) is *)
(* left out: any waiting task may be the next.  Events, metrics and the    *)
(* tuner, which calls setConcurrency, only observe.                        *)
(***************************************************************************)
EXTENDS Naturals, FiniteSets

CONSTANTS
  Tasks,          \* the tasks that may be enqueued
  Callers,        \* those who call pause and drain
  Modes,          \* the profiles a pool may be built with
  Limits,         \* the concurrencies the constructor and setConcurrency take
  MaxLimit,       \* the largest of them
  Retries,        \* task.retries
  SkipThreshold   \* retryStrategy.pressureSkipThreshold

ASSUME TasksPoolAssumption ==
  /\ IsFiniteSet(Tasks)
  /\ Modes \subseteq {"rich", "light", "bare"}
  /\ MaxLimit \in Nat
  /\ Limits \subseteq 1..MaxLimit
  /\ Retries \in Nat
  /\ SkipThreshold \in Nat

VARIABLES
  mode,      \* lightMode and bareMode: "rich" is neither
  limit,     \* _effectiveConcurrency
  paused, stopped,
  state,     \* where each task is
  attempt,   \* the attempts of each task begun so far
  orphans,   \* functions of timed-out attempts that still run
  active,    \* the tasks in the active map, which only the rich mode fills
  light,     \* _lightActiveTasks, which only the light modes count
  asking,    \* what each caller awaits: pause, drain or nothing
  waiters,   \* the callers in _activeWaiters
  quiet      \* history: a pause has resolved since the last resume

vars == <<mode, limit, paused, stopped, state, attempt, orphans, active, light,
          asking, waiters, quiet>>

\* A task whose promise has settled is "settled" until its .finally has run.
State == {"new", "queued", "running", "delay", "cancelled", "settled", "gone"}

TypeOK ==
  /\ mode \in Modes /\ limit \in Limits
  /\ paused \in BOOLEAN /\ stopped \in BOOLEAN /\ quiet \in BOOLEAN
  /\ state \in [Tasks -> State]
  /\ attempt \in [Tasks -> Nat]
  /\ orphans \in [Tasks -> Nat]
  /\ active \in SUBSET Tasks
  /\ light \in Nat
  /\ asking \in [Callers -> {"none", "pausing", "draining"}]
  /\ waiters \in SUBSET Callers

Init ==
  /\ mode \in Modes /\ limit \in Limits
  /\ paused = FALSE /\ stopped = FALSE /\ quiet = FALSE
  /\ state = [t \in Tasks |-> "new"]
  /\ attempt = [t \in Tasks |-> 0]
  /\ orphans = [t \in Tasks |-> 0]
  /\ active = {} /\ light = 0
  /\ asking = [c \in Callers |-> "none"]
  /\ waiters = {}

-----------------------------------------------------------------------------
In(s) == {t \in Tasks : state[t] = s}

Queued == In("queued")

\* _currentActiveCount
Used == IF mode = "rich" THEN Cardinality(active) ELSE light

Open == ~paused /\ ~stopped

\* A drain that finds tasks queued and no slot in use awaits nothing and asks
\* again at once: it holds the thread against everything but promises.
Spinning ==
  /\ \E c \in Callers : asking[c] = "draining" /\ c \notin waiters
  /\ Used = 0 /\ Queued # {} /\ In("settled") = {}

Call == ~Spinning

\* Mutant of Fits: the loop compares with <= instead of <.
FitsOneMore(S, q, used, lim) ==
  /\ S # {} => used + Cardinality(S) <= lim + 1
  /\ S # q => used + Cardinality(S) >= lim

\* S is what the loop takes from q: as many tasks as there are free slots.
Fits(S, q, used, lim) ==
  /\ S # {} => used + Cardinality(S) <= lim
  /\ S # q => used + Cardinality(S) >= lim

\* processNext: start what fits, when the pool is open.  The arguments are the
\* fields as the caller has left them.
ProcessNext(open, st, cnt, lim) ==
  LET q    == {t \in Tasks : st[t] = "queued"}
      used == IF mode = "rich" THEN Cardinality(active) ELSE cnt
  IN \E S \in SUBSET q :
       /\ IF open THEN Fits(S, q, used, lim) ELSE S = {}
       /\ state' = [t \in Tasks |-> IF t \in S THEN "running" ELSE st[t]]
       /\ attempt' = [t \in Tasks |-> IF t \in S THEN 1 ELSE attempt[t]]
       /\ active' = IF mode = "rich" THEN active \cup S ELSE active
       /\ light' = IF mode = "rich" THEN cnt ELSE cnt + Cardinality(S)

-----------------------------------------------------------------------------
(* What callers do with tasks.                                             *)

\* enqueue of one task, addBatch of several: accepted in a pool that is paused
\* or stopped as well.
Enqueue(S) ==
  /\ Call
  /\ S # {} /\ S \subseteq In("new")
  /\ ProcessNext(Open, [t \in Tasks |-> IF t \in S THEN "queued" ELSE state[t]],
                 light, limit)
  /\ UNCHANGED <<mode, limit, paused, stopped, orphans, asking, waiters, quiet>>

SetConcurrency(n) ==
  /\ Call
  /\ limit' = n
  /\ ProcessNext(Open, state, light, n)
  /\ UNCHANGED <<mode, paused, stopped, orphans, asking, waiters, quiet>>

-----------------------------------------------------------------------------
(* The life of a task that has a slot.                                     *)

\* Mutant of Settle: the active map keeps the task.
SettleLeaks(t) ==
  /\ state' = [state EXCEPT ![t] = "settled"]
  /\ UNCHANGED active

\* The .then or .catch of the task: the rich mode frees the slot here.
Settle(t) ==
  /\ state' = [state EXCEPT ![t] = "settled"]
  /\ active' = active \ {t}

\* _computeRetryDelay gives up when the pool is under too much pressure.
Pressed == Cardinality(Queued) + Cardinality(active) >= SkipThreshold * limit

\* Mutant of Retried: attempt <= task.retries, where the code has <.
RetriedOnceMore(t, retryable) ==
  retryable /\ mode # "bare" /\ attempt[t] <= Retries + 1 /\ ~Pressed

Retried(t, retryable) ==
  retryable /\ mode # "bare" /\ attempt[t] <= Retries /\ ~Pressed

\* _executeTaskWithRetry after an attempt that threw.
Failed(t, retryable) ==
  IF Retried(t, retryable)
  THEN state' = [state EXCEPT ![t] = "delay"] /\ UNCHANGED active
  ELSE Settle(t)

Returns(t) ==
  /\ state[t] = "running"
  /\ Settle(t)
  /\ UNCHANGED <<mode, limit, paused, stopped, attempt, orphans, light, asking,
                 waiters, quiet>>

Throws(t, retryable) ==
  /\ state[t] = "running"
  /\ Failed(t, retryable)
  /\ UNCHANGED <<mode, limit, paused, stopped, attempt, orphans, light, asking,
                 waiters, quiet>>

\* _executeWithTimeout: the function is only told to abort.
TimesOut(t, retryable) ==
  /\ state[t] = "running" /\ mode # "bare"
  /\ orphans' = [orphans EXCEPT ![t] = @ + 1]
  /\ Failed(t, retryable)
  /\ UNCHANGED <<mode, limit, paused, stopped, attempt, light, asking, waiters,
                 quiet>>

OrphanEnds(t) ==
  /\ orphans[t] > 0
  /\ orphans' = [orphans EXCEPT ![t] = @ - 1]
  /\ UNCHANGED <<mode, limit, paused, stopped, state, attempt, active, light,
                 asking, waiters, quiet>>

\* The retry delay is over: neither paused nor stopped is asked.
WakeUp(t) ==
  /\ state[t] = "delay"
  /\ state' = [state EXCEPT ![t] = "running"]
  /\ attempt' = [attempt EXCEPT ![t] = @ + 1]
  /\ UNCHANGED <<mode, limit, paused, stopped, orphans, active, light, asking,
                 waiters, quiet>>

\* stop has aborted the delay, which throws out of the retry loop.
DelayAborted(t) ==
  /\ state[t] = "cancelled"
  /\ Settle(t)
  /\ UNCHANGED <<mode, limit, paused, stopped, attempt, orphans, light, asking,
                 waiters, quiet>>

\* Mutant of Finished: every mode counts down.
FinishedCountsDown(t) ==
  /\ state[t] = "settled"
  /\ waiters' = {}
  /\ ProcessNext(mode = "bare" \/ Open, [state EXCEPT ![t] = "gone"], light - 1, limit)
  /\ UNCHANGED <<mode, limit, paused, stopped, orphans, asking, quiet>>

\* Mutant of Finished: the waiters are forgotten.
FinishedWakesNobody(t) ==
  /\ state[t] = "settled"
  /\ ProcessNext(mode = "bare" \/ Open, [state EXCEPT ![t] = "gone"],
                 IF mode = "rich" THEN light ELSE light - 1, limit)
  /\ UNCHANGED <<mode, limit, paused, stopped, orphans, asking, waiters, quiet>>

\* The .finally of the task: the light modes free the slot here, the waiters are
\* woken, and the next tasks start; the bare mode does not ask whether it may.
Finished(t) ==
  /\ state[t] = "settled"
  /\ waiters' = {}
  /\ ProcessNext(mode = "bare" \/ Open, [state EXCEPT ![t] = "gone"],
                 IF mode = "rich" THEN light ELSE light - 1, limit)
  /\ UNCHANGED <<mode, limit, paused, stopped, orphans, asking, quiet>>

-----------------------------------------------------------------------------
(* pause, resume, stop and drain.                                          *)

\* pause asks the active map, which is always empty in the light modes.
PauseLoop(c) ==
  IF active = {}
  THEN /\ asking' = [asking EXCEPT ![c] = "none"]
       /\ quiet' = paused'
       /\ UNCHANGED waiters
  ELSE /\ asking' = [asking EXCEPT ![c] = "pausing"]
       /\ waiters' = waiters \cup {c}
       /\ UNCHANGED quiet

Pause(c) ==
  /\ Call /\ asking[c] = "none"
  /\ paused' = TRUE
  /\ PauseLoop(c)
  /\ UNCHANGED <<mode, limit, stopped, state, attempt, orphans, active, light>>

\* Mutant of PauseWakes: an if instead of the while.
PauseWakesOnce(c) ==
  /\ asking[c] = "pausing" /\ c \notin waiters
  /\ asking' = [asking EXCEPT ![c] = "none"]
  /\ quiet' = paused
  /\ UNCHANGED <<mode, limit, paused, stopped, state, attempt, orphans, active,
                 light, waiters>>

PauseWakes(c) ==
  /\ asking[c] = "pausing" /\ c \notin waiters
  /\ UNCHANGED paused
  /\ PauseLoop(c)
  /\ UNCHANGED <<mode, limit, stopped, state, attempt, orphans, active, light>>

\* Mutant of Resume: nothing starts what waits.
ResumeOnly ==
  /\ Call
  /\ paused' = FALSE /\ quiet' = FALSE
  /\ UNCHANGED <<mode, limit, stopped, state, attempt, orphans, active, light,
                 asking, waiters>>

Resume ==
  /\ Call
  /\ paused' = FALSE /\ quiet' = FALSE
  /\ ProcessNext(~stopped, state, light, limit)
  /\ UNCHANGED <<mode, limit, stopped, orphans, asking, waiters>>

\* Mutant of Stopped: the queue is not flushed.
StoppedKeepsQueue(t) ==
  IF state[t] = "delay" /\ t \in active THEN "cancelled" ELSE state[t]

\* stop rejects what is queued and aborts the delays of the tasks in the active
\* map; the attempts that run are only told to abort.
Stopped(t) ==
  CASE state[t] = "queued" -> "gone"
    [] state[t] = "delay" /\ t \in active -> "cancelled"
    [] OTHER -> state[t]

Stop ==
  /\ Call
  /\ stopped' = TRUE
  /\ state' = [t \in Tasks |-> Stopped(t)]
  /\ UNCHANGED <<mode, limit, paused, attempt, orphans, active, light, asking,
                 waiters, quiet>>

DrainLoop(c) ==
  /\ asking' = [asking EXCEPT ![c] = IF Queued = {} /\ Used = 0 THEN "none"
                                     ELSE "draining"]
  /\ waiters' = IF Used = 0 THEN waiters ELSE waiters \cup {c}
  /\ UNCHANGED <<mode, limit, paused, stopped, state, attempt, orphans, active,
                 light, quiet>>

Drain(c) == Call /\ asking[c] = "none" /\ DrainLoop(c)

DrainWakes(c) == asking[c] = "draining" /\ c \notin waiters /\ DrainLoop(c)

-----------------------------------------------------------------------------
AttemptEnds(t) ==
  \/ Returns(t)
  \/ \E r \in BOOLEAN : Throws(t, r) \/ TimesOut(t, r)

TaskStep(t) ==
  AttemptEnds(t) \/ OrphanEnds(t) \/ WakeUp(t) \/ DelayAborted(t) \/ Finished(t)

CallerStep(c) == Pause(c) \/ PauseWakes(c) \/ Drain(c) \/ DrainWakes(c)

Next ==
  \/ \E S \in SUBSET Tasks : Enqueue(S)
  \/ \E n \in Limits : SetConcurrency(n)
  \/ \E t \in Tasks : TaskStep(t)
  \/ \E c \in Callers : CallerStep(c)
  \/ Resume
  \/ Stop

Spec == Init /\ [][Next]_vars

\* An attempt ends, by its timeout at the latest (in the bare mode, which
\* enforces none, because its function does); timers fire; promises run.
Fairness ==
  /\ \A t \in Tasks : /\ WF_vars(AttemptEnds(t))
                      /\ WF_vars(WakeUp(t))
                      /\ WF_vars(DelayAborted(t))
                      /\ WF_vars(Finished(t))
  /\ \A c \in Callers : WF_vars(PauseWakes(c)) /\ WF_vars(DrainWakes(c))

FairSpec == Spec /\ Fairness

-----------------------------------------------------------------------------
(* Properties.                                                             *)

Holding ==
  {t \in Tasks : state[t] \in {"running", "delay", "cancelled"} \cup
                              IF mode = "rich" THEN {} ELSE {"settled"}}

\* The active map of the rich mode and the counter of the light modes say
\* exactly which and how many tasks have a slot: none leaks and none is freed
\* twice, whichever of return, failure, timeout, abort and stop ends a task.
SlotsExact ==
  IF mode = "rich" THEN active = Holding /\ light = 0
                   ELSE active = {} /\ light = Cardinality(Holding)

\* A pool never leaves a task waiting beside a free slot unless it was paused or
\* stopped: every event that frees a slot, adds a task or raises the limit is
\* followed by processNext (the .finally of a task is still to come after its
\* .then).  So these are also the only pools in which a drain spins.
WorkConserving ==
  Queued # {} /\ Used < limit /\ In("settled") = {} => paused \/ stopped

\* When pause() has resolved on a pool of the rich mode, no task has a slot
\* until resume(): not one that was between two attempts, and none that a
\* .finally, an enqueue or a higher limit would start.
PausedIsQuiet == mode = "rich" /\ quiet => paused /\ active = {}

\* The functions of one task that run at once, the one its attempt awaits and
\* those of abandoned attempts, never outnumber the attempts begun, and those
\* never exceed retries + 1: the concurrency does not bound them, retries does.
BodiesBounded ==
  \A t \in Tasks :
    /\ orphans[t] + (IF state[t] = "running" THEN 1 ELSE 0) <= attempt[t]
    /\ attempt[t] <= Retries + 1

Phase(t) ==
  CASE state[t] = "new" -> "new"
    [] state[t] = "queued" -> "waiting"
    [] state[t] \in {"running", "delay", "cancelled"} -> "held"
    [] state[t] \in {"settled", "gone"} -> "settled"

Promise == INSTANCE BoundedPool WITH
             Crowds <- {S \in SUBSET Tasks : Cardinality(S) <= MaxLimit},
             phase  <- [t \in Tasks |-> Phase(t)]

\* Every task goes forward only and settles once, with at most MaxLimit of them
\* worked on at a time.
PoolKeepsPromise == Promise!Spec

\* In a pool that is not left paused, a task enqueued before stop settles.
TasksSettle ==
  (<>[]~paused) =>
    \A t \in Tasks : (state[t] = "queued" /\ ~stopped) ~> (state[t] \in {"settled", "gone"})

\* A drain returns, unless it comes to spin on tasks that nothing will start.
DrainEnds ==
  \A c \in Callers : (asking[c] = "draining") ~> (asking[c] = "none" \/ Spinning)
=============================================================================
