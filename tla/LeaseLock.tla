----------------------------- MODULE LeaseLock ------------------------------
(***************************************************************************)
(* DistributedLock (core/src/concerns/distributed-lock.ts) over a          *)
(* PluginStorage: a lock is one object, created by a conditional put       *)
(* (ifNoneMatch '*') whose payload carries the owner's token and the time  *)
(* its lease ends.  Every call to the storage is asynchronous, so the      *)
(* loop of acquire, release and isLocked is cut at each await: other       *)
(* workers and the clock run between two steps of one call.                *)
(*                                                                         *)
(* Time is counted down: `left' is the number of ticks before a lease      *)
(* ends, -1 once now > _expiresAt.  A worker of Reclaimers passes acquire  *)
(* a positive timeout or calls isLocked/getLockInfo, and so may judge a    *)
(* lock expired and delete it; the others pass `timeout: 0' (the default)  *)
(* and give up at the first refused put.                                   *)
(***************************************************************************)
EXTENDS Integers

CONSTANTS
  Worker,       \* the processes that share the lock
  Token,        \* what idGenerator() returns; a token is reused once nothing holds it
  NoToken,
  NoEntry,      \* the lock object does not exist
  Ttl,          \* the lease, in ticks
  Reclaimers,   \* the workers that may delete an expired lock
  Timely,       \* nobody alive lets its own lease, or a snapshot of a lease, run out
  ReadFaults,   \* storage.get may throw
  MaxFaults     \* bound on the crashes, lost answers and failed deletes of one behaviour

ASSUME LeaseLockAssumption ==
  /\ NoToken \notin Token
  /\ NoEntry \notin [token : Token, left : Int]
  /\ Ttl \in Nat
  /\ Reclaimers \subseteq Worker
  /\ Timely \in BOOLEAN
  /\ ReadFaults \in BOOLEAN
  /\ MaxFaults \in Nat

VARIABLES
  entry,    \* the lock object: NoEntry or [token, left]
  pc,       \* where each worker is in its call
  goal,     \* which call: acquire, release, or probe (isLocked, getLockInfo)
  token,    \* the token of the worker's payload, then of its handle
  left,     \* ticks before the lease of that payload ends
  seen,     \* what the worker's last storage.get returned
  faults

lockVars == <<entry, pc, goal, token, left, seen, faults>>

Left    == -1 .. Ttl
Payload == [token : Token, left : Left]
PC      == {"idle", "putting", "reading", "judging", "deleting", "backoff",
            "holding", "down"}

LockTypeOK ==
  /\ entry \in Payload \cup {NoEntry}
  /\ pc \in [Worker -> PC]
  /\ goal \in [Worker -> {"acquire", "release", "probe"}]
  /\ token \in [Worker -> Token \cup {NoToken}]
  /\ left \in [Worker -> Left]
  /\ seen \in [Worker -> Payload \cup {NoEntry}]
  /\ faults \in 0 .. MaxFaults

LockInit ==
  /\ entry = NoEntry
  /\ pc = [w \in Worker |-> "idle"]
  /\ goal = [w \in Worker |-> "probe"]
  /\ token = [w \in Worker |-> NoToken]
  /\ left = [w \in Worker |-> -1]
  /\ seen = [w \in Worker |-> NoEntry]
  /\ faults = 0

-----------------------------------------------------------------------------
\* Mutant: expired in the last tick of the lease.
ExpiredOneTickEarly(l) == l # NoEntry /\ l.left <= 0

\* now > _expiresAt
Expired(l) == l # NoEntry /\ l.left < 0

\* Mutant: time is counted past the end of the lease.
DropFurther(n) == n - 1

Drop(n) == IF n >= 0 THEN n - 1 ELSE n
DropLease(l) == IF l = NoEntry THEN l ELSE [l EXCEPT !.left = Drop(@)]

\* A token no live worker and no stored lock carries.
Fresh(t) == /\ \A w \in Worker : token[w] # t
            /\ entry # NoEntry => entry.token # t

\* Something goes wrong that can leave a lock object behind.
Fault == faults < MaxFaults /\ faults' = faults + 1

Goto(w, where) == pc' = [pc EXCEPT ![w] = where]

\* The call returns: its handle and snapshot are gone.
Return(w) ==
  /\ Goto(w, "idle")
  /\ token' = [token EXCEPT ![w] = NoToken]
  /\ left' = [left EXCEPT ![w] = -1]
  /\ seen' = [seen EXCEPT ![w] = NoEntry]

\* Mutant: the payload stamped before the loop is sent again.
SendPutUnstamped(w) ==
  /\ Goto(w, "putting")
  /\ seen' = [seen EXCEPT ![w] = NoEntry]
  /\ UNCHANGED <<token, left>>

\* The head of acquire's loop: a payload stamped with the present time is sent.
SendPut(w) ==
  /\ Goto(w, "putting")
  /\ left' = [left EXCEPT ![w] = Ttl]
  /\ seen' = [seen EXCEPT ![w] = NoEntry]
  /\ UNCHANGED token

-----------------------------------------------------------------------------
BeginAcquire(w) ==
  /\ pc[w] = "idle"
  /\ \E t \in Token : Fresh(t) /\ token' = [token EXCEPT ![w] = t]
  /\ goal' = [goal EXCEPT ![w] = "acquire"]
  /\ Goto(w, "putting")
  /\ left' = [left EXCEPT ![w] = Ttl]
  /\ UNCHANGED <<entry, seen, faults>>

\* Mutant: a put without ifNoneMatch.
PutUnconditionally(w) ==
  /\ pc[w] = "putting"
  /\ entry' = [token |-> token[w], left |-> left[w]]
  /\ Goto(w, "holding")
  /\ UNCHANGED <<goal, token, left, seen, faults>>

\* The storage accepts the conditional put: acquire returns a handle.
PutAccepted(w) ==
  /\ pc[w] = "putting"
  /\ entry = NoEntry
  /\ entry' = [token |-> token[w], left |-> left[w]]
  /\ Goto(w, "holding")
  /\ UNCHANGED <<goal, token, left, seen, faults>>

\* 412 and the timeout has passed: acquire returns null.
PutRefusedGiveUp(w) ==
  /\ pc[w] = "putting"
  /\ entry # NoEntry
  /\ Return(w)
  /\ UNCHANGED <<entry, goal, faults>>

\* 412 with time left: acquire reads who holds the lock.
PutRefusedRead(w) ==
  /\ w \in Reclaimers
  /\ pc[w] = "putting"
  /\ entry # NoEntry
  /\ Goto(w, "reading")
  /\ UNCHANGED <<entry, goal, token, left, seen, faults>>

\* Any other error is thrown; the put may have been applied, its answer lost.
PutThrows(w) ==
  /\ pc[w] = "putting"
  /\ \/ UNCHANGED <<entry, faults>>
     \/ /\ entry = NoEntry
        /\ entry' = [token |-> token[w], left |-> left[w]]
        /\ Fault
  /\ Return(w)
  /\ UNCHANGED goal

Read(w) ==
  /\ pc[w] = "reading"
  /\ seen' = [seen EXCEPT ![w] = entry]
  /\ Goto(w, "judging")
  /\ UNCHANGED <<entry, goal, token, left, faults>>

\* storage.get throws: acquire, release and isLocked all delete the lock.
ReadThrows(w) ==
  /\ ReadFaults
  /\ pc[w] = "reading"
  /\ Goto(w, "deleting")
  /\ UNCHANGED <<entry, goal, token, left, seen, faults>>

\* The answer of get is judged against the time at which it is looked at.
\* PluginStorage.get deletes an expired object for release and acquire alike.
JudgeExpired(w) ==
  /\ pc[w] = "judging"
  /\ Expired(seen[w])
  /\ Goto(w, "deleting")
  /\ UNCHANGED <<entry, goal, token, left, seen, faults>>

JudgeAcquire(w) ==
  /\ pc[w] = "judging"
  /\ goal[w] = "acquire"
  /\ \/ seen[w] = NoEntry /\ SendPut(w)
     \/ /\ seen[w] # NoEntry
        /\ ~Expired(seen[w])
        /\ Goto(w, "backoff")
        /\ seen' = [seen EXCEPT ![w] = NoEntry]
        /\ UNCHANGED <<token, left>>
  /\ UNCHANGED <<entry, goal, faults>>

JudgeProbe(w) ==
  /\ pc[w] = "judging"
  /\ goal[w] = "probe"
  /\ ~Expired(seen[w])
  /\ Return(w)
  /\ UNCHANGED <<entry, goal, faults>>

\* release deletes the lock it read if that lock carries its token.
Mine(w) == seen[w] # NoEntry /\ seen[w].token = token[w]

JudgeRelease(w) ==
  /\ pc[w] = "judging"
  /\ goal[w] = "release"
  /\ ~Expired(seen[w])
  /\ \/ Mine(w) /\ Goto(w, "deleting") /\ UNCHANGED <<token, left, seen>>
     \/ ~Mine(w) /\ Return(w)
  /\ UNCHANGED <<entry, goal, faults>>

\* After the delete, acquire goes round its loop and the other calls return.
AfterDelete(w) == IF goal[w] = "acquire" THEN SendPut(w) ELSE Return(w)

\* Mutant: a delete that spares any lock but the worker's own.
DeleteOwnOnly(w) ==
  /\ pc[w] = "deleting"
  /\ entry' = IF entry # NoEntry /\ entry.token = token[w] THEN NoEntry ELSE entry
  /\ AfterDelete(w)
  /\ UNCHANGED <<goal, faults>>

\* The delete names the key alone: it removes whatever is there now.
Delete(w) ==
  /\ pc[w] = "deleting"
  /\ entry' = NoEntry
  /\ AfterDelete(w)
  /\ UNCHANGED <<goal, faults>>

\* A failed delete is swallowed by tryFn.
DeleteFails(w) ==
  /\ pc[w] = "deleting"
  /\ Fault
  /\ AfterDelete(w)
  /\ UNCHANGED <<entry, goal>>

WakeUp(w) ==
  /\ pc[w] = "backoff"
  /\ SendPut(w)
  /\ UNCHANGED <<entry, goal, faults>>

BeginRelease(w) ==
  /\ pc[w] = "holding"
  /\ goal' = [goal EXCEPT ![w] = "release"]
  /\ Goto(w, "reading")
  /\ UNCHANGED <<entry, token, left, seen, faults>>

BeginProbe(w) ==
  /\ w \in Reclaimers
  /\ pc[w] = "idle"
  /\ goal' = [goal EXCEPT ![w] = "probe"]
  /\ Goto(w, "reading")
  /\ UNCHANGED <<entry, token, left, seen, faults>>

\* The process dies wherever it is; its lock object stays.
Crash(w) ==
  /\ pc[w] # "down"
  /\ Fault
  /\ Goto(w, "down")
  /\ token' = [token EXCEPT ![w] = NoToken]
  /\ left' = [left EXCEPT ![w] = -1]
  /\ seen' = [seen EXCEPT ![w] = NoEntry]
  /\ UNCHANGED <<entry, goal>>

Restart(w) ==
  /\ pc[w] = "down"
  /\ Goto(w, "idle")
  /\ UNCHANGED <<entry, goal, token, left, seen, faults>>

\* A lease the worker needs until its call is over.
Leased(w) == \/ pc[w] \in {"putting", "holding"}
             \/ goal[w] = "release" /\ pc[w] \in {"reading", "judging", "deleting"}

OnTime(w) == /\ Leased(w) => left[w] > 0
             /\ pc[w] = "judging" /\ seen[w] # NoEntry => seen[w].left # 0

Tick ==
  /\ Timely => \A w \in Worker : OnTime(w)
  /\ entry' = DropLease(entry)
  /\ left' = [w \in Worker |-> Drop(left[w])]
  /\ seen' = [w \in Worker |-> DropLease(seen[w])]
  /\ UNCHANGED <<pc, goal, token, faults>>

Judge(w) == JudgeExpired(w) \/ JudgeAcquire(w) \/ JudgeProbe(w) \/ JudgeRelease(w)

Put(w) == PutAccepted(w) \/ PutRefusedGiveUp(w) \/ PutRefusedRead(w) \/ PutThrows(w)

\* Every step of a call but the start of release, which the caller decides.
CallStep(w) == \/ BeginAcquire(w) \/ BeginProbe(w) \/ Put(w)
               \/ Read(w) \/ ReadThrows(w) \/ Judge(w)
               \/ Delete(w) \/ DeleteFails(w) \/ WakeUp(w)
               \/ Restart(w)

LockNext == \/ \E w \in Worker : CallStep(w) \/ BeginRelease(w) \/ Crash(w)
            \/ Tick

LockSpec == LockInit /\ [][LockNext]_lockVars

-----------------------------------------------------------------------------
(***************************************************************************)
(* Fairness.  The clock moves and the event loop of a live process runs    *)
(* every pending continuation; callers come back (queue pollers,           *)
(* consolidation and cron timers call acquire again).  Strong fairness     *)
(* says of a caller that comes back for ever that its timeout is not over  *)
(* every single time.                                                      *)
(***************************************************************************)
EventLoop(w) ==
  \/ BeginAcquire(w) \/ Put(w) \/ Read(w) \/ Judge(w) \/ Delete(w) \/ DeleteFails(w)
  \/ WakeUp(w) \/ BeginRelease(w) \/ Restart(w)

LockFairness ==
  /\ WF_lockVars(Tick)
  /\ \A w \in Worker : WF_lockVars(EventLoop(w))
  /\ \A w \in Reclaimers : SF_lockVars(PutRefusedRead(w))

FairLockSpec == LockSpec /\ LockFairness

-----------------------------------------------------------------------------
Holding(w) == pc[w] = "holding"
InLease(w) == Holding(w) /\ left[w] >= 0

\* Two workers are never both between acquire and release with leases that
\* have not run out: the token, the conditional put and the expiry check of
\* DistributedLock together keep a critical section exclusive.
MutualExclusion == \A v, w \in Worker : InLease(v) /\ InLease(w) => v = w

\* acquire hands the lock over only after the last holder has let go or died.
Lease == INSTANCE ExclusiveLease WITH holders <- {w \in Worker : Holding(w)}
GrantsOneAtATime == Lease!Spec

Abandoned == /\ entry # NoEntry
             /\ \A w \in Worker : token[w] # entry.token

\* A lock whose owner crashed, or whose put was applied but never answered, is
\* eventually removed: its lease ends and acquire or isLocked deletes it.
AbandonedLockReclaimed == Abandoned ~> entry = NoEntry

-----------------------------------------------------------------------------
\* When the lock keeps its promise: calls finish within their leases, reads do
\* not fail, and at most one worker deletes expired locks unless no lock is
\* ever left behind.
SafeUse == /\ Timely
           /\ ~ReadFaults
           /\ MaxFaults = 0 \/ \A v, w \in Reclaimers : v = w

InCall(w)    == pc[w] \in {"reading", "judging", "deleting"}
Owner(w)     == Holding(w) \/ (goal[w] = "release" /\ InCall(w))
Acquiring(w) == goal[w] = "acquire" /\ (pc[w] \in {"putting", "backoff"} \/ InCall(w))
Removing(w)  == /\ goal[w] # "release"
                /\ pc[w] = "deleting" \/ (pc[w] = "judging" /\ Expired(seen[w]))

PhasesOK == \A w \in Worker :
  /\ pc[w] \in {"putting", "backoff", "holding"} => goal[w] = "acquire"
  /\ InCall(w) /\ goal[w] # "release" => w \in Reclaimers
  /\ pc[w] = "putting" => left[w] >= 0

TokensOK ==
  /\ \A v, w \in Worker : token[v] = token[w] /\ token[v] # NoToken => v = w
  /\ \A w \in Worker : Acquiring(w) \/ Owner(w) => token[w] # NoToken
  /\ \A w \in Worker : Acquiring(w) /\ entry # NoEntry => entry.token # token[w]

\* Whoever is between acquire and the end of release still has its lock object,
\* and the object and the handle agree on when the lease ends.
OwnersOK == \A w \in Worker :
  /\ Owner(w) => /\ entry # NoEntry
                 /\ entry.token = token[w]
                 /\ entry.left = left[w]
                 /\ left[w] >= 0
  /\ Owner(w) /\ pc[w] = "judging" => seen[w] # NoEntry /\ seen[w].token = token[w]

\* A worker about to delete an expired lock is about to delete that very lock.
RemovalsOK == \A w \in Worker : Removing(w) => entry # NoEntry /\ entry.left < 0

\* With no fault, every lock object has an owner.
OrphansOK == MaxFaults = 0 /\ entry # NoEntry => \E w \in Worker : Owner(w)

\* Why the lock is exclusive under SafeUse: at every moment the object belongs to
\* the one worker between acquire and release, or to nobody who will use it, and
\* whoever is about to remove it has judged that very lease over.
LockInv == LockTypeOK /\ PhasesOK /\ TokensOK /\ OwnersOK /\ RemovalsOK /\ OrphansOK
=============================================================================
