---------------------------- MODULE Coordinator -----------------------------
(***************************************************************************)
(* Leader election by leases: GlobalCoordinatorService, one per process    *)
(* (core/src/plugins/concerns/global-coordinator-service.class.ts), and    *)
(* the CoordinatorPlugin that follows it (core/src/coordinator-plugin.ts). *)
(*                                                                         *)
(* Processes share three kinds of objects through PluginStorage: the       *)
(* leader's state, replaced by compare-and-set, a checkpoint of the epoch, *)
(* and one entry per worker.  A process repeats a heartbeat, cut here at   *)
(* its awaits; it is the elector of whoever it finds first in the list, so *)
(* the leader need not take part in its own election.                      *)
(*                                                                         *)
(* The plugin of process p has worker id p, its service id N + p: a plugin *)
(* is preferred to any service (gcs-...), and in each group the least id   *)
(* wins (electionStrategy 'lexicographic').                                *)
(***************************************************************************)
EXTENDS Integers, FiniteSetsExt

CONSTANTS
  N,          \* processes; one that crashed or disconnected comes back as another
  Lease,      \* leaseTimeout, in ticks
  Outlive,    \* ticks an entry survives that nobody refreshes (workerTimeout > leaseTimeout)
  NoState,    \* state.json does not exist
  MaxTime,    \* bound on the clock
  ChangeUntil, \* bound on when processes and plugins come, leave and fail
  Faults,     \* how plugins and processes may leave, and whether storage calls may fail
  MaxFaults   \* bound on how often it does

Process == 1 .. N
Worker  == 1 .. 2 * N
Nobody  == 0
Service(p)   == N + p
IsService(w) == w > N

State == [leader : Worker, epoch : Nat, end : Nat, by : Process]

ASSUME CoordinatorAssumption ==
  /\ N \in Nat \ {0}
  /\ Lease \in Nat \ {0}
  /\ Outlive \in Nat \ {0}
  /\ NoState \notin State
  /\ Faults \subseteq {"unsubscribe", "disconnect", "crash", "call"}
  /\ MaxTime \in Nat /\ ChangeUntil \in Nat /\ MaxFaults \in Nat

VARIABLES
  now,
  due,        \* the clock is about to tick: heartbeats under way end, none begins
  state,      \* state.json
  workers,    \* the ids with an entry that has not timed out
  checkpoint, \* the epoch in checkpoint.json, 0 when there is none
  status,     \* "off", "starting": start has not returned; "up", "stopping": the service has
              \* stopped, its plugin not yet; "gone"
  pc,         \* where the heartbeat is
  view,       \* currentLeaderId and currentEpoch of the service
  known,      \* _lastKnownEpoch of the service
  cache,      \* _cachedState
  previous,   \* the epoch the heartbeat hands to _conductElection
  read,       \* stateCache: what the last attempt of the election read
  bid,        \* candidateState
  subscribed,
  coordinator,\* isCoordinator of the plugin
  age,        \* ticks an entry has not been refreshed for
  faults

shared    == <<state, workers, checkpoint>>
heartbeat == <<pc, view, known, cache, previous, read, bid>>
plugin    == <<subscribed, coordinator>>
vars == <<now, due, shared, status, heartbeat, plugin, age, faults>>

TypeOK ==
  /\ now \in 0 .. MaxTime
  /\ due \in BOOLEAN
  /\ state \in State \cup {NoState}
  /\ workers \subseteq Worker
  /\ checkpoint \in Nat
  /\ status \in [Process -> {"off", "starting", "up", "stopping", "gone"}]
  /\ pc \in [Process -> {"idle", "fetching", "checking", "listing", "reading",
                         "creating", "swapping", "saving"}]
  /\ view \in [Process -> [leader : Worker \cup {Nobody}, epoch : Nat]]
  /\ known \in [Process -> Nat]
  /\ cache \in [Process -> State \cup {NoState}]
  /\ previous \in [Process -> Nat]
  /\ read \in [Process -> State \cup {NoState}]
  /\ bid \in [Process -> State \cup {NoState}]
  /\ subscribed \in [Process -> BOOLEAN]
  /\ coordinator \in [Process -> BOOLEAN]
  /\ age \in [Worker -> 0 .. Outlive]
  /\ faults \in 0 .. MaxFaults

Init ==
  /\ now = 0
  /\ due = FALSE
  /\ state = NoState
  /\ workers = {}
  /\ checkpoint = 0
  /\ status = [p \in Process |-> "off"]
  /\ pc = [p \in Process |-> "idle"]
  /\ view = [p \in Process |-> [leader |-> Nobody, epoch |-> 0]]
  /\ known = [p \in Process |-> 0]
  /\ cache = [p \in Process |-> NoState]
  /\ previous = [p \in Process |-> 0]
  /\ read = [p \in Process |-> NoState]
  /\ bid = [p \in Process |-> NoState]
  /\ subscribed = [p \in Process |-> FALSE]
  /\ coordinator = [p \in Process |-> FALSE]
  /\ age = [w \in Worker |-> 0]
  /\ faults = 0

-----------------------------------------------------------------------------
Larger(i, j) == IF i > j THEN i ELSE j
Changing == now <= ChangeUntil
Fault(kind) ==
  /\ kind \in Faults
  /\ Changing
  /\ faults < MaxFaults
  /\ faults' = faults + 1

Goto(p, where) == pc' = [pc EXCEPT ![p] = where]

IdsOf(p) == {Service(p)} \cup (IF subscribed[p] THEN {p} ELSE {})

\* Mutant: a lease, once taken, lasts for ever.
NeedsElectionIfNone(s) == s = NoState

\* now >= state.leaseEnd, or there is no state
NeedsElection(s) == IF s = NoState THEN TRUE ELSE now >= s.end

BaseEpoch(p) == Larger(previous[p], Larger(view[p].epoch, known[p]))

\* The end of a heartbeat: the service takes up the leader and, if it has changed,
\* emits leader:changed, which the plugin hears before anything else can happen.
Adopt(p, leader, epoch) ==
  /\ view' = [view EXCEPT ![p] = [leader |-> leader, epoch |-> Larger(epoch, 1)]]
  /\ IF leader # view[p].leader /\ subscribed[p]
       THEN coordinator' = [coordinator EXCEPT ![p] = leader = p]
       ELSE UNCHANGED coordinator
  /\ Goto(p, "saving")
  /\ previous' = [previous EXCEPT ![p] = 0]
  /\ read' = [read EXCEPT ![p] = NoState]
  /\ bid' = [bid EXCEPT ![p] = NoState]
  /\ UNCHANGED subscribed

-----------------------------------------------------------------------------
\* start: the epoch is restored from the checkpoint, unless reading that fails.  Start
\* returns after a whole heartbeat, and getGlobalCoordinator after it, so that nothing
\* subscribes before the first leader is known.
Start(p) ==
  /\ Changing
  /\ ~due
  /\ status[p] = "off"
  /\ status' = [status EXCEPT ![p] = "starting"]
  /\ \/ /\ known' = [known EXCEPT ![p] = checkpoint]
        /\ view' = [view EXCEPT ![p].epoch = checkpoint]
        /\ UNCHANGED faults
     \/ /\ Fault("call")
        /\ UNCHANGED <<known, view>>
  /\ UNCHANGED <<now, due, age, shared, pc, cache, previous, read, bid, plugin>>

\* Mutant: the plugin waits for leader:changed and does not ask who leads already.
SubscribeUnasked(p) ==
  /\ Changing
  /\ status[p] = "up"
  /\ ~subscribed[p]
  /\ subscribed' = [subscribed EXCEPT ![p] = TRUE]
  /\ UNCHANGED <<now, due, age, shared, status, heartbeat, coordinator, faults>>

\* subscribePlugin, after which the plugin listens and asks getLeader: between the three
\* lies no storage call, and a heartbeat resumes only at the answer of one.
Subscribe(p) ==
  /\ Changing
  /\ status[p] = "up"
  /\ ~subscribed[p]
  /\ subscribed' = [subscribed EXCEPT ![p] = TRUE]
  /\ coordinator' = [coordinator EXCEPT ![p] = view[p].leader = p]
  /\ UNCHANGED <<now, due, age, shared, status, heartbeat, faults>>

\* _runBackgroundElection: after its startup jitter the plugin asks once more, and a
\* service that has stopped names nobody.
AskAgain(p) ==
  /\ status[p] \in {"up", "stopping"}
  /\ subscribed[p]
  /\ coordinator' = [coordinator EXCEPT ![p] = status[p] = "up" /\ view[p].leader = p]
  /\ UNCHANGED <<now, due, age, shared, status, heartbeat, subscribed, faults>>

\* stopCoordination: the plugin's entry is left to time out.
Unsubscribe(p) ==
  /\ Fault("unsubscribe")
  /\ status[p] = "up"
  /\ subscribed[p]
  /\ subscribed' = [subscribed EXCEPT ![p] = FALSE]
  /\ coordinator' = [coordinator EXCEPT ![p] = FALSE]
  /\ UNCHANGED <<now, due, age, shared, status, heartbeat>>

\* disconnect stops the service first, without leader:changed, and its plugins after
\* it.  A heartbeat that is under way goes on.
StopService(p) ==
  /\ Fault("disconnect")
  /\ status[p] = "up"
  /\ status' = [status EXCEPT ![p] = "stopping"]
  /\ view' = [view EXCEPT ![p].leader = Nobody]
  /\ workers' = workers \ IdsOf(p)
  /\ UNCHANGED <<now, due, age, state, checkpoint, pc, known, cache, previous, read, bid, plugin>>

Leave(p) ==
  /\ status' = [status EXCEPT ![p] = "gone"]
  /\ pc' = [pc EXCEPT ![p] = "idle"]
  /\ view' = [view EXCEPT ![p] = [leader |-> Nobody, epoch |-> 0]]
  /\ known' = [known EXCEPT ![p] = 0]
  /\ cache' = [cache EXCEPT ![p] = NoState]
  /\ previous' = [previous EXCEPT ![p] = 0]
  /\ read' = [read EXCEPT ![p] = NoState]
  /\ bid' = [bid EXCEPT ![p] = NoState]
  /\ subscribed' = [subscribed EXCEPT ![p] = FALSE]
  /\ coordinator' = [coordinator EXCEPT ![p] = FALSE]
  /\ UNCHANGED <<now, due, age, shared>>

StopPlugin(p) ==
  /\ status[p] = "stopping"
  /\ Leave(p)
  /\ UNCHANGED faults

Crash(p) ==
  /\ Fault("crash")
  /\ status[p] \in {"starting", "up"}
  /\ Leave(p)

-----------------------------------------------------------------------------
\* _heartbeatCycle, one action per answer it waits for.  _heartbeatStartedAt keeps a
\* process from running two at a time.
Register(p) ==
  /\ ~due
  /\ status[p] \in {"starting", "up"}
  /\ pc[p] = "idle"
  /\ workers' = workers \cup IdsOf(p)
  /\ Goto(p, "fetching")
  /\ UNCHANGED <<now, due, age, state, checkpoint, status, view, known, previous, read, bid,
                 plugin, faults>>

\* Less, or more, than stateCacheTtl after the last read.
RegisterSoon(p) == Register(p) /\ cache[p] # NoState /\ UNCHANGED cache
RegisterLate(p) == Register(p) /\ cache' = [cache EXCEPT ![p] = NoState]

\* What the heartbeat does with the state it was given.
Consider(p, s) ==
  \/ /\ NeedsElection(s)
     /\ previous' = [previous EXCEPT ![p] = IF s = NoState THEN view[p].epoch ELSE s.epoch]
     /\ Goto(p, "listing")
     /\ UNCHANGED <<view, read, bid, plugin>>
  \/ /\ ~NeedsElection(s)
     /\ IsService(s.leader)
     /\ Goto(p, "checking")
     /\ read' = [read EXCEPT ![p] = s]
     /\ UNCHANGED <<view, previous, bid, plugin>>
  \/ /\ ~NeedsElection(s)
     /\ ~IsService(s.leader)
     /\ Adopt(p, s.leader, s.epoch)

\* _getState within stateCacheTtl.
FetchCached(p) ==
  /\ pc[p] = "fetching"
  /\ cache[p] # NoState
  /\ Consider(p, cache[p])
  /\ UNCHANGED <<now, due, age, shared, status, known, cache, faults>>

Fetch(p) ==
  /\ pc[p] = "fetching"
  /\ cache[p] = NoState
  /\ Consider(p, state)
  /\ cache' = [cache EXCEPT ![p] = state]
  /\ known' = [known EXCEPT ![p] = IF state = NoState THEN @ ELSE Larger(@, state.epoch)]
  /\ UNCHANGED <<now, due, age, shared, status, faults>>

\* The leader is a service: a plugin's worker, if there is one, takes over.
Check(p) ==
  /\ pc[p] = "checking"
  /\ IF \E w \in workers : ~IsService(w)
       THEN /\ previous' = [previous EXCEPT ![p] = read[p].epoch]
            /\ read' = [read EXCEPT ![p] = NoState]
            /\ Goto(p, "listing")
            /\ UNCHANGED <<view, bid, plugin>>
       ELSE Adopt(p, read[p].leader, read[p].epoch)
  /\ UNCHANGED <<now, due, age, shared, status, known, cache, faults>>

\* Mutant: no fallback when the list is empty.
ElectedOrNobody(p, ids) == IF ids = {} THEN Nobody ELSE Min(ids)

\* _conductElection: the first of the active workers is elected, this process if none is.
Elected(p, ids) == IF ids = {} THEN Service(p) ELSE Min(ids)

Nominate(p, ids) ==
  /\ pc[p] = "listing"
  /\ bid' = [bid EXCEPT ![p] = [leader |-> Elected(p, ids), epoch |-> 0, end |-> 0, by |-> p]]
  /\ Goto(p, "reading")
  /\ UNCHANGED <<now, due, age, shared, status, view, known, cache, previous, read, plugin>>

List(p) == Nominate(p, workers) /\ UNCHANGED faults

\* attemptState.  nextEpoch is computed before the state is read: it counts from what an
\* earlier attempt read, or from what the heartbeat knew.
NextEpoch(p) == Larger(BaseEpoch(p), IF read[p] = NoState THEN 0 ELSE read[p].epoch) + 1

ReadForElection(p) ==
  /\ pc[p] = "reading"
  /\ \/ /\ state # NoState => state.leader # bid[p].leader \/ state.end <= now
        /\ read' = [read EXCEPT ![p] = state]
        /\ bid' = [bid EXCEPT ![p].epoch = NextEpoch(p), ![p].end = now + Lease]
        /\ Goto(p, IF state = NoState THEN "creating" ELSE "swapping")
        /\ UNCHANGED <<view, known, previous, plugin>>
     \/ /\ IF state = NoState THEN FALSE
           ELSE state.leader = bid[p].leader /\ state.end > now
        /\ known' = [known EXCEPT ![p] = state.epoch]
        /\ Adopt(p, state.leader, state.epoch)
  /\ UNCHANGED <<now, due, age, shared, status, cache, faults>>

\* setIfNotExists and setIfVersion return null when they lose, and do not throw: the
\* loser believes its own bid.
Believe(p) ==
  /\ known' = [known EXCEPT ![p] = bid[p].epoch]
  /\ cache' = [cache EXCEPT ![p] = NoState]
  /\ Adopt(p, bid[p].leader, bid[p].epoch)
  /\ UNCHANGED <<now, due, age, workers, checkpoint, status, faults>>

Create(p) ==
  /\ pc[p] = "creating"
  /\ state' = IF state = NoState THEN bid[p] ELSE state
  /\ Believe(p)

Swap(p) ==
  /\ pc[p] = "swapping"
  /\ state' = IF state = read[p] THEN bid[p] ELSE state
  /\ Believe(p)

Save(p) ==
  /\ pc[p] = "saving"
  /\ \/ checkpoint' = view[p].epoch /\ UNCHANGED faults
     \/ Fault("call") /\ UNCHANGED checkpoint
  /\ Goto(p, "idle")
  /\ status' = [status EXCEPT ![p] = IF @ = "starting" THEN "up" ELSE @]
  /\ UNCHANGED <<now, due, age, state, workers, view, known, cache, previous, read, bid, plugin>>

-----------------------------------------------------------------------------
\* storage.get fails: _getState says there is no state.
FetchFails(p) ==
  /\ Fault("call")
  /\ pc[p] = "fetching"
  /\ cache[p] = NoState
  /\ previous' = [previous EXCEPT ![p] = view[p].epoch]
  /\ Goto(p, "listing")
  /\ UNCHANGED <<now, due, age, shared, status, view, known, cache, read, bid, plugin>>

\* A list that fails is an empty list.
CheckFails(p) ==
  /\ Fault("call")
  /\ pc[p] = "checking"
  /\ Adopt(p, read[p].leader, read[p].epoch)
  /\ UNCHANGED <<now, due, age, shared, status, known, cache>>

ListFails(p) == Nominate(p, {}) /\ Fault("call")

\* getWithVersion throws, 'Election failed': no leader until the next heartbeat.
ElectionFails(p) ==
  /\ Fault("call")
  /\ pc[p] = "reading"
  /\ Adopt(p, Nobody, previous[p])
  /\ UNCHANGED <<now, due, age, shared, status, known, cache>>

\* The write throws, applied or not: another attempt is made.
WriteFails(p) ==
  /\ Fault("call")
  /\ pc[p] \in {"creating", "swapping"}
  /\ state' \in {state, IF state = read[p] THEN bid[p] ELSE state}
  /\ Goto(p, "reading")
  /\ UNCHANGED <<now, due, age, workers, checkpoint, status, view, known, cache, previous,
                 read, bid, plugin>>

-----------------------------------------------------------------------------
\* Ids whose process no longer refreshes their entry.
Abandoned ==
  workers \ UNION {IdsOf(p) : p \in {q \in Process : status[q] \in {"starting", "up"}}}

WorkerExpires(w) ==
  /\ w \in Abandoned
  /\ age[w] > 0
  /\ workers' = workers \ {w}
  /\ age' = [age EXCEPT ![w] = 0]
  /\ UNCHANGED <<now, due, state, checkpoint, status, heartbeat, plugin, faults>>

\* A heartbeat takes much less than a tick, and a start too.
Due ==
  /\ now < MaxTime
  /\ ~due
  /\ \A p \in Process : status[p] # "starting"
  /\ due' = TRUE
  /\ UNCHANGED <<now, age, shared, status, heartbeat, plugin, faults>>

\* An entry nobody refreshes outlives the first tick, so that a dead leader may be
\* elected again, and is gone at the latest before the one after Outlive.
Tick ==
  /\ due
  /\ \A p \in Process : pc[p] = "idle"
  /\ \A w \in Abandoned : age[w] < Outlive
  /\ now' = now + 1
  /\ due' = FALSE
  /\ age' = [w \in Worker |-> IF w \in Abandoned THEN age[w] + 1 ELSE 0]
  /\ UNCHANGED <<shared, status, heartbeat, plugin, faults>>

Call(p) ==
  \/ FetchCached(p) \/ Fetch(p) \/ Check(p) \/ List(p)
  \/ ReadForElection(p) \/ Create(p) \/ Swap(p) \/ Save(p)

Fails(p) ==
  \/ FetchFails(p) \/ CheckFails(p) \/ ListFails(p) \/ ElectionFails(p) \/ WriteFails(p)
  \/ Unsubscribe(p) \/ StopService(p) \/ Crash(p)

Next ==
  \/ \E p \in Process :
       \/ Start(p) \/ Subscribe(p) \/ AskAgain(p) \/ StopPlugin(p)
       \/ RegisterSoon(p) \/ RegisterLate(p) \/ Call(p) \/ Fails(p)
  \/ \E w \in Worker : WorkerExpires(w)
  \/ Due \/ Tick

Spec == Init /\ [][Next]_vars

(***************************************************************************)
(* Timers fire and storage calls are answered: a running process repeats   *)
(* its heartbeat, time and again later than the cache lasts, entries time  *)
(* out, the clock goes on.  Nothing makes a process start, a plugin        *)
(* subscribe, or anything fail.                                            *)
(***************************************************************************)
Fairness ==
  /\ \A p \in Process :
       /\ SF_vars(RegisterLate(p))
       /\ WF_vars(Call(p) \/ StopPlugin(p))
  /\ WF_vars(\E w \in Worker : WorkerExpires(w))
  /\ WF_vars(Due \/ Tick)

FairSpec == Spec /\ Fairness
-----------------------------------------------------------------------------
Up == {p \in Process : status[p] = "up"}

(***************************************************************************)
(* A plugin coordinates exactly when its own service holds it for the      *)
(* leader: no order of subscription, election and notification loses a     *)
(* promotion or a demotion (leader:changed is emitted on a change only).   *)
(***************************************************************************)
PluginFollowsService ==
  \A p \in Up : subscribed[p] => (coordinator[p] <=> view[p].leader = p)

(***************************************************************************)
(* However elections raced and whoever left, in the end every running      *)
(* process follows the stored leader under the stored epoch, its lease has *)
(* not ended, and it is a worker of a running process, a plugin's if any   *)
(* plugin subscribed.  A bid that lost is forgotten at a later heartbeat;  *)
(* a leader that left is replaced when its lease ends.                     *)
(***************************************************************************)
Settled ==
  /\ state # NoState
  /\ now < state.end
  /\ \A p \in Up : view[p] = [leader |-> state.leader, epoch |-> state.epoch]
  /\ \E p \in Up : state.leader \in IdsOf(p)
  /\ IsService(state.leader) => \A p \in Up : ~subscribed[p]

Settles == <>[](Up = {} \/ Settled)

(***************************************************************************)
(* "Inspired by etcd Raft's Term fencing mechanism": an epoch tells two    *)
(* coordinators apart, as a term has at most one leader in Raft.           *)
(***************************************************************************)
OneCoordinatorPerEpoch ==
  \A p, q \in Up :
    coordinator[p] /\ coordinator[q] /\ p # q => view[p].epoch # view[q].epoch
=============================================================================
