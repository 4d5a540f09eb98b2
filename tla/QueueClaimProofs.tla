------------------------- MODULE QueueClaimProofs ---------------------------
(***************************************************************************)
(* What holds of QueueClaim for every number of workers, messages and      *)
(* tickets, every timeout, both modes, every failure strategy and every    *)
(* number of faults.                                                       *)
(***************************************************************************)
EXTENDS QueueClaim, FiniteSetTheorems, WellFoundedInduction, TLAPS

-----------------------------------------------------------------------------
(* The operators the model is built from.                                  *)

\* The least of a set of numbers is one of them, and no greater than another.
LEMMA LeastExists ==
  ASSUME NEW S \in SUBSET Nat, S # {}
  PROVE  Min(S) \in S /\ \A x \in S : Min(S) <= x
<1> DEFINE R == OpToRel(<, Nat)
<1>1. PICK n \in S : \A m \in S : ~(<<m, n>> \in R)
  <2> HIDE DEF R
  <2>1. IsWellFoundedOn(R, Nat)
    BY NatLessThanWellFounded, Zenon DEF R
  <2> QED
    BY <2>1, WFMin
<1>2. ASSUME NEW m \in S PROVE n <= m
  <2>1. R = {ss \in Nat \X Nat : ss[1] < ss[2]}
    BY DEF OpToRel
  <2> HIDE DEF R
  <2>2. m \in Nat /\ n \in Nat /\ ~(<<m, n>> \in R)
    BY <1>1
  <2>3. m < n => <<m, n>> \in R
    <3>1. m < n => <<m, n>>[1] < <<m, n>>[2]
      BY <2>2
    <3> QED
      BY <2>1, <2>2, <3>1
  <2> QED
    BY <2>2, <2>3
<1> HIDE DEF R
<1>3. \E x \in S : \A y \in S : x <= y
  BY <1>1, <1>2
<1> QED
  BY <1>3 DEF Min

LEMMA FiniteImage ==
  ASSUME NEW S, IsFiniteSet(S), NEW f, f = [x \in S |-> f[x]]
  PROVE  IsFiniteSet({f[x] : x \in S})
<1>1. f \in Surjection(S, {f[x] : x \in S})
  BY DEF Surjection
<1> QED
  BY <1>1, FS_Surjection

\* A finite set of tokens leaves one to draw.
LEMMA FreshTokenIsNat == FreshToken \in Nat
<1> USE QueueAssumption
<1>1. IsFiniteSet(TokensInUse)
  <2> DEFINE A == {entry[m].token : m \in {n \in Messages : entry[n] # NoEntry}}
             B == {claim[w].token : w \in Workers}
             C == {next[w].token : w \in {v \in Workers : next[v] # NoEntry}}
             D == {renewal[w].next.token : w \in {v \in Workers : renewal[v].next # NoEntry}}
  <2>1. IsFiniteSet(A)
    <3>1. PICK S \in SUBSET Messages : S = {n \in Messages : entry[n] # NoEntry}
      OBVIOUS
    <3>2. PICK f : f = [m \in S |-> entry[m].token]
      OBVIOUS
    <3>3. IsFiniteSet(S) /\ f = [m \in S |-> f[m]]
      BY <3>2, FS_Subset
    <3>4. IsFiniteSet({f[m] : m \in S})
      BY <3>3, FiniteImage
    <3>5. A = {f[m] : m \in S}
      BY <3>1, <3>2
    <3> QED
      BY <3>4, <3>5
  <2>2. IsFiniteSet(B)
    <3>1. PICK f : f = [w \in Workers |-> claim[w].token]
      OBVIOUS
    <3>2. f = [w \in Workers |-> f[w]]
      BY <3>1
    <3>3. IsFiniteSet({f[w] : w \in Workers})
      BY <3>2, FiniteImage
    <3>4. B = {f[w] : w \in Workers}
      BY <3>1
    <3> QED
      BY <3>3, <3>4
  <2>3. IsFiniteSet(C)
    <3>1. PICK S \in SUBSET Workers : S = {v \in Workers : next[v] # NoEntry}
      OBVIOUS
    <3>2. PICK f : f = [w \in S |-> next[w].token]
      OBVIOUS
    <3>3. IsFiniteSet(S) /\ f = [w \in S |-> f[w]]
      BY <3>2, FS_Subset
    <3>4. IsFiniteSet({f[w] : w \in S})
      BY <3>3, FiniteImage
    <3>5. C = {f[w] : w \in S}
      BY <3>1, <3>2
    <3> QED
      BY <3>4, <3>5
  <2>8. IsFiniteSet(D)
    <3>1. PICK S \in SUBSET Workers : S = {v \in Workers : renewal[v].next # NoEntry}
      OBVIOUS
    <3>2. PICK f : f = [w \in S |-> renewal[w].next.token]
      OBVIOUS
    <3>3. IsFiniteSet(S) /\ f = [w \in S |-> f[w]]
      BY <3>2, FS_Subset
    <3>4. IsFiniteSet({f[w] : w \in S})
      BY <3>3, FiniteImage
    <3>5. D = {f[w] : w \in S}
      BY <3>1, <3>2
    <3> QED
      BY <3>4, <3>5
  <2>4. IsFiniteSet({NoToken})
    BY FS_Singleton
  <2>5. TokensInUse = A \cup B \cup C \cup D \cup {NoToken}
    BY DEF TokensInUse
  <2> HIDE DEF A, B, C, D
  <2>6. IsFiniteSet(A \cup B)
    BY <2>1, <2>2, FS_Union
  <2>7. IsFiniteSet(A \cup B \cup C)
    BY <2>6, <2>3, FS_Union
  <2>9. IsFiniteSet(A \cup B \cup C \cup D)
    BY <2>7, <2>8, FS_Union
  <2> QED
    BY <2>9, <2>4, <2>5, FS_Union
<1>2. PICK c \in Nat : c = Cardinality(TokensInUse)
  BY <1>1, FS_CardinalityType
<1>3. (1 .. c + 1) \ TokensInUse # {}
  <2> SUFFICES ASSUME 1 .. c + 1 \subseteq TokensInUse PROVE FALSE
    OBVIOUS
  <2>1. Cardinality(1 .. c + 1) <= c
    BY <1>1, <1>2, FS_Subset
  <2>2. Cardinality(1 .. c + 1) = c + 1
    BY FS_Interval
  <2> QED
    BY <2>1, <2>2
<1>4. FreshToken \in (1 .. c + 1) \ TokensInUse
  BY <1>2, <1>3, LeastExists DEF FreshToken
<1> QED
  BY <1>4

\* One delivery more, or the number at which the history stops counting.
LEMMA CappedCount ==
  ASSUME NEW n \in Nat
  PROVE  Min({n + 1, MaxAttempts + 1}) \in Nat /\ Min({n + 1, MaxAttempts + 1}) <= n + 1
<1>1. {n + 1, MaxAttempts + 1} \subseteq Nat
  BY QueueAssumption
<1> QED
  BY <1>1, LeastExists

LEMMA SoonerIsNat ==
  ASSUME NEW b \in Nat, NEW n \in 0 .. b
  PROVE  Sooner(n) \in 0 .. b
BY DEF Sooner

\* Putting a message back, to be visible after a time, keeps its attempts.
PutBack(e, n) == [e EXCEPT !.status = "pending", !.token = NoToken, !.wait = n]

LEMMA PutBackIsEntry ==
  ASSUME NEW e \in Entry, NEW n \in 0 .. MaxWait
  PROVE  /\ PutBack(e, n) \in Entry
         /\ PutBack(e, n).status = "pending" /\ PutBack(e, n).wait = n
         /\ PutBack(e, n).attempts = e.attempts
<1>1. PICK a \in Entry : a = [e EXCEPT !.status = "pending"]
  BY DEF Entry
<1>2. PICK b \in Entry : b = [a EXCEPT !.token = NoToken]
  BY DEF Entry, NoToken
<1>3. PICK c \in Entry : c = [b EXCEPT !.wait = n]
  BY DEF Entry
<1>4. c.status = "pending" /\ c.wait = n /\ c.attempts = e.attempts
  BY <1>1, <1>2, <1>3 DEF Entry
<1> QED
  BY <1>1, <1>2, <1>3, <1>4 DEF PutBack

LEMMA FaultIsCounted ==
  ASSUME faults \in 0 .. MaxFaults, NEW kind, Fault(kind)
  PROVE  faults' \in 0 .. MaxFaults
BY QueueAssumption DEF Fault

-----------------------------------------------------------------------------
(* Type correctness.  A worker that is busy has a message, and a message   *)
(* that anyone has heard of has an entry, a renewal that goes on beside    *)
(* its worker included.                                                    *)

Busy == {"taking", "checking", "marking", "getting", "merging", "putting", "loading", "handling",
         "lettering", "settling", "clearing"}
Outcomes == {"complete", "retry", "fail", "dead"}

\* Where no update of the entry has been decided on yet.
Asking == {"idle", "recovering", "taking", "locking", "checking", "marking", "getting", "releasing"}

InPhase(w) ==
  /\ pc[w] \in Busy => msg[w] # NoMessage
  /\ pc[w] \in {"taking", "releasing"} => held[w] # NoTicket
  /\ pc[w] = "merging" => op[w] \in Outcomes \cup {"recover"}
  /\ pc[w] = "putting" => op[w] # "none" /\ next[w] # NoEntry
  /\ pc[w] = "settling" => op[w] \in Outcomes
  /\ pc[w] = "lettering" => op[w] = "dead"
  /\ pc[w] \in Asking => op[w] = "none"
  /\ pc[w] \notin {"merging", "putting"} => next[w] = NoEntry
PhaseOK == \A w \in Workers : InPhase(w)

KnownOK ==
  /\ \A w \in Workers : msg[w] # NoMessage => entry[msg[w]] # NoEntry
  /\ \A w \in Workers : \A m \in todo[w] : entry[m] # NoEntry
  /\ \A t \in Tickets : ticket[t] # NoTicket => entry[ticket[t].msg] # NoEntry

RenewalsOK ==
  \A w \in Workers : \/ renewal[w] = NoRenewal
                     \/ renewal[w].msg \in Messages /\ entry[renewal[w].msg] # NoEntry

Typed == TypeOK /\ PhaseOK /\ KnownOK /\ RenewalsOK

\* TypeOK, by who changes what.
StoreTyped ==
  /\ mode \in Modes
  /\ strategy \in Strategies
  /\ entry \in [Messages -> Entry \cup {NoEntry}]
  /\ lock \in [Messages -> Workers \cup {Free, Abandoned}]
  /\ marker \in [Messages -> 0 .. MarkerTTL]
  /\ letters \subseteq Messages
  /\ ticket \in [Tickets -> {NoTicket} \cup [msg : Messages, by : Workers \cup {Free}]]

Places == {"idle", "recovering", "taking", "locking", "checking", "marking", "getting", "merging",
           "putting", "loading", "handling", "lettering", "settling", "clearing", "releasing"}

CallTyped ==
  /\ pc \in [Workers -> Places]
  /\ msg \in [Workers -> Messages \cup {NoMessage}]
  /\ todo \in [Workers -> SUBSET Messages]
  /\ held \in [Workers -> Tickets \cup {NoTicket}]
  /\ recovery \in [Workers -> BOOLEAN]
  /\ op \in [Workers -> Operations \cup {"none"}]
  /\ claim \in [Workers -> [token : Nat, attempts : Nat]]
  /\ next \in [Workers -> Entry \cup {NoEntry}]

LocalTyped == local \in [Workers -> [Messages -> 0 .. MarkerTTL]]

GhostTyped ==
  /\ deliveries \in [Messages -> Nat]
  /\ exposed \in [Messages -> BOOLEAN]
  /\ due \in BOOLEAN
  /\ faults \in 0 .. MaxFaults

RenewalTyped ==
  renewal \in [Workers -> [msg : Messages \cup {NoMessage}, wait : 0 .. MaxWait,
                          next : Entry \cup {NoEntry}]]

LEMMA TypeParts ==
  TypeOK <=> StoreTyped /\ CallTyped /\ LocalTyped /\ GhostTyped /\ RenewalTyped
BY DEF TypeOK, StoreTyped, CallTyped, LocalTyped, GhostTyped, RenewalTyped, Places

\* No step of a worker touches the call of another.
OthersKeep(w) == \A v \in Workers \ {w} :
  /\ pc'[v] = pc[v] /\ msg'[v] = msg[v] /\ op'[v] = op[v]
  /\ claim'[v] = claim[v] /\ next'[v] = next[v]
  /\ todo'[v] \subseteq todo[v] /\ held'[v] = held[v]

\* The worker has let go of its message.
LetsGo(w) ==
  /\ pc'[w] \in {"releasing", "idle", "recovering", "locking"}
  /\ pc'[w] = "releasing" => held'[w] # NoTicket
  /\ msg'[w] = NoMessage /\ op'[w] = "none" /\ next'[w] = NoEntry
  /\ todo'[w] \subseteq todo[w]

LEMMA ProceedEffect ==
  ASSUME CallTyped, NEW w \in Workers, Proceed(w)
  PROVE  CallTyped' /\ OthersKeep(w) /\ LetsGo(w)
<1> USE DEF CallTyped
<1>1. pc' \in [Workers -> Places] /\ pc'[w] \in {"releasing", "idle", "recovering", "locking"}
      /\ (pc'[w] = "releasing" => held[w] # NoTicket)
      /\ \A v \in Workers \ {w} : pc'[v] = pc[v]
  BY DEF Proceed, Goto, Places
<1>2. recovery' \in [Workers -> BOOLEAN]
  <2>1. \E b \in BOOLEAN : recovery' = [recovery EXCEPT ![w] = b]
    BY Zenon DEF Proceed
  <2> QED
    BY <2>1
<1>3. /\ msg' \in [Workers -> Messages \cup {NoMessage}] /\ op' \in [Workers -> Operations \cup {"none"}]
      /\ msg'[w] = NoMessage /\ op'[w] = "none"
      /\ \A v \in Workers \ {w} : msg'[v] = msg[v] /\ op'[v] = op[v]
  BY DEF Proceed
<1>4. claim' \in [Workers -> [token : Nat, attempts : Nat]]
      /\ \A v \in Workers \ {w} : claim'[v] = claim[v]
  BY DEF Proceed, NoClaim, NoToken
<1>5. next' \in [Workers -> Entry \cup {NoEntry}] /\ next'[w] = NoEntry
      /\ \A v \in Workers \ {w} : next'[v] = next[v]
  BY DEF Proceed
<1>6. UNCHANGED <<todo, held>>
  BY DEF Proceed
<1> QED
  BY <1>1, <1>2, <1>3, <1>4, <1>5, <1>6 DEF OthersKeep, LetsGo

LEMMA ThrownEffect ==
  ASSUME CallTyped, NEW w \in Workers, Thrown(w)
  PROVE  CallTyped' /\ OthersKeep(w) /\ LetsGo(w) /\ pc'[w] = "idle"
<1> USE DEF CallTyped
<1>1. pc' \in [Workers -> Places] /\ pc'[w] = "idle" /\ \A v \in Workers \ {w} : pc'[v] = pc[v]
  BY DEF Thrown, Goto, Places
<1>2. recovery' \in [Workers -> BOOLEAN]
  BY DEF Thrown
<1>3. /\ msg' \in [Workers -> Messages \cup {NoMessage}] /\ op' \in [Workers -> Operations \cup {"none"}]
      /\ msg'[w] = NoMessage /\ op'[w] = "none"
      /\ \A v \in Workers \ {w} : msg'[v] = msg[v] /\ op'[v] = op[v]
  BY DEF Thrown
<1>4. claim' \in [Workers -> [token : Nat, attempts : Nat]]
      /\ \A v \in Workers \ {w} : claim'[v] = claim[v]
  BY DEF Thrown, NoClaim, NoToken
<1>5. next' \in [Workers -> Entry \cup {NoEntry}] /\ next'[w] = NoEntry
      /\ \A v \in Workers \ {w} : next'[v] = next[v]
  BY DEF Thrown
<1>6. todo' \in [Workers -> SUBSET Messages] /\ held' \in [Workers -> Tickets \cup {NoTicket}]
      /\ todo'[w] = {} /\ \A v \in Workers \ {w} : todo'[v] = todo[v] /\ held'[v] = held[v]
  BY DEF Thrown
<1> QED
  BY <1>1, <1>2, <1>3, <1>4, <1>5, <1>6 DEF OthersKeep, LetsGo

LEMMA LocalStep ==
  ASSUME LocalTyped, NEW w \in Workers, NEW m \in Messages, NEW n \in 0 .. MarkerTTL,
         local' = [local EXCEPT ![w][m] = n]
  PROVE  LocalTyped'
BY DEF LocalTyped

LEMMA GotoEffect ==
  ASSUME CallTyped, NEW w \in Workers, NEW where \in Places, Goto(w, where)
  PROVE  /\ pc' \in [Workers -> Places] /\ pc'[w] = where
         /\ \A v \in Workers \ {w} : pc'[v] = pc[v]
BY DEF CallTyped, Goto

\* The actions that end the worker's business with its message.
Ends(w) ==
  \/ FindMarker(w) \/ NotClaimable(w) \/ PutCompleted(w) \/ Clear(w) \/ ReleaseTicket(w)
  \/ GetEntryFails(w) \/ PutFails(w) \/ ClearFails(w) \/ InsertLetterFails(w)
  \/ TokenMismatch(w) \/ Crash(w)

LEMMA EndsEffect ==
  ASSUME CallTyped, NEW w \in Workers, Ends(w)
  PROVE  CallTyped' /\ OthersKeep(w) /\ LetsGo(w)
<1>1. Proceed(w) \/ Thrown(w)
  BY DEF Ends, FindMarker, NotClaimable, PutCompleted, Clear, ReleaseTicket, GetEntryFails,
         PutFails, ClearFails, InsertLetterFails, TokenMismatch, Crash
<1> QED
  BY <1>1, ProceedEffect, ThrownEffect

\* A step that changes nothing of the call but where the worker is.
LEMMA MovesEffect ==
  ASSUME CallTyped, NEW w \in Workers,
         CheckMarker(w) \/ MissMarker(w) \/ Mark(w) \/ Settle(w) \/ InsertLetter(w)
  PROVE  /\ CallTyped' /\ OthersKeep(w)
         /\ UNCHANGED <<msg, todo, held, recovery, op, claim, next>>
<1>1. /\ UNCHANGED <<msg, todo, held, recovery, op, claim, next>>
      /\ \E where \in Places : Goto(w, where)
  BY DEF CheckMarker, MissMarker, Mark, Settle, InsertLetter, Places
<1>2. pc' \in [Workers -> Places] /\ \A v \in Workers \ {w} : pc'[v] = pc[v]
  BY <1>1, GotoEffect
<1> QED
  BY <1>1, <1>2 DEF CallTyped, OthersKeep

LEMMA BusyWithMessage ==
  ASSUME Typed, NEW w \in Workers, pc[w] \in Busy
  PROVE  msg[w] \in Messages /\ msg[w] # NoMessage /\ entry[msg[w]] # NoEntry
         /\ entry[msg[w]] \in Entry
<1>1. StoreTyped /\ CallTyped
  BY TypeParts DEF Typed
<1>2. msg[w] \in Messages /\ entry[msg[w]] # NoEntry
  BY <1>1 DEF Typed, CallTyped, PhaseOK, InPhase, KnownOK
<1>3. msg[w] # NoMessage
  BY <1>2, QueueAssumption
<1> QED
  BY <1>1, <1>2, <1>3 DEF StoreTyped

LEMMA PutsAnEntry ==
  ASSUME Typed, NEW w \in Workers, pc[w] = "putting"
  PROVE  next[w] \in Entry /\ next[w] # NoEntry
BY TypeParts, NoEntryAssumption DEF Typed, CallTyped, PhaseOK, InPhase

\* What updateConditional writes for each operation, the attempts being as it has read them.
LEMMA MergedIsEntry ==
  ASSUME Typed, NEW w \in Workers, pc[w] = "merging"
  PROVE  /\ Merged(w) \in Entry
         /\ Merged(w).attempts = entry[msg[w]].attempts
         /\ op[w] = "complete" => Merged(w).status = "completed"
         /\ op[w] = "retry" => Merged(w).status = "pending" /\ Merged(w).wait = Backoff
         /\ op[w] = "fail" => Merged(w).status = "failed"
         /\ op[w] = "dead" => Merged(w).status = "dead"
         /\ op[w] = "recover" => Merged(w).status = "pending"
         /\ op[w] \in {"complete", "retry", "fail", "dead", "recover"}
<1>1. CallTyped /\ InPhase(w)
  BY TypeParts DEF Typed, PhaseOK
<1>2. PICK e \in Entry : e = entry[msg[w]]
  BY BusyWithMessage DEF Busy
<1>v. Backoff \in 0 .. MaxWait /\ 0 \in 0 .. MaxWait /\ Visibility \in Nat /\ MaxWait \in Nat
  BY QueueAssumption
<1>3. op[w] \in {"complete", "retry", "fail", "dead", "recover"}
  BY <1>1 DEF InPhase, Outcomes
<1>4. CASE op[w] = "complete"
  BY <1>2, <1>4 DEF Merged, Entry, Final, NoToken
<1>5. CASE op[w] = "retry"
  <2>1. Merged(w) = PutBack(e, Backoff)
    BY <1>2, <1>5 DEF Merged, PutBack
  <2> QED
    BY <1>2, <1>5, <1>v, <2>1, PutBackIsEntry
<1>6. CASE op[w] = "fail"
  BY <1>2, <1>6 DEF Merged, Entry, Final, NoToken
<1>7. CASE op[w] = "dead"
  BY <1>2, <1>7 DEF Merged, Entry, Final, NoToken
<1>9. CASE op[w] = "recover"
  <2>1. Merged(w) = PutBack(e, 0)
    BY <1>2, <1>9 DEF Merged, PutBack
  <2> QED
    BY <1>2, <1>9, <1>v, <2>1, PutBackIsEntry
<1> QED
  BY <1>3, <1>4, <1>5, <1>6, <1>7, <1>9

\* A step of the worker's loop, and one of the renewal beside it.
WorkerAction(w) ==
  \/ Step(w) \/ MissMarker(w) \/ GetEntryFails(w) \/ PutFails(w) \/ ClearFails(w)
  \/ InsertLetterFails(w) \/ Crash(w)
RenewalAction(w) == Renew(w) \/ MergeRenewal(w) \/ PutRenewed(w) \/ RenewalFails(w)

LEMMA CallStep ==
  ASSUME Typed, NEW w \in Workers, WorkerAction(w)
  PROVE  CallTyped' /\ OthersKeep(w)
<1>0. CallTyped /\ StoreTyped
  BY TypeParts DEF Typed
<1>p. PhaseOK /\ KnownOK
  BY DEF Typed
<1>e. \A m \in Messages : entry[m] # NoEntry => entry[m] \in Entry
  BY <1>0 DEF StoreTyped
<1>v. Visibility \in Nat /\ Backoff \in Nat /\ Visibility <= MaxWait /\ Backoff <= MaxWait
      /\ MaxWait \in Nat
  BY QueueAssumption
<1> USE DEF CallTyped, OthersKeep
<1>1. ASSUME TakeTicket(w) PROVE CallTyped' /\ OthersKeep(w)
  <2>1. PICK t \in Tickets : /\ ticket[t] # NoTicket
                             /\ held' = [held EXCEPT ![w] = t]
                             /\ msg' = [msg EXCEPT ![w] = ticket[t].msg]
    BY <1>1 DEF TakeTicket
  <2>2. ticket[t].msg \in Messages
    BY <1>0, <2>1 DEF StoreTyped
  <2>3. pc' \in [Workers -> Places] /\ \A v \in Workers \ {w} : pc'[v] = pc[v]
    BY <1>0, <1>1, GotoEffect DEF TakeTicket, Places
  <2>4. UNCHANGED <<todo, recovery, op, claim, next>>
    BY <1>1 DEF TakeTicket
  <2> QED
    BY <1>0, <2>1, <2>2, <2>3, <2>4
<1>2. ASSUME SetTicket(w) \/ Query(w) \/ StartRecovery(w) PROVE CallTyped' /\ OthersKeep(w)
  <2>1. \E where \in Places : Goto(w, where)
    BY <1>2 DEF SetTicket, Query, StartRecovery, Places
  <2>2. pc' \in [Workers -> Places] /\ \A v \in Workers \ {w} : pc'[v] = pc[v]
    BY <1>0, <2>1, GotoEffect
  <2>3. todo' \in [Workers -> SUBSET Messages] /\ \A v \in Workers \ {w} : todo'[v] = todo[v]
    <3>1. \E S \in SUBSET Messages : todo' = [todo EXCEPT ![w] = S]
      BY <1>0, <1>p, <1>2 DEF SetTicket, Query, StartRecovery, Pending, Stalled, PhaseOK, InPhase, Busy
    <3> QED
      BY <1>0, <3>1
  <2>4. recovery' \in [Workers -> BOOLEAN]
    BY <1>0, <1>2 DEF SetTicket, Query, StartRecovery
  <2>5. UNCHANGED <<msg, held, op, claim, next>>
    BY <1>2 DEF SetTicket, Query, StartRecovery
  <2> QED
    BY <1>0, <2>2, <2>3, <2>4, <2>5
<1>3. ASSUME LockMessage(w) \/ LockRefused(w) PROVE CallTyped' /\ OthersKeep(w)
  <2>1. \E where \in Places : Goto(w, where)
    BY <1>3 DEF LockMessage, LockRefused, Places
  <2>2. pc' \in [Workers -> Places] /\ \A v \in Workers \ {w} : pc'[v] = pc[v]
    BY <1>0, <2>1, GotoEffect
  <2>3. PICK m \in todo[w] : todo' = [todo EXCEPT ![w] = @ \ {m}]
                             /\ msg' \in {[msg EXCEPT ![w] = m], [msg EXCEPT ![w] = NoMessage]}
    BY <1>3 DEF LockMessage, LockRefused
  <2>4. todo' \in [Workers -> SUBSET Messages] /\ \A v \in Workers \ {w} : todo'[v] = todo[v]
    BY <1>0, <2>3
  <2>5. msg' \in [Workers -> Messages \cup {NoMessage}] /\ \A v \in Workers \ {w} : msg'[v] = msg[v]
    BY <1>0, <2>3
  <2>6. UNCHANGED <<held, recovery, op, claim, next>>
    BY <1>3 DEF LockMessage, LockRefused
  <2> QED
    BY <1>0, <2>2, <2>4, <2>5, <2>6
<1>4. ASSUME GetEntry(w) PROVE CallTyped' /\ OthersKeep(w)
  <2>1. pc' \in [Workers -> Places] /\ \A v \in Workers \ {w} : pc'[v] = pc[v]
    BY <1>0, <1>4, GotoEffect DEF GetEntry, Places
  <2>2. msg[w] \in Messages /\ entry[msg[w]] \in Entry
    BY <1>0, <1>p, <1>e, <1>4 DEF GetEntry, PhaseOK, InPhase, KnownOK, Busy
  <2>3. PICK k \in Nat : k = FreshToken
    BY FreshTokenIsNat
  <2>4. PICK a \in Nat : a = entry[msg[w]].attempts + 1
    BY <2>2 DEF Entry
  <2>5. [token |-> k, attempts |-> a] \in [token : Nat, attempts : Nat]
    OBVIOUS
  <2>6. [status |-> "processing", token |-> k, wait |-> Visibility, attempts |-> a] \in Entry
    BY <1>v DEF Entry
  <2>7. claim' \in [Workers -> [token : Nat, attempts : Nat]]
        /\ \A v \in Workers \ {w} : claim'[v] = claim[v]
    BY <1>0, <1>4, <2>3, <2>4, <2>5 DEF GetEntry
  <2>8. next' \in [Workers -> Entry \cup {NoEntry}] /\ \A v \in Workers \ {w} : next'[v] = next[v]
    BY <1>0, <1>4, <2>3, <2>4, <2>6 DEF GetEntry
  <2>9. op' \in [Workers -> Operations \cup {"none"}] /\ \A v \in Workers \ {w} : op'[v] = op[v]
    BY <1>0, <1>4 DEF GetEntry, Operations
  <2>10. UNCHANGED <<msg, todo, held, recovery>>
    BY <1>4 DEF GetEntry
  <2> QED
    BY <1>0, <2>1, <2>7, <2>8, <2>9, <2>10
<1>5. ASSUME Merge(w) PROVE CallTyped' /\ OthersKeep(w)
  <2>1. pc' \in [Workers -> Places] /\ \A v \in Workers \ {w} : pc'[v] = pc[v]
    BY <1>0, <1>5, GotoEffect DEF Merge, Places
  <2>2. msg[w] \in Messages /\ entry[msg[w]] \in Entry
    BY <1>0, <1>p, <1>e, <1>5 DEF Merge, PhaseOK, InPhase, KnownOK, Busy
  <2>5. Merged(w) \in Entry
    BY <1>5, MergedIsEntry DEF Merge
  <2>6. next' \in [Workers -> Entry \cup {NoEntry}] /\ \A v \in Workers \ {w} : next'[v] = next[v]
    BY <1>0, <1>5, <2>5 DEF Merge
  <2>7. UNCHANGED <<msg, todo, held, recovery, op, claim>>
    BY <1>5 DEF Merge
  <2> QED
    BY <1>0, <2>1, <2>6, <2>7
<1>6. ASSUME PutClaim(w) \/ PutReleased(w) PROVE CallTyped' /\ OthersKeep(w)
  <2>1. \E where \in Places : Goto(w, where)
    BY <1>6 DEF PutClaim, PutReleased, Places
  <2>2. pc' \in [Workers -> Places] /\ \A v \in Workers \ {w} : pc'[v] = pc[v]
    BY <1>0, <2>1, GotoEffect
  <2>3. next' \in [Workers -> Entry \cup {NoEntry}] /\ \A v \in Workers \ {w} : next'[v] = next[v]
    BY <1>0, <1>6 DEF PutClaim, PutReleased
  <2>4. claim' \in [Workers -> [token : Nat, attempts : Nat]]
        /\ \A v \in Workers \ {w} : claim'[v] = claim[v]
    BY <1>0, <1>6 DEF PutClaim, PutReleased, NoClaim, NoToken
  <2>5. UNCHANGED <<msg, todo, held, recovery, op>>
    BY <1>6 DEF PutClaim, PutReleased
  <2> QED
    BY <1>0, <2>2, <2>3, <2>4, <2>5
<1>8. ASSUME Load(w) PROVE CallTyped' /\ OthersKeep(w)
  <2>1. pc' \in [Workers -> Places] /\ \A v \in Workers \ {w} : pc'[v] = pc[v]
    BY <1>0, <1>8, GotoEffect DEF Load, Places
  <2> QED
    BY <1>0, <1>8, <2>1 DEF Load
<1>9. ASSUME LoadMissing(w) \/ Ack(w) \/ Nack(w) PROVE CallTyped' /\ OthersKeep(w)
  <2>1. PICK o \in Outcomes : op' = [op EXCEPT ![w] = o]
    BY <1>9 DEF LoadMissing, Ack, Nack, EndHandler, Settling, FailureOp, Outcomes
  <2>2. \E where \in Places : Goto(w, where)
    BY <1>9 DEF LoadMissing, Ack, Nack, Settling, Places
  <2>3. pc' \in [Workers -> Places] /\ \A v \in Workers \ {w} : pc'[v] = pc[v]
    BY <1>0, <2>2, GotoEffect
  <2>4. op' \in [Workers -> Operations \cup {"none"}] /\ \A v \in Workers \ {w} : op'[v] = op[v]
    BY <1>0, <2>1 DEF Outcomes, Operations
  <2>5. UNCHANGED <<msg, todo, held, recovery, claim, next>>
    BY <1>9 DEF LoadMissing, Ack, Nack, EndHandler
  <2> QED
    BY <1>0, <2>3, <2>4, <2>5
<1>11. ASSUME NEW m \in Messages, NoLongerStalled(w, m) PROVE CallTyped' /\ OthersKeep(w)
  <2>1. \E where \in Places : Goto(w, where)
    BY <1>11 DEF NoLongerStalled, Places
  <2>2. pc' \in [Workers -> Places] /\ \A v \in Workers \ {w} : pc'[v] = pc[v]
    BY <1>0, <2>1, GotoEffect
  <2>3. todo' \in [Workers -> SUBSET Messages] /\ \A v \in Workers \ {w} : todo'[v] = todo[v]
    BY <1>0, <1>11 DEF NoLongerStalled, Candidate
  <2>4. recovery' \in [Workers -> BOOLEAN]
    <3>1. \E b \in BOOLEAN : recovery' = [recovery EXCEPT ![w] = b]
      BY <1>11, Zenon DEF NoLongerStalled
    <3> QED
      BY <1>0, <3>1
  <2>5. UNCHANGED <<msg, held, op, claim, next>>
    BY <1>11 DEF NoLongerStalled, Candidate
  <2> QED
    BY <1>0, <2>2, <2>3, <2>4, <2>5
<1>12. ASSUME NEW m \in Messages, Recover(w, m) \/ RecoverExhausted(w, m)
       PROVE  CallTyped' /\ OthersKeep(w)
  <2>1. \E where \in Places : Goto(w, where)
    BY <1>12 DEF Recover, RecoverExhausted, Settling, Places
  <2>2. pc' \in [Workers -> Places] /\ \A v \in Workers \ {w} : pc'[v] = pc[v]
    BY <1>0, <2>1, GotoEffect
  <2>3. todo' \in [Workers -> SUBSET Messages] /\ \A v \in Workers \ {w} : todo'[v] = todo[v]
    BY <1>0, <1>12 DEF Recover, RecoverExhausted, Candidate
  <2>4. msg' \in [Workers -> Messages \cup {NoMessage}] /\ \A v \in Workers \ {w} : msg'[v] = msg[v]
    BY <1>0, <1>12 DEF Recover, RecoverExhausted
  <2>5. op' \in [Workers -> Operations \cup {"none"}] /\ \A v \in Workers \ {w} : op'[v] = op[v]
    <3>1. \E o \in Operations : op' = [op EXCEPT ![w] = o]
      BY <1>12 DEF Recover, RecoverExhausted, Settling, Operations
    <3> QED
      BY <1>0, <3>1
  <2>6. claim' \in [Workers -> [token : Nat, attempts : Nat]]
        /\ \A v \in Workers \ {w} : claim'[v] = claim[v]
    <3>1. entry[m] \in Entry
      BY <1>e, <1>12 DEF Recover, RecoverExhausted, Stalled, Visible
    <3>2. PICK c \in [token : Nat, attempts : Nat] :
            c = [token |-> entry[m].token, attempts |-> entry[m].attempts]
      BY <3>1 DEF Entry
    <3>3. UNCHANGED claim \/ claim' = [claim EXCEPT ![w] = c]
      BY <1>12, <3>2 DEF Recover, RecoverExhausted
    <3> QED
      BY <1>0, <3>3
  <2>7. UNCHANGED <<held, recovery, next>>
    BY <1>12 DEF Recover, RecoverExhausted, Candidate
  <2> QED
    BY <1>0, <2>2, <2>3, <2>4, <2>5, <2>6, <2>7
<1>14. CASE Ends(w)
  BY <1>0, <1>14, EndsEffect
<1>15. CASE CheckMarker(w) \/ MissMarker(w) \/ Mark(w) \/ Settle(w) \/ InsertLetter(w)
  BY <1>0, <1>15, MovesEffect
<1> QED
  BY <1>1, <1>2, <1>3, <1>4, <1>5, <1>6, <1>8, <1>9, <1>11, <1>12, <1>14, <1>15
     DEF WorkerAction, Step, Ends

\* A handler that does not wait for its renewal exposes its message.
Hasty(w) == (Ack(w) \/ Nack(w)) /\ renewal[w].msg = msg[w] /\ Expose(msg[w])

\* What a worker's step changes outside its own call.
LEMMA SharedStep ==
  ASSUME NEW w \in Workers, WorkerAction(w)
  PROVE  /\ UNCHANGED <<mode, strategy, due>>
         /\ \/ UNCHANGED renewal
            \/ Crash(w) /\ renewal' = [renewal EXCEPT ![w] = NoRenewal]
         /\ \/ UNCHANGED entry
            \/ pc[w] = "putting" /\ entry' = [entry EXCEPT ![msg[w]] = next[w]]
         /\ UNCHANGED letters \/ InsertLetter(w)
         /\ UNCHANGED lock \/ LockMessage(w) \/ FindMarker(w) \/ Mark(w) \/ Crash(w)
         /\ UNCHANGED marker \/ Mark(w) \/ Clear(w) \/ GetEntryFails(w)
         /\ UNCHANGED ticket \/ SetTicket(w) \/ ReleaseTicket(w) \/ Load(w)
         /\ UNCHANGED local \/ FindMarker(w) \/ Mark(w) \/ NotClaimable(w) \/ PutFails(w)
            \/ Clear(w) \/ Crash(w) \/ GetEntryFails(w) \/ ClearFails(w)
         /\ \/ UNCHANGED ghosts \/ Mark(w) \/ Load(w)
            \/ MissMarker(w) /\ Expose(msg[w])
            \/ Hasty(w)
            \/ \E m \in Messages : Expose(m) /\ (Recover(w, m) \/ RecoverExhausted(w, m))
         /\ UNCHANGED faults \/ (\E kind : Fault(kind))
<1> USE DEF store, context, ghosts
<1>1. CASE TakeTicket(w) \/ SetTicket(w) \/ ReleaseTicket(w) \/ Query(w)
  BY <1>1 DEF TakeTicket, SetTicket, ReleaseTicket, Query
<1>2. CASE LockMessage(w) \/ LockRefused(w) \/ CheckMarker(w) \/ MissMarker(w) \/ FindMarker(w)
  BY <1>2 DEF LockMessage, LockRefused, CheckMarker, MissMarker, FindMarker
<1>3. CASE Mark(w)
  BY <1>3 DEF Mark
<1>4. CASE GetEntry(w) \/ NotClaimable(w) \/ GetEntryFails(w) \/ Merge(w)
  BY <1>4 DEF GetEntry, NotClaimable, GetEntryFails, ClearMarker, Merge
<1>5. CASE PutClaim(w) \/ PutCompleted(w) \/ PutReleased(w)
  BY <1>5 DEF PutClaim, PutCompleted, PutReleased, Write
<1>6. CASE PutFails(w)
  BY <1>6 DEF PutFails, Write
<1>7. CASE Clear(w) \/ ClearFails(w) \/ Load(w) \/ LoadMissing(w)
  BY <1>7 DEF Clear, ClearFails, ClearMarker, Load, LoadMissing
<1>12. CASE Ack(w) \/ Nack(w)
  BY <1>12 DEF Ack, Nack, EndHandler, Hasty
<1>8. CASE InsertLetter(w) \/ InsertLetterFails(w) \/ Settle(w) \/ TokenMismatch(w)
  BY <1>8 DEF InsertLetter, InsertLetterFails, Settle, TokenMismatch
<1>9. CASE StartRecovery(w) \/ Crash(w)
  BY <1>9 DEF StartRecovery, Crash
<1>10. ASSUME NEW m \in Messages, NoLongerStalled(w, m) PROVE UNCHANGED <<context, store, local, ghosts, faults>>
  BY <1>10 DEF NoLongerStalled, Candidate
<1>11. ASSUME NEW m \in Messages, Recover(w, m) \/ RecoverExhausted(w, m)
       PROVE  UNCHANGED <<context, store, local, faults>> /\ Expose(m)
  BY <1>11 DEF Recover, RecoverExhausted, Candidate
<1> QED
  BY <1>1, <1>2, <1>3, <1>4, <1>5, <1>6, <1>7, <1>8, <1>9, <1>10, <1>11, <1>12 DEF WorkerAction, Step

\* What is not the step of a worker: the application, the leader, time.
Outside ==
  \/ \E m \in Messages : Enqueue(m)
  \/ \E t \in Tickets : Publish(t) \/ ExpireTicket(t)
  \/ Due \/ Tick

LEMMA StepIsEither ==
  ASSUME [Next]_vars
  PROVE  Outside \/ UNCHANGED vars \/ \E w \in Workers : WorkerAction(w) \/ RenewalAction(w)
BY DEF Next, Trouble, Outside, WorkerAction, RenewalAction

LEMMA OutsideStep ==
  ASSUME Outside \/ UNCHANGED vars
  PROVE  /\ UNCHANGED <<mode, strategy, lock, letters, pc, msg, todo, held, recovery, op, claim,
                         next, renewal, deliveries, exposed, faults>>
         /\ UNCHANGED entry \/ Tick \/ \E m \in Messages : Enqueue(m)
         /\ UNCHANGED <<marker, local>> \/ Tick
         /\ UNCHANGED ticket \/ \E t \in Tickets : Publish(t) \/ ExpireTicket(t)
         /\ UNCHANGED due \/ due' \in BOOLEAN
<1> USE DEF store, context, ghosts, worker
<1>1. CASE \E m \in Messages : Enqueue(m)
  BY <1>1 DEF Enqueue
<1>2. CASE \E t \in Tickets : Publish(t) \/ ExpireTicket(t)
  BY <1>2 DEF Publish, ExpireTicket
<1>3. CASE Due \/ Tick
  BY <1>3 DEF Due, Tick
<1>4. CASE UNCHANGED vars
  BY <1>4 DEF vars
<1> QED
  BY <1>1, <1>2, <1>3, <1>4 DEF Outside

\* A ticket that is set or released stays a ticket for its message.
LEMMA TicketStep ==
  ASSUME Typed, NEW w \in Workers, SetTicket(w) \/ ReleaseTicket(w)
  PROVE  \E x \in Tickets, y \in {NoTicket} \cup [msg : Messages, by : Workers \cup {Free}] :
           /\ ticket' = [ticket EXCEPT ![x] = y]
           /\ y # NoTicket => \/ ticket[x] # NoTicket /\ y.msg = ticket[x].msg
                              \/ y.msg = msg[w] /\ entry[msg[w]] # NoEntry
<1> DEFINE T == [msg : Messages, by : Workers \cup {Free}]
<1>0. CallTyped /\ StoreTyped /\ InPhase(w)
  BY TypeParts DEF Typed, PhaseOK
<1>1. PICK x : x = held[w]
  OBVIOUS
<1>2. x \in Tickets
  BY <1>0, <1>1 DEF CallTyped, InPhase, SetTicket, ReleaseTicket
<1>3. ticket[x] \in T \cup {NoTicket}
  BY <1>0, <1>2 DEF StoreTyped
<1>4. \E y : /\ ticket' = [ticket EXCEPT ![x] = y]
             /\ \/ y = ticket[x]
                \/ pc[w] = "taking" /\ y = [msg |-> msg[w], by |-> w]
                \/ ticket[x] # NoTicket /\ y = [ticket[x] EXCEPT !.by = Free]
  <2>1. CASE SetTicket(w)
    <3>1. PICK z : z = [msg |-> msg[w], by |-> Free]
      OBVIOUS
    <3>2. [z EXCEPT !.by = w] = [msg |-> msg[w], by |-> w]
      BY <3>1
    <3>3. ticket' = [ticket EXCEPT ![x] = IF @ = z THEN [@ EXCEPT !.by = w] ELSE @]
      BY <1>1, <2>1, <3>1 DEF SetTicket
    <3>4. pc[w] = "taking"
      BY <2>1 DEF SetTicket
    <3>5. CASE ticket[x] = z
      BY <3>2, <3>3, <3>4, <3>5
    <3>6. CASE ticket[x] # z
      BY <3>3, <3>6
    <3> QED
      BY <3>5, <3>6
  <2>2. CASE ReleaseTicket(w)
    <3>1. ticket' = [ticket EXCEPT ![x] = IF @ = NoTicket THEN @
                                          ELSE IF @.by = w THEN [@ EXCEPT !.by = Free] ELSE @]
      BY <1>1, <2>2 DEF ReleaseTicket
    <3> QED
      BY <3>1
  <2> QED
    BY <2>1, <2>2
<1>5. PICK y : /\ ticket' = [ticket EXCEPT ![x] = y]
               /\ \/ y = ticket[x]
                  \/ pc[w] = "taking" /\ y = [msg |-> msg[w], by |-> w]
                  \/ ticket[x] # NoTicket /\ y = [ticket[x] EXCEPT !.by = Free]
  BY <1>4
<1>6. /\ y \in T \cup {NoTicket}
      /\ y # NoTicket => \/ ticket[x] # NoTicket /\ y.msg = ticket[x].msg
                         \/ y.msg = msg[w] /\ entry[msg[w]] # NoEntry
  <2>1. CASE pc[w] = "taking" /\ y = [msg |-> msg[w], by |-> w]
    <3>1. msg[w] \in Messages /\ entry[msg[w]] # NoEntry
      BY <2>1, BusyWithMessage DEF Busy
    <3> QED
      BY <2>1, <3>1
  <2>2. CASE y = ticket[x]
    BY <1>3, <2>2
  <2>3. CASE ticket[x] # NoTicket /\ y = [ticket[x] EXCEPT !.by = Free]
    BY <1>3, <2>3
  <2> QED
    BY <1>5, <2>1, <2>2, <2>3
<1> QED
  BY <1>2, <1>5, <1>6

LEMMA StoreStep ==
  ASSUME Typed, NEW w \in Workers, WorkerAction(w)
  PROVE  StoreTyped'
<1>0. CallTyped /\ StoreTyped
  BY TypeParts DEF Typed
<1>p. PhaseOK /\ KnownOK
  BY DEF Typed
<1>m. pc[w] \in Busy => msg[w] \in Messages
  BY BusyWithMessage
<1> USE DEF StoreTyped
<1>1. mode' \in Modes /\ strategy' \in Strategies
  BY <1>0, SharedStep
<1>2. entry' \in [Messages -> Entry \cup {NoEntry}]
  <2>1. CASE UNCHANGED entry
    BY <1>0, <2>1
  <2>2. CASE pc[w] = "putting" /\ entry' = [entry EXCEPT ![msg[w]] = next[w]]
    BY <1>0, <2>2, PutsAnEntry
  <2> QED
    BY <2>1, <2>2, SharedStep
<1>3. lock' \in [Messages -> Workers \cup {Free, Abandoned}]
  <2>1. CASE LockMessage(w)
    BY <1>0, <2>1 DEF LockMessage
  <2>2. CASE FindMarker(w)
    BY <1>0, <2>2 DEF FindMarker
  <2>3. CASE Mark(w)
    BY <1>0, <2>3 DEF Mark
  <2>4. CASE Crash(w)
    BY <1>0, <2>4 DEF Crash
  <2> QED
    BY <1>0, <2>1, <2>2, <2>3, <2>4, SharedStep
<1>4. marker' \in [Messages -> 0 .. MarkerTTL]
  <2>1. 0 \in 0 .. MarkerTTL /\ MarkerTTL \in 0 .. MarkerTTL
    BY QueueAssumption
  <2>2. CASE Mark(w)
    BY <1>0, <2>1, <2>2 DEF Mark
  <2>3. CASE Clear(w) \/ GetEntryFails(w)
    BY <1>0, <2>1, <2>3 DEF Clear, GetEntryFails, ClearMarker
  <2> QED
    BY <1>0, <2>2, <2>3, SharedStep
<1>5. letters' \subseteq Messages
  BY <1>0, <1>m, SharedStep DEF InsertLetter, Busy
<1>6. ticket' \in [Tickets -> {NoTicket} \cup [msg : Messages, by : Workers \cup {Free}]]
  <2> DEFINE T == [msg : Messages, by : Workers \cup {Free}]
  <2>1. CASE SetTicket(w) \/ ReleaseTicket(w)
    <3>1. PICK x \in Tickets, y \in T \cup {NoTicket} : ticket' = [ticket EXCEPT ![x] = y]
      BY <2>1, TicketStep
    <3> QED
      BY <1>0, <3>1
  <2>2. CASE Load(w)
    BY <1>0, <2>2 DEF Load
  <2> QED
    BY <1>0, <2>1, <2>2, SharedStep
<1> QED
  BY <1>1, <1>2, <1>3, <1>4, <1>5, <1>6

LEMMA LocalAndHistoryStep ==
  ASSUME Typed, NEW w \in Workers, WorkerAction(w)
  PROVE  LocalTyped' /\ GhostTyped'
<1>0. CallTyped /\ StoreTyped /\ LocalTyped /\ GhostTyped
  BY TypeParts DEF Typed
<1>m. pc[w] \in Busy => msg[w] \in Messages
  BY BusyWithMessage
<1>t. 0 \in 0 .. MarkerTTL /\ MarkerTTL \in 0 .. MarkerTTL
  BY QueueAssumption
<1>1. LocalTyped'
  <2>1. \/ UNCHANGED local
        \/ \E n \in 0 .. MarkerTTL : pc[w] \in Busy /\ local' = [local EXCEPT ![w][msg[w]] = n]
        \/ local' = [local EXCEPT ![w] = [m \in Messages |-> 0]]
    <3>1. CASE FindMarker(w)
      <4>1. PICK n : n = IF local[w][msg[w]] > 0 THEN local[w][msg[w]] ELSE MarkerTTL
        OBVIOUS
      <4>2. pc[w] \in Busy
        BY <3>1 DEF FindMarker, Busy
      <4>3. n \in 0 .. MarkerTTL
        BY <1>0, <1>m, <1>t, <4>1, <4>2 DEF LocalTyped
      <4>4. local' = [local EXCEPT ![w][msg[w]] = n]
        BY <3>1, <4>1 DEF FindMarker
      <4> QED
        BY <4>2, <4>3, <4>4
    <3>2. CASE Mark(w)
      BY <1>t, <3>2 DEF Mark, Busy
    <3>3. CASE NotClaimable(w)
      BY <1>t, <3>3 DEF NotClaimable, Busy
    <3>4. CASE PutFails(w)
      BY <1>t, <3>4 DEF PutFails, Busy
    <3>5. CASE Clear(w) \/ ClearFails(w) \/ GetEntryFails(w)
      BY <1>t, <3>5 DEF Clear, ClearFails, GetEntryFails, ClearMarker, Busy
    <3>6. CASE Crash(w)
      BY <3>6 DEF Crash
    <3> QED
      BY <3>1, <3>2, <3>3, <3>4, <3>5, <3>6, SharedStep
  <2>2. ASSUME NEW n \in 0 .. MarkerTTL, pc[w] \in Busy, local' = [local EXCEPT ![w][msg[w]] = n]
        PROVE  LocalTyped'
    BY <1>0, <1>m, <2>2, LocalStep
  <2>3. CASE local' = [local EXCEPT ![w] = [m \in Messages |-> 0]]
    BY <1>0, <1>t, <2>3 DEF LocalTyped
  <2>4. CASE UNCHANGED local
    BY <1>0, <2>4 DEF LocalTyped
  <2> QED
    BY <2>1, <2>2, <2>3, <2>4
<1>2. due' \in BOOLEAN /\ faults' \in 0 .. MaxFaults
  BY <1>0, SharedStep, FaultIsCounted DEF GhostTyped
<1>3. deliveries' \in [Messages -> Nat] /\ exposed' \in [Messages -> BOOLEAN]
  <2>1. ASSUME NEW m \in Messages, Expose(m)
        PROVE  deliveries' \in [Messages -> Nat] /\ exposed' \in [Messages -> BOOLEAN]
    BY <1>0, <2>1 DEF GhostTyped, Expose
  <2>2. CASE UNCHANGED ghosts
    BY <1>0, <2>2 DEF GhostTyped, ghosts
  <2>3. CASE Mark(w)
    <3>1. msg[w] \in Messages
      BY <1>m, <2>3 DEF Mark, Busy
    <3> QED
      BY <2>1, <2>2, <2>3, <3>1 DEF Mark
  <2>5. CASE (MissMarker(w) /\ Expose(msg[w])) \/ Hasty(w)
    <3>1. msg[w] \in Messages
      BY <1>m, <2>5 DEF MissMarker, Hasty, Ack, Nack, EndHandler, Busy
    <3> QED
      BY <2>1, <2>5, <3>1 DEF Hasty
  <2>4. CASE Load(w)
    <3>1. msg[w] \in Messages
      BY <1>m, <2>4 DEF Load, Busy
    <3>2. PICK k : k = Min({deliveries[msg[w]] + 1, MaxAttempts + 1})
      OBVIOUS
    <3>3. k \in Nat
      BY <1>0, <3>1, <3>2, CappedCount DEF GhostTyped
    <3>4. exposed' = exposed /\ deliveries' \in {[deliveries EXCEPT ![msg[w]] = 0],
                                                  [deliveries EXCEPT ![msg[w]] = k]}
      BY <2>4, <3>2 DEF Load, Deliver
    <3> QED
      BY <1>0, <3>1, <3>3, <3>4 DEF GhostTyped
  <2> QED
    BY <2>1, <2>2, <2>3, <2>4, <2>5, SharedStep
<1> QED
  BY <1>1, <1>2, <1>3 DEF GhostTyped

LEMMA PhaseStep ==
  ASSUME Typed, NEW w \in Workers, WorkerAction(w)
  PROVE  PhaseOK'
<1>0. CallTyped /\ StoreTyped /\ CallTyped' /\ OthersKeep(w)
  BY TypeParts, CallStep DEF Typed
<1>p. InPhase(w)
  BY DEF Typed, PhaseOK
<1>m. pc[w] \in Busy => msg[w] \in Messages /\ msg[w] # NoMessage /\ entry[msg[w]] \in Entry
  BY BusyWithMessage
<1>n. NoMessage \notin Messages /\ NoTicket \notin Tickets /\ NoEntry \notin Entry
  BY QueueAssumption, NoEntryAssumption
<1>t. CallTyped
  BY <1>0
<1> USE DEF InPhase, Asking
<1>1. ASSUME Ends(w) PROVE InPhase(w)'
  BY <1>t, <1>1, EndsEffect DEF LetsGo, Busy
<1>2. ASSUME TakeTicket(w) PROVE InPhase(w)'
  <2>1. PICK t \in Tickets : /\ ticket[t] # NoTicket
                             /\ held' = [held EXCEPT ![w] = t]
                             /\ msg' = [msg EXCEPT ![w] = ticket[t].msg]
    BY <1>2 DEF TakeTicket
  <2>2. ticket[t].msg \in Messages
    BY <1>0, <2>1 DEF StoreTyped
  <2>3. op'[w] = "none" /\ next'[w] = NoEntry /\ pc'[w] = "taking"
    BY <1>t, <1>p, <1>2 DEF TakeTicket, Goto, CallTyped
  <2> QED
    BY <1>t, <1>n, <2>1, <2>2, <2>3 DEF CallTyped
<1>3. ASSUME SetTicket(w) \/ Query(w) \/ LockRefused(w) \/ StartRecovery(w) PROVE InPhase(w)'
  BY <1>t, <1>p, <1>3 DEF SetTicket, Query, LockRefused, StartRecovery, Goto, CallTyped, Busy
<1>4. ASSUME LockMessage(w) PROVE InPhase(w)'
  <2>1. PICK m \in Messages : msg' = [msg EXCEPT ![w] = m]
    BY <1>t, <1>4 DEF LockMessage, CallTyped
  <2> QED
    BY <1>t, <1>n, <1>p, <1>4, <2>1 DEF LockMessage, Goto, CallTyped
<1>5. ASSUME CheckMarker(w) \/ MissMarker(w) \/ Mark(w) \/ InsertLetter(w) \/ Settle(w)
      PROVE  InPhase(w)'
  <2>1. UNCHANGED <<msg, held, op, next>> /\ msg[w] # NoMessage
    BY <1>m, <1>5 DEF CheckMarker, MissMarker, Mark, InsertLetter, Settle, Busy
  <2>2. CASE CheckMarker(w) \/ MissMarker(w) \/ Mark(w)
    BY <1>t, <1>p, <2>1, <2>2 DEF CheckMarker, MissMarker, Mark, Goto, CallTyped
  <2>3. CASE InsertLetter(w)
    BY <1>t, <1>p, <2>1, <2>3 DEF InsertLetter, Goto, CallTyped, Outcomes
  <2>4. CASE Settle(w)
    BY <1>t, <1>p, <2>1, <2>4 DEF Settle, Goto, CallTyped, Outcomes
  <2> QED
    BY <1>5, <2>2, <2>3, <2>4
<1>6. ASSUME GetEntry(w) PROVE InPhase(w)'
  <2>1. PICK e : e = [status |-> "processing", token |-> FreshToken, wait |-> Visibility,
                      attempts |-> entry[msg[w]].attempts + 1]
    OBVIOUS
  <2>2. next' = [next EXCEPT ![w] = e]
    BY <1>6, <2>1 DEF GetEntry
  <2>3. e \in Entry
    <3>1. FreshToken \in Nat /\ entry[msg[w]].attempts \in Nat /\ Visibility \in 0 .. MaxWait
      BY <1>m, <1>6, FreshTokenIsNat, QueueAssumption DEF GetEntry, Busy, Entry
    <3> QED
      BY <2>1, <3>1 DEF Entry
  <2>4. pc'[w] = "putting" /\ op'[w] = "claim" /\ msg'[w] # NoMessage
    BY <1>t, <1>m, <1>6 DEF GetEntry, Goto, CallTyped, Busy
  <2> QED
    BY <1>t, <1>n, <2>2, <2>3, <2>4 DEF CallTyped
<1>7. ASSUME Merge(w) PROVE InPhase(w)'
  <2>1. pc'[w] = "putting" /\ op'[w] = op[w] /\ msg'[w] # NoMessage /\ next'[w] = Merged(w)
    BY <1>t, <1>m, <1>7 DEF Merge, Goto, CallTyped, Busy
  <2>2. Merged(w) \in Entry
    BY <1>7, MergedIsEntry DEF Merge
  <2>3. op[w] # "none"
    BY <1>p, <1>7 DEF Merge, Outcomes
  <2> QED
    BY <1>n, <2>1, <2>2, <2>3
<1>8. ASSUME PutClaim(w) \/ PutReleased(w) PROVE InPhase(w)'
  BY <1>t, <1>m, <1>8 DEF PutClaim, PutReleased, Goto, CallTyped, Busy
<1>10. ASSUME Load(w) PROVE InPhase(w)'
  BY <1>t, <1>p, <1>m, <1>10 DEF Load, Goto, CallTyped, Busy
<1>11. ASSUME LoadMissing(w) \/ Ack(w) \/ Nack(w) PROVE InPhase(w)'
  <2>1. \E o \in Outcomes : /\ op' = [op EXCEPT ![w] = o]
                             /\ Goto(w, IF o = "dead" THEN "lettering" ELSE "settling")
    BY <1>11 DEF LoadMissing, Ack, Nack, EndHandler, Settling, FailureOp, Outcomes
  <2>2. UNCHANGED <<msg, next>> /\ msg[w] # NoMessage /\ next[w] = NoEntry
    BY <1>p, <1>m, <1>11 DEF LoadMissing, Ack, Nack, EndHandler, Busy
  <2> QED
    BY <1>t, <2>1, <2>2 DEF Goto, CallTyped, Outcomes
<1>13. ASSUME NEW m \in Messages, NoLongerStalled(w, m) PROVE InPhase(w)'
  BY <1>t, <1>p, <1>13 DEF NoLongerStalled, Candidate, Goto, CallTyped, Busy
<1>14. ASSUME NEW m \in Messages, Recover(w, m) \/ RecoverExhausted(w, m) PROVE InPhase(w)'
  <2>1. msg'[w] # NoMessage /\ next'[w] = NoEntry
    BY <1>t, <1>p, <1>n, <1>14 DEF Recover, RecoverExhausted, Candidate, CallTyped
  <2>2. CASE Recover(w, m)
    BY <1>t, <2>1, <2>2 DEF Recover, Goto, CallTyped
  <2>3. CASE RecoverExhausted(w, m)
    <3>1. \E o \in {"fail", "dead"} : /\ op' = [op EXCEPT ![w] = o]
                                      /\ Goto(w, IF o = "dead" THEN "lettering" ELSE "settling")
      BY <2>3 DEF RecoverExhausted, Settling
    <3> QED
      BY <1>t, <2>1, <3>1 DEF Goto, CallTyped, Outcomes
  <2> QED
    BY <1>14, <2>2, <2>3
<1>15. InPhase(w)'
  BY <1>1, <1>2, <1>3, <1>4, <1>5, <1>6, <1>7, <1>8, <1>10, <1>11, <1>13, <1>14
     DEF WorkerAction, Step, Ends
<1>16. ASSUME NEW v \in Workers \ {w} PROVE InPhase(v)'
  <2>1. InPhase(v)
    BY DEF Typed, PhaseOK
  <2> QED
    BY <1>0, <2>1 DEF OthersKeep
<1> QED
  BY <1>15, <1>16 DEF PhaseOK

\* An entry is not deleted.
LEMMA EntriesStay ==
  ASSUME Typed, NEW w \in Workers, WorkerAction(w), NEW m \in Messages, entry[m] # NoEntry
  PROVE  entry'[m] # NoEntry
<1>1. StoreTyped
  BY TypeParts DEF Typed
<1> QED
  BY <1>1, SharedStep, PutsAnEntry DEF StoreTyped

LEMMA KnownStep ==
  ASSUME Typed, NEW w \in Workers, WorkerAction(w)
  PROVE  KnownOK'
<1>0. CallTyped /\ StoreTyped /\ CallTyped' /\ OthersKeep(w)
  BY TypeParts, CallStep DEF Typed
<1>t. CallTyped
  BY <1>0
<1>k. KnownOK
  BY DEF Typed
<1>n. NoMessage \notin Messages /\ NoTicket \notin Tickets
  BY QueueAssumption
<1>s. \A m \in Messages : entry[m] # NoEntry => entry'[m] # NoEntry
  BY EntriesStay
<1>m. pc[w] \in Busy => msg[w] \in Messages /\ entry[msg[w]] # NoEntry
  BY BusyWithMessage
<1>1. msg'[w] # NoMessage => msg'[w] \in Messages /\ entry[msg'[w]] # NoEntry
  <2> DEFINE Heard == msg'[w] # NoMessage => msg'[w] \in Messages /\ entry[msg'[w]] # NoEntry
  <2>1. ASSUME msg'[w] = msg[w] PROVE Heard
    BY <1>t, <1>k, <2>1 DEF CallTyped, KnownOK
  <2>2. ASSUME Ends(w) \/ LockRefused(w) PROVE Heard
    <3>1. CASE Ends(w)
      BY <1>t, <3>1, EndsEffect DEF LetsGo
    <3>2. CASE LockRefused(w)
      BY <1>t, <3>2 DEF LockRefused, CallTyped
    <3> QED
      BY <2>2, <3>1, <3>2
  <2>3. ASSUME TakeTicket(w) PROVE Heard
    <3>1. PICK t \in Tickets : ticket[t] # NoTicket /\ msg' = [msg EXCEPT ![w] = ticket[t].msg]
      BY <2>3 DEF TakeTicket
    <3>2. ticket[t].msg \in Messages
      BY <1>0, <3>1 DEF StoreTyped
    <3> QED
      BY <1>t, <1>k, <3>1, <3>2 DEF CallTyped, KnownOK
  <2>4. ASSUME LockMessage(w) PROVE Heard
    BY <1>t, <1>k, <2>4 DEF LockMessage, CallTyped, KnownOK
  <2>5. ASSUME NEW m \in Messages, Recover(w, m) \/ RecoverExhausted(w, m) PROVE Heard
    BY <1>t, <2>5 DEF Recover, RecoverExhausted, Stalled, Visible, CallTyped
  <2>6. ASSUME NEW m \in Messages, NoLongerStalled(w, m) PROVE Heard
    BY <2>1, <2>6 DEF NoLongerStalled
  <2>7. ASSUME SetTicket(w) \/ Query(w) \/ StartRecovery(w) \/ CheckMarker(w) \/ MissMarker(w)
               \/ Mark(w) \/ Settle(w) \/ InsertLetter(w) PROVE Heard
    BY <2>1, <2>7 DEF SetTicket, Query, StartRecovery, CheckMarker, MissMarker, Mark, Settle, InsertLetter
  <2>8. ASSUME GetEntry(w) \/ Merge(w) \/ PutClaim(w) \/ PutReleased(w)
               \/ Load(w) \/ LoadMissing(w) \/ Ack(w) \/ Nack(w) PROVE Heard
    BY <2>1, <2>8 DEF GetEntry, Merge, PutClaim, PutReleased, Load, LoadMissing, Ack, Nack, EndHandler
  <2> HIDE DEF Heard
  <2>10. Heard
    BY <2>2, <2>3, <2>4, <2>5, <2>6, <2>7, <2>8 DEF WorkerAction, Step, Ends
  <2> QED
    BY <2>10 DEF Heard
<1>2. todo'[w] \subseteq {m \in Messages : entry[m] # NoEntry}
  <2> DEFINE Listed == todo'[w] \subseteq {m \in Messages : entry[m] # NoEntry}
  <2>1. ASSUME todo'[w] \subseteq todo[w] PROVE Listed
    BY <1>t, <1>k, <2>1 DEF CallTyped, KnownOK
  <2>2. ASSUME Ends(w) PROVE Listed
    BY <1>t, <2>1, <2>2, EndsEffect DEF LetsGo
  <2>3. ASSUME SetTicket(w) PROVE Listed
    BY <1>t, <1>m, <2>3 DEF SetTicket, CallTyped, Busy
  <2>4. ASSUME Query(w) \/ StartRecovery(w) PROVE Listed
    BY <1>t, <2>4 DEF Query, StartRecovery, Pending, Stalled, Visible, CallTyped
  <2>5. ASSUME LockMessage(w) \/ LockRefused(w) \/ Load(w) PROVE Listed
    <3>1. todo'[w] \subseteq todo[w]
      BY <1>t, <2>5 DEF LockMessage, LockRefused, Load, CallTyped
    <3> QED
      BY <2>1, <3>1
  <2>6. ASSUME NEW m \in Messages, NoLongerStalled(w, m) \/ Recover(w, m) \/ RecoverExhausted(w, m)
        PROVE  Listed
    <3>1. todo'[w] \subseteq todo[w]
      BY <1>t, <2>6 DEF NoLongerStalled, Recover, RecoverExhausted, Candidate, CallTyped
    <3> QED
      BY <2>1, <3>1
  <2>7. ASSUME TakeTicket(w) \/ CheckMarker(w) \/ MissMarker(w) \/ Mark(w) \/ Settle(w) \/ InsertLetter(w)
        PROVE  Listed
    BY <2>1, <2>7 DEF TakeTicket, CheckMarker, MissMarker, Mark, Settle, InsertLetter
  <2>8. ASSUME GetEntry(w) \/ Merge(w) \/ PutClaim(w) \/ PutReleased(w)
               \/ LoadMissing(w) \/ Ack(w) \/ Nack(w) PROVE Listed
    BY <2>1, <2>8 DEF GetEntry, Merge, PutClaim, PutReleased, LoadMissing, Ack, Nack, EndHandler
  <2> HIDE DEF Listed
  <2>10. Listed
    BY <2>2, <2>3, <2>4, <2>5, <2>6, <2>7, <2>8 DEF WorkerAction, Step, Ends
  <2> QED
    BY <2>10 DEF Listed
<1>3. \A t \in Tickets : ticket'[t] # NoTicket => /\ ticket'[t].msg \in Messages
                                                /\ entry[ticket'[t].msg] # NoEntry
  <2>0. \A t \in Tickets : ticket[t] # NoTicket => /\ ticket[t].msg \in Messages
                                                 /\ entry[ticket[t].msg] # NoEntry
    BY <1>0, <1>k DEF StoreTyped, KnownOK
  <2>1. CASE UNCHANGED ticket
    BY <2>0, <2>1
  <2>2. CASE SetTicket(w) \/ ReleaseTicket(w) \/ Load(w)
    <3>1. CASE SetTicket(w) \/ ReleaseTicket(w)
      <4>1. PICK x \in Tickets, y \in {NoTicket} \cup [msg : Messages, by : Workers \cup {Free}] :
              /\ ticket' = [ticket EXCEPT ![x] = y]
              /\ y # NoTicket => \/ ticket[x] # NoTicket /\ y.msg = ticket[x].msg
                                 \/ y.msg = msg[w] /\ entry[msg[w]] # NoEntry
        BY <3>1, TicketStep
      <4>2. y # NoTicket => y.msg \in Messages /\ entry[y.msg] # NoEntry
        BY <2>0, <4>1
      <4> QED
        BY <1>0, <2>0, <4>1, <4>2 DEF StoreTyped
    <3>2. CASE Load(w)
      BY <1>0, <2>0, <3>2 DEF Load, StoreTyped
    <3> QED
      BY <2>2, <3>1, <3>2
  <2> QED
    BY <2>1, <2>2, SharedStep
<1>4. ASSUME NEW v \in Workers \ {w}, msg'[v] # NoMessage PROVE msg'[v] \in Messages /\ entry[msg'[v]] # NoEntry
  BY <1>0, <1>k, <1>4 DEF CallTyped, KnownOK, OthersKeep
<1>5. ASSUME NEW v \in Workers \ {w}, NEW m \in todo'[v] PROVE m \in Messages /\ entry[m] # NoEntry
  BY <1>0, <1>k, <1>5 DEF CallTyped, KnownOK, OthersKeep
<1> QED
  BY <1>1, <1>2, <1>3, <1>4, <1>5, <1>s DEF KnownOK

\* The step of a worker's loop starts no renewal.
LEMMA RenewalsStep ==
  ASSUME Typed, NEW w \in Workers, WorkerAction(w)
  PROVE  RenewalTyped' /\ RenewalsOK'
<1>0. RenewalTyped /\ RenewalsOK
  BY TypeParts DEF Typed
<1>n. NoRenewal \in [msg : Messages \cup {NoMessage}, wait : 0 .. MaxWait, next : Entry \cup {NoEntry}]
  BY QueueAssumption DEF NoRenewal
<1>1. RenewalTyped' /\ \A v \in Workers : renewal'[v] = renewal[v] \/ renewal'[v] = NoRenewal
  BY <1>0, <1>n, SharedStep DEF RenewalTyped
<1>2. \A m \in Messages : entry[m] # NoEntry => entry'[m] # NoEntry
  BY EntriesStay
<1> QED
  BY <1>0, <1>1, <1>2 DEF RenewalsOK

\* What a renewal that is to be written is about.
LEMMA PutsARenewal ==
  ASSUME Typed, NEW w \in Workers, renewal[w].next # NoEntry
  PROVE  /\ renewal[w].msg \in Messages /\ entry[renewal[w].msg] \in Entry
         /\ entry[renewal[w].msg] # NoEntry /\ renewal[w].next \in Entry
<1>1. RenewalTyped /\ RenewalsOK /\ StoreTyped
  BY TypeParts DEF Typed
<1>2. renewal[w] # NoRenewal
  BY DEF NoRenewal
<1> QED
  BY <1>1, <1>2 DEF RenewalTyped, RenewalsOK, StoreTyped

\* A step of a renewal leaves the loops of the workers alone.
LEMMA RenewalStep ==
  ASSUME Typed, NEW w \in Workers, RenewalAction(w)
  PROVE  /\ UNCHANGED <<mode, strategy, due, worker, ghosts, lock, marker, letters, ticket>>
         /\ UNCHANGED faults \/ (\E kind : Fault(kind))
         /\ \/ UNCHANGED entry
            \/ /\ renewal[w].next # NoEntry
               /\ entry' = [entry EXCEPT ![renewal[w].msg] = renewal[w].next]
         /\ \E r \in [msg : Messages \cup {NoMessage}, wait : 0 .. MaxWait, next : Entry \cup {NoEntry}] :
              /\ renewal' = [renewal EXCEPT ![w] = r]
              /\ \/ r = NoRenewal
                 \/ /\ pc[w] = "handling" /\ r.msg = msg[w] /\ r.next = NoEntry
                    /\ r.msg \in Messages /\ entry[r.msg] # NoEntry
                    /\ UNCHANGED entry
                 \/ /\ r.msg = renewal[w].msg /\ r.msg \in Messages /\ entry[r.msg] \in Entry
                    /\ entry[r.msg] # NoEntry
                    /\ r.next \in Entry /\ r.next.status = entry[r.msg].status
                    /\ r.next.attempts = entry[r.msg].attempts
                    /\ UNCHANGED entry
<1> DEFINE R == [msg : Messages \cup {NoMessage}, wait : 0 .. MaxWait, next : Entry \cup {NoEntry}]
<1>0. RenewalTyped /\ StoreTyped /\ RenewalsOK
  BY TypeParts DEF Typed
<1>n. NoRenewal \in R
  BY QueueAssumption DEF NoRenewal
<1>v. Visibility \in Nat /\ MaxWait \in Nat
  BY QueueAssumption
<1> USE DEF store, worker, ghosts
<1>1. CASE Renew(w)
  <2>1. msg[w] \in Messages /\ entry[msg[w]] # NoEntry /\ entry[msg[w]] \in Entry
    BY <1>1, BusyWithMessage DEF Renew, Busy
  <2>2. PICK n \in 0 .. MaxWait : n = entry[msg[w]].wait + Visibility
    BY <1>1, <1>v, <2>1 DEF Renew, Entry
  <2>3. PICK r : r = [msg |-> msg[w], next |-> NoEntry, wait |-> n]
    OBVIOUS
  <2>4. r \in R /\ r.msg = msg[w] /\ r.next = NoEntry
    BY <2>1, <2>3
  <2>5. renewal' = [renewal EXCEPT ![w] = r] /\ pc[w] = "handling"
    BY <1>1, <2>2, <2>3 DEF Renew
  <2> QED
    BY <1>1, <2>1, <2>4, <2>5 DEF Renew
<1>2. CASE MergeRenewal(w)
  <2>1. PICK m \in Messages : m = renewal[w].msg /\ entry[m] # NoEntry
    BY <1>0, <1>2 DEF MergeRenewal, RenewalsOK
  <2>2. entry[m] \in Entry
    BY <1>0, <2>1 DEF StoreTyped
  <2>3. PICK n \in 0 .. MaxWait : n = renewal[w].wait
    BY <1>0 DEF RenewalTyped
  <2>4. PICK e : e = [entry[m] EXCEPT !.wait = n]
    OBVIOUS
  <2>5. e \in Entry /\ e.status = entry[m].status /\ e.attempts = entry[m].attempts
    BY <2>2, <2>4 DEF Entry
  <2>6. PICK r : r = [renewal[w] EXCEPT !.next = e]
    OBVIOUS
  <2>7. r \in R /\ r.msg = m /\ r.next = e
    BY <1>0, <2>1, <2>5, <2>6 DEF RenewalTyped
  <2>8. renewal' = [renewal EXCEPT ![w] = r]
    BY <1>0, <1>2, <2>1, <2>3, <2>4, <2>6 DEF MergeRenewal, RenewalTyped
  <2> QED
    BY <1>2, <2>1, <2>2, <2>5, <2>7, <2>8 DEF MergeRenewal
<1>3. CASE PutRenewed(w) \/ RenewalFails(w)
  BY <1>3, <1>n DEF PutRenewed, RenewalFails, EndRenewal, Write
<1> QED
  BY <1>1, <1>2, <1>3 DEF RenewalAction

LEMMA RenewalKeepsTypes ==
  ASSUME Typed, NEW w \in Workers, RenewalAction(w)
  PROVE  Typed'
<1>0. StoreTyped /\ CallTyped /\ LocalTyped /\ GhostTyped /\ RenewalTyped /\ PhaseOK /\ KnownOK /\ RenewalsOK
  BY TypeParts DEF Typed
<1>u. UNCHANGED <<mode, strategy, due, worker, ghosts, lock, marker, letters, ticket>>
  BY RenewalStep
<1>1. /\ entry' \in [Messages -> Entry \cup {NoEntry}]
      /\ \A m \in Messages : entry[m] # NoEntry => entry'[m] # NoEntry
  <2>1. CASE UNCHANGED entry
    BY <1>0, <2>1 DEF StoreTyped
  <2>2. CASE renewal[w].next # NoEntry /\ entry' = [entry EXCEPT ![renewal[w].msg] = renewal[w].next]
    BY <1>0, <2>2, PutsARenewal DEF StoreTyped
  <2> QED
    BY <2>1, <2>2, RenewalStep
<1>2. StoreTyped' /\ CallTyped' /\ LocalTyped' /\ PhaseOK'
  BY <1>0, <1>u, <1>1 DEF StoreTyped, CallTyped, LocalTyped, PhaseOK, InPhase, worker
<1>3. GhostTyped'
  BY <1>0, <1>u, RenewalStep, FaultIsCounted DEF GhostTyped, ghosts
<1>4. RenewalTyped' /\ RenewalsOK'
  <2>1. PICK r \in [msg : Messages \cup {NoMessage}, wait : 0 .. MaxWait, next : Entry \cup {NoEntry}] :
          /\ renewal' = [renewal EXCEPT ![w] = r]
          /\ r = NoRenewal \/ (r.msg \in Messages /\ entry[r.msg] # NoEntry)
    BY RenewalStep
  <2>2. RenewalTyped' /\ renewal'[w] = r /\ \A v \in Workers \ {w} : renewal'[v] = renewal[v]
    BY <1>0, <2>1 DEF RenewalTyped
  <2> QED
    BY <1>0, <1>1, <2>1, <2>2 DEF RenewalsOK
<1>5. KnownOK'
  <2>1. /\ \A v \in Workers : msg[v] # NoMessage => msg[v] \in Messages
        /\ \A v \in Workers : todo[v] \subseteq Messages
        /\ \A t \in Tickets : ticket[t] # NoTicket => ticket[t].msg \in Messages
    BY <1>0 DEF CallTyped, StoreTyped
  <2> QED
    BY <1>0, <1>u, <1>1, <2>1 DEF KnownOK, worker
<1> QED
  BY <1>2, <1>3, <1>4, <1>5, TypeParts
     DEF Typed, TypeOK, StoreTyped, CallTyped, LocalTyped, GhostTyped, RenewalTyped, Places

\* The clock takes nothing from an entry but its wait, and an entry starts pending.
LEMMA OutsideEntry ==
  ASSUME StoreTyped, Outside \/ UNCHANGED vars
  PROVE  /\ entry' \in [Messages -> Entry \cup {NoEntry}]
         /\ \A m \in Messages : entry[m] # NoEntry =>
              /\ entry'[m] # NoEntry
              /\ entry'[m].status = entry[m].status /\ entry'[m].attempts = entry[m].attempts
         /\ \A m \in Messages : entry[m] = NoEntry /\ entry'[m] # NoEntry =>
              entry'[m].status = "pending" /\ entry'[m].attempts = 0
<1> USE NoEntryAssumption DEF StoreTyped
<1>1. CASE UNCHANGED entry
  BY <1>1
<1>2. ASSUME NEW x \in Messages, Enqueue(x)
      PROVE  /\ entry' \in [Messages -> Entry \cup {NoEntry}]
             /\ \A m \in Messages : entry[m] # NoEntry => entry'[m] = entry[m]
             /\ \A m \in Messages : entry[m] = NoEntry /\ entry'[m] # NoEntry =>
                  entry'[m].status = "pending" /\ entry'[m].attempts = 0
  <2>1. PICK e : e = [status |-> "pending", token |-> NoToken, wait |-> 0, attempts |-> 0]
    OBVIOUS
  <2>2. e \in Entry /\ e.status = "pending" /\ e.attempts = 0
    BY <2>1, QueueAssumption DEF Entry, NoToken
  <2>3. entry[x] = NoEntry /\ entry' = [entry EXCEPT ![x] = e]
    BY <1>2, <2>1 DEF Enqueue
  <2> QED
    BY <2>2, <2>3
<1>3. CASE Tick
  <2>1. entry' = [m \in Messages |-> Older(entry[m])]
    BY <1>3 DEF Tick
  <2>2. ASSUME NEW m \in Messages, entry[m] # NoEntry
        PROVE  /\ Older(entry[m]) \in Entry
               /\ Older(entry[m]).status = entry[m].status
               /\ Older(entry[m]).attempts = entry[m].attempts
    <3>1. PICK e \in Entry : e = entry[m]
      BY <2>2
    <3>2. PICK k : k = Sooner(e.wait)
      OBVIOUS
    <3>3. k \in 0 .. MaxWait
      <4>1. e.wait \in 0 .. MaxWait /\ MaxWait \in Nat
        BY <3>1, QueueAssumption DEF Entry
      <4> QED
        BY <3>2, <4>1, SoonerIsNat
    <3>4. Older(e) = [e EXCEPT !.wait = k]
      BY <2>2, <3>1, <3>2 DEF Older
    <3> QED
      BY <3>1, <3>3, <3>4 DEF Entry
  <2>3. \A m \in Messages : entry[m] = NoEntry => Older(entry[m]) = NoEntry
    BY DEF Older
  <2> QED
    BY <2>1, <2>2, <2>3
<1> QED
  BY <1>1, <1>2, <1>3, OutsideStep

LEMMA OutsideTyped ==
  ASSUME Typed, Outside \/ UNCHANGED vars
  PROVE  Typed'
<1>0. StoreTyped /\ CallTyped /\ LocalTyped /\ GhostTyped /\ RenewalTyped /\ PhaseOK /\ KnownOK
      /\ RenewalsOK
  BY TypeParts DEF Typed
<1>1. CallTyped' /\ PhaseOK'
  BY <1>0, OutsideStep DEF CallTyped, PhaseOK, InPhase
<1>2. GhostTyped'
  BY <1>0, OutsideStep DEF GhostTyped
<1>3. LocalTyped' /\ marker' \in [Messages -> 0 .. MarkerTTL]
  <2>1. CASE Tick
    <3>1. MarkerTTL \in Nat
      BY QueueAssumption
    <3> QED
      BY <1>0, <2>1, <3>1, SoonerIsNat DEF Tick, LocalTyped, StoreTyped
  <2> QED
    BY <1>0, <2>1, OutsideStep DEF LocalTyped, StoreTyped
<1>4. /\ ticket' \in [Tickets -> {NoTicket} \cup [msg : Messages, by : Workers \cup {Free}]]
      /\ \A t \in Tickets : ticket'[t] # NoTicket => entry[ticket'[t].msg] # NoEntry
  <2>1. ASSUME NEW t \in Tickets, Publish(t)
        PROVE \E m \in Messages : entry[m] # NoEntry /\ ticket' = [ticket EXCEPT ![t] = [msg |-> m, by |-> Free]]
    BY <2>1 DEF Publish, Pending, Visible
  <2>2. ASSUME NEW t \in Tickets, ExpireTicket(t) PROVE ticket' = [ticket EXCEPT ![t] = NoTicket]
    BY <2>2 DEF ExpireTicket
  <2>3. CASE UNCHANGED ticket
    BY <1>0, <2>3 DEF StoreTyped, KnownOK
  <2> QED
    BY <1>0, <2>1, <2>2, <2>3, OutsideStep DEF StoreTyped, KnownOK
<1>5. entry' \in [Messages -> Entry \cup {NoEntry}]
      /\ \A m \in Messages : entry[m] # NoEntry => entry'[m] # NoEntry
  BY <1>0, OutsideEntry
<1>6. StoreTyped'
  BY <1>0, <1>3, <1>4, <1>5, OutsideStep DEF StoreTyped
<1>7. KnownOK'
  <2>1. \A w \in Workers : msg[w] # NoMessage => msg[w] \in Messages
    BY <1>0 DEF CallTyped
  <2>2. \A w \in Workers : todo[w] \subseteq Messages
    BY <1>0 DEF CallTyped
  <2>3. \A t \in Tickets : ticket'[t] # NoTicket => ticket'[t].msg \in Messages
    BY <1>4
  <2> QED
    BY <1>0, <1>4, <1>5, <2>1, <2>2, <2>3, OutsideStep DEF KnownOK
<1>8. RenewalTyped' /\ RenewalsOK'
  BY <1>0, <1>5, OutsideStep DEF RenewalTyped, RenewalsOK
<1> QED
  BY <1>1, <1>2, <1>3, <1>6, <1>7, <1>8, TypeParts
     DEF Typed, TypeOK, StoreTyped, CallTyped, LocalTyped, GhostTyped, RenewalTyped, Places

LEMMA TypedInit == Init => Typed
<1> SUFFICES ASSUME Init PROVE Typed
  OBVIOUS
<1> USE DEF Init
<1>1. StoreTyped /\ LocalTyped
  BY QueueAssumption DEF StoreTyped, LocalTyped
<1>2. CallTyped
  BY DEF CallTyped, Places, NoClaim, NoToken
<1>3. GhostTyped
  <2>1. deliveries \in [Messages -> Nat]
    OBVIOUS
  <2>2. exposed \in [Messages -> BOOLEAN]
    OBVIOUS
  <2>3. due \in BOOLEAN
    BY Zenon
  <2>4. faults \in 0 .. MaxFaults
    BY QueueAssumption
  <2> QED
    BY <2>1, <2>2, <2>3, <2>4 DEF GhostTyped
<1>4. PhaseOK
  BY DEF PhaseOK, InPhase, Busy, Asking
<1>5. KnownOK /\ RenewalsOK
  BY DEF KnownOK, RenewalsOK
<1>6. RenewalTyped
  BY QueueAssumption DEF RenewalTyped, NoRenewal
<1> QED
  BY <1>1, <1>2, <1>3, <1>4, <1>5, <1>6, TypeParts DEF Typed

LEMMA TypedStep == Typed /\ [Next]_vars => Typed'
<1> SUFFICES ASSUME Typed, [Next]_vars PROVE Typed'
  OBVIOUS
<1>1. ASSUME NEW w \in Workers, WorkerAction(w) PROVE Typed'
  <2>1. StoreTyped' /\ CallTyped' /\ LocalTyped' /\ GhostTyped' /\ PhaseOK' /\ KnownOK'
    BY <1>1, StoreStep, CallStep, LocalAndHistoryStep, PhaseStep, KnownStep
  <2>2. RenewalTyped' /\ RenewalsOK'
    BY <1>1, RenewalsStep
  <2> QED
    BY <2>1, <2>2, TypeParts
       DEF Typed, TypeOK, StoreTyped, CallTyped, LocalTyped, GhostTyped, RenewalTyped, Places
<1> QED
  BY <1>1, OutsideTyped, RenewalKeepsTypes, StepIsEither

LEMMA AlwaysTyped == Spec => []Typed
BY TypedInit, TypedStep, PTL DEF Spec

\* Every variable keeps its type: in particular a worker that settles or merges, and a renewal
\* that outlives its handler, has a message whose entry exists, so that the reads of
\* updateConditional and of _updateQueueEntryWithLock find one.
THEOREM QueueTypeCorrect == Spec => []TypeOK
<1>1. Typed => TypeOK
  BY DEF Typed
<1> QED
  BY <1>1, AlwaysTyped, PTL

-----------------------------------------------------------------------------
(* Dead letters.  Whoever is about to write "dead" has inserted the letter *)
(* before, and what is read of an entry that is dead is about a message    *)
(* that has one.                                                           *)

Lettered(w) ==
  /\ next[w] # NoEntry => (next[w].status = "dead" => msg[w] \in letters)
  /\ op[w] = "dead" /\ pc[w] # "lettering" => msg[w] \in letters

RenewalLettered(w) ==
  renewal[w].next # NoEntry => (renewal[w].next.status = "dead" => renewal[w].msg \in letters)

LettersOK == DeadHasLetter /\ \A w \in Workers : Lettered(w) /\ RenewalLettered(w)

LEMMA LettersStay ==
  ASSUME NEW w \in Workers, WorkerAction(w)
  PROVE  letters \subseteq letters'
BY SharedStep DEF InsertLetter

LEMMA LetteredStep ==
  ASSUME Typed, LettersOK, NEW w \in Workers, WorkerAction(w)
  PROVE  Lettered(w)'
<1>0. CallTyped /\ CallTyped' /\ InPhase(w) /\ letters \subseteq letters'
  BY TypeParts, CallStep, LettersStay DEF Typed, PhaseOK
<1>t. CallTyped
  BY <1>0
<1>l. Lettered(w)
  BY DEF LettersOK
<1>m. pc[w] \in Busy => msg[w] \in Messages /\ entry[msg[w]] # NoEntry /\ entry[msg[w]] \in Entry
  BY BusyWithMessage
<1>d. ASSUME NEW m \in Messages, entry[m] # NoEntry, entry[m].status = "dead" PROVE m \in letters
  BY <1>d DEF LettersOK, DeadHasLetter, Status
<1> USE DEF Lettered
<1>1. ASSUME Ends(w) PROVE Lettered(w)'
  BY <1>t, <1>1, EndsEffect DEF LetsGo
<1>2. ASSUME UNCHANGED <<msg, op, next>>, pc[w] = "lettering" => pc'[w] = "lettering" PROVE Lettered(w)'
  BY <1>0, <1>l, <1>2
<1>3. ASSUME SetTicket(w) \/ Query(w) \/ StartRecovery(w) \/ CheckMarker(w) \/ MissMarker(w) \/ Mark(w)
             \/ Settle(w)
      PROVE  Lettered(w)'
  BY <1>2, <1>3 DEF SetTicket, Query, StartRecovery, CheckMarker, MissMarker, Mark, Settle
<1>4. ASSUME InsertLetter(w) PROVE Lettered(w)'
  BY <1>0, <1>4 DEF InsertLetter
<1>5. ASSUME TakeTicket(w) \/ LockMessage(w) \/ LockRefused(w) PROVE Lettered(w)'
  <2>1. next[w] = NoEntry /\ op[w] # "dead"
    BY <1>5, <1>0 DEF TakeTicket, LockMessage, LockRefused, InPhase, Asking
  <2>2. UNCHANGED <<op, next>>
    BY <1>5 DEF TakeTicket, LockMessage, LockRefused
  <2> QED
    BY <2>1, <2>2
<1>6. ASSUME GetEntry(w) PROVE Lettered(w)'
  BY <1>t, <1>6 DEF GetEntry, CallTyped
<1>7. ASSUME Merge(w) PROVE Lettered(w)'
  <2>1. next'[w] = Merged(w) /\ UNCHANGED <<msg, op>>
    BY <1>t, <1>7 DEF Merge, CallTyped
  <2>2. op[w] = "dead" => msg[w] \in letters
    BY <1>l, <1>7 DEF Merge
  <2>3. Merged(w).status = "dead" => op[w] = "dead"
    <3> SUFFICES ASSUME op[w] \in {"complete", "retry", "fail", "recover"} PROVE Merged(w).status # "dead"
      BY <1>7, MergedIsEntry DEF Merge
    <3> QED
      BY <1>7, MergedIsEntry DEF Merge
  <2> QED
    BY <1>0, <2>1, <2>2, <2>3
<1>8. ASSUME PutClaim(w) \/ PutReleased(w) PROVE Lettered(w)'
  BY <1>0, <1>l, <1>8 DEF PutClaim, PutReleased, CallTyped
<1>10. ASSUME Load(w) PROVE Lettered(w)'
  BY <1>0, <1>l, <1>10 DEF Load, CallTyped
<1>11. ASSUME LoadMissing(w) \/ Ack(w) \/ Nack(w) PROVE Lettered(w)'
  <2>1. \E o \in Outcomes : /\ op' = [op EXCEPT ![w] = o]
                             /\ Goto(w, IF o = "dead" THEN "lettering" ELSE "settling")
    BY <1>11 DEF LoadMissing, Ack, Nack, EndHandler, Settling, FailureOp, Outcomes
  <2>2. UNCHANGED <<msg, next>>
    BY <1>11 DEF LoadMissing, Ack, Nack, EndHandler
  <2> QED
    BY <1>0, <1>l, <2>1, <2>2 DEF Goto, CallTyped
<1>13. ASSUME NEW m \in Messages, NoLongerStalled(w, m) PROVE Lettered(w)'
  BY <1>2, <1>13 DEF NoLongerStalled, Candidate
<1>14. ASSUME NEW m \in Messages, Recover(w, m) \/ RecoverExhausted(w, m) PROVE Lettered(w)'
  <2>1. next'[w] = NoEntry
    BY <1>14, <1>0 DEF Recover, RecoverExhausted, Candidate, InPhase
  <2>2. op'[w] = "dead" => pc'[w] = "lettering"
    BY <1>t, <1>14 DEF Recover, RecoverExhausted, Settling, Goto, CallTyped
  <2> QED
    BY <2>1, <2>2
<1> QED
  BY <1>1, <1>3, <1>4, <1>5, <1>6, <1>7, <1>8, <1>10, <1>11, <1>13, <1>14
     DEF WorkerAction, Step, Ends

LEMMA LettersStep == Typed /\ LettersOK /\ [Next]_vars => LettersOK'
<1> SUFFICES ASSUME Typed, LettersOK, [Next]_vars PROVE LettersOK'
  OBVIOUS
<1>0. CallTyped /\ StoreTyped
  BY TypeParts DEF Typed
<1>d. \A m \in Messages : entry[m] # NoEntry /\ entry[m].status = "dead" => m \in letters
  BY DEF LettersOK, DeadHasLetter, Status
<1>1. ASSUME NEW w \in Workers, WorkerAction(w) PROVE LettersOK'
  <2>1. Lettered(w)'
    BY <1>1, LetteredStep
  <2>2. ASSUME NEW v \in Workers \ {w} PROVE Lettered(v)'
    <3>1. OthersKeep(w) /\ letters \subseteq letters' /\ Lettered(v)
      BY <1>1, CallStep, LettersStay DEF LettersOK
    <3> QED
      BY <3>1 DEF OthersKeep, Lettered
  <2>3. ASSUME NEW m \in Messages, entry'[m] # NoEntry, entry'[m].status = "dead" PROVE m \in letters'
    <3>1. letters \subseteq letters' /\ Lettered(w)
      BY <1>1, LettersStay DEF LettersOK
    <3>2. CASE UNCHANGED entry
      BY <1>d, <2>3, <3>1, <3>2
    <3>3. CASE pc[w] = "putting" /\ entry' = [entry EXCEPT ![msg[w]] = next[w]]
      <4>1. next[w] # NoEntry
        BY <3>3, PutsAnEntry
      <4>2. msg[w] # m => entry'[m] = entry[m]
        BY <1>0, <3>3 DEF StoreTyped
      <4>3. msg[w] = m => entry'[m] = next[w]
        BY <1>0, <3>3 DEF StoreTyped
      <4> QED
        BY <1>d, <2>3, <3>1, <4>1, <4>2, <4>3 DEF Lettered
    <3> QED
      BY <1>1, <3>2, <3>3, SharedStep
  <2>4. ASSUME NEW v \in Workers PROVE RenewalLettered(v)'
    <3>1. RenewalTyped /\ letters \subseteq letters' /\ RenewalLettered(v)
      BY <1>1, LettersStay, TypeParts DEF LettersOK, Typed
    <3>2. renewal'[v] = renewal[v] \/ renewal'[v] = NoRenewal
      BY <1>1, <3>1, SharedStep DEF RenewalTyped
    <3> QED
      BY <3>1, <3>2 DEF RenewalLettered, NoRenewal
  <2> QED
    BY <2>1, <2>2, <2>3, <2>4 DEF LettersOK, DeadHasLetter, Status
<1>3. ASSUME NEW w \in Workers, RenewalAction(w) PROVE LettersOK'
  <2>0. RenewalTyped
    BY TypeParts DEF Typed
  <2>u. UNCHANGED <<worker, letters>>
    BY <1>3, RenewalStep
  <2>1. \A v \in Workers : Lettered(v)'
    BY <2>u DEF LettersOK, Lettered, worker
  <2>2. \A v \in Workers \ {w} : RenewalLettered(v)'
    BY <1>3, <2>0, <2>u, RenewalStep DEF LettersOK, RenewalLettered, RenewalTyped
  <2>3. RenewalLettered(w)'
    <3>1. PICK r : /\ renewal' = [renewal EXCEPT ![w] = r]
                   /\ \/ r.next = NoEntry
                      \/ /\ r.msg \in Messages /\ entry[r.msg] # NoEntry
                         /\ r.next.status = entry[r.msg].status
      BY <1>3, RenewalStep DEF NoRenewal
    <3>2. renewal'[w] = r
      BY <2>0, <3>1 DEF RenewalTyped
    <3> QED
      BY <1>d, <2>u, <3>1, <3>2 DEF RenewalLettered
  <2>4. ASSUME NEW m \in Messages, entry'[m] # NoEntry, entry'[m].status = "dead" PROVE m \in letters'
    <3>1. CASE UNCHANGED entry
      BY <1>d, <2>u, <2>4, <3>1
    <3>2. CASE renewal[w].next # NoEntry /\ entry' = [entry EXCEPT ![renewal[w].msg] = renewal[w].next]
      <4>1. /\ renewal[w].msg # m => entry'[m] = entry[m]
            /\ renewal[w].msg = m => entry'[m] = renewal[w].next
        BY <1>0, <3>2 DEF StoreTyped
      <4>2. RenewalLettered(w)
        BY DEF LettersOK
      <4> QED
        BY <1>d, <2>u, <2>4, <3>2, <4>1, <4>2 DEF RenewalLettered
    <3> QED
      BY <1>3, <3>1, <3>2, RenewalStep
  <2> QED
    BY <2>1, <2>2, <2>3, <2>4 DEF LettersOK, DeadHasLetter, Status
<1>2. ASSUME Outside \/ UNCHANGED vars PROVE LettersOK'
  <2>1. \A w \in Workers : Lettered(w)' /\ RenewalLettered(w)'
    BY <1>2, OutsideStep DEF LettersOK, Lettered, RenewalLettered
  <2>2. ASSUME NEW m \in Messages, entry'[m] # NoEntry, entry'[m].status = "dead" PROVE m \in letters'
    BY <1>0, <1>d, <1>2, <2>2, OutsideStep, OutsideEntry
  <2> QED
    BY <2>1, <2>2 DEF LettersOK, DeadHasLetter, Status
<1> QED
  BY <1>1, <1>2, <1>3, StepIsEither

\* A message whose entry says "dead" has its dead letter, whoever crashed or lost a call on
\* the way: moveToDeadLetter inserts the letter before it updates the entry, and nobody
\* deletes one.
THEOREM DeadLettersAreKept == Spec => []DeadHasLetter
<1>1. Init => LettersOK
  BY DEF Init, LettersOK, Lettered, RenewalLettered, NoRenewal, DeadHasLetter, Status
<1>2. LettersOK => DeadHasLetter
  BY DEF LettersOK
<1> QED
  BY <1>1, <1>2, LettersStep, AlwaysTyped, PTL DEF Spec

-----------------------------------------------------------------------------
(* One handler at a time, as long as a message is not exposed.  A worker   *)
(* that gets the entry has written the marker of the message before, under *)
(* the message's lock; nobody gets past the marker after it until the      *)
(* marker is gone, and by then the entry is no longer pending or the       *)
(* worker no longer at it.  So the entry is claimed once, it says so as    *)
(* long as its claim is held, and nobody else writes it: a renewal is      *)
(* under way only while its handler is.  A failed read of the marker, a    *)
(* marker that is not written, a recovery, and a handler that leaves its   *)
(* renewal behind are the exposures: each of them breaks the argument.     *)

Trying(w, m)     == msg[w] = m /\ pc[w] \in {"checking", "marking"}
Marking(w, m)    == msg[w] = m /\ pc[w] = "marking"
Claiming(w, m)   == msg[w] = m /\ pc[w] = "putting" /\ op[w] = "claim"
Contending(w, m) == Claiming(w, m) \/ (msg[w] = m /\ pc[w] = "getting")
Owning(w, m) ==
  /\ msg[w] = m
  /\ \/ pc[w] \in {"loading", "handling", "lettering", "settling"}
     \/ pc[w] \in {"merging", "putting"} /\ op[w] \in Outcomes
Clearing(w, m)   == msg[w] = m /\ pc[w] = "clearing"

\* What is about to be written is what the operation means.
NextFits(w) == pc[w] = "putting" =>
  /\ op[w] = "claim" => next[w].status = "processing"
  /\ op[w] = "complete" => next[w].status = "completed"
  /\ op[w] = "retry" => next[w].status = "pending" /\ next[w].wait = Backoff
  /\ op[w] = "fail" => next[w].status = "failed"
  /\ op[w] = "dead" => next[w].status = "dead"
NextOK == \A w \in Workers : NextFits(w)

LockOK == \A w \in Workers, m \in Messages : Trying(w, m) => lock[m] = w

RecoverOK ==
  \A w \in Workers : pc[w] \in {"merging", "putting"} /\ op[w] = "recover" => exposed[msg[w]]

ClaimsFirst(m) == \A w \in Workers : Claiming(w, m) => m \in Pending
Marked(m) ==
  \A w \in Workers : m \in Pending /\ Contending(w, m) =>
    /\ marker[m] > 0
    /\ \A v \in Workers : (Contending(v, m) => v = w) /\ ~Marking(v, m)
Owned(m) ==
  /\ \A v, w \in Workers : Owning(v, m) /\ Owning(w, m) => v = w
  /\ \A w \in Workers : Owning(w, m) => Status(m) = "processing"
\* A renewal under way is of a message its worker is handling, and leaves the status alone.
Renewed(m) == \A w \in Workers : renewal[w].msg = m =>
  /\ msg[w] = m /\ pc[w] = "handling"
  /\ renewal[w].next # NoEntry => renewal[w].next.status = "processing"
GivenUp(m) == \A w \in Workers : Clearing(w, m) => Status(m) # "processing" /\ m \notin Pending
Shield(m) == ClaimsFirst(m) /\ Marked(m) /\ Owned(m) /\ Renewed(m) /\ GivenUp(m)

ShieldOK == NextOK /\ LockOK /\ RecoverOK /\ \A m \in Messages : exposed[m] \/ Shield(m)

\* Which step leads where.
LEMMA WhereTo ==
  ASSUME CallTyped, NEW w \in Workers, WorkerAction(w)
  PROVE  \/ pc'[w] \in {"idle", "recovering", "taking", "locking", "releasing"}
         \/ pc'[w] = "checking" /\ LockMessage(w)
         \/ pc'[w] = "marking" /\ (CheckMarker(w) \/ MissMarker(w))
         \/ pc'[w] = "getting" /\ Mark(w)
         \/ pc'[w] = "putting" /\ (GetEntry(w) \/ Merge(w))
         \/ pc'[w] = "merging" /\ (Settle(w) \/ \E m \in Messages : Recover(w, m))
         \/ pc'[w] = "loading" /\ PutClaim(w)
         \/ pc'[w] = "handling" /\ Load(w)
         \/ pc'[w] \in {"lettering", "settling"} /\
              \/ LoadMissing(w) \/ Ack(w) \/ Nack(w) \/ InsertLetter(w)
              \/ \E m \in Messages : RecoverExhausted(w, m)
         \/ pc'[w] = "clearing" /\ PutReleased(w)
<1>t. CallTyped
  OBVIOUS
<1>1. Ends(w) => pc'[w] \in {"idle", "recovering", "taking", "locking", "releasing"}
  BY <1>t, EndsEffect DEF LetsGo
<1>2. TakeTicket(w) \/ SetTicket(w) \/ Query(w) \/ StartRecovery(w) \/ LockRefused(w)
      => pc'[w] \in {"idle", "recovering", "taking", "locking", "releasing"}
  BY <1>t DEF TakeTicket, SetTicket, Query, StartRecovery, LockRefused, Goto, CallTyped
<1>3. ASSUME NEW m \in Messages
      PROVE  /\ NoLongerStalled(w, m) => pc'[w] \in {"idle", "recovering", "taking", "locking", "releasing"}
             /\ Recover(w, m) => pc'[w] = "merging"
             /\ RecoverExhausted(w, m) => pc'[w] \in {"lettering", "settling"}
  BY <1>t DEF NoLongerStalled, Recover, RecoverExhausted, Settling, Goto, CallTyped
<1>4. /\ LockMessage(w) => pc'[w] = "checking"
      /\ CheckMarker(w) \/ MissMarker(w) => pc'[w] = "marking"
      /\ Mark(w) => pc'[w] = "getting"
      /\ GetEntry(w) \/ Merge(w) => pc'[w] = "putting"
      /\ Settle(w) => pc'[w] = "merging"
  BY <1>t DEF LockMessage, CheckMarker, MissMarker, Mark, GetEntry, Merge, Settle, Goto, CallTyped
<1>5. /\ PutClaim(w) => pc'[w] = "loading"
      /\ Load(w) => pc'[w] = "handling"
      /\ LoadMissing(w) \/ Ack(w) \/ Nack(w) \/ InsertLetter(w) => pc'[w] \in {"lettering", "settling"}
      /\ PutReleased(w) => pc'[w] = "clearing"
  BY <1>t DEF PutClaim, Load, LoadMissing, Ack, Nack, Settling, InsertLetter, PutReleased, Goto, CallTyped
<1> QED
  BY <1>1, <1>2, <1>3, <1>4, <1>5 DEF WorkerAction, Step, Ends

LEMMA NextFitsStep ==
  ASSUME Typed, NEW w \in Workers, WorkerAction(w)
  PROVE  NextFits(w)'
<1>0. CallTyped
  BY TypeParts DEF Typed
<1> SUFFICES ASSUME pc'[w] = "putting" PROVE NextFits(w)'
  BY DEF NextFits
<1>1. CASE GetEntry(w)
  BY <1>0, <1>1 DEF GetEntry, CallTyped, NextFits
<1>2. CASE Merge(w)
  <2>1. next'[w] = Merged(w) /\ op'[w] = op[w]
    BY <1>0, <1>2 DEF Merge, CallTyped
  <2> QED
    BY <1>2, <2>1, MergedIsEntry DEF NextFits, Merge
<1> QED
  BY <1>0, <1>1, <1>2, WhereTo

\* How a worker comes to what it is to a message.
LEMMA RoleOrigins ==
  ASSUME Typed, NEW w \in Workers, WorkerAction(w), NEW m \in Messages
  PROVE  /\ Trying(w, m)' => \/ LockMessage(w) /\ lock'[m] = w
                             \/ (CheckMarker(w) \/ MissMarker(w)) /\ msg[w] = m
         /\ Marking(w, m)' => (CheckMarker(w) \/ MissMarker(w)) /\ msg[w] = m
         /\ Contending(w, m)' => (Mark(w) \/ GetEntry(w)) /\ msg[w] = m
         /\ Claiming(w, m)' => GetEntry(w) /\ msg[w] = m
         /\ Owning(w, m)' => \/ Owning(w, m) \/ (PutClaim(w) /\ msg[w] = m)
                             \/ RecoverExhausted(w, m)
         /\ Owning(w, m)' /\ pc'[w] = "putting" => Merge(w) /\ Owning(w, m) /\ op'[w] = op[w]
         /\ Clearing(w, m)' => PutReleased(w) /\ msg[w] = m
<1>0. CallTyped /\ StoreTyped /\ InPhase(w)
  BY TypeParts DEF Typed, PhaseOK
<1>t. CallTyped
  BY <1>0
<1>w. \/ pc'[w] \in {"idle", "recovering", "taking", "locking", "releasing"}
      \/ pc'[w] = "checking" /\ LockMessage(w)
      \/ pc'[w] = "marking" /\ (CheckMarker(w) \/ MissMarker(w))
      \/ pc'[w] = "getting" /\ Mark(w)
      \/ pc'[w] = "putting" /\ (GetEntry(w) \/ Merge(w))
      \/ pc'[w] = "merging" /\ (Settle(w) \/ \E x \in Messages : Recover(w, x))
      \/ pc'[w] = "loading" /\ PutClaim(w)
      \/ pc'[w] = "handling" /\ Load(w)
      \/ pc'[w] \in {"lettering", "settling"} /\
           \/ LoadMissing(w) \/ Ack(w) \/ Nack(w) \/ InsertLetter(w)
           \/ \E x \in Messages : RecoverExhausted(w, x)
      \/ pc'[w] = "clearing" /\ PutReleased(w)
  BY <1>t, WhereTo
<1>1. CheckMarker(w) \/ MissMarker(w) \/ Mark(w) \/ GetEntry(w) \/ Merge(w) \/ Settle(w) \/ PutClaim(w)
      \/ Load(w) \/ LoadMissing(w) \/ Ack(w) \/ Nack(w) \/ InsertLetter(w) \/ PutReleased(w)
      => msg'[w] = msg[w]
  BY DEF CheckMarker, MissMarker, Mark, GetEntry, Merge, Settle, PutClaim, Load, LoadMissing,
         Ack, Nack, EndHandler, InsertLetter, PutReleased
<1>2. ASSUME Trying(w, m)'
      PROVE  (LockMessage(w) /\ lock'[m] = w) \/ ((CheckMarker(w) \/ MissMarker(w)) /\ msg[w] = m)
  <2>1. CASE LockMessage(w)
    BY <1>0, <1>2, <2>1 DEF LockMessage, CallTyped, StoreTyped, Trying
  <2> QED
    BY <1>w, <1>1, <1>2, <2>1 DEF Trying
<1>3. Marking(w, m)' => (CheckMarker(w) \/ MissMarker(w)) /\ msg[w] = m
  BY <1>w, <1>1 DEF Marking
<1>4. Clearing(w, m)' => PutReleased(w) /\ msg[w] = m
  BY <1>w, <1>1 DEF Clearing
<1>5. ASSUME Claiming(w, m)' PROVE GetEntry(w) /\ msg[w] = m
  <2>1. Merge(w) => op'[w] = op[w] /\ op[w] # "claim"
    BY <1>0 DEF Merge, InPhase, Outcomes
  <2> QED
    BY <1>w, <1>1, <1>5, <2>1 DEF Claiming
<1>6. Contending(w, m)' => (Mark(w) \/ GetEntry(w)) /\ msg[w] = m
  BY <1>w, <1>1, <1>5 DEF Contending
<1>7. ASSUME Owning(w, m)', pc'[w] = "putting" PROVE Merge(w) /\ Owning(w, m) /\ op'[w] = op[w]
  <2>1. GetEntry(w) => op'[w] = "claim"
    BY <1>t DEF GetEntry, CallTyped
  <2>2. Merge(w)
    BY <1>w, <1>7, <2>1 DEF Owning, Outcomes
  <2>3. op'[w] = op[w] /\ pc[w] = "merging"
    BY <2>2 DEF Merge
  <2> QED
    BY <1>1, <1>7, <2>2, <2>3 DEF Owning
<1>8. ASSUME Owning(w, m)'
      PROVE  Owning(w, m) \/ (PutClaim(w) /\ msg[w] = m) \/ RecoverExhausted(w, m)
  <2>1. CASE Settle(w) \/ Load(w) \/ LoadMissing(w) \/ Ack(w) \/ Nack(w) \/ InsertLetter(w)
    <3>1. msg[w] = m
      BY <1>1, <1>8, <2>1 DEF Owning
    <3>2. pc[w] \in {"loading", "handling", "lettering", "settling"}
      BY <2>1 DEF Settle, Load, LoadMissing, Ack, Nack, EndHandler, InsertLetter
    <3> QED
      BY <3>1, <3>2 DEF Owning
  <2>2. ASSUME NEW x \in Messages, Recover(w, x) PROVE FALSE
    <3>1. pc'[w] = "merging" /\ op'[w] = "recover"
      BY <1>t, <2>2 DEF Recover, Goto, CallTyped
    <3> QED
      BY <1>8, <3>1 DEF Owning, Outcomes
  <2>3. ASSUME NEW x \in Messages, RecoverExhausted(w, x) PROVE x = m
    BY <1>t, <1>8, <2>3 DEF RecoverExhausted, CallTyped, Owning
  <2>4. pc'[w] \in {"loading", "handling", "lettering", "settling", "merging", "putting"} /\ msg'[w] = m
    BY <1>8 DEF Owning
  <2> QED
    BY <1>w, <1>1, <1>7, <1>8, <2>1, <2>2, <2>3, <2>4
<1> QED
  BY <1>2, <1>3, <1>4, <1>5, <1>6, <1>7, <1>8

\* A message that was exposed stays so.
LEMMA ExposureStays ==
  ASSUME GhostTyped, NEW w \in Workers, WorkerAction(w), NEW m \in Messages, exposed[m]
  PROVE  exposed'[m]
<1>1. CASE UNCHANGED exposed
  BY <1>1
<1>2. ASSUME NEW x, Expose(x) PROVE exposed'[m]
  <2>1. exposed' = [exposed EXCEPT ![x] = TRUE] /\ DOMAIN exposed = Messages
    BY <1>2 DEF Expose, GhostTyped
  <2> QED
    BY <2>1
<1>3. Load(w) => UNCHANGED exposed
  BY DEF Load, Deliver
<1>4. Mark(w) => UNCHANGED exposed \/ Expose(msg[w])
  BY DEF Mark, ghosts
<1> QED
  BY <1>1, <1>2, <1>3, <1>4, SharedStep DEF ghosts, Hasty

LEMMA LockStep ==
  ASSUME Typed, LockOK, NEW w \in Workers, WorkerAction(w)
  PROVE  LockOK'
<1>0. CallTyped /\ StoreTyped /\ OthersKeep(w)
  BY TypeParts, CallStep DEF Typed
<1>1. ASSUME NEW m \in Messages, Trying(w, m)' PROVE lock'[m] = w
  <2>1. CASE (CheckMarker(w) \/ MissMarker(w)) /\ msg[w] = m
    <3>1. Trying(w, m) /\ UNCHANGED lock
      BY <2>1 DEF CheckMarker, MissMarker, Trying, store
    <3> QED
      BY <3>1 DEF LockOK
  <2> QED
    BY <1>1, <2>1, RoleOrigins
<1>2. ASSUME NEW v \in Workers \ {w}, NEW m \in Messages, Trying(v, m)' PROVE lock'[m] = v
  <2>1. lock[m] = v
    BY <1>0, <1>2 DEF OthersKeep, Trying, LockOK
  <2>2. CASE LockMessage(w)
    <3>1. v # Free
      BY QueueAssumption
    <3> QED
      BY <1>0, <2>1, <2>2, <3>1 DEF LockMessage, StoreTyped
  <2>3. CASE FindMarker(w) \/ Mark(w)
    <3>1. msg[w] \in Messages
      BY <2>3, BusyWithMessage DEF FindMarker, Mark, Busy
    <3>2. lock[msg[w]] = w
      BY <2>3, <3>1 DEF FindMarker, Mark, LockOK, Trying
    <3>3. msg[w] # m
      BY <2>1, <3>2
    <3>4. \E x : lock' = [lock EXCEPT ![msg[w]] = x]
      BY <2>3 DEF FindMarker, Mark
    <3> QED
      BY <1>0, <2>1, <3>3, <3>4 DEF StoreTyped
  <2>4. CASE Crash(w)
    BY <1>0, <2>1, <2>4 DEF Crash, StoreTyped
  <2> QED
    BY <2>1, <2>2, <2>3, <2>4, SharedStep
<1> QED
  BY <1>1, <1>2 DEF LockOK

LEMMA RecoverStep ==
  ASSUME Typed, RecoverOK, NEW w \in Workers, WorkerAction(w)
  PROVE  RecoverOK'
<1>0. CallTyped /\ GhostTyped /\ OthersKeep(w) /\ InPhase(w) /\ CallTyped'
  BY TypeParts, CallStep DEF Typed, PhaseOK
<1>n. NoMessage \notin Messages
  BY QueueAssumption
<1>1. ASSUME NEW v \in Workers \ {w}, pc'[v] \in {"merging", "putting"}, op'[v] = "recover"
      PROVE  exposed'[msg'[v]]
  <2>1. exposed[msg[v]] /\ msg'[v] = msg[v] /\ pc[v] \in Busy
    BY <1>0, <1>1 DEF OthersKeep, RecoverOK, Busy
  <2>2. msg[v] \in Messages
    BY <2>1, BusyWithMessage
  <2> QED
    BY <1>0, <2>1, <2>2, ExposureStays
<1>2. ASSUME pc'[w] \in {"merging", "putting"}, op'[w] = "recover" PROVE exposed'[msg'[w]]
  <2>1. CASE Merge(w)
    <3>1. msg'[w] = msg[w] /\ exposed[msg[w]] /\ pc[w] \in Busy
      BY <1>2, <2>1 DEF Merge, RecoverOK, Busy
    <3>2. msg[w] \in Messages
      BY <3>1, BusyWithMessage
    <3> QED
      BY <1>0, <3>1, <3>2, ExposureStays
  <2>2. ASSUME NEW m \in Messages, Recover(w, m) PROVE exposed'[msg'[w]]
    <3>1. msg'[w] = m /\ exposed' = [exposed EXCEPT ![m] = TRUE] /\ DOMAIN exposed = Messages
      BY <1>0, <2>2 DEF Recover, Expose, CallTyped, GhostTyped
    <3> QED
      BY <3>1
  <2>3. ~GetEntry(w)
    BY <1>0, <1>2 DEF GetEntry, CallTyped
  <2>4. ~Settle(w)
    <3>1. Settle(w) => op'[w] = op[w] /\ op[w] \in Outcomes
      BY <1>0 DEF Settle, InPhase
    <3> QED
      BY <1>2, <3>1 DEF Outcomes
  <2> QED
    BY <1>0, <1>2, <2>1, <2>2, <2>3, <2>4, WhereTo
<1> QED
  BY <1>1, <1>2 DEF RecoverOK

LEMMA OthersRoles ==
  ASSUME NEW w \in Workers, OthersKeep(w), NEW v \in Workers \ {w}, NEW m
  PROVE  /\ Trying(v, m)' => Trying(v, m)
         /\ Marking(v, m)' => Marking(v, m)
         /\ Contending(v, m)' => Contending(v, m)
         /\ Claiming(v, m)' => Claiming(v, m)
         /\ Owning(v, m)' => Owning(v, m)
         /\ Clearing(v, m)' => Clearing(v, m)
BY DEF OthersKeep, Trying, Marking, Contending, Claiming, Owning, Clearing

\* A put is the last the worker does with a claim it loses or an outcome it has written.
LEMMA AfterPut ==
  ASSUME Typed, NEW w \in Workers, WorkerAction(w), pc[w] = "putting"
  PROVE  /\ op[w] = "claim" => PutClaim(w) \/ LetsGo(w)
         /\ op[w] \in Outcomes => PutReleased(w) \/ LetsGo(w)
<1>0. CallTyped
  BY TypeParts DEF Typed
<1>1. Crash(w) \/ PutClaim(w) \/ PutCompleted(w) \/ PutReleased(w) \/ PutFails(w)
  <2>1. ~(TakeTicket(w) \/ SetTicket(w) \/ ReleaseTicket(w) \/ Query(w) \/ LockMessage(w) \/ LockRefused(w)
          \/ CheckMarker(w) \/ MissMarker(w) \/ FindMarker(w) \/ Mark(w) \/ GetEntry(w) \/ NotClaimable(w)
          \/ GetEntryFails(w) \/ Merge(w) \/ Clear(w) \/ ClearFails(w) \/ Load(w) \/ LoadMissing(w) \/ Ack(w)
          \/ Nack(w) \/ InsertLetter(w) \/ Settle(w) \/ TokenMismatch(w) \/ StartRecovery(w)
          \/ InsertLetterFails(w))
    BY DEF TakeTicket, SetTicket, ReleaseTicket, Query, LockMessage, LockRefused, CheckMarker, MissMarker,
           FindMarker, Mark, GetEntry, NotClaimable, GetEntryFails, Merge, Clear, ClearFails, Load,
           LoadMissing, Ack, Nack, EndHandler, InsertLetter, Settle, TokenMismatch, StartRecovery,
           InsertLetterFails
  <2>2. \A m \in Messages : ~(NoLongerStalled(w, m) \/ Recover(w, m) \/ RecoverExhausted(w, m))
    BY DEF NoLongerStalled, Recover, RecoverExhausted, Candidate
  <2> QED
    BY <2>1, <2>2 DEF WorkerAction, Step
<1>2. Crash(w) \/ PutCompleted(w) \/ PutFails(w) => LetsGo(w)
  BY <1>0, EndsEffect DEF Ends
<1>3. PutClaim(w) => op[w] = "claim"
  BY DEF PutClaim
<1>4. PutReleased(w) => op[w] \in {"retry", "fail", "dead", "recover"}
  BY DEF PutReleased
<1> QED
  BY <1>1, <1>2, <1>3, <1>4 DEF Outcomes

\* Who writes the entry of a message nobody has exposed, and what.
LEMMA WritesOf ==
  ASSUME Typed, ShieldOK, NEW w \in Workers, WorkerAction(w), NEW m \in Messages, ~exposed[m]
  PROVE  LET wrote == pc[w] = "putting" /\ msg[w] = m /\ entry'[m] = next[w]
         IN \/ /\ entry'[m] = entry[m]
               /\ ~(PutClaim(w) /\ msg[w] = m) /\ ~(PutReleased(w) /\ msg[w] = m)
            \/ wrote /\ Claiming(w, m) /\ Status(m)' = "processing" /\ m \notin Pending'
            \/ wrote /\ Owning(w, m) /\ op[w] \in Outcomes /\ Status(m)' # "processing" /\ m \notin Pending'
<1>0. CallTyped /\ StoreTyped /\ GhostTyped /\ InPhase(w)
  BY TypeParts DEF Typed, PhaseOK
<1>1. ~exposed[m] /\ Shield(m)
  BY DEF ShieldOK
<1>2. CASE pc[w] = "putting" /\ msg[w] = m /\ entry' = [entry EXCEPT ![msg[w]] = next[w]]
  <2>1. entry'[m] = next[w] /\ next[w] \in Entry /\ next[w] # NoEntry
    BY <1>0, <1>2, PutsAnEntry DEF StoreTyped
  <2>2. Status(m)' = next[w].status /\ (m \in Pending' => next[w].status = "pending" /\ next[w].wait = 0)
    BY <2>1 DEF Status, Pending, Visible
  <2>3. op[w] \in {"claim", "recover"} \cup Outcomes
    BY <1>0, <1>2 DEF CallTyped, InPhase, Operations, Outcomes
  <2>4. op[w] # "recover"
    BY <1>1, <1>2 DEF ShieldOK, RecoverOK
  <2>5. NextFits(w)
    BY DEF ShieldOK, NextOK
  <2>6. CASE op[w] = "claim"
    BY <1>2, <2>1, <2>2, <2>5, <2>6 DEF NextFits, Claiming
  <2>8. CASE op[w] \in Outcomes
    <3>1. Owning(w, m)
      BY <1>2, <2>8 DEF Owning
    <3>2. next[w].status # "processing" /\ ~(next[w].status = "pending" /\ next[w].wait = 0)
      BY <1>2, <2>5, <2>8, QueueAssumption DEF NextFits, Outcomes
    <3> QED
      BY <1>2, <2>1, <2>2, <2>8, <3>1, <3>2
  <2> QED
    BY <2>3, <2>4, <2>6, <2>8
<1>3. CASE ~(pc[w] = "putting" /\ msg[w] = m /\ entry' = [entry EXCEPT ![msg[w]] = next[w]])
  <2>1. entry'[m] = entry[m]
    BY <1>0, <1>3, SharedStep DEF StoreTyped
  <2>2. PutClaim(w) \/ PutReleased(w) => pc[w] = "putting" /\ entry' = [entry EXCEPT ![msg[w]] = next[w]]
    BY DEF PutClaim, PutReleased, Write
  <2> QED
    BY <1>3, <2>1, <2>2
<1> QED
  BY <1>2, <1>3

\* A handler with a renewal under way goes on, or leaves the renewal behind, or dies with it.
LEMMA RenewedStep ==
  ASSUME Typed, ShieldOK, NEW w \in Workers, WorkerAction(w), NEW m \in Messages, ~exposed'[m],
         Renewed(m)
  PROVE  Renewed(m)'
<1>0. CallTyped /\ GhostTyped /\ RenewalTyped /\ OthersKeep(w)
  BY TypeParts, CallStep DEF Typed
<1>n. NoRenewal.msg # m
  BY QueueAssumption DEF NoRenewal
<1>1. ASSUME NEW v \in Workers \ {w}, renewal'[v].msg = m
      PROVE  /\ msg'[v] = m /\ pc'[v] = "handling"
             /\ renewal'[v].next # NoEntry => renewal'[v].next.status = "processing"
  <2>1. renewal'[v] = renewal[v]
    BY <1>0, SharedStep DEF RenewalTyped
  <2> QED
    BY <1>0, <1>1, <2>1 DEF Renewed, OthersKeep
<1>2. ASSUME renewal'[w].msg = m
      PROVE  /\ msg'[w] = m /\ pc'[w] = "handling"
             /\ renewal'[w].next # NoEntry => renewal'[w].next.status = "processing"
  <2>1. UNCHANGED renewal /\ ~Crash(w)
    <3>1. Crash(w) => renewal' = [renewal EXCEPT ![w] = NoRenewal]
      BY DEF Crash
    <3> QED
      BY <1>0, <1>2, <1>n, <3>1, SharedStep DEF RenewalTyped
  <2>2. /\ msg[w] = m /\ pc[w] = "handling"
        /\ renewal[w].next # NoEntry => renewal[w].next.status = "processing"
    BY <1>2, <2>1 DEF Renewed
  <2>3. ~(Ack(w) \/ Nack(w))
    <3> SUFFICES ASSUME EndHandler(w) PROVE FALSE
      BY DEF Ack, Nack
    <3>1. Expose(m)
      BY <1>2, <2>1, <2>2 DEF EndHandler
    <3> QED
      BY <1>0, <3>1 DEF Expose, GhostTyped
  <2>4. ~(TakeTicket(w) \/ SetTicket(w) \/ ReleaseTicket(w) \/ Query(w) \/ LockMessage(w) \/ LockRefused(w)
          \/ CheckMarker(w) \/ MissMarker(w) \/ FindMarker(w) \/ Mark(w) \/ GetEntry(w) \/ NotClaimable(w)
          \/ GetEntryFails(w) \/ Merge(w) \/ PutClaim(w) \/ PutCompleted(w) \/ PutReleased(w) \/ PutFails(w)
          \/ Clear(w) \/ ClearFails(w) \/ Load(w) \/ LoadMissing(w) \/ InsertLetter(w) \/ Settle(w)
          \/ TokenMismatch(w) \/ StartRecovery(w) \/ InsertLetterFails(w))
    BY <2>2 DEF TakeTicket, SetTicket, ReleaseTicket, Query, LockMessage, LockRefused, CheckMarker,
           MissMarker, FindMarker, Mark, GetEntry, NotClaimable, GetEntryFails, Merge, PutClaim,
           PutCompleted, PutReleased, PutFails, Clear, ClearFails, Load, LoadMissing, InsertLetter,
           Settle, TokenMismatch, StartRecovery, InsertLetterFails
  <2>5. \A x \in Messages : ~(NoLongerStalled(w, x) \/ Recover(w, x) \/ RecoverExhausted(w, x))
    BY <2>2 DEF NoLongerStalled, Recover, RecoverExhausted, Candidate
  <2> QED
    BY <2>1, <2>3, <2>4, <2>5 DEF WorkerAction, Step
<1> QED
  BY <1>1, <1>2 DEF Renewed

\* A step that does not write the message's entry.
LEMMA ShieldUnwritten ==
  ASSUME Typed, ShieldOK, NEW w \in Workers, WorkerAction(w), NEW m \in Messages, ~exposed'[m],
         entry'[m] = entry[m], ~(PutClaim(w) /\ msg[w] = m), ~(PutReleased(w) /\ msg[w] = m)
  PROVE  Shield(m)'
<1>0. CallTyped /\ StoreTyped /\ GhostTyped /\ OthersKeep(w)
  BY TypeParts, CallStep DEF Typed
<1>1. Shield(m) /\ LockOK
  BY <1>0, ExposureStays DEF ShieldOK
<1>2. Status(m)' = Status(m) /\ (m \in Pending' <=> m \in Pending)
  BY DEF Status, Pending, Visible
<1>3. ~RecoverExhausted(w, m)
  <2>1. RecoverExhausted(w, m) => exposed' = [exposed EXCEPT ![m] = TRUE]
    BY DEF RecoverExhausted, Expose
  <2> QED
    BY <1>0, <2>1 DEF GhostTyped
<1>m. ~(MissMarker(w) /\ msg[w] = m)
  BY <1>0 DEF MissMarker, Expose, GhostTyped
<1>r. /\ Marking(w, m)' => CheckMarker(w) /\ msg[w] = m
      /\ Contending(w, m)' => (Mark(w) \/ GetEntry(w)) /\ msg[w] = m
      /\ Claiming(w, m)' => GetEntry(w) /\ msg[w] = m
      /\ Owning(w, m)' => Owning(w, m)
      /\ Owning(w, m)' /\ pc'[w] = "putting" => Merge(w) /\ Owning(w, m) /\ op'[w] = op[w]
      /\ ~Clearing(w, m)'
  BY <1>3, <1>m, RoleOrigins
<1>o. ASSUME NEW v \in Workers \ {w}
      PROVE  /\ Marking(v, m)' => Marking(v, m)
             /\ Contending(v, m)' => Contending(v, m)
             /\ Claiming(v, m)' => Claiming(v, m)
             /\ Owning(v, m)' => Owning(v, m)
             /\ Clearing(v, m)' => Clearing(v, m)
  BY <1>0, OthersRoles
<1>4. ClaimsFirst(m)'
  <2>1. GetEntry(w) /\ msg[w] = m => m \in Pending
    BY DEF GetEntry, Claimable
  <2> QED
    BY <1>1, <1>2, <1>r, <1>o, <2>1 DEF Shield, ClaimsFirst
<1>5. Marked(m)'
  <2> SUFFICES ASSUME NEW u \in Workers, m \in Pending', Contending(u, m)'
               PROVE  /\ marker'[m] > 0
                      /\ \A v \in Workers : (Contending(v, m)' => v = u) /\ ~Marking(v, m)'
    BY DEF Marked
  <2>6. Contending(u, m)'
    OBVIOUS
  <2>1. m \in Pending
    BY <1>2
  <2>2. CASE Mark(w) /\ msg[w] = m
    <3>1. Marking(w, m) /\ Trying(w, m)
      BY <2>2 DEF Mark, Marking, Trying
    <3>2. \A v \in Workers : ~Contending(v, m)
      BY <1>1, <2>1, <3>1 DEF Shield, Marked
    <3>3. \A v \in Workers : Contending(v, m)' => v = w
      BY <1>o, <3>2
    <3>4. ASSUME NEW v \in Workers \ {w} PROVE ~Marking(v, m)'
      <4>1. Marking(v, m) => Trying(v, m)
        BY DEF Marking, Trying
      <4> QED
        BY <1>1, <1>o, <3>1, <4>1 DEF LockOK
    <3>5. ~Marking(w, m)'
      BY <1>r, <2>2 DEF CheckMarker, Mark
    <3>6. marker'[m] > 0
      <4>1. ~Expose(m)
        BY <1>0 DEF Expose, GhostTyped
      <4>2. marker' = [marker EXCEPT ![m] = MarkerTTL]
        BY <2>2, <4>1 DEF Mark
      <4> QED
        BY <1>0, <4>2, QueueAssumption DEF StoreTyped
    <3> QED
      BY <3>3, <3>4, <3>5, <3>6
  <2>3. CASE ~(Mark(w) /\ msg[w] = m)
    <3>1. \A v \in Workers : Contending(v, m)' => Contending(v, m)
      <4>1. GetEntry(w) /\ msg[w] = m => Contending(w, m)
        BY DEF GetEntry, Contending
      <4> QED
        BY <1>r, <1>o, <2>3, <4>1
    <3>2. marker[m] > 0 /\ \A v \in Workers : (Contending(v, m) => v = u) /\ ~Marking(v, m)
      BY <1>1, <2>1, <3>1 DEF Shield, Marked
    <3>3. ~Marking(w, m)'
      BY <1>r, <3>2 DEF CheckMarker, Recently
    <3>4. \A v \in Workers : ~Marking(v, m)'
      BY <1>o, <3>2, <3>3
    <3>5. marker'[m] = marker[m]
      <4>1. CASE UNCHANGED marker
        BY <4>1
      <4>2. CASE Mark(w)
        BY <1>0, <2>3, <4>2 DEF Mark, StoreTyped
      <4>3. CASE Clear(w)
        <5>1. msg[w] # m
          BY <1>1, <2>1, <4>3 DEF Clear, Clearing, Shield, GivenUp
        <5> QED
          BY <1>0, <4>3, <5>1 DEF Clear, ClearMarker, StoreTyped
      <4>4. CASE GetEntryFails(w)
        <5>1. pc[w] = "getting" /\ LetsGo(w)
          BY <1>0, <4>4, EndsEffect DEF GetEntryFails, Ends
        <5>2. u # w
          BY <2>6, <5>1 DEF LetsGo, Contending, Claiming
        <5>3. msg[w] # m
          BY <3>1, <3>2, <2>6, <5>1, <5>2 DEF Contending
        <5> QED
          BY <1>0, <4>4, <5>3 DEF GetEntryFails, ClearMarker, StoreTyped
      <4> QED
        BY <4>1, <4>2, <4>3, <4>4, SharedStep
    <3> QED
      BY <3>1, <3>2, <3>4, <3>5
  <2> QED
    BY <2>2, <2>3
<1>6. Owned(m)'
  <2>1. \A v \in Workers : Owning(v, m)' => Owning(v, m)
    BY <1>r, <1>o
  <2> QED
    BY <1>1, <1>2, <2>1 DEF Shield, Owned
<1>8. Renewed(m)'
  BY <1>1, RenewedStep DEF Shield
<1>7. GivenUp(m)'
  BY <1>1, <1>2, <1>r, <1>o DEF Shield, GivenUp
<1> QED
  BY <1>4, <1>5, <1>6, <1>7, <1>8 DEF Shield

LEMMA ShieldStep ==
  ASSUME Typed, ShieldOK, NEW w \in Workers, WorkerAction(w), NEW m \in Messages, ~exposed'[m]
  PROVE  Shield(m)'
<1>0. CallTyped /\ StoreTyped /\ GhostTyped /\ OthersKeep(w)
  BY TypeParts, CallStep DEF Typed
<1>1. ~exposed[m] /\ Shield(m)
  BY <1>0, ExposureStays DEF ShieldOK
<1>2. CASE /\ entry'[m] = entry[m]
           /\ ~(PutClaim(w) /\ msg[w] = m) /\ ~(PutReleased(w) /\ msg[w] = m)
  BY <1>2, ShieldUnwritten
<1>o. ASSUME NEW v \in Workers \ {w}
      PROVE  /\ Claiming(v, m)' => Claiming(v, m)
             /\ Owning(v, m)' => Owning(v, m)
             /\ Clearing(v, m)' => Clearing(v, m)
  BY <1>0, OthersRoles
<1>3. ASSUME pc[w] = "putting", msg[w] = m, m \notin Pending',
             Claiming(w, m) \/ Owning(w, m),
             \A v \in Workers \ {w} : ~Claiming(v, m) /\ ~Owning(v, m) /\ ~Clearing(v, m),
             Owning(w, m)' => Status(m)' = "processing",
             Clearing(w, m)' => Status(m)' # "processing"
      PROVE  Shield(m)'
  <2>1. ~Claiming(w, m)'
    <3>1. ~GetEntry(w)
      BY <1>3 DEF GetEntry
    <3> QED
      BY <3>1, RoleOrigins
  <2>2. \A v \in Workers \ {w} : ~Claiming(v, m)' /\ ~Owning(v, m)' /\ ~Clearing(v, m)'
    BY <1>3, <1>o
  <2>3. ClaimsFirst(m)' /\ Marked(m)'
    BY <1>3, <2>1, <2>2 DEF ClaimsFirst, Marked
  <2>4. Owned(m)'
    BY <1>3, <2>2 DEF Owned
  <2>5. GivenUp(m)'
    BY <1>3, <2>2 DEF GivenUp
  <2>6. Renewed(m)'
    BY <1>1, RenewedStep DEF Shield
  <2> QED
    BY <2>3, <2>4, <2>5, <2>6 DEF Shield
<1>4. CASE pc[w] = "putting" /\ msg[w] = m /\ Claiming(w, m) /\ Status(m)' = "processing" /\ m \notin Pending'
  <2>1. m \in Pending /\ Status(m) = "pending"
    BY <1>1, <1>4 DEF Shield, ClaimsFirst, Pending
  <2>2. \A v \in Workers \ {w} : ~Claiming(v, m) /\ ~Owning(v, m) /\ ~Clearing(v, m)
    BY <1>1, <1>4, <2>1 DEF Shield, Marked, Owned, GivenUp, Contending
  <2>3. PutClaim(w) \/ LetsGo(w)
    BY <1>4, AfterPut DEF Claiming
  <2>4. pc'[w] # "putting" /\ pc'[w] # "clearing"
    BY <1>0, <2>3 DEF PutClaim, Goto, CallTyped, LetsGo
  <2> QED
    BY <1>3, <1>4, <2>2, <2>4 DEF Clearing
<1>6. CASE pc[w] = "putting" /\ msg[w] = m /\ Owning(w, m) /\ op[w] \in Outcomes /\ Status(m)' # "processing"
           /\ m \notin Pending'
  <2>1. Status(m) = "processing" /\ \A v \in Workers \ {w} : ~Owning(v, m)
    BY <1>1, <1>6 DEF Shield, Owned
  <2>2. \A v \in Workers \ {w} : ~Claiming(v, m) /\ ~Clearing(v, m)
    BY <1>1, <2>1 DEF Shield, ClaimsFirst, GivenUp, Pending
  <2>3. PutReleased(w) \/ LetsGo(w)
    BY <1>6, AfterPut
  <2>4. pc'[w] \in {"clearing", "releasing", "idle", "recovering", "locking"}
    BY <1>0, <2>3 DEF PutReleased, Goto, CallTyped, LetsGo
  <2>5. ~Owning(w, m)'
    BY <2>4 DEF Owning
  <2> QED
    BY <1>3, <1>6, <2>1, <2>2, <2>5
<1> QED
  BY <1>1, <1>2, <1>4, <1>6, WritesOf

LEMMA SameRoles ==
  ASSUME UNCHANGED <<pc, msg, op>>
  PROVE  \A w \in Workers, m \in Messages :
           /\ Trying(w, m)' = Trying(w, m) /\ Marking(w, m)' = Marking(w, m)
           /\ Contending(w, m)' = Contending(w, m) /\ Claiming(w, m)' = Claiming(w, m)
           /\ Owning(w, m)' = Owning(w, m) /\ Clearing(w, m)' = Clearing(w, m)
BY DEF Trying, Marking, Contending, Claiming, Owning, Clearing

\* A renewal is of a message its worker has: it writes what the entry says already.
LEMMA ShieldRenewal ==
  ASSUME Typed, ShieldOK, NEW w \in Workers, RenewalAction(w)
  PROVE  ShieldOK'
<1>0. StoreTyped /\ CallTyped /\ RenewalTyped
  BY TypeParts DEF Typed
<1>u. UNCHANGED <<lock, marker, pc, msg, op, next, exposed>>
  BY RenewalStep DEF worker, ghosts
<1>1. NextOK' /\ LockOK' /\ RecoverOK'
  BY <1>u DEF ShieldOK, NextOK, NextFits, LockOK, RecoverOK, Trying
<1>2. ASSUME NEW m \in Messages, ~exposed[m] PROVE Shield(m)'
  <2>1. Shield(m)
    BY <1>2 DEF ShieldOK
  <2>r. \A v \in Workers :
          /\ Marking(v, m)' = Marking(v, m)
          /\ Contending(v, m)' = Contending(v, m) /\ Claiming(v, m)' = Claiming(v, m)
          /\ Owning(v, m)' = Owning(v, m) /\ Clearing(v, m)' = Clearing(v, m)
    BY <1>u, SameRoles
  <2>2. Renewed(m)'
    <3>1. PICK r : /\ renewal' = [renewal EXCEPT ![w] = r]
                   /\ \/ r = NoRenewal
                      \/ pc[w] = "handling" /\ r.msg = msg[w] /\ r.next = NoEntry
                      \/ r.msg = renewal[w].msg /\ r.next.status = entry[r.msg].status
      BY RenewalStep
    <3>2. renewal'[w] = r /\ \A v \in Workers \ {w} : renewal'[v] = renewal[v]
      BY <1>0, <3>1 DEF RenewalTyped
    <3>3. ASSUME r.msg = m
          PROVE  msg[w] = m /\ pc[w] = "handling" /\ (r.next # NoEntry => r.next.status = "processing")
      <4>1. CASE r = NoRenewal
        BY <3>3, <4>1, QueueAssumption DEF NoRenewal
      <4>2. CASE pc[w] = "handling" /\ r.msg = msg[w] /\ r.next = NoEntry
        BY <3>3, <4>2
      <4>3. CASE r.msg = renewal[w].msg /\ r.next.status = entry[r.msg].status
        <5>1. msg[w] = m /\ pc[w] = "handling"
          BY <2>1, <3>3, <4>3 DEF Shield, Renewed
        <5>2. Status(m) = "processing"
          BY <2>1, <5>1 DEF Shield, Owned, Owning
        <5>3. entry[m].status = "processing"
          BY <5>2 DEF Status
        <5> QED
          BY <3>3, <4>3, <5>1, <5>3
      <4> QED
        BY <3>1, <4>1, <4>2, <4>3
    <3> QED
      BY <1>u, <2>1, <3>2, <3>3 DEF Shield, Renewed
  <2>3. CASE entry'[m] = entry[m]
    <3>1. Status(m)' = Status(m) /\ (m \in Pending' <=> m \in Pending)
      BY <2>3 DEF Status, Pending, Visible
    <3>2. ClaimsFirst(m)' /\ Marked(m)' /\ Owned(m)' /\ GivenUp(m)'
      BY <1>u, <2>1, <2>r, <3>1 DEF Shield, ClaimsFirst, Marked, Owned, GivenUp
    <3> QED
      BY <2>2, <3>2 DEF Shield
  <2>4. CASE /\ renewal[w].next # NoEntry
             /\ entry' = [entry EXCEPT ![renewal[w].msg] = renewal[w].next]
             /\ renewal[w].msg = m
    <3>1. Owning(w, m) /\ renewal[w].next.status = "processing"
      BY <2>1, <2>4 DEF Shield, Renewed, Owning
    <3>2. Status(m) = "processing"
      BY <2>1, <3>1 DEF Shield, Owned
    <3>3. \A v \in Workers : ~Claiming(v, m) /\ ~Clearing(v, m)
      BY <2>1, <3>2 DEF Shield, ClaimsFirst, GivenUp, Pending
    <3>4. Status(m)' = "processing" /\ m \notin Pending'
      BY <1>0, <2>4, <3>1 DEF Status, Pending, StoreTyped
    <3>5. ClaimsFirst(m)' /\ Marked(m)' /\ Owned(m)' /\ GivenUp(m)'
      BY <2>1, <2>r, <3>3, <3>4 DEF Shield, ClaimsFirst, Marked, Owned, GivenUp
    <3> QED
      BY <2>2, <3>5 DEF Shield
  <2> QED
    BY <1>0, <2>3, <2>4, RenewalStep DEF StoreTyped
<1> QED
  BY <1>u, <1>1, <1>2 DEF ShieldOK

LEMMA ShieldOutside ==
  ASSUME Typed, ShieldOK, Outside \/ UNCHANGED vars
  PROVE  ShieldOK'
<1>0. StoreTyped /\ CallTyped /\ KnownOK
  BY TypeParts DEF Typed
<1>u. UNCHANGED <<lock, pc, msg, op, next, renewal, exposed>>
  BY OutsideStep
<1>1. NextOK' /\ LockOK' /\ RecoverOK'
  BY <1>u DEF ShieldOK, NextOK, NextFits, LockOK, RecoverOK, Trying
<1>2. ASSUME NEW m \in Messages, ~exposed[m] PROVE Shield(m)'
  <2>1. Shield(m)
    BY <1>2 DEF ShieldOK
  <2>r. \A w \in Workers :
          /\ Trying(w, m)' = Trying(w, m) /\ Marking(w, m)' = Marking(w, m)
          /\ Contending(w, m)' = Contending(w, m) /\ Claiming(w, m)' = Claiming(w, m)
          /\ Owning(w, m)' = Owning(w, m) /\ Clearing(w, m)' = Clearing(w, m)
    BY <1>u, SameRoles
  <2>6. Renewed(m)'
    BY <1>u, <2>1 DEF Shield, Renewed
  <2>2. CASE entry'[m] = entry[m] /\ marker'[m] = marker[m]
    <3>1. Status(m)' = Status(m) /\ (m \in Pending' <=> m \in Pending)
      BY <2>2 DEF Status, Pending, Visible
    <3>2. ClaimsFirst(m)'
      BY <2>1, <2>r, <3>1 DEF Shield, ClaimsFirst
    <3>3. Marked(m)'
      BY <2>1, <2>2, <2>r, <3>1 DEF Shield, Marked
    <3>4. Owned(m)'
      BY <1>u, <2>1, <2>r, <3>1 DEF Shield, Owned
    <3>5. GivenUp(m)'
      BY <2>1, <2>r, <3>1 DEF Shield, GivenUp
    <3> QED
      BY <2>6, <3>2, <3>3, <3>4, <3>5 DEF Shield
  <2>3. CASE Tick
    <3>1. \A w \in Workers : /\ ~Contending(w, m) /\ ~Claiming(w, m) /\ ~Clearing(w, m)
                             /\ pc[w] # "putting"
      BY <2>3 DEF Tick, Contending, Claiming, Clearing
    <3>2. Status(m) = "processing" => Status(m)' = "processing"
      BY <1>0, OutsideEntry, <2>3 DEF Status, Outside
    <3>3. ClaimsFirst(m)' /\ Marked(m)' /\ GivenUp(m)'
      BY <2>r, <3>1 DEF ClaimsFirst, Marked, GivenUp
    <3>4. Owned(m)'
      BY <1>u, <2>1, <2>r, <3>1, <3>2 DEF Shield, Owned
    <3> QED
      BY <2>6, <3>3, <3>4 DEF Shield
  <2>4. CASE Enqueue(m)
    <3>1. entry[m] = NoEntry
      BY <2>4 DEF Enqueue
    <3>2. \A w \in Workers : msg[w] # m
      BY <1>0, <3>1, QueueAssumption DEF KnownOK
    <3>3. \A w \in Workers : ~Contending(w, m) /\ ~Claiming(w, m) /\ ~Owning(w, m) /\ ~Clearing(w, m)
      BY <3>2 DEF Contending, Claiming, Owning, Clearing
    <3> QED
      BY <2>r, <2>6, <3>3 DEF Shield, ClaimsFirst, Marked, Owned, GivenUp
  <2>5. ASSUME NEW x \in Messages, Enqueue(x), x # m PROVE entry'[m] = entry[m]
    BY <1>0, <2>5 DEF Enqueue, StoreTyped
  <2> QED
    BY <2>2, <2>3, <2>4, <2>5, OutsideStep
<1> QED
  BY <1>u, <1>1, <1>2 DEF ShieldOK

LEMMA ShieldInductive == Typed /\ ShieldOK /\ [Next]_vars => ShieldOK'
<1> SUFFICES ASSUME Typed, ShieldOK, [Next]_vars PROVE ShieldOK'
  OBVIOUS
<1>1. ASSUME NEW w \in Workers, WorkerAction(w) PROVE ShieldOK'
  <2>1. NextOK'
    <3>1. \A v \in Workers \ {w} : NextFits(v)'
      BY <1>1, CallStep DEF OthersKeep, ShieldOK, NextOK, NextFits
    <3> QED
      BY <1>1, <3>1, NextFitsStep DEF NextOK
  <2>2. LockOK' /\ RecoverOK'
    BY <1>1, LockStep, RecoverStep DEF ShieldOK
  <2>3. \A m \in Messages : exposed'[m] \/ Shield(m)'
    BY <1>1, ShieldStep
  <2> QED
    BY <2>1, <2>2, <2>3 DEF ShieldOK
<1> QED
  BY <1>1, ShieldOutside, ShieldRenewal, StepIsEither

LEMMA ShieldInit == Init => ShieldOK
<1> SUFFICES ASSUME Init PROVE ShieldOK
  OBVIOUS
<1>1. \A w \in Workers : pc[w] = "idle"
  BY DEF Init
<1>2. NextOK /\ LockOK /\ RecoverOK
  BY <1>1 DEF NextOK, NextFits, LockOK, Trying, RecoverOK
<1>3. \A m \in Messages : Shield(m)
  <2>1. \A m \in Messages : Renewed(m)
    BY QueueAssumption DEF Init, Renewed, NoRenewal
  <2> QED
    BY <1>1, <2>1 DEF Shield, ClaimsFirst, Marked, Owned, GivenUp, Claiming, Contending, Owning, Clearing
<1> QED
  BY <1>2, <1>3 DEF ShieldOK

LEMMA AlwaysShielded == Spec => [](Typed /\ ShieldOK)
BY ShieldInit, ShieldInductive, AlwaysTyped, PTL DEF Spec

\* However workers poll, take tickets late, renew, settle or die, two handlers never have a
\* message that was not exposed, which is one that nobody set out to recover, whose marker was
\* always written, and read when it was there, and whose handlers waited for their renewals:
\* attemptClaim's marker, written under the lock of the message, and the status it looks at
\* make up for the ETag that refuses nothing.
THEOREM OneHandlerPerMessage == Spec => []OneHandlerAtATime
<1>1. Typed /\ ShieldOK => OneHandlerAtATime
  <2> SUFFICES ASSUME Typed, ShieldOK, NEW m \in Messages, ~exposed[m]
               PROVE  Cardinality(Handlers(m)) <= 1
    BY DEF OneHandlerAtATime
  <2>1. \A w \in Workers : Handling(w, m) => Owning(w, m)
    BY DEF Typed, PhaseOK, InPhase, Handling, Owning
  <2>2. \A v, w \in Handlers(m) : v = w
    BY <2>1 DEF Handlers, ShieldOK, Shield, Owned
  <2>3. CASE Handlers(m) = {}
    BY <2>3, FS_EmptySet
  <2>4. CASE Handlers(m) # {}
    <3>1. PICK w : Handlers(m) = {w}
      BY <2>2, <2>4
    <3>2. Cardinality({w}) = 1
      BY FS_Singleton
    <3> QED
      BY <3>1, <3>2
  <2> QED
    BY <2>3, <2>4
<1> QED
  BY <1>1, AlwaysShielded, PTL

\* A message that was never exposed leaves no final status: only the claim of a pending entry,
\* the holder of a claim and the renewals its handler waits for write it, however late they do.
THEOREM FinalStatusStays == Spec => FinalIsFinal
<1>1. Typed /\ ShieldOK /\ [Next]_vars
      => [\A m \in Messages : Status(m) \in Final /\ ~exposed[m] => Status(m)' = Status(m)]_vars
  <2> SUFFICES ASSUME Typed, ShieldOK, [Next]_vars, NEW m \in Messages, Status(m) \in Final, ~exposed[m]
               PROVE  Status(m)' = Status(m)
    OBVIOUS
  <2>0. StoreTyped /\ GhostTyped /\ CallTyped /\ Shield(m)
    BY TypeParts DEF Typed, ShieldOK
  <2>1. ASSUME NEW w \in Workers, WorkerAction(w) PROVE Status(m)' = Status(m)
    <3>1. ~Claiming(w, m) /\ ~Owning(w, m)
      BY <2>0 DEF Shield, ClaimsFirst, Owned, Pending, Final
    <3>2. entry'[m] = entry[m]
      BY <2>1, <3>1, WritesOf
    <3> QED
      BY <3>2 DEF Status
  <2>2. ASSUME Outside \/ UNCHANGED vars PROVE Status(m)' = Status(m)
    BY <2>0, <2>2, OutsideEntry DEF Status, Final
  <2>3. ASSUME NEW w \in Workers, RenewalAction(w) PROVE Status(m)' = Status(m)
    <3>1. renewal[w].msg # m
      BY <2>0 DEF Shield, Renewed, Owned, Owning, Final
    <3>2. entry'[m] = entry[m]
      BY <2>0, <2>3, <3>1, RenewalStep DEF StoreTyped
    <3> QED
      BY <3>2 DEF Status
  <2> QED
    BY <2>1, <2>2, <2>3, StepIsEither
<1> QED
  BY <1>1, AlwaysShielded, PTL DEF Spec, FinalIsFinal

-----------------------------------------------------------------------------
(* Attempts.  The entry counts the claims, a claim goes with the count it  *)
(* has written, and a handler is called once for each: the one that counts *)
(* to the limit is not put back.                                           *)

Top == IF Limit = 0 THEN 1 ELSE Limit

Counted(m) ==
  /\ entry[m] = NoEntry => deliveries[m] = 0
  /\ entry[m] # NoEntry =>
       /\ deliveries[m] <= entry[m].attempts
       /\ entry[m].attempts <= Top
       /\ entry[m].status = "pending" => entry[m].attempts < Top

Tally(w, m) ==
  /\ Claiming(w, m) => /\ next[w].attempts = entry[m].attempts + 1
                       /\ claim[w].attempts = entry[m].attempts + 1
  /\ Owning(w, m) => /\ claim[w].attempts = entry[m].attempts
                     /\ pc[w] = "loading" => deliveries[m] < entry[m].attempts
                     /\ pc[w] = "putting" => next[w].attempts = entry[m].attempts
                     /\ op[w] = "retry" => claim[w].attempts < Limit
  /\ renewal[w].msg = m /\ renewal[w].next # NoEntry => renewal[w].next.attempts = entry[m].attempts

Count(m) == Counted(m) /\ \A w \in Workers : Tally(w, m)
CountOK == \A m \in Messages : exposed[m] \/ Count(m)

LEMMA LimitIsNat == Limit \in Nat /\ Top \in Nat /\ Top > 0 /\ (Limit # 0 => Top = Limit)
BY QueueAssumption DEF Limit, Top

\* What a claim goes through between the put that made it and the one that ends it.
LEMMA OwningStays ==
  ASSUME Typed, NEW w \in Workers, WorkerAction(w), NEW m \in Messages, Owning(w, m), Owning(w, m)'
  PROVE  /\ claim'[w] = claim[w]
         /\ pc'[w] # "loading"
         /\ op'[w] = "retry" => op[w] = "retry" \/ claim[w].attempts < Limit
         /\ pc'[w] = "putting" => next'[w].attempts = entry[m].attempts
<1>0. CallTyped
  BY TypeParts DEF Typed
<1>1. msg[w] = m /\ msg'[w] = m /\ pc'[w] \in {"loading", "handling", "lettering", "settling", "merging", "putting"}
  BY DEF Owning
<1>2. \/ pc[w] \in {"loading", "handling", "lettering", "settling"}
      \/ pc[w] \in {"merging", "putting"} /\ op[w] \notin {"claim", "recover"}
  BY DEF Owning, Outcomes
<1>3. /\ ~PutClaim(w) /\ ~GetEntry(w)
      /\ \A x \in Messages : ~Recover(w, x) /\ ~RecoverExhausted(w, x)
  BY <1>2 DEF PutClaim, GetEntry, Recover, RecoverExhausted, Candidate
<1>4. \/ Merge(w) /\ pc'[w] = "putting"
      \/ /\ pc'[w] \in {"handling", "lettering", "settling", "merging"}
         /\ Settle(w) \/ Load(w) \/ LoadMissing(w) \/ Ack(w) \/ Nack(w) \/ InsertLetter(w)
  BY <1>0, <1>1, <1>3, WhereTo
<1>5. CASE Merge(w) /\ pc'[w] = "putting"
  <2>1. next'[w] = Merged(w) /\ UNCHANGED <<claim, op>> /\ pc[w] = "merging"
    BY <1>0, <1>5 DEF Merge, CallTyped
  <2> QED
    BY <1>1, <1>5, <2>1, MergedIsEntry
<1>6. ASSUME pc'[w] \in {"handling", "lettering", "settling", "merging"},
             Settle(w) \/ Load(w) \/ LoadMissing(w) \/ Ack(w) \/ InsertLetter(w)
      PROVE  UNCHANGED claim /\ (op'[w] = "retry" => op[w] = "retry")
  BY <1>0, <1>6 DEF Settle, Load, LoadMissing, Ack, EndHandler, Settling, InsertLetter, CallTyped
<1>7. ASSUME Nack(w)
      PROVE  UNCHANGED claim /\ (op'[w] = "retry" => claim[w].attempts < Limit)
  <2>1. op'[w] = FailureOp(w) /\ UNCHANGED claim
    BY <1>0, <1>7 DEF Nack, EndHandler, Settling, CallTyped
  <2> QED
    BY <2>1 DEF FailureOp, Retries
<1> QED
  BY <1>4, <1>5, <1>6, <1>7

\* A delivery is counted when the claimed message has been loaded.
LEMMA DeliveriesStep ==
  ASSUME Typed, NEW w \in Workers, WorkerAction(w), NEW m \in Messages, ~exposed'[m]
  PROVE  \/ deliveries'[m] = deliveries[m]
         \/ /\ Load(w) /\ msg[w] = m /\ pc[w] = "loading" /\ Owning(w, m)
            /\ deliveries'[m] \in Nat /\ deliveries'[m] <= deliveries[m] + 1
<1>0. GhostTyped
  BY TypeParts DEF Typed
<1>1. CASE UNCHANGED deliveries
  BY <1>1
<1>2. ASSUME NEW x, Expose(x) PROVE deliveries'[m] = deliveries[m]
  <2>1. x # m
    BY <1>0, <1>2 DEF Expose, GhostTyped
  <2> QED
    BY <1>0, <1>2, <2>1 DEF Expose, GhostTyped
<1>3. CASE Load(w)
  <2>1. CASE msg[w] # m
    BY <1>0, <1>3, <2>1 DEF Load, Deliver, GhostTyped
  <2>2. CASE msg[w] = m
    <3>1. pc[w] = "loading" /\ Owning(w, m)
      BY <1>3, <2>2 DEF Load, Owning
    <3>2. PICK k : k = Min({deliveries[m] + 1, MaxAttempts + 1})
      OBVIOUS
    <3>3. k \in Nat /\ k <= deliveries[m] + 1
      BY <1>0, <3>2, CappedCount DEF GhostTyped
    <3>4. ~exposed[m]
      BY <1>3 DEF Load, Deliver
    <3>5. deliveries' = [deliveries EXCEPT ![m] = k]
      BY <1>3, <2>2, <3>2, <3>4 DEF Load, Deliver
    <3>6. deliveries'[m] = k
      BY <1>0, <3>5 DEF GhostTyped
    <3> QED
      BY <1>3, <2>2, <3>1, <3>3, <3>6
  <2> QED
    BY <2>1, <2>2
<1>4. Mark(w) => UNCHANGED deliveries \/ Expose(msg[w])
  BY DEF Mark, ghosts
<1> QED
  BY <1>1, <1>2, <1>3, <1>4, SharedStep DEF ghosts, Hasty

LEMMA CountStep ==
  ASSUME Typed, ShieldOK, CountOK, NEW w \in Workers, WorkerAction(w), NEW m \in Messages, ~exposed'[m]
  PROVE  Count(m)'
<1>0. CallTyped /\ StoreTyped /\ GhostTyped /\ OthersKeep(w) /\ KnownOK
  BY TypeParts, CallStep DEF Typed
<1>1. ~exposed[m] /\ Shield(m) /\ Count(m)
  BY <1>0, ExposureStays DEF ShieldOK, CountOK
<1>l. Limit' = Limit /\ Top' = Top
  BY SharedStep DEF Limit, Top
<1>t. Limit \in Nat /\ Top \in Nat /\ Top > 0 /\ (Limit # 0 => Top = Limit)
  BY LimitIsNat
<1>n. deliveries[m] \in Nat /\ deliveries'[m] \in Nat /\ (entry[m] # NoEntry => entry[m].attempts \in Nat)
      /\ \A v \in Workers : claim[v].attempts \in Nat
  <2>1. GhostTyped'
    BY LocalAndHistoryStep
  <2> QED
    BY <1>0, <2>1 DEF GhostTyped, StoreTyped, CallTyped, Entry
<1>d. \/ deliveries'[m] = deliveries[m]
      \/ /\ Load(w) /\ msg[w] = m /\ pc[w] = "loading" /\ Owning(w, m)
         /\ deliveries'[m] \in Nat /\ deliveries'[m] <= deliveries[m] + 1
  BY DeliveriesStep
<1>k. ASSUME NEW v \in Workers, Claiming(v, m) \/ Owning(v, m) PROVE entry[m] # NoEntry
  <2>1. msg[v] = m
    BY <1>k DEF Claiming, Owning
  <2> QED
    BY <1>0, <2>1, QueueAssumption DEF KnownOK
<1>o. ASSUME NEW v \in Workers \ {w}
      PROVE  /\ Claiming(v, m)' => Claiming(v, m)
             /\ Owning(v, m)' => Owning(v, m)
             /\ pc'[v] = pc[v] /\ op'[v] = op[v] /\ next'[v] = next[v] /\ claim'[v] = claim[v]
  BY <1>0, OthersRoles DEF OthersKeep
<1>s. ASSUME Owning(w, m), Owning(w, m)'
      PROVE  /\ claim'[w] = claim[w]
             /\ pc'[w] # "loading"
             /\ op'[w] = "retry" => op[w] = "retry" \/ claim[w].attempts < Limit
             /\ pc'[w] = "putting" => next'[w].attempts = entry[m].attempts
  BY <1>s, OwningStays
<1>w. ASSUME NEW v \in Workers, renewal'[v].msg = m, renewal'[v].next # NoEntry
      PROVE  /\ renewal'[v].next.attempts = entry[m].attempts
             /\ ~(pc[w] = "putting" /\ (Claiming(w, m) \/ Owning(w, m)))
  <2>1. renewal'[v] = renewal[v]
    <3>1. RenewalTyped
      BY TypeParts DEF Typed
    <3>2. renewal'[v] = renewal[v] \/ renewal'[v] = NoRenewal
      BY <3>1, SharedStep DEF RenewalTyped
    <3> QED
      BY <1>w, <3>2, QueueAssumption DEF NoRenewal
  <2>2. Owning(v, m) /\ pc[v] = "handling"
    BY <1>1, <1>w, <2>1 DEF Shield, Renewed, Owning
  <2>3. ~Claiming(w, m) /\ (Owning(w, m) => pc[w] # "putting")
    BY <1>1, <2>2 DEF Shield, Owned, ClaimsFirst, Pending
  <2> QED
    BY <1>1, <1>w, <2>1, <2>3 DEF Count, Tally
<1>2. CASE /\ entry'[m] = entry[m]
           /\ ~(PutClaim(w) /\ msg[w] = m) /\ ~(PutReleased(w) /\ msg[w] = m)
  <2>1. Counted(m)'
    <3>1. Counted(m) /\ Tally(w, m)
      BY <1>1 DEF Count
    <3>2. CASE deliveries'[m] = deliveries[m]
      BY <1>2, <1>l, <3>1, <3>2 DEF Counted
    <3>3. CASE /\ pc[w] = "loading" /\ Owning(w, m)
               /\ deliveries'[m] \in Nat /\ deliveries'[m] <= deliveries[m] + 1
      <4>1. entry[m] # NoEntry
        BY <1>k, <3>3
      <4>2. deliveries[m] < entry[m].attempts
        BY <3>1, <3>3 DEF Tally
      <4>3. deliveries'[m] <= entry[m].attempts
        BY <1>n, <3>3, <4>1, <4>2
      <4> QED
        BY <1>2, <1>l, <3>1, <4>1, <4>3 DEF Counted
    <3> QED
      BY <1>d, <3>2, <3>3
  <2>2. Tally(w, m)'
    <3>1. ASSUME Claiming(w, m)'
          PROVE  next'[w].attempts = entry[m].attempts + 1 /\ claim'[w].attempts = entry[m].attempts + 1
      <4>1. GetEntry(w) /\ msg[w] = m
        BY <3>1, RoleOrigins
      <4> QED
        BY <1>0, <4>1 DEF GetEntry, CallTyped
    <3>2. ASSUME Owning(w, m)' PROVE Owning(w, m)
      <4>1. ~RecoverExhausted(w, m)
        BY <1>0 DEF RecoverExhausted, Expose, GhostTyped
      <4> QED
        BY <1>2, <3>2, <4>1, RoleOrigins
    <3>3. Tally(w, m)
      BY <1>1 DEF Count
    <3> QED
      BY <1>2, <1>l, <1>s, <1>w, <3>1, <3>2, <3>3 DEF Tally
  <2>3. ASSUME NEW v \in Workers \ {w} PROVE Tally(v, m)'
    <3>1. Tally(v, m)
      BY <1>1 DEF Count
    <3>2. Owning(v, m) => deliveries'[m] = deliveries[m]
      BY <1>1, <1>d DEF Shield, Owned
    <3> QED
      BY <1>2, <1>l, <1>o, <1>w, <3>1, <3>2 DEF Tally
  <2> QED
    BY <2>1, <2>2, <2>3 DEF Count
<1>3. ASSUME pc[w] = "putting", msg[w] = m, entry'[m] = next[w], Claiming(w, m) \/ Owning(w, m),
             \A v \in Workers \ {w} : ~Claiming(v, m) /\ ~Owning(v, m),
             deliveries[m] <= next[w].attempts, next[w].attempts <= Top,
             next[w].status = "pending" => next[w].attempts < Top,
             Owning(w, m)' => /\ claim'[w].attempts = next[w].attempts
                              /\ pc'[w] = "loading" => deliveries[m] < next[w].attempts
                              /\ pc'[w] # "putting"
                              /\ op'[w] = "retry" => claim'[w].attempts < Limit
      PROVE  Count(m)'
  <2>1. deliveries'[m] = deliveries[m]
    BY <1>3, <1>d
  <2>2. next[w] # NoEntry
    BY <1>3, PutsAnEntry
  <2>3. Counted(m)'
    BY <1>3, <1>l, <2>1, <2>2 DEF Counted
  <2>4. ~Claiming(w, m)'
    <3>1. ~GetEntry(w)
      BY <1>3 DEF GetEntry
    <3> QED
      BY <3>1, RoleOrigins
  <2>7. \A v \in Workers : ~(renewal'[v].msg = m /\ renewal'[v].next # NoEntry)
    BY <1>3, <1>w
  <2>5. Tally(w, m)'
    BY <1>3, <1>l, <2>1, <2>4, <2>7 DEF Tally
  <2>6. \A v \in Workers \ {w} : Tally(v, m)'
    BY <1>3, <1>o, <2>7 DEF Tally
  <2> QED
    BY <2>3, <2>5, <2>6 DEF Count
<1>4. CASE pc[w] = "putting" /\ msg[w] = m /\ entry'[m] = next[w] /\ Claiming(w, m)
           /\ Status(m)' = "processing"
  <2>1. m \in Pending /\ entry[m] # NoEntry /\ entry[m].status = "pending"
    BY <1>1, <1>4 DEF Shield, ClaimsFirst, Pending, Status
  <2>2. \A v \in Workers \ {w} : ~Claiming(v, m) /\ ~Owning(v, m)
    BY <1>1, <1>4, <2>1 DEF Shield, Marked, Owned, Contending, Status
  <2>3. /\ next[w].attempts = entry[m].attempts + 1 /\ claim[w].attempts = entry[m].attempts + 1
        /\ deliveries[m] <= entry[m].attempts /\ entry[m].attempts < Top
    BY <1>1, <1>4, <2>1 DEF Count, Counted, Tally
  <2>4. /\ deliveries[m] <= next[w].attempts /\ next[w].attempts <= Top
        /\ deliveries[m] < next[w].attempts
    BY <1>n, <1>t, <2>1, <2>3
  <2>5. next[w].status # "pending"
    BY <1>4, PutsAnEntry DEF Status
  <2>6. PutClaim(w) \/ LetsGo(w)
    BY <1>4, AfterPut DEF Claiming
  <2>7. ASSUME Owning(w, m)'
        PROVE  claim'[w] = claim[w] /\ pc'[w] # "putting" /\ op'[w] # "retry"
    <3>1. PutClaim(w)
      BY <2>6, <2>7 DEF LetsGo, Owning
    <3> QED
      BY <1>0, <3>1 DEF PutClaim, Goto, CallTyped
  <2> QED
    BY <1>3, <1>4, <2>2, <2>3, <2>4, <2>5, <2>7
<1>5. CASE pc[w] = "putting" /\ msg[w] = m /\ entry'[m] = next[w] /\ Owning(w, m)
  <2>1. Status(m) = "processing" /\ \A v \in Workers \ {w} : ~Owning(v, m)
    BY <1>1, <1>5 DEF Shield, Owned
  <2>2. \A v \in Workers \ {w} : ~Claiming(v, m)
    BY <1>1, <2>1 DEF Shield, ClaimsFirst, Pending
  <2>3. entry[m] # NoEntry
    BY <2>1 DEF Status
  <2>4. /\ next[w].attempts = entry[m].attempts /\ claim[w].attempts = entry[m].attempts
        /\ deliveries[m] <= entry[m].attempts /\ entry[m].attempts <= Top
        /\ op[w] = "retry" => claim[w].attempts < Limit
    BY <1>1, <1>5, <2>3 DEF Count, Counted, Tally
  <2>5. next[w].status = "pending" => next[w].attempts < Top
    <3> SUFFICES ASSUME next[w].status = "pending" PROVE next[w].attempts < Top
      OBVIOUS
    <3>1. NextFits(w)
      BY DEF ShieldOK, NextOK
    <3>3. op[w] = "retry"
      BY <1>5, <3>1 DEF NextFits, Owning, Outcomes
    <3>4. next[w].attempts < Limit
      BY <2>4, <3>3
    <3>5. Limit # 0
      BY <1>n, <1>t, <2>3, <2>4, <3>4
    <3> QED
      BY <1>t, <3>4, <3>5
  <2>6. ASSUME Owning(w, m)'
        PROVE  /\ claim'[w].attempts = next[w].attempts
               /\ pc'[w] # "loading" /\ pc'[w] # "putting"
               /\ op'[w] = "retry" => claim'[w].attempts < Limit
    <3>1. pc'[w] # "putting"
      BY <1>5, <2>6, RoleOrigins DEF Merge
    <3> QED
      BY <1>5, <1>s, <2>4, <2>6, <3>1
  <2> QED
    BY <1>3, <1>5, <2>1, <2>2, <2>4, <2>5, <2>6
<1> QED
  BY <1>1, <1>2, <1>4, <1>5, WritesOf

LEMMA CountRenewal ==
  ASSUME Typed, ShieldOK, CountOK, NEW w \in Workers, RenewalAction(w)
  PROVE  CountOK'
<1>0. StoreTyped /\ CallTyped /\ RenewalTyped /\ KnownOK
  BY TypeParts DEF Typed
<1>u. UNCHANGED <<strategy, pc, msg, op, claim, next, deliveries, exposed>>
  BY RenewalStep DEF worker, ghosts
<1>l. Limit' = Limit /\ Top' = Top
  BY <1>u DEF Limit, Top
<1>1. ASSUME NEW m \in Messages, ~exposed[m] PROVE Count(m)'
  <2>1. Count(m) /\ Shield(m)
    BY <1>1 DEF CountOK, ShieldOK
  <2>e. /\ entry[m] # NoEntry => entry'[m] # NoEntry /\ entry'[m].attempts = entry[m].attempts
        /\ entry[m] # NoEntry /\ entry'[m].status = "pending" => entry[m].status = "pending"
        /\ entry[m] = NoEntry => entry'[m] = NoEntry
    <3>1. CASE entry'[m] = entry[m]
      BY <3>1
    <3>2. CASE /\ renewal[w].next # NoEntry
               /\ entry' = [entry EXCEPT ![renewal[w].msg] = renewal[w].next]
               /\ renewal[w].msg = m
      <4>1. entry'[m] = renewal[w].next /\ entry[m] # NoEntry
        BY <1>0, <3>2, PutsARenewal DEF StoreTyped
      <4>2. renewal[w].next.status = "processing" /\ renewal[w].next.attempts = entry[m].attempts
        BY <2>1, <3>2 DEF Shield, Renewed, Count, Tally
      <4> QED
        BY <3>2, <4>1, <4>2
    <3> QED
      BY <1>0, <3>1, <3>2, RenewalStep DEF StoreTyped
  <2>2. Counted(m)'
    BY <1>u, <1>l, <2>1, <2>e DEF Count, Counted
  <2>3. ASSUME NEW v \in Workers PROVE Tally(v, m)'
    <3>1. Claiming(v, m)' = Claiming(v, m) /\ Owning(v, m)' = Owning(v, m)
      BY <1>u, SameRoles
    <3>2. Claiming(v, m) \/ Owning(v, m) => entry[m] # NoEntry
      BY <1>0, QueueAssumption DEF Claiming, Owning, KnownOK
    <3>3. Tally(v, m)
      BY <2>1 DEF Count
    <3>4. ASSUME renewal'[v].msg = m, renewal'[v].next # NoEntry
          PROVE  renewal'[v].next.attempts = entry'[m].attempts
      <4>1. CASE v # w
        <5>1. renewal'[v] = renewal[v]
          BY <1>0, <4>1, RenewalStep DEF RenewalTyped
        <5>2. entry[m] # NoEntry
          BY <3>4, <5>1, PutsARenewal
        <5> QED
          BY <2>e, <3>3, <3>4, <5>1, <5>2 DEF Tally
      <4>2. CASE v = w
        <5>1. PICK r : /\ renewal' = [renewal EXCEPT ![w] = r]
                       /\ \/ r.next = NoEntry
                          \/ r.next.attempts = entry[r.msg].attempts /\ UNCHANGED entry
          BY RenewalStep DEF NoRenewal
        <5>2. renewal'[v] = r
          BY <1>0, <4>2, <5>1 DEF RenewalTyped
        <5> QED
          BY <3>4, <5>1, <5>2
      <4> QED
        BY <4>1, <4>2
    <3> QED
      BY <1>u, <1>l, <2>e, <3>1, <3>2, <3>3, <3>4 DEF Tally
  <2> QED
    BY <2>2, <2>3 DEF Count
<1> QED
  BY <1>u, <1>1 DEF CountOK

LEMMA CountOutside ==
  ASSUME Typed, CountOK, Outside \/ UNCHANGED vars
  PROVE  CountOK'
<1>0. StoreTyped /\ CallTyped /\ KnownOK
  BY TypeParts DEF Typed
<1>u. UNCHANGED <<strategy, pc, msg, op, claim, next, renewal, deliveries, exposed>>
  BY OutsideStep
<1>l. Limit' = Limit /\ Top' = Top /\ Top \in Nat /\ Top > 0
  BY <1>u, LimitIsNat DEF Limit, Top
<1>1. ASSUME NEW m \in Messages, ~exposed[m] PROVE Count(m)'
  <2>1. Count(m)
    BY <1>1 DEF CountOK
  <2>e. /\ entry[m] # NoEntry => /\ entry'[m] # NoEntry
                                 /\ entry'[m].status = entry[m].status /\ entry'[m].attempts = entry[m].attempts
        /\ entry[m] = NoEntry /\ entry'[m] # NoEntry =>
             entry'[m].status = "pending" /\ entry'[m].attempts = 0
    BY <1>0, OutsideEntry
  <2>2. Counted(m)'
    <3>1. CASE entry[m] # NoEntry
      BY <1>u, <1>l, <2>1, <2>e, <3>1 DEF Count, Counted
    <3>2. CASE entry[m] = NoEntry
      BY <1>u, <1>l, <2>1, <2>e, <3>2 DEF Count, Counted
    <3> QED
      BY <3>1, <3>2
  <2>3. ASSUME NEW w \in Workers PROVE Tally(w, m)'
    <3>1. Claiming(w, m)' = Claiming(w, m) /\ Owning(w, m)' = Owning(w, m)
      BY <1>u, SameRoles
    <3>2. Claiming(w, m) \/ Owning(w, m) => entry[m] # NoEntry
      BY <1>0, QueueAssumption DEF Claiming, Owning, KnownOK
    <3>3. Tally(w, m)
      BY <2>1 DEF Count
    <3>4. renewal[w].msg = m /\ renewal[w].next # NoEntry => entry[m] # NoEntry
      BY PutsARenewal
    <3> QED
      BY <1>u, <1>l, <2>e, <3>1, <3>2, <3>3, <3>4 DEF Tally
  <2> QED
    BY <2>2, <2>3 DEF Count
<1> QED
  BY <1>u, <1>1 DEF CountOK

\* A message that was not exposed is given to handlers as often as maxAttempts allows, once under
\* the dead-letter strategy: attemptClaim counts in the entry, renewals and outcomes leave the
\* count alone, and _handleProcessingFailure puts no message back that has reached the limit.
THEOREM AttemptsAreBounded == Spec => []AttemptsBounded
<1>1. Init => CountOK
  <2> SUFFICES ASSUME Init PROVE CountOK
    OBVIOUS
  <2> QED
    BY DEF Init, CountOK, Count, Counted, Tally, Claiming, Owning, NoRenewal
<1>2. (Typed /\ ShieldOK) /\ CountOK /\ [Next]_vars => CountOK'
  <2> SUFFICES ASSUME Typed, ShieldOK, CountOK, [Next]_vars PROVE CountOK'
    OBVIOUS
  <2>1. ASSUME NEW w \in Workers, WorkerAction(w) PROVE CountOK'
    BY <2>1, CountStep DEF CountOK
  <2> QED
    BY <2>1, CountOutside, CountRenewal, StepIsEither
<1>3. (Typed /\ ShieldOK) /\ CountOK => AttemptsBounded
  <2> SUFFICES ASSUME Typed, CountOK, NEW m \in Messages, ~exposed[m] PROVE deliveries[m] <= Top
    BY DEF AttemptsBounded, Top
  <2>1. GhostTyped /\ StoreTyped /\ Counted(m)
    BY TypeParts DEF Typed, CountOK, Count
  <2>2. deliveries[m] \in Nat /\ (entry[m] # NoEntry => entry[m].attempts \in Nat)
    BY <2>1 DEF GhostTyped, StoreTyped, Entry
  <2> QED
    BY <2>1, <2>2, LimitIsNat DEF Counted
<1> QED
  BY <1>1, <1>2, <1>3, AlwaysShielded, PTL DEF Spec
=============================================================================
