---------------------- MODULE ResourcePersistenceProofs ----------------------
(***************************************************************************)
(* What holds of ResourcePersistence for every set of callers, partition   *)
(* values and attributes, every choice of methods and maintenance modes,   *)
(* and every number of writes and faults.                                  *)
(***************************************************************************)
EXTENDS ResourcePersistence, TLAPS

USE PersistenceAssumption

Base == {"upsert", "update", "updateConditional"}   \* methods that merge with what they read

-----------------------------------------------------------------------------
(* Types.  A write stores what a caller passed and read, so the type of    *)
(* the record rests on where each caller is in its method.                 *)

CallsFit ==
  \A c \in Caller :
    /\ pc[c] = "inserting" => method[c] \in {"insert", "upsert"} /\ attrs[c] \in Full
    /\ pc[c] = "reading" => method[c] \in Base \cup {"delete"}
    /\ pc[c] = "writing" => method[c] \in Base \cup {"replace", "delete"}
    /\ pc[c] \in {"reading", "writing"} =>
         /\ method[c] \in {"update", "updateConditional"} => attrs[c] \in Partial
         /\ method[c] \in {"upsert", "replace"} => attrs[c] \in Full
    /\ pc[c] \in {"idle", "inserting", "reading"} => original[c] = NoRecord
    /\ pc[c] = "writing" /\ method[c] \in Base => original[c] \in Record

Typed == TypeOK /\ CallsFit

(***************************************************************************)
(* Versions: stamps grow with every write, and a record that was read      *)
(* later has a later stamp.                                                *)
(***************************************************************************)
StampsGrow ==
  /\ rec # NoRecord => rec.stamp <= writes
  /\ \A c \in Caller :
       /\ ifMatch[c] <= writes
       /\ rec # NoRecord => ifMatch[c] <= rec.stamp
       /\ original[c] # NoRecord =>
            /\ original[c].stamp <= writes
            /\ ifMatch[c] <= original[c].stamp
            /\ rec # NoRecord => original[c].stamp <= rec.stamp
            /\ rec # NoRecord /\ original[c].stamp = rec.stamp => original[c] = rec

(***************************************************************************)
(* References.  While a call has no company there is one caller at work,   *)
(* or one job; the job leads to the keys of the record, from a state that  *)
(* was sound at once, and otherwise when it has listed the partition.      *)
(***************************************************************************)
JobsFit ==
  \A j \in jobs :
    /\ mode # "atomic"
    /\ j.del \cap j.put = {} /\ j.put \subseteq j.keep
    /\ j.keep \cap j.del = {} /\ j.keep \cap j.stale = {}
    /\ j.stale # {} => j.del = {} /\ j.put = {} /\ ~j.scan

Solo ==
  alone =>
    /\ \A c, d \in Caller : pc[c] # "idle" /\ pc[d] # "idle" => c = d
    /\ \A j, k \in jobs : j = k
    /\ \A c \in Caller, j \in jobs :
         pc[c] # "idle" => pc[c] = "indexing" /\ j.owner = c /\ mode = "sync"
    /\ \A c \in Caller :
         pc[c] = "writing" /\ method[c] # "replace" =>
           original[c] = rec \/ (method[c] = "delete" /\ original[c] = NoRecord /\ ~sound)

Outcome(j) == ((refs \ j.del) \cup j.put) \ j.stale

Leads ==
  /\ sound => alone
  /\ sound /\ jobs = {} => Exact
  /\ \A j \in jobs :
       /\ sound => Outcome(j) = Keys(rec)
       /\ alone /\ j.scan => j.keep = Keys(rec) /\ j.keep \subseteq refs \cup j.put
       /\ alone /\ j.stale # {} => refs \ j.stale = Keys(rec)

Inv == Typed /\ JobsFit /\ Solo /\ Leads

-----------------------------------------------------------------------------
(* Operators on records and jobs.                                          *)

LEMMA StampedIsRecord ==
  ASSUME NEW x \in Full, writes \in 0 .. MaxWrites, writes < MaxWrites
  PROVE  Stamped(x) \in Record /\ Stamped(x).stamp = writes + 1
BY DEF Stamped, Full, Record

LEMMA MergedIsRecord ==
  ASSUME NEW r \in Record, NEW x \in Full \cup Partial,
         writes \in 0 .. MaxWrites, writes < MaxWrites
  PROVE  Merged(r, x) \in Record /\ Merged(r, x).stamp = writes + 1
<1> DEFINE m == [f \in {"part", "note"} |-> IF f \in DOMAIN x THEN x[f] ELSE r[f]]
<1>1. /\ "part" \in DOMAIN x => x["part"] \in Indexed
      /\ "note" \in DOMAIN x => x["note"] \in Note
      /\ r["part"] \in Indexed /\ r["note"] \in Note
  BY DEF Full, Partial, Record
<1>2. m.part \in Indexed /\ m.note \in Note
  BY <1>1
<1> QED
  BY <1>2 DEF Merged, Stamped, Record

LEMMA KeysAreValues ==
  ASSUME NEW r \in Record \cup {NoRecord}
  PROVE  Keys(r) \subseteq Part
BY DEF Keys, Record, Indexed

LEMMA ReferenceJobIsJob ==
  ASSUME NEW c \in Caller, NEW old \in Record \cup {NoRecord},
         NEW new \in Record \cup {NoRecord},
         writes \in 0 .. MaxWrites, writes < MaxWrites
  PROVE  ReferenceJob(c, old, new) \in Job
<1>1. Keys(old) \subseteq Part /\ Keys(new) \subseteq Part
  BY KeysAreValues
<1> QED
  BY <1>1 DEF ReferenceJob, Job

-----------------------------------------------------------------------------
(* Type correctness.                                                       *)

LEMMA TypedInit == Init => Typed
BY DEF Init, Typed, TypeOK, CallsFit, Mutator

\* Return and Goto end or move one call; what the others do stays as it was.
LEMMA ReturnIsTyped ==
  ASSUME TypeOK, CallsFit, NEW c \in Caller, Return(c)
  PROVE  /\ pc' \in [Caller -> {"idle", "inserting", "reading", "writing", "indexing"}]
         /\ method' \in [Caller -> Mutator]
         /\ attrs' \in [Caller -> Full \cup Partial \cup {Blank}]
         /\ original' \in [Caller -> Record \cup {NoRecord}]
         /\ ifMatch' \in [Caller -> 0 .. MaxWrites]
         /\ CallsFit'
<1>1. /\ pc' = [pc EXCEPT ![c] = "idle"]
      /\ method' = [method EXCEPT ![c] = "insert"]
      /\ attrs' = [attrs EXCEPT ![c] = Blank]
      /\ original' = [original EXCEPT ![c] = NoRecord]
      /\ ifMatch' = [ifMatch EXCEPT ![c] = 0]
  BY DEF Return, Goto
<1>2. "insert" \in Mutator
  BY DEF Mutator
<1>3. CallsFit'
  BY <1>1 DEF CallsFit, TypeOK
<1> QED
  BY <1>1, <1>2, <1>3 DEF TypeOK

LEMMA MaintainIsTyped ==
  ASSUME Typed, NEW c \in Caller, NEW job \in Job, Maintain(c, job)
  PROVE  /\ refs' \subseteq Part /\ jobs' \subseteq Job
         /\ pc' \in [Caller -> {"idle", "inserting", "reading", "writing", "indexing"}]
         /\ method' \in [Caller -> Mutator]
         /\ attrs' \in [Caller -> Full \cup Partial \cup {Blank}]
         /\ original' \in [Caller -> Record \cup {NoRecord}]
         /\ ifMatch' \in [Caller -> 0 .. MaxWrites]
         /\ CallsFit'
<1>1. refs' \subseteq Part /\ jobs' \subseteq Job
  BY DEF Maintain, Typed, TypeOK, Job
<1>2. CASE Return(c)
  BY <1>1, <1>2, ReturnIsTyped DEF Typed
<1>3. CASE Goto(c, "indexing") /\ UNCHANGED <<method, attrs, original, ifMatch>>
  BY <1>1, <1>3 DEF Typed, TypeOK, CallsFit, Goto
<1> QED
  BY <1>2, <1>3 DEF Maintain

LEMMA WriteIsTyped ==
  ASSUME Typed, NEW c \in Caller, NEW old \in Record \cup {NoRecord},
         NEW new \in Record \cup {NoRecord}, Write(c, old, new)
  PROVE  Typed'
<1>1. writes \in 0 .. MaxWrites /\ writes < MaxWrites /\ writes' = writes + 1
  BY DEF Write, Typed, TypeOK
<1>2. ReferenceJob(c, old, new) \in Job
  BY <1>1, ReferenceJobIsJob
<1>3. /\ rec' = new /\ mode' = mode /\ alone' = alone /\ sound' \in BOOLEAN
      /\ faults' \in 0 .. MaxFaults
  <2>1. rec' = new /\ mode' = mode /\ alone' = alone /\ (faults' = faults \/ Fault)
    BY DEF Write
  <2>2. sound' \in BOOLEAN
    BY Zenon DEF Write
  <2> QED
    BY <2>1, <2>2 DEF Fault, Typed, TypeOK
<1>4. CASE Maintain(c, ReferenceJob(c, old, new))
  BY <1>1, <1>2, <1>3, <1>4, MaintainIsTyped DEF Typed, TypeOK
<1>5. CASE Return(c) /\ UNCHANGED <<refs, jobs>>
  BY <1>1, <1>3, <1>5, ReturnIsTyped DEF Typed, TypeOK
<1> QED
  BY <1>4, <1>5 DEF Write

\* What a method is when its call begins: where it starts and what it is passed.
Opens(m, a, where) ==
  \/ where = "inserting" /\ m \in {"insert", "upsert"} /\ a \in Full
  \/ where = "reading" /\ m \in {"update", "updateConditional"} /\ a \in Partial
  \/ where = "reading" /\ m = "delete" /\ a = Blank
  \/ where = "writing" /\ m = "replace" /\ a \in Full

LEMMA BeginOpens ==
  ASSUME NEW c \in Caller, BeginCall(c)
  PROVE  \E m \in Methods, a \in Full \cup Partial \cup {Blank},
            where \in {"inserting", "reading", "writing"} :
           /\ Begin(c, m, a, where) /\ Opens(m, a, where)
           /\ \/ ifMatch' = ifMatch
              \/ rec # NoRecord /\ ifMatch' = [ifMatch EXCEPT ![c] = Etag(rec)]
<1>1. CASE BeginInsert(c)
  BY <1>1, Zenon DEF BeginInsert, Begin, Opens
<1>2. CASE BeginUpdate(c)
  BY <1>2, Zenon DEF BeginUpdate, Begin, Opens
<1>3. CASE BeginDelete(c)
  BY <1>3, Zenon DEF BeginDelete, Begin, Opens
<1>4. CASE BeginReplace(c)
  BY <1>4, Zenon DEF BeginReplace, Begin, Opens
<1>5. CASE BeginUpdateConditional(c)
  BY <1>5, Zenon DEF BeginUpdateConditional, Begin, Opens
<1> QED
  BY <1>1, <1>2, <1>3, <1>4, <1>5 DEF BeginCall

LEMMA BeginIsTyped ==
  ASSUME Typed, NEW c \in Caller, BeginCall(c)
  PROVE  Typed'
<1>1. PICK m \in Methods, a \in Full \cup Partial \cup {Blank},
           where \in {"inserting", "reading", "writing"} :
        /\ Begin(c, m, a, where) /\ Opens(m, a, where)
        /\ \/ ifMatch' = ifMatch
           \/ rec # NoRecord /\ ifMatch' = [ifMatch EXCEPT ![c] = Etag(rec)]
  BY BeginOpens
<1>2. /\ UNCHANGED <<rec, refs, jobs, mode, original, writes, faults>>
      /\ pc' = [pc EXCEPT ![c] = where] /\ method' = [method EXCEPT ![c] = m]
      /\ attrs' = [attrs EXCEPT ![c] = a] /\ pc[c] = "idle"
  BY <1>1 DEF Begin, Goto
<1>3. alone' \in BOOLEAN /\ sound' \in BOOLEAN
  BY <1>1, Zenon DEF Begin, Quiet
<1>4. ifMatch' \in [Caller -> 0 .. MaxWrites]
  <2>1. rec # NoRecord => Etag(rec) \in 0 .. MaxWrites
    BY DEF Etag, Record, Typed, TypeOK
  <2> QED
    BY <1>1, <2>1 DEF Typed, TypeOK
<1>5. TypeOK'
  BY <1>2, <1>3, <1>4 DEF Typed, TypeOK
<1>6. CallsFit'
  BY <1>1, <1>2 DEF Typed, TypeOK, CallsFit, Base, Opens
<1> QED
  BY <1>5, <1>6 DEF Typed

LEMMA StepIsTyped ==
  ASSUME Typed, NEW c \in Caller, Step(c)
  PROVE  Typed'
<1> USE DEF Typed
<1>1. CASE Insert(c)
  <2>1. Stamped(attrs[c]) \in Record
    BY <1>1, StampedIsRecord DEF Insert, Write, CallsFit, TypeOK
  <2> QED
    BY <1>1, <2>1, WriteIsTyped DEF Insert
<1>2. CASE InsertRefused(c)
  BY <1>2, ReturnIsTyped DEF InsertRefused, TypeOK
<1>3. CASE UpsertGoesOn(c)
  BY <1>3 DEF UpsertGoesOn, TypeOK, CallsFit, Goto, Base
<1>4. CASE Read(c)
  BY <1>4 DEF Read, TypeOK, CallsFit, Goto, Base
<1>5. CASE ReadFails(c)
  <2>1. /\ faults' \in 0 .. MaxFaults /\ sound' \in BOOLEAN
        /\ UNCHANGED <<rec, refs, jobs, mode, writes, alone>>
    <3>1. sound' \in BOOLEAN
      BY <1>5, Zenon DEF ReadFails, TypeOK
    <3>2. faults' = faults \/ Fault
      BY <1>5 DEF ReadFails
    <3> QED
      BY <1>5, <3>1, <3>2 DEF ReadFails, TypeOK, Fault
  <2>2. CASE Return(c)
    BY <2>1, <2>2, ReturnIsTyped DEF TypeOK
  <2>3. CASE method[c] = "delete" /\ Goto(c, "writing")
             /\ UNCHANGED <<method, attrs, original, ifMatch>>
    BY <1>5, <2>1, <2>3 DEF TypeOK, CallsFit, Goto, Base
  <2> QED
    BY <1>5, <2>2, <2>3 DEF ReadFails
<1>6. CASE Update(c) \/ UpdateConditional(c)
  <2>1. writes < MaxWrites /\ writes \in 0 .. MaxWrites
    BY <1>6 DEF Update, UpdateConditional, Write, TypeOK
  <2>2. original[c] \in Record /\ attrs[c] \in Full \cup Partial
    BY <1>6 DEF Update, UpdateConditional, CallsFit, Base
  <2>3. Merged(original[c], attrs[c]) \in Record
    BY <2>1, <2>2, MergedIsRecord
  <2> QED
    BY <1>6, <2>2, <2>3, WriteIsTyped DEF Update, UpdateConditional
<1>7. CASE UpdateConditionalRefused(c)
  BY <1>7, ReturnIsTyped DEF UpdateConditionalRefused, TypeOK
<1>8. CASE Replace(c)
  <2>1. Stamped(attrs[c]) \in Record
    BY <1>8, StampedIsRecord DEF Replace, Write, CallsFit, TypeOK
  <2> QED
    BY <1>8, <2>1, WriteIsTyped DEF Replace
<1>9. CASE Delete(c)
  <2>1. original[c] \in Record \cup {NoRecord}
    BY DEF TypeOK
  <2> QED
    BY <1>9, <2>1, WriteIsTyped DEF Delete
<1>10. CASE WriteFails(c)
  <2>1. UNCHANGED <<rec, mode, alone>> /\ faults' \in 0 .. MaxFaults
    BY <1>10 DEF WriteFails, Fault, TypeOK
  <2>2. CASE Return(c) /\ UNCHANGED <<refs, jobs, writes, sound>>
    BY <2>1, <2>2, ReturnIsTyped DEF TypeOK
  <2>3. CASE writes < MaxWrites /\ writes' = writes + 1 /\ sound' = FALSE
             /\ Maintain(c, ReferenceJob(c, original[c], NoRecord))
    <3>1. writes \in 0 .. MaxWrites /\ writes' \in 0 .. MaxWrites
      BY <2>3 DEF TypeOK
    <3>2. original[c] \in Record \cup {NoRecord}
      BY DEF TypeOK
    <3>3. ReferenceJob(c, original[c], NoRecord) \in Job
      BY <2>3, <3>1, <3>2, ReferenceJobIsJob
    <3> QED
      BY <2>1, <2>3, <3>1, <3>3, MaintainIsTyped DEF TypeOK
  <2> QED
    BY <1>10, <2>2, <2>3 DEF WriteFails
<1> QED
  BY <1>1, <1>2, <1>3, <1>4, <1>5, <1>6, <1>7, <1>8, <1>9, <1>10 DEF Step

LEMMA ProceedIsTyped ==
  ASSUME Typed, NEW job \in jobs, NEW next \in Job, next.owner = job.owner,
         Proceed(job, next), refs' \subseteq Part, sound' \in BOOLEAN
  PROVE  Typed'
<1>1. jobs' \subseteq Job /\ UNCHANGED <<rec, mode, writes, faults, alone>>
  BY DEF Proceed, Typed, TypeOK
<1>2. CASE Return(job.owner)
  <2>1. job.owner \in Caller
    BY DEF Typed, TypeOK, Job
  <2> QED
    BY <1>1, <1>2, <2>1, ReturnIsTyped DEF Typed, TypeOK
<1>3. CASE UNCHANGED callVars
  BY <1>1, <1>3 DEF callVars, Typed, TypeOK, CallsFit
<1> QED
  BY <1>2, <1>3 DEF Proceed

LEMMA JobStepIsTyped ==
  ASSUME Typed, NEW job \in jobs, JobStep(job)
  PROVE  Typed'
<1>1. job \in Job /\ refs \subseteq Part /\ sound \in BOOLEAN /\ alone \in BOOLEAN
  BY DEF Typed, TypeOK
<1>2. CASE DeleteReference(job)
  <2>1. [job EXCEPT !.del = {}] \in Job /\ [job EXCEPT !.del = {}].owner = job.owner
    BY <1>1 DEF Job
  <2>2. refs' \subseteq Part /\ sound' \in BOOLEAN
    BY <1>1, <1>2 DEF DeleteReference
  <2> QED
    BY <1>2, <2>1, <2>2, ProceedIsTyped DEF DeleteReference
<1>3. CASE PutReference(job)
  <2>1. [job EXCEPT !.put = {}] \in Job /\ [job EXCEPT !.put = {}].owner = job.owner
    BY <1>1 DEF Job
  <2>2. refs' \subseteq Part /\ sound' \in BOOLEAN
    BY <1>1, <1>3 DEF PutReference, Job
  <2> QED
    BY <1>3, <2>1, <2>2, ProceedIsTyped DEF PutReference
<1>4. CASE ListStale(job)
  <2> DEFINE next == [job EXCEPT !.scan = FALSE, !.stale = refs \ job.keep]
  <2>1. next \in Job /\ next.owner = job.owner
    BY <1>1 DEF Job
  <2>2. refs' \subseteq Part /\ sound' \in BOOLEAN
    BY <1>1, <1>4 DEF ListStale
  <2> QED
    BY <1>4, <2>1, <2>2, ProceedIsTyped DEF ListStale
<1>5. CASE DeleteStale(job)
  <2>1. [job EXCEPT !.stale = {}] \in Job /\ [job EXCEPT !.stale = {}].owner = job.owner
    BY <1>1 DEF Job
  <2>2. refs' \subseteq Part /\ sound' \in BOOLEAN
    BY <1>1, <1>5 DEF DeleteStale
  <2> QED
    BY <1>5, <2>1, <2>2, ProceedIsTyped DEF DeleteStale
<1>6. CASE AbandonJob(job)
  <2>1. /\ faults' \in 0 .. MaxFaults /\ sound' \in BOOLEAN /\ jobs' \subseteq Job
        /\ UNCHANGED <<rec, refs, mode, writes, alone>>
    <3>1. /\ Fault /\ jobs' = jobs \ {job} /\ sound' = FALSE
          /\ UNCHANGED <<rec, refs, mode, writes, alone>>
      BY <1>6 DEF AbandonJob
    <3>2. faults' \in 0 .. MaxFaults
      BY <3>1 DEF Fault, Typed, TypeOK
    <3>3. jobs' \subseteq Job
      BY <3>1 DEF Typed, TypeOK
    <3> QED
      BY <3>1, <3>2, <3>3
  <2>2. CASE Return(job.owner)
    <3>1. job.owner \in Caller
      BY <1>1 DEF Job
    <3> QED
      BY <2>1, <2>2, <3>1, ReturnIsTyped DEF Typed, TypeOK
  <2>3. CASE UNCHANGED callVars
    BY <2>1, <2>3 DEF callVars, Typed, TypeOK, CallsFit
  <2> QED
    BY <1>6, <2>2, <2>3 DEF AbandonJob
<1> QED
  BY <1>2, <1>3, <1>4, <1>5, <1>6 DEF JobStep

LEMMA TypedStep == Typed /\ [Next]_vars => Typed'
<1>1. Typed /\ UNCHANGED vars => Typed'
  BY DEF Typed, TypeOK, CallsFit, vars, callVars
<1> QED
  BY <1>1, BeginIsTyped, StepIsTyped, JobStepIsTyped DEF Next

\* Every variable keeps its type, whatever calls overlap and fail: a method writes
\* nothing but records made from what its caller passed and what it has read.
THEOREM PersistenceTypeCorrect == Spec => []TypeOK
<1>1. Typed => TypeOK
  BY DEF Typed
<1> QED
  BY <1>1, TypedInit, TypedStep, PTL DEF Spec

-----------------------------------------------------------------------------
(* Optimistic concurrency.                                                 *)

Versioned == Typed /\ StampsGrow

\* A write makes a version later than all that were read; a call that ends forgets
\* what it has read.
LEMMA LaterVersion ==
  ASSUME Versioned, Typed',
         \/ rec' = rec /\ writes' \in {writes, writes + 1}
         \/ writes' = writes + 1 /\ (rec' # NoRecord => rec'.stamp = writes + 1),
         \A d \in Caller :
           \/ original'[d] = NoRecord /\ ifMatch'[d] = 0
           \/ original'[d] = original[d] /\ ifMatch'[d] = ifMatch[d]
  PROVE  StampsGrow'
<1> DEFINE Reads(d) ==
      /\ ifMatch[d] <= writes
      /\ rec # NoRecord => ifMatch[d] <= rec.stamp
      /\ original[d] # NoRecord =>
           /\ original[d].stamp <= writes
           /\ ifMatch[d] <= original[d].stamp
           /\ rec # NoRecord => original[d].stamp <= rec.stamp
           /\ rec # NoRecord /\ original[d].stamp = rec.stamp => original[d] = rec
<1>1. /\ rec # NoRecord => rec.stamp <= writes /\ rec.stamp \in Nat
      /\ rec' # NoRecord => rec'.stamp \in Nat
      /\ writes \in Nat /\ writes' \in Nat
  BY DEF Versioned, Typed, TypeOK, StampsGrow, Record
<1>2. rec' # NoRecord => rec'.stamp <= writes'
  BY <1>1
<1>3. ASSUME NEW d \in Caller PROVE Reads(d)'
  <2>1. /\ ifMatch[d] \in Nat /\ ifMatch'[d] \in Nat
        /\ original[d] # NoRecord => original[d].stamp \in Nat
    BY DEF Versioned, Typed, TypeOK, Record
  <2>2. Reads(d)
    BY DEF Versioned, StampsGrow
  <2>3. CASE original'[d] = NoRecord /\ ifMatch'[d] = 0
    BY <1>1, <2>3
  <2>4. CASE original'[d] = original[d] /\ ifMatch'[d] = ifMatch[d]
    BY <1>1, <2>1, <2>2, <2>4
  <2> QED
    BY <2>3, <2>4
<1> QED
  BY <1>2, <1>3 DEF StampsGrow

LEMMA ReturnForgets ==
  ASSUME Typed, NEW c \in Caller, Return(c), NEW d \in Caller
  PROVE  \/ original'[d] = NoRecord /\ ifMatch'[d] = 0
         \/ original'[d] = original[d] /\ ifMatch'[d] = ifMatch[d]
BY DEF Return, Goto, Typed, TypeOK

LEMMA MaintainForgets ==
  ASSUME Typed, NEW c \in Caller, NEW job, Maintain(c, job), NEW d \in Caller
  PROVE  \/ original'[d] = NoRecord /\ ifMatch'[d] = 0
         \/ original'[d] = original[d] /\ ifMatch'[d] = ifMatch[d]
<1>1. CASE Return(c)
  BY <1>1, ReturnForgets
<1>2. CASE Goto(c, "indexing") /\ UNCHANGED <<original, ifMatch>>
  BY <1>2
<1> QED
  BY <1>1, <1>2 DEF Maintain

LEMMA WriteVersions ==
  ASSUME Versioned, Typed', NEW c \in Caller, NEW old, NEW new, Write(c, old, new),
         new # NoRecord => new.stamp = writes + 1
  PROVE  StampsGrow'
<1>1. rec' = new /\ writes' = writes + 1
  BY DEF Write
<1>2. ASSUME NEW d \in Caller
      PROVE  \/ original'[d] = NoRecord /\ ifMatch'[d] = 0
             \/ original'[d] = original[d] /\ ifMatch'[d] = ifMatch[d]
  BY MaintainForgets, ReturnForgets DEF Write, Versioned
<1> QED
  BY <1>1, <1>2, LaterVersion

LEMMA StepVersions ==
  ASSUME Versioned, NEW c \in Caller, Step(c)
  PROVE  Versioned'
<1>1. Typed'
  BY StepIsTyped DEF Versioned
<1> USE <1>1
<1>2. writes \in 0 .. MaxWrites
  BY DEF Versioned, Typed, TypeOK
<1>3. CASE Insert(c)
  <2>1. Stamped(attrs[c]).stamp = writes + 1
    BY DEF Stamped
  <2> QED
    BY <1>3, <2>1, WriteVersions DEF Insert, Versioned
<1>4. CASE Update(c) \/ UpdateConditional(c)
  <2>1. Merged(original[c], attrs[c]).stamp = writes + 1
    BY DEF Merged, Stamped
  <2> QED
    BY <1>4, <2>1, WriteVersions DEF Update, UpdateConditional, Versioned
<1>5. CASE Replace(c)
  <2>1. Stamped(attrs[c]).stamp = writes + 1
    BY DEF Stamped
  <2> QED
    BY <1>5, <2>1, WriteVersions DEF Replace, Versioned
<1>6. CASE Delete(c)
  BY <1>6, WriteVersions DEF Delete, Versioned
<1>7. CASE WriteFails(c)
  <2>1. rec' = rec /\ writes' \in {writes, writes + 1}
    BY <1>7 DEF WriteFails
  <2>2. ASSUME NEW d \in Caller
        PROVE  \/ original'[d] = NoRecord /\ ifMatch'[d] = 0
               \/ original'[d] = original[d] /\ ifMatch'[d] = ifMatch[d]
    BY <1>7, MaintainForgets, ReturnForgets DEF WriteFails, Versioned
  <2> QED
    BY <2>1, <2>2, LaterVersion DEF Versioned
<1>8. CASE Read(c)
  <2>1. /\ rec # NoRecord /\ original' = [original EXCEPT ![c] = rec]
        /\ pc' = [pc EXCEPT ![c] = "writing"] /\ UNCHANGED <<rec, writes, ifMatch>>
    BY <1>8 DEF Read, Goto
  <2> QED
    BY <2>1 DEF Versioned, Typed, TypeOK, StampsGrow, Record
<1>9. CASE InsertRefused(c) \/ UpdateConditionalRefused(c)
  <2>1. rec' = rec /\ writes' = writes /\ Return(c)
    BY <1>9 DEF InsertRefused, UpdateConditionalRefused
  <2> QED
    BY <2>1, ReturnForgets, LaterVersion DEF Versioned
<1>10. CASE UpsertGoesOn(c)
  <2>1. rec' = rec /\ writes' = writes /\ Goto(c, "reading") /\ UNCHANGED <<original, ifMatch>>
    BY <1>10 DEF UpsertGoesOn
  <2> QED
    BY <2>1, LaterVersion DEF Versioned
<1>11. CASE ReadFails(c)
  <2>1. rec' = rec /\ writes' = writes
    BY <1>11 DEF ReadFails
  <2>2. CASE Return(c)
    BY <2>1, <2>2, ReturnForgets, LaterVersion DEF Versioned
  <2>3. CASE Goto(c, "writing") /\ UNCHANGED <<original, ifMatch>>
    BY <2>1, <2>3, LaterVersion DEF Versioned
  <2> QED
    BY <1>11, <2>2, <2>3 DEF ReadFails
<1> QED
  BY <1>3, <1>4, <1>5, <1>6, <1>7, <1>8, <1>9, <1>10, <1>11 DEF Step, Versioned

LEMMA BeginVersions ==
  ASSUME Versioned, NEW c \in Caller, BeginCall(c)
  PROVE  Versioned'
<1>1. Typed'
  BY BeginIsTyped DEF Versioned
<1>2. PICK m \in Methods, a \in Full \cup Partial \cup {Blank},
           where \in {"inserting", "reading", "writing"} :
        /\ Begin(c, m, a, where)
        /\ \/ ifMatch' = ifMatch
           \/ rec # NoRecord /\ ifMatch' = [ifMatch EXCEPT ![c] = Etag(rec)]
  BY BeginOpens
<1>3. /\ UNCHANGED <<rec, original, writes>> /\ pc[c] = "idle"
      /\ pc' = [pc EXCEPT ![c] = where]
  BY <1>2 DEF Begin, Goto
<1>4. StampsGrow'
  BY <1>2, <1>3 DEF Versioned, Typed, TypeOK, CallsFit, StampsGrow, Record, Etag
<1> QED
  BY <1>1, <1>4 DEF Versioned

LEMMA JobVersions ==
  ASSUME Versioned, NEW job \in jobs, JobStep(job)
  PROVE  Versioned'
<1>1. Typed'
  BY JobStepIsTyped DEF Versioned
<1>2. rec' = rec /\ writes' = writes
  BY DEF JobStep, DeleteReference, PutReference, ListStale, DeleteStale, AbandonJob, Proceed
<1>3. Return(job.owner) \/ UNCHANGED callVars
  BY DEF JobStep, DeleteReference, PutReference, ListStale, DeleteStale, AbandonJob, Proceed
<1>4. job.owner \in Caller
  BY DEF Versioned, Typed, TypeOK, Job
<1>5. CASE Return(job.owner)
  BY <1>1, <1>2, <1>4, <1>5, ReturnForgets, LaterVersion DEF Versioned
<1>6. CASE UNCHANGED callVars
  BY <1>1, <1>2, <1>6, LaterVersion DEF Versioned, callVars
<1> QED
  BY <1>3, <1>5, <1>6

LEMMA VersionedInit == Init => Versioned
<1>1. Init => StampsGrow
  BY DEF Init, StampsGrow
<1> QED
  BY <1>1, TypedInit DEF Versioned

LEMMA VersionedStep == Versioned /\ [Next]_vars => Versioned'
<1>1. Versioned /\ UNCHANGED vars => Versioned'
  BY DEF Versioned, Typed, TypeOK, CallsFit, StampsGrow, vars, callVars
<1> QED
  BY <1>1, BeginVersions, StepVersions, JobVersions DEF Next

\* The same version is the same record, and a version between two equal ones is equal
\* to both: what the put's ifMatch accepts is what the call has read.
LEMMA AcceptedIsRead ==
  ASSUME BodyHoldsData, Versioned, NEW c \in Caller, UpdateConditional(c)
  PROVE  rec # NoRecord /\ original[c] = rec
<1>1. rec # NoRecord /\ rec.stamp = ifMatch[c]
  BY DEF UpdateConditional, Etag
<1>2. original[c] \in Record /\ rec \in Record
  BY <1>1 DEF UpdateConditional, Versioned, Typed, TypeOK, CallsFit, Base
<1>3. ifMatch[c] <= original[c].stamp /\ original[c].stamp <= rec.stamp
  BY <1>1, <1>2 DEF Versioned, StampsGrow
<1>4. original[c].stamp \in Nat /\ rec.stamp \in Nat
  BY <1>2 DEF Record
<1>5. original[c].stamp = rec.stamp
  BY <1>1, <1>3, <1>4
<1> QED
  BY <1>1, <1>2, <1>5 DEF Versioned, StampsGrow

\* Only the call itself moves away from its put.
LEMMA OthersWait ==
  ASSUME Versioned, NEW d \in Caller, Step(d), NEW c \in Caller, c # d
  PROVE  pc'[c] = pc[c]
<1>1. pc' = pc \/ \E where : pc' = [pc EXCEPT ![d] = where]
  BY DEF Step, Insert, InsertRefused, UpsertGoesOn, Read, ReadFails, Update, UpdateConditional,
     UpdateConditionalRefused, Replace, Delete, WriteFails, Write, Maintain, Return, Goto
<1> QED
  BY <1>1 DEF Versioned, Typed, TypeOK

LEMMA ConditionalStep ==
  ASSUME BodyHoldsData, Versioned, [Next]_vars, NEW c \in Caller,
         method[c] = "updateConditional", pc[c] = "writing",
         writes' # writes, pc'[c] # "writing"
  PROVE  rec # NoRecord /\ rec' = Merged(rec, attrs[c])
<1>1. PICK d \in Caller : Step(d)
  <2>1. ASSUME NEW d \in Caller, BeginCall(d) PROVE FALSE
    BY <2>1 DEF BeginCall, BeginInsert, BeginUpdate, BeginDelete, BeginReplace,
       BeginUpdateConditional, Begin
  <2>2. ASSUME NEW job \in jobs, JobStep(job) PROVE FALSE
    BY <2>2 DEF JobStep, DeleteReference, PutReference, ListStale, DeleteStale, AbandonJob,
       Proceed
  <2>3. ~UNCHANGED vars
    BY DEF vars
  <2> QED
    BY <2>1, <2>2, <2>3 DEF Next
<1>2. d = c
  BY <1>1, OthersWait
<1>3. UpdateConditional(c)
  BY <1>1, <1>2 DEF Step, Insert, InsertRefused, UpsertGoesOn, Read, ReadFails, Update,
     UpdateConditionalRefused, Replace, Delete, WriteFails
<1>4. rec # NoRecord /\ original[c] = rec
  BY <1>3, AcceptedIsRead
<1> QED
  BY <1>3, <1>4 DEF UpdateConditional, Write

\* When the ETag digests what the record holds, an accepted updateConditional undoes
\* nobody's write, with any number of callers in any phase of any method.
THEOREM PersistenceConditional ==
  ASSUME BodyHoldsData
  PROVE  Spec => ConditionalUndoesNothing
<1> DEFINE Undisturbed ==
      \A c \in Caller :
        /\ method[c] = "updateConditional" /\ pc[c] = "writing"
        /\ writes' # writes /\ pc'[c] # "writing"
        => rec # NoRecord /\ rec' = Merged(rec, attrs[c])
<1>1. Versioned /\ [Next]_vars => [Undisturbed]_vars
  BY ConditionalStep
<1> QED
  BY <1>1, VersionedInit, VersionedStep, PTL DEF Spec, ConditionalUndoesNothing

-----------------------------------------------------------------------------
(* Partition references.                                                   *)

References == JobsFit /\ Solo /\ Leads

LEMMA InvInit == Init => Inv
<1>1. Init => JobsFit /\ Solo /\ Leads
  BY DEF Init, JobsFit, Solo, Leads, Exact, Keys
<1> QED
  BY <1>1, TypedInit DEF Inv

\* A call that moves on or ends, and touches nothing that is shared.
LEMMA MovingKeepsReferences ==
  ASSUME Inv, UNCHANGED <<rec, refs, jobs, mode, alone>>, sound' => sound,
         NEW c \in Caller,
         alone => jobs = {} \/ pc'[c] = "idle" \/ pc'[c] = pc[c],
         pc[c] # "idle" \/ pc'[c] = "idle",
         \/ pc'[c] # "writing"
         \/ method'[c] = "replace"
         \/ original'[c] = rec
         \/ method'[c] = "delete" /\ original'[c] = NoRecord /\ ~sound',
         \A d \in Caller \ {c} :
           pc'[d] = pc[d] /\ method'[d] = method[d] /\ original'[d] = original[d]
  PROVE  References'
<1>1. JobsFit'
  BY DEF Inv, JobsFit
<1>2. Solo'
  BY DEF Inv, Solo
<1>3. Leads'
  BY DEF Inv, Leads, Exact, Outcome
<1> QED
  BY <1>1, <1>2, <1>3 DEF References

LEMMA BeginKeepsReferences ==
  ASSUME Inv, NEW c \in Caller, BeginCall(c)
  PROVE  References'
<1>1. PICK m \in Methods, a \in Full \cup Partial \cup {Blank},
           where \in {"inserting", "reading", "writing"} :
        Begin(c, m, a, where) /\ Opens(m, a, where)
  BY BeginOpens
<1>2. /\ UNCHANGED <<rec, refs, jobs, mode, original>>
      /\ pc' = [pc EXCEPT ![c] = where] /\ method' = [method EXCEPT ![c] = m]
      /\ where = "writing" => m = "replace"
  BY <1>1 DEF Begin, Goto, Opens
<1>3. alone' => jobs = {} /\ \A d \in Caller : pc[d] = "idle"
  BY <1>1, Zenon DEF Begin, Quiet
<1>4. sound' => sound /\ alone'
  BY <1>1, Zenon DEF Begin
<1>5. JobsFit'
  BY <1>2 DEF Inv, JobsFit
<1>6. Solo'
  BY <1>2, <1>3 DEF Inv, Typed, TypeOK, Solo
<1>7. Leads'
  BY <1>2, <1>3, <1>4 DEF Inv, Leads, Exact, Outcome
<1> QED
  BY <1>5, <1>6, <1>7 DEF References

\* A call that writes has been without company since it began, or it is not alone.
LEMMA WriterIsAlone ==
  ASSUME Inv, NEW c \in Caller, pc[c] \in {"inserting", "reading", "writing"}, alone
  PROVE  jobs = {} /\ \A d \in Caller \ {c} : pc[d] = "idle"
BY DEF Inv, Solo

\* What Maintain does with the job of a write, when the outcome of the job is right.
LEMMA MaintainKeepsReferences ==
  ASSUME Inv, NEW c \in Caller, pc[c] \in {"inserting", "writing"},
         NEW old \in Record \cup {NoRecord}, NEW new \in Record \cup {NoRecord},
         Maintain(c, ReferenceJob(c, old, new)),
         rec' = new \/ (new = NoRecord /\ ~sound'),
         sound' => sound /\ Keys(old) = Keys(rec) /\ rec' = new,
         mode' = mode, alone' = alone
  PROVE  References'
<1>0. PICK job : job = ReferenceJob(c, old, new)
  OBVIOUS
<1>1. /\ job.owner = c /\ job.del = Keys(old) \ Keys(new) /\ job.put = Keys(new)
      /\ job.keep = Keys(new) /\ job.stale = {}
      /\ job.scan => new # NoRecord
  BY <1>0 DEF ReferenceJob
<1>2. alone => jobs = {} /\ \A d \in Caller \ {c} : pc[d] = "idle"
  BY WriterIsAlone
<1>3. sound' => alone /\ refs = Keys(old)
  BY <1>2 DEF Inv, Leads, Exact
<1>4. CASE /\ refs' = (refs \ job.del) \cup job.put
           /\ Return(c) /\ UNCHANGED jobs
  <2>1. JobsFit'
    BY <1>4 DEF Inv, JobsFit
  <2>2. Solo'
    BY <1>2, <1>4 DEF Return, Goto, Solo, Inv, Typed, TypeOK
  <2>3. sound' => jobs' = {} /\ refs' = Keys(new) /\ rec' = new
    BY <1>1, <1>2, <1>3, <1>4
  <2>4. Leads'
    BY <1>2, <1>3, <1>4, <2>3 DEF Leads, Exact
  <2> QED
    BY <2>1, <2>2, <2>4 DEF References
<1>5. CASE /\ mode # "atomic" /\ jobs' = jobs \cup {job} /\ UNCHANGED refs
           /\ \/ mode = "async" /\ Return(c)
              \/ mode = "sync" /\ Goto(c, "indexing") /\ UNCHANGED <<method, original>>
  <2>1. JobsFit'
    BY <1>1, <1>5 DEF Inv, JobsFit
  <2>2. Solo'
    BY <1>1, <1>2, <1>5 DEF Return, Goto, Solo, Inv, Typed, TypeOK
  <2>3. alone' => jobs' = {job}
    BY <1>2, <1>5
  <2>4. sound' => Outcome(job)' = Keys(rec)'
    BY <1>1, <1>3, <1>5 DEF Outcome
  <2>5. job.scan => job.keep = Keys(rec)' /\ job.keep \subseteq refs' \cup job.put
    BY <1>1
  <2>6. Leads'
    BY <1>1, <1>3, <2>3, <2>4, <2>5 DEF Leads
  <2> QED
    BY <2>1, <2>2, <2>6 DEF References
<1> QED
  BY <1>0, <1>4, <1>5 DEF Maintain

\* A write replaces what its method believes to be there: what it read, or nothing.
LEMMA WriteKeepsReferences ==
  ASSUME Inv, NEW c \in Caller, pc[c] \in {"inserting", "writing"},
         NEW old \in Record \cup {NoRecord}, NEW new \in Record \cup {NoRecord},
         Write(c, old, new),
         method[c] = "replace" => old = NoRecord,
         method[c] # "replace" /\ alone /\ sound => old = rec
  PROVE  References'
<1>1. rec' = new /\ mode' = mode /\ alone' = alone
  BY DEF Write
<1>2. CASE /\ Maintain(c, ReferenceJob(c, old, new))
           /\ sound' = (sound /\ (method[c] = "replace" => rec = NoRecord))
  <2>1. sound' => sound /\ (method[c] = "replace" => rec = NoRecord)
    BY <1>2, Zenon
  <2>2. sound' => old = rec
    BY <2>1 DEF Inv, Leads
  <2>3. Maintain(c, ReferenceJob(c, old, new))
    BY <1>2
  <2>4. sound' => sound /\ Keys(old) = Keys(rec) /\ rec' = new
    BY <1>1, <2>1, <2>2
  <2> QED
    BY <1>1, <2>3, <2>4, MaintainKeepsReferences
<1>3. CASE Return(c) /\ sound' = FALSE /\ UNCHANGED <<refs, jobs>>
  <2>1. alone => jobs = {} /\ \A d \in Caller \ {c} : pc[d] = "idle"
    BY WriterIsAlone
  <2>2. JobsFit'
    BY <1>1, <1>3 DEF Inv, JobsFit
  <2>3. Solo'
    BY <1>1, <1>3, <2>1 DEF Return, Goto, Solo, Inv, Typed, TypeOK
  <2>4. Leads'
    BY <1>1, <1>3, <2>1 DEF Leads
  <2> QED
    BY <2>2, <2>3, <2>4 DEF References
<1> QED
  BY <1>2, <1>3 DEF Write

\* A method that merges or deletes knows the record, while it has no company.
LEMMA WriterKnowsRecord ==
  ASSUME Inv, NEW c \in Caller, pc[c] = "writing", method[c] # "replace", alone, sound
  PROVE  original[c] = rec
BY DEF Inv, Solo

LEMMA ReturnLeavesOthers ==
  ASSUME Typed, NEW c \in Caller, Return(c)
  PROVE  /\ pc'[c] = "idle"
         /\ \A d \in Caller \ {c} :
              pc'[d] = pc[d] /\ method'[d] = method[d] /\ original'[d] = original[d]
BY DEF Return, Goto, Typed, TypeOK

LEMMA StepKeepsReferences ==
  ASSUME Inv, NEW c \in Caller, Step(c)
  PROVE  References'
<1>0. /\ Typed /\ original[c] \in Record \cup {NoRecord} /\ writes \in 0 .. MaxWrites
      /\ original \in [Caller -> Record \cup {NoRecord}]
      /\ pc \in [Caller -> {"idle", "inserting", "reading", "writing", "indexing"}]
  BY DEF Inv, Typed, TypeOK
<1>1. CASE Insert(c)
  <2>1. Stamped(attrs[c]) \in Record
    BY <1>0, <1>1, StampedIsRecord DEF Insert, Write, Typed, CallsFit
  <2>2. pc[c] = "inserting" /\ rec = NoRecord
    BY <1>1 DEF Insert
  <2> QED
    BY <1>1, <2>1, <2>2, WriteKeepsReferences DEF Insert
<1>2. CASE Update(c) \/ UpdateConditional(c)
  <2>1. pc[c] = "writing" /\ method[c] \in Base /\ writes < MaxWrites
    BY <1>2 DEF Update, UpdateConditional, Write, Base
  <2>2. original[c] \in Record /\ attrs[c] \in Full \cup Partial
    BY <1>0, <2>1 DEF Typed, CallsFit, Base
  <2>3. Merged(original[c], attrs[c]) \in Record
    BY <1>0, <2>1, <2>2, MergedIsRecord
  <2>4. alone /\ sound => original[c] = rec
    BY <2>1, WriterKnowsRecord DEF Base
  <2>5. method[c] # "replace"
    BY <2>1 DEF Base
  <2>6. Write(c, original[c], Merged(original[c], attrs[c]))
    BY <1>2 DEF Update, UpdateConditional
  <2> QED
    BY <1>0, <2>1, <2>3, <2>4, <2>5, <2>6, WriteKeepsReferences
<1>3. CASE Replace(c)
  <2>1. Stamped(attrs[c]) \in Record
    BY <1>0, <1>3, StampedIsRecord DEF Replace, Write, Typed, CallsFit
  <2> QED
    BY <1>3, <2>1, WriteKeepsReferences DEF Replace
<1>4. CASE Delete(c)
  <2>1. pc[c] = "writing" /\ method[c] # "replace" /\ Write(c, original[c], NoRecord)
    BY <1>4 DEF Delete
  <2>2. alone /\ sound => original[c] = rec
    BY <2>1, WriterKnowsRecord
  <2> QED
    BY <1>0, <2>1, <2>2, WriteKeepsReferences
<1>5. CASE WriteFails(c)
  <2>1. pc[c] \in {"inserting", "writing"} /\ UNCHANGED <<rec, mode, alone>>
    BY <1>5 DEF WriteFails
  <2>2. CASE Return(c) /\ UNCHANGED <<refs, jobs, sound>>
    BY <1>0, <2>1, <2>2, ReturnLeavesOthers, MovingKeepsReferences
  <2>3. CASE sound' = FALSE /\ Maintain(c, ReferenceJob(c, original[c], NoRecord))
    BY <1>0, <2>1, <2>3, MaintainKeepsReferences
  <2> QED
    BY <1>5, <2>2, <2>3 DEF WriteFails
<1>6. CASE InsertRefused(c) \/ UpdateConditionalRefused(c)
  <2>1. /\ UNCHANGED <<rec, refs, jobs, mode, alone, sound>> /\ Return(c)
        /\ pc[c] \in {"inserting", "writing"}
    BY <1>6 DEF InsertRefused, UpdateConditionalRefused
  <2> QED
    BY <1>0, <2>1, ReturnLeavesOthers, MovingKeepsReferences
<1>7. CASE UpsertGoesOn(c)
  <2>1. /\ UNCHANGED <<rec, refs, jobs, mode, method, original, alone, sound>>
        /\ pc[c] = "inserting" /\ pc' = [pc EXCEPT ![c] = "reading"]
    BY <1>7 DEF UpsertGoesOn, Goto
  <2>2. alone => jobs = {}
    BY <2>1, WriterIsAlone
  <2> QED
    BY <1>0, <2>1, <2>2, MovingKeepsReferences
<1>8. CASE Read(c)
  <2>1. /\ UNCHANGED <<rec, refs, jobs, mode, method, alone, sound>>
        /\ pc[c] = "reading" /\ pc' = [pc EXCEPT ![c] = "writing"]
        /\ original' = [original EXCEPT ![c] = rec]
    BY <1>8 DEF Read, Goto
  <2>2. alone => jobs = {}
    BY <2>1, WriterIsAlone
  <2> QED
    BY <1>0, <2>1, <2>2, MovingKeepsReferences
<1>9. CASE ReadFails(c)
  <2>1. UNCHANGED <<rec, refs, jobs, mode, alone>> /\ pc[c] = "reading"
    BY <1>9 DEF ReadFails
  <2>2. alone => jobs = {}
    BY <2>1, WriterIsAlone
  <2>3. sound' => sound
    BY <1>9, Zenon DEF ReadFails
  <2>4. CASE Return(c)
    BY <1>0, <2>1, <2>3, <2>4, ReturnLeavesOthers, MovingKeepsReferences
  <2>5. CASE method[c] = "delete" /\ Goto(c, "writing") /\ UNCHANGED <<method, original>>
    <3>1. original[c] = NoRecord
      BY <1>0, <2>1 DEF Typed, CallsFit
    <3>2. rec = NoRecord \/ ~sound'
      BY <1>9, <2>5, Zenon DEF ReadFails
    <3>3. pc' = [pc EXCEPT ![c] = "writing"]
      BY <2>5 DEF Goto
    <3> QED
      BY <1>0, <2>1, <2>2, <2>3, <2>5, <3>1, <3>2, <3>3, MovingKeepsReferences
  <2> QED
    BY <1>9, <2>4, <2>5 DEF ReadFails
<1> QED
  BY <1>1, <1>2, <1>3, <1>4, <1>5, <1>6, <1>7, <1>8, <1>9 DEF Step

-----------------------------------------------------------------------------
(* A call of a job is answered.  What is left leads to the same outcome.   *)

LEMMA ProceedKeepsCalls ==
  ASSUME Inv, NEW job \in jobs, NEW next, next.owner = job.owner,
         \/ jobs' = jobs \ {job}
         \/ jobs' = (jobs \ {job}) \cup {next},
         Return(job.owner) \/ UNCHANGED callVars,
         UNCHANGED <<mode, alone>>
  PROVE  Solo' /\ (alone => jobs = {job} /\ jobs' \subseteq {next})
<1>1. alone => jobs = {job} /\ jobs' \subseteq {next}
  BY DEF Inv, Solo
<1>2. job.owner \in Caller
  BY DEF Inv, Typed, TypeOK, Job
<1>3. \A d \in Caller :
        pc'[d] = "idle" \/ pc'[d] = pc[d]
  BY <1>2, ReturnLeavesOthers DEF Inv, callVars
<1>4. alone => \A d \in Caller : pc[d] # "idle" =>
        pc[d] = "indexing" /\ job.owner = d /\ mode = "sync"
  BY DEF Inv, Solo
<1>5. Solo'
  BY <1>1, <1>3, <1>4 DEF Inv, Solo
<1> QED
  BY <1>1, <1>5

LEMMA JobStepKeepsReferences ==
  ASSUME Inv, NEW job \in jobs, JobStep(job)
  PROVE  References'
<1>1. /\ job \in Job /\ refs \subseteq Part
      /\ mode # "atomic"
      /\ job.del \cap job.put = {} /\ job.put \subseteq job.keep
      /\ job.keep \cap job.del = {} /\ job.keep \cap job.stale = {}
      /\ job.stale # {} => job.del = {} /\ job.put = {} /\ ~job.scan
      /\ sound => alone
      /\ sound => Outcome(job) = Keys(rec)
      /\ alone /\ job.scan => job.keep = Keys(rec) /\ job.keep \subseteq refs \cup job.put
      /\ alone /\ job.stale # {} => refs \ job.stale = Keys(rec)
  BY DEF Inv, Typed, TypeOK, JobsFit, Leads
<1>2. ASSUME NEW next \in Job, Proceed(job, next), next.owner = job.owner,
             next.del \cap next.put = {}, next.put \subseteq next.keep,
             next.keep \cap next.del = {}, next.keep \cap next.stale = {},
             next.stale # {} => next.del = {} /\ next.put = {} /\ ~next.scan,
             sound' => alone,
             sound' => Outcome(next)' = Keys(rec),
             alone /\ next.scan => next.keep = Keys(rec) /\ next.keep \subseteq refs' \cup next.put,
             alone /\ next.stale # {} => refs' \ next.stale = Keys(rec)
      PROVE  References'
  <2>1. /\ (jobs' = jobs \ {job} /\ Done(next)) \/ jobs' = (jobs \ {job}) \cup {next}
        /\ Return(job.owner) \/ UNCHANGED callVars
        /\ UNCHANGED <<rec, mode, alone>>
    BY <1>2 DEF Proceed
  <2>2. Solo' /\ (alone => jobs = {job} /\ jobs' \subseteq {next})
    BY <1>2, <2>1, ProceedKeepsCalls
  <2>3. JobsFit'
    BY <1>1, <1>2, <2>1 DEF Inv, JobsFit
  <2>4. sound' /\ jobs' = {} => refs' = Keys(rec)
    <3>1. SUFFICES ASSUME sound', jobs' = {} PROVE refs' = Keys(rec)
      OBVIOUS
    <3>2. Done(next)
      BY <2>1, <3>1
    <3> QED
      BY <1>2, <3>1, <3>2 DEF Done, Outcome
  <2>5. Leads'
    BY <1>2, <2>1, <2>2, <2>4 DEF Leads, Exact
  <2> QED
    BY <2>2, <2>3, <2>5 DEF References
<1>3. CASE DeleteReference(job)
  <2> DEFINE next == [job EXCEPT !.del = {}]
  <2>1. /\ next \in Job /\ next.owner = job.owner /\ next.del = {} /\ next.put = job.put
        /\ next.keep = job.keep /\ next.stale = job.stale /\ next.scan = job.scan
    BY <1>1 DEF Job
  <2>2. job.del # {} /\ refs' = refs \ job.del /\ Proceed(job, next) /\ sound' = sound
    BY <1>3 DEF DeleteReference
  <2> HIDE DEF next
  <2>3. sound' => Outcome(next)' = Keys(rec)
    BY <1>1, <2>1, <2>2 DEF Outcome
  <2> QED
    BY <1>1, <1>2, <2>1, <2>2, <2>3
<1>4. CASE PutReference(job)
  <2> DEFINE next == [job EXCEPT !.put = {}]
  <2>1. /\ next \in Job /\ next.owner = job.owner /\ next.put = {} /\ next.del = job.del
        /\ next.keep = job.keep /\ next.stale = job.stale /\ next.scan = job.scan
    BY <1>1 DEF Job
  <2>2. job.put # {} /\ refs' = refs \cup job.put /\ Proceed(job, next) /\ sound' = sound
    BY <1>4 DEF PutReference
  <2> HIDE DEF next
  <2>3. sound' => Outcome(next)' = Keys(rec)
    BY <1>1, <2>1, <2>2 DEF Outcome
  <2> QED
    BY <1>1, <1>2, <2>1, <2>2, <2>3
<1>5. CASE ListStale(job)
  <2>0. PICK next : next = [job EXCEPT !.scan = FALSE, !.stale = refs \ job.keep]
    OBVIOUS
  <2>1. /\ next \in Job /\ next.owner = job.owner /\ next.put = job.put /\ next.del = job.del
        /\ next.keep = job.keep /\ next.stale = refs \ job.keep /\ ~next.scan
    BY <1>1, <2>0 DEF Job
  <2>2. job.del = {} /\ job.put = {} /\ job.scan /\ refs' = refs /\ Proceed(job, next)
    BY <1>5, <2>0 DEF ListStale
  <2>3. sound' => sound \/ (alone /\ refs \subseteq job.keep)
    BY <1>5, Zenon DEF ListStale
  <2>4. alone => job.keep = Keys(rec) /\ job.keep \subseteq refs
    BY <1>1, <2>2
  <2>5. sound' => alone
    BY <1>1, <2>3
  <2>6. sound' => Outcome(next)' = Keys(rec)
    <3>1. sound' => refs = job.keep /\ job.keep = Keys(rec)
      BY <1>1, <2>2, <2>3, <2>4, <2>5 DEF Outcome
    <3> QED
      BY <2>1, <2>2, <3>1 DEF Outcome
  <2>7. alone => refs' \ next.stale = Keys(rec)
    BY <2>1, <2>2, <2>4
  <2>8. next.keep \cap next.stale = {} /\ next.del = {} /\ next.put = {}
    BY <2>1, <2>2
  <2> QED
    BY <1>2, <2>1, <2>2, <2>5, <2>6, <2>7, <2>8
<1>6. CASE DeleteStale(job)
  <2> DEFINE next == [job EXCEPT !.stale = {}]
  <2>1. /\ next \in Job /\ next.owner = job.owner /\ next.put = job.put /\ next.del = job.del
        /\ next.keep = job.keep /\ next.stale = {} /\ next.scan = job.scan
    BY <1>1 DEF Job
  <2>2. job.stale # {} /\ refs' = refs \ job.stale /\ Proceed(job, next)
    BY <1>6 DEF DeleteStale
  <2>3. sound' => alone
    BY <1>1, <1>6, Zenon DEF DeleteStale
  <2> HIDE DEF next
  <2>4. sound' => Outcome(next)' = Keys(rec)
    BY <1>1, <2>1, <2>2, <2>3 DEF Outcome
  <2> QED
    BY <1>1, <1>2, <2>1, <2>2, <2>3, <2>4
<1>7. CASE AbandonJob(job)
  <2>1. /\ jobs' = jobs \ {job} /\ sound' = FALSE /\ UNCHANGED <<rec, refs, mode, alone>>
        /\ Return(job.owner) \/ UNCHANGED callVars
    BY <1>7 DEF AbandonJob
  <2>2. Solo' /\ (alone => jobs = {job})
    BY <2>1, ProceedKeepsCalls
  <2>3. JobsFit'
    BY <2>1 DEF Inv, JobsFit
  <2>4. Leads'
    BY <2>1, <2>2 DEF Leads
  <2> QED
    BY <2>2, <2>3, <2>4 DEF References
<1> QED
  BY <1>3, <1>4, <1>5, <1>6, <1>7 DEF JobStep

LEMMA InvStep == Inv /\ [Next]_vars => Inv'
<1>1. Inv /\ UNCHANGED vars => Inv'
  BY DEF Inv, Typed, TypeOK, CallsFit, JobsFit, Solo, Leads, Exact, Outcome, vars, callVars
<1>2. Inv /\ [Next]_vars => Typed'
  BY TypedStep DEF Inv
<1>3. ASSUME Inv, Next PROVE References'
  BY <1>3, BeginKeepsReferences, StepKeepsReferences, JobStepKeepsReferences DEF Next
<1> QED
  BY <1>1, <1>2, <1>3 DEF Inv, References

\* Calls without company leave the record listed under its own value and no other, for
\* every number of callers, values, writes and faults; and a completed update puts right
\* what replaces, overlaps, failures and crashes have left.
THEOREM PersistenceIndexExact == Spec => []SerialCallsKeepIndexExact
<1>1. Inv => SerialCallsKeepIndexExact
  BY DEF Inv, Leads, SerialCallsKeepIndexExact, Quiet
<1> QED
  BY <1>1, InvInit, InvStep, PTL DEF Spec
=============================================================================
