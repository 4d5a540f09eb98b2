------------------------ MODULE ResourcePersistence -------------------------
(***************************************************************************)
(* The write path of one record (core/src/core/resource-persistence.class) *)
(* and the partition references that index it (resource-partitions.class). *)
(*                                                                         *)
(* A record is one object; each partition value it has been indexed under  *)
(* is one more, empty, object.  No storage call covers both, so a write is *)
(* cut at its awaits: read, put, and the calls that maintain references, a *)
(* `job'.  With asyncPartitions the job runs after the method returned (in *)
(* setImmediate), with asyncPartitions: false the caller waits for it, and *)
(* on a client with runInTransaction (SQLite) it commits with the put.     *)
(*                                                                         *)
(* One partition over one field is modelled: partitions do not interact.   *)
(* timestamps is on: updatedAt, the stamp, tells any two writes apart.     *)
(***************************************************************************)
EXTENDS Integers

CONSTANTS
  Caller,        \* concurrent users of the resource
  Part,          \* values of the partitioned field
  NoPart,        \* that field is absent: getKey returns null
  Optional,      \* records without the field are valid
  Note,          \* values of another attribute
  NoRecord,
  Methods,       \* the methods the callers use
  Modes,         \* subset of {"async", "sync", "atomic"}
  BodyHoldsData, \* the behavior keeps the attributes in the body, which the ETag digests
  MaxWrites,     \* bound on the puts and deletes of one behaviour
  MaxFaults      \* bound on failed calls and crashes

Indexed == IF Optional THEN Part \cup {NoPart} ELSE Part
Full    == [part : Indexed, note : Note]
Partial == [part : Indexed] \cup [note : Note]
Record  == [part : Indexed, note : Note, stamp : 1 .. MaxWrites]
Blank   == [part |-> NoPart, note |-> CHOOSE n \in Note : TRUE]   \* no call
Mutator == {"insert", "upsert", "update", "updateConditional", "replace", "delete"}

ASSUME PersistenceAssumption ==
  /\ NoPart \notin Part /\ Optional \in BOOLEAN
  /\ NoRecord \notin Record
  /\ Methods \subseteq Mutator
  /\ Modes \subseteq {"async", "sync", "atomic"}
  /\ BodyHoldsData \in BOOLEAN
  /\ MaxWrites \in Nat
  /\ MaxFaults \in Nat

VARIABLES
  rec,      \* the stored record
  refs,     \* the partition values the record is listed under
  jobs,     \* reference maintenance under way
  mode,
  pc, method,
  attrs,    \* the attributes the caller passes
  original, \* what its call read
  ifMatch,  \* the ETag it passes to updateConditional
  writes, faults,
  alone,    \* history: the latest call began, and has stayed, without company
  sound     \* history: nothing has happened that excuses a wrong reference

callVars == <<pc, method, attrs, original, ifMatch>>
vars == <<rec, refs, jobs, mode, callVars, writes, faults, alone, sound>>

Job == [id : 1 .. MaxWrites, owner : Caller, del : SUBSET Part, put : SUBSET Part,
        keep : SUBSET Part, scan : BOOLEAN, stale : SUBSET Part]

TypeOK ==
  /\ rec \in Record \cup {NoRecord}
  /\ refs \subseteq Part
  /\ jobs \subseteq Job
  /\ mode \in Modes
  /\ pc \in [Caller -> {"idle", "inserting", "reading", "writing", "indexing"}]
  /\ method \in [Caller -> Mutator]
  /\ attrs \in [Caller -> Full \cup Partial \cup {Blank}]
  /\ original \in [Caller -> Record \cup {NoRecord}]
  /\ ifMatch \in [Caller -> 0 .. MaxWrites]
  /\ writes \in 0 .. MaxWrites
  /\ faults \in 0 .. MaxFaults
  /\ alone \in BOOLEAN
  /\ sound \in BOOLEAN

Init ==
  /\ rec = NoRecord
  /\ refs = {}
  /\ jobs = {}
  /\ mode \in Modes
  /\ pc = [c \in Caller |-> "idle"]
  /\ method = [c \in Caller |-> "insert"]
  /\ attrs = [c \in Caller |-> Blank]
  /\ original = [c \in Caller |-> NoRecord]
  /\ ifMatch = [c \in Caller |-> 0]
  /\ writes = 0
  /\ faults = 0
  /\ alone = TRUE
  /\ sound = TRUE

-----------------------------------------------------------------------------
Quiet == jobs = {} /\ \A c \in Caller : pc[c] = "idle"
Fault == faults < MaxFaults /\ faults' = faults + 1
Goto(c, where) == pc' = [pc EXCEPT ![c] = where]

\* MD5 of the body: with the attributes in the metadata the body is always "".
EtagOfEmptyBody(r) == 0       \* mutant
Etag(r) == IF BodyHoldsData THEN r.stamp ELSE 0

\* getKey, as a set: nothing when the partitioned field is missing.
Keys(r) == IF r = NoRecord \/ r.part = NoPart THEN {} ELSE {r.part}

\* Mutant: the stamp of the write before.
StampedBeforeWrite(a) == [part |-> a.part, note |-> a.note, stamp |-> writes]

Stamped(a) == [part |-> a.part, note |-> a.note, stamp |-> writes + 1]
Merged(r, a) == Stamped([f \in {"part", "note"} |-> IF f \in DOMAIN a THEN a[f] ELSE r[f]])

Return(c) ==
  /\ Goto(c, "idle")
  /\ method' = [method EXCEPT ![c] = "insert"]
  /\ attrs' = [attrs EXCEPT ![c] = Blank]
  /\ original' = [original EXCEPT ![c] = NoRecord]
  /\ ifMatch' = [ifMatch EXCEPT ![c] = 0]

\* Mutant: an update does not delete the old reference itself.
ReferenceJobKeepsOld(c, old, new) ==
  [id |-> writes + 1, owner |-> c, del |-> {}, put |-> Keys(new),
   keep |-> Keys(new), scan |-> old # NoRecord /\ new # NoRecord, stale |-> {}]

\* createReferences, deleteReferences and handleReferenceUpdates(old, new).  The
\* last lists the partition afterwards, unless old is {} (isNewInsert).
ReferenceJob(c, old, new) ==
  [id |-> writes + 1, owner |-> c, del |-> Keys(old) \ Keys(new), put |-> Keys(new),
   keep |-> Keys(new), scan |-> old # NoRecord /\ new # NoRecord, stale |-> {}]

Done(job) == job.del \cup job.put \cup job.stale = {} /\ ~job.scan

\* What the method does about references once its put or delete is answered.
Maintain(c, job) ==
  \/ /\ mode = "atomic" \/ Done(job)
     /\ refs' = (refs \ job.del) \cup job.put
     /\ Return(c)
     /\ UNCHANGED jobs
  \/ /\ mode = "async" /\ ~Done(job)
     /\ jobs' = jobs \cup {job}
     /\ Return(c)
     /\ UNCHANGED refs
  \/ /\ mode = "sync" /\ ~Done(job)
     /\ jobs' = jobs \cup {job}
     /\ Goto(c, "indexing")
     /\ UNCHANGED <<refs, method, attrs, original, ifMatch>>

\* The record becomes new.  The answer may be lost, or the process die with it,
\* before the references are looked at; a transaction rolls back instead.
Write(c, old, new) ==
  /\ writes < MaxWrites
  /\ writes' = writes + 1
  /\ rec' = new
  /\ \/ /\ Maintain(c, ReferenceJob(c, old, new))
        /\ sound' = (sound /\ (method[c] = "replace" => rec = NoRecord))
        /\ UNCHANGED faults
     \/ /\ mode # "atomic"
        /\ Fault
        /\ Return(c)
        /\ sound' = FALSE
        /\ UNCHANGED <<refs, jobs>>
  /\ UNCHANGED <<mode, alone>>

-----------------------------------------------------------------------------
Begin(c, m, a, where) ==
  /\ pc[c] = "idle"
  /\ m \in Methods
  /\ method' = [method EXCEPT ![c] = m]
  /\ attrs' = [attrs EXCEPT ![c] = a]
  /\ Goto(c, where)
  /\ alone' = Quiet
  /\ sound' = (sound /\ Quiet)
  /\ UNCHANGED <<rec, refs, jobs, mode, original, writes, faults>>

BeginInsert(c) ==
  /\ \E m \in {"insert", "upsert"}, a \in Full : Begin(c, m, a, "inserting")
  /\ UNCHANGED ifMatch

BeginUpdate(c) ==
  /\ \E a \in Partial : Begin(c, "update", a, "reading")
  /\ UNCHANGED ifMatch

BeginDelete(c) ==
  /\ Begin(c, "delete", Blank, "reading")
  /\ UNCHANGED ifMatch

\* replace does not read the record: handleReferenceUpdates({}, replacedObject).
BeginReplace(c) ==
  /\ \E a \in Full : Begin(c, "replace", a, "writing")
  /\ UNCHANGED ifMatch

\* The caller has read the record, and its ETag, some time before.
BeginUpdateConditional(c) ==
  /\ rec # NoRecord
  /\ \E a \in Partial : Begin(c, "updateConditional", a, "reading")
  /\ ifMatch' = [ifMatch EXCEPT ![c] = Etag(rec)]

\* insert: putObject with ifNoneMatch '*'.
Insert(c) ==
  /\ pc[c] = "inserting"
  /\ rec = NoRecord
  /\ Write(c, NoRecord, Stamped(attrs[c]))

InsertRefused(c) ==
  /\ pc[c] = "inserting"
  /\ rec # NoRecord
  /\ method[c] = "insert"
  /\ Return(c)
  /\ UNCHANGED <<rec, refs, jobs, mode, writes, faults, alone, sound>>

\* upsert: an insert refused because the id exists becomes an update.
UpsertGoesOn(c) ==
  /\ pc[c] = "inserting"
  /\ rec # NoRecord
  /\ method[c] = "upsert"
  /\ Goto(c, "reading")
  /\ UNCHANGED <<rec, refs, jobs, mode, method, attrs, original, ifMatch,
                 writes, faults, alone, sound>>

\* get, at the head of update, updateConditional and delete.
Read(c) ==
  /\ pc[c] = "reading"
  /\ rec # NoRecord
  /\ original' = [original EXCEPT ![c] = rec]
  /\ Goto(c, "writing")
  /\ UNCHANGED <<rec, refs, jobs, mode, method, attrs, ifMatch,
                 writes, faults, alone, sound>>

\* The record is not there, or get fails: delete goes on with { id } and throws later.
ReadFails(c) ==
  /\ pc[c] = "reading"
  /\ \/ rec = NoRecord /\ UNCHANGED <<faults, sound>>
     \/ rec # NoRecord /\ Fault /\ sound' = (sound /\ method[c] # "delete")
  /\ IF method[c] = "delete"
       THEN Goto(c, "writing") /\ UNCHANGED <<method, attrs, original, ifMatch>>
       ELSE Return(c)
  /\ UNCHANGED <<rec, refs, jobs, mode, writes, alone>>

Update(c) ==
  /\ pc[c] = "writing"
  /\ method[c] \in {"update", "upsert"}
  /\ Write(c, original[c], Merged(original[c], attrs[c]))

\* updateConditional: putObject with ifMatch.
UpdateConditional(c) ==
  /\ pc[c] = "writing"
  /\ method[c] = "updateConditional"
  /\ rec # NoRecord
  /\ Etag(rec) = ifMatch[c]
  /\ Write(c, original[c], Merged(original[c], attrs[c]))

\* 412: the object was modified, or deleted, by another process.
UpdateConditionalRefused(c) ==
  /\ pc[c] = "writing"
  /\ method[c] = "updateConditional"
  /\ ~(rec # NoRecord /\ Etag(rec) = ifMatch[c])
  /\ Return(c)
  /\ UNCHANGED <<rec, refs, jobs, mode, writes, faults, alone, sound>>

Replace(c) ==
  /\ pc[c] = "writing"
  /\ method[c] = "replace"
  /\ Write(c, NoRecord, Stamped(attrs[c]))

Delete(c) ==
  /\ pc[c] = "writing"
  /\ method[c] = "delete"
  /\ Write(c, original[c], NoRecord)

\* The put or the delete fails and changes nothing.  A delete goes on to remove the
\* references of a record that stays, unless both are one transaction.
WriteFails(c) ==
  /\ pc[c] \in {"inserting", "writing"}
  /\ Fault
  /\ \/ /\ method[c] # "delete" \/ mode = "atomic"
        /\ Return(c)
        /\ UNCHANGED <<refs, jobs, writes, sound>>
     \/ /\ method[c] = "delete" /\ mode # "atomic"
        /\ writes < MaxWrites
        /\ writes' = writes + 1
        /\ Maintain(c, ReferenceJob(c, original[c], NoRecord))
        /\ sound' = FALSE
  /\ UNCHANGED <<rec, mode, alone>>

-----------------------------------------------------------------------------
\* One storage call of a job is answered and the job becomes next.  When nothing is
\* left, a caller that waits for it returns.
Proceed(job, next) ==
  /\ jobs' = (jobs \ {job}) \cup {j \in {next} : ~Done(j)}
  /\ IF mode = "sync" /\ Done(next) THEN Return(job.owner) ELSE UNCHANGED callVars
  /\ UNCHANGED <<rec, mode, writes, faults, alone>>

DeleteReference(job) ==
  /\ job.del # {}
  /\ refs' = refs \ job.del
  /\ Proceed(job, [job EXCEPT !.del = {}])
  /\ UNCHANGED sound

PutReference(job) ==
  /\ job.put # {}
  /\ refs' = refs \cup job.put
  /\ Proceed(job, [job EXCEPT !.put = {}])
  /\ UNCHANGED sound

\* Every key of the partition that ends in this id, but the valid one, is stale.
ListStale(job) ==
  /\ job.del \cup job.put = {}
  /\ job.scan
  /\ Proceed(job, [job EXCEPT !.scan = FALSE, !.stale = refs \ job.keep])
  /\ sound' = (sound \/ (alone /\ refs \subseteq job.keep))
  /\ UNCHANGED refs

DeleteStale(job) ==
  /\ job.stale # {}
  /\ refs' = refs \ job.stale
  /\ Proceed(job, [job EXCEPT !.stale = {}])
  /\ sound' = (sound \/ alone)

\* A reference call fails, or the process dies: the rest of the job is not done.
\* partitionIndexError is emitted, or with strictPartitions thrown.
AbandonJob(job) ==
  /\ Fault
  /\ jobs' = jobs \ {job}
  /\ IF mode = "sync" THEN Return(job.owner) ELSE UNCHANGED callVars
  /\ sound' = FALSE
  /\ UNCHANGED <<rec, refs, mode, writes, alone>>

BeginCall(c) ==
  \/ BeginInsert(c) \/ BeginUpdate(c) \/ BeginDelete(c)
  \/ BeginReplace(c) \/ BeginUpdateConditional(c)

Step(c) ==
  \/ Insert(c) \/ InsertRefused(c) \/ UpsertGoesOn(c)
  \/ Read(c) \/ ReadFails(c)
  \/ Update(c) \/ UpdateConditional(c) \/ UpdateConditionalRefused(c)
  \/ Replace(c) \/ Delete(c) \/ WriteFails(c)

JobStep(job) ==
  \/ DeleteReference(job) \/ PutReference(job)
  \/ ListStale(job) \/ DeleteStale(job) \/ AbandonJob(job)

Next == \/ \E c \in Caller : BeginCall(c) \/ Step(c)
        \/ \E job \in jobs : JobStep(job)

Spec == Init /\ [][Next]_vars

-----------------------------------------------------------------------------
\* The references are those of the record, once nothing is under way.
Exact == refs = Keys(rec)

(***************************************************************************)
(* Calls that never overlap, none of them a replace or a failure, leave    *)
(* the record listed under its present partition value and no other; and   *)
(* whatever replaces, overlaps, failures and crashes have left behind, one *)
(* completed update that has no company puts it right on a client without  *)
(* a partition index (handleReferenceUpdates lists and deletes stale keys).*)
(***************************************************************************)
SerialCallsKeepIndexExact == Quiet /\ sound => Exact

(***************************************************************************)
(* Optimistic concurrency: an accepted updateConditional changes nothing   *)
(* but the attributes it was given.  It writes the whole record from what  *)
(* getOrNull returned, so the put's ifMatch has to refuse it whenever any  *)
(* other caller's write came between the caller's get and the put.         *)
(***************************************************************************)
ConditionalUndoesNothing ==
  [][\A c \in Caller :
       /\ method[c] = "updateConditional" /\ pc[c] = "writing"
       /\ writes' # writes /\ pc'[c] # "writing"
       => rec # NoRecord /\ rec' = Merged(rec, attrs[c])]_vars

(***************************************************************************)
(* README: "Baldim creates partition references on insert, moves them when *)
(* indexed fields change, and removes them on delete."  Holds of no method *)
(* that overlaps another, and not of replace even alone.                   *)
(***************************************************************************)
IndexFollowsRecord == Quiet /\ faults = 0 => Exact
=============================================================================
