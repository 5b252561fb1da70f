------------------------------- MODULE GpPoller -------------------------------
(***************************************************************************)
(* The GP poller: cron starts a fresh process, which picks the ids to ask  *)
(* for (services/poller/main.cpp), logs in and sends ONE request           *)
(* (Poller::run), and works through the answer record by record            *)
(* (GpPoller::process_response), every DbWriter call a transaction of its  *)
(* own.  Nothing keeps two such processes apart: a run that outlives the   *)
(* hour overlaps the next one, so Process may have several members.        *)
(*                                                                         *)
(* Around them: the SATCAT poller adds rows to `objects`, the API counts   *)
(* hits, and Space-Track publishes new element sets.  Whether a poller is  *)
(* due is the subject of Scheduler; here a run may start at any time.      *)
(***************************************************************************)
EXTENDS RuleEngine, GpTargets, Sequences

CONSTANTS
    Object,             \* NORAD catalogue numbers
    Process,            \* poller processes that may be alive at once
    Featured,           \* the rows migration 007 marks `featured`
    Orbit,              \* orbits Space-Track may publish
    Garbled,            \* contents parse_gp_response throws on
    EpochStep,          \* how far an object's epoch may move between two element sets
    kGpBatchSize,       \* ids in one request
    kGpMaxHotSlots,     \* ids of the hot slice, at most
    MaxElementSets,     \* bound: element sets published per object
    MaxHits,            \* bound: no more hits once an object has this many
    MaxFaults,          \* bound: failed calls and crashes
    NoSnapshot,         \* get_last_snapshot found no row
    NoElements          \* Space-Track has nothing for the object

ASSUME ObjectAssumption  == Object \subseteq Nat /\ IsFiniteSet(Object)
ASSUME BatchAssumption   == kGpBatchSize \in Nat /\ kGpMaxHotSlots \in 0..kGpBatchSize
ASSUME ContentAssumption == Orbit \cap Garbled = {} /\ EpochStep \subseteq Int
ASSUME FaultAssumption   == MaxFaults \in Nat

VARIABLES
    \* The database.
    live,               \* ids of `objects` whose decay_date is NULL
    hit_count,          \* objects.hit_count
    rotation_cursor,    \* poller_state.rotation_cursor of 'gp'
    snapshots,          \* rows of `snapshots`
    snapshot_seq,       \* ids of `snapshots` given out so far
    audt_events,        \* rows of `audt_events` written by this poller
    event_seq,          \* ids of `audt_events` given out so far
    \* Space-Track.
    published,          \* the latest element set of each object
    \* The poller processes.
    pc,                 \* what each process does next
    batch,              \* the targets of its request
    records,            \* records of the answer it has yet to process
    work,               \* the locals of the record in hand
    \* Observation only.
    reply,              \* ids the answered request named, records it returned
    faults              \* failures so far

db       == <<live, hit_count, rotation_cursor, snapshots, snapshot_seq, audt_events, event_seq>>
locals   == <<batch, records, work>>
vars     == <<db, published, pc, locals, reply, faults>>

-----------------------------------------------------------------------------
(* Rows and records. *)

GpId == Object \X Nat       \* gp_id: only its identity matters

(* A GpRecord: one object's latest element set, as Space-Track returns it.  *)
ElementSet == [norad_cat_id : Object, gp_id : GpId, epoch : Int, orbit : Orbit]

ASSUME MarkerAssumption ==
    NoElements \notin [norad_cat_id : Object, gp_id : GpId, epoch : Int, orbit : Orbit \cup Garbled]

(* A row of `snapshots`: an element set under a generated id. *)
SnapshotRow == [id : Nat \ {0}, norad_cat_id : Object, gp_id : GpId, epoch : Int, orbit : Orbit]

(* A row of `audt_events` that GpPoller writes. *)
EventRow == [id : Nat \ {0}, norad_cat_id : Object, event_type_code : GpEventType,
             prev_snapshot_id : Nat \ {0}, new_snapshot_id : Nat \ {0}]

(* `candidates` and `catalogue` are observations: the rows the primary      *)
(* SELECT chose from, and those of the last SELECT the batch took.          *)
NoBatch == [hot |-> {}, primary |-> {}, wrap |-> {}, cursor |-> NoCursor,
            candidates |-> {}, catalogue |-> {}]
NoWork  == [record |-> NoElements, prev |-> NoSnapshot, new_id |-> 0, events |-> {}]
NoReply == [heard |-> {}, answer |-> {}]

(* The ids process p puts into its query. *)
Targets(p) == batch[p].hot \cup batch[p].primary \cup batch[p].wrap

(* Mutants of LastSnapshots: the row stored last, whatever its epoch; the   *)
(* oldest row first.                                                        *)
LastSnapshotsById(o) ==
    {s \in snapshots : /\ s.norad_cat_id = o
                       /\ \A t \in snapshots : t.norad_cat_id = o => t.id <= s.id}

FirstSnapshots(o) ==
    {s \in snapshots : /\ s.norad_cat_id = o
                       /\ \A t \in snapshots : t.norad_cat_id = o => t.epoch >= s.epoch}

(* Rows get_last_snapshot may return: ORDER BY epoch DESC LIMIT 1 leaves    *)
(* the choice among equal epochs to the database.                           *)
LastSnapshots(o) ==
    {s \in snapshots : /\ s.norad_cat_id = o
                       /\ \A t \in snapshots : t.norad_cat_id = o => t.epoch <= s.epoch}

(* The answer is ordered by NORAD_CAT_ID and has one record per object. *)
IsNextRecord(p, r) == r \in records[p] /\ \A q \in records[p] : r.norad_cat_id <= q.norad_cat_id

-----------------------------------------------------------------------------
Init ==
    /\ live \in SUBSET Object
    /\ hit_count = [o \in Object |-> 0]
    /\ rotation_cursor = NoCursor
    /\ snapshots = {} /\ snapshot_seq = 0
    /\ audt_events = {} /\ event_seq = 0
    /\ published = [o \in Object |-> NoElements]
    /\ pc = [p \in Process |-> "idle"]
    /\ batch = [p \in Process |-> NoBatch]
    /\ records = [p \in Process |-> {}]
    /\ work = [p \in Process |-> NoWork]
    /\ reply = [p \in Process |-> NoReply]
    /\ faults = 0

Goto(p, from, to) == pc[p] = from /\ pc' = [pc EXCEPT ![p] = to]

(* The process is gone, and its memory with it. *)
Leave(p) ==
    /\ pc' = [pc EXCEPT ![p] = "idle"]
    /\ batch' = [batch EXCEPT ![p] = NoBatch]
    /\ records' = [records EXCEPT ![p] = {}]
    /\ work' = [work EXCEPT ![p] = NoWork]
    /\ reply' = [reply EXCEPT ![p] = NoReply]

Fault == faults < MaxFaults /\ faults' = faults + 1

(* On to the next record of the answer. *)
NextRecord(p) ==
    /\ pc' = [pc EXCEPT ![p] = "record"]
    /\ work' = [work EXCEPT ![p] = NoWork]

-----------------------------------------------------------------------------
(* main(): the GP half of a run. *)

(* Cron starts a process and the scheduler finds the GP poller due. *)
Start(p) ==
    /\ Goto(p, "idle", "hot")
    /\ UNCHANGED <<db, published, locals, reply, faults>>

SelectHot(p) ==
    /\ Goto(p, "hot", "cursor")
    /\ batch' = [batch EXCEPT ![p].hot = HotTargets(live, Featured, hit_count, kGpMaxHotSlots)]
    /\ UNCHANGED <<db, published, records, work, reply, faults>>

(* next_gp_rotation_batch is one transaction of three statements, each of   *)
(* which sees what is committed when it starts (READ COMMITTED): the cursor *)
(* of another run, a row of the SATCAT poller.                              *)
RotationSlots(p) == kGpBatchSize - Cardinality(batch[p].hot)

ReadCursor(p) ==
    /\ Goto(p, "cursor", "primary")
    /\ batch' = [batch EXCEPT ![p].cursor = rotation_cursor]
    /\ UNCHANGED <<db, published, records, work, reply, faults>>

(* A batch that is full, or has no slots at all, needs no wrap. *)
SelectPrimary(p) ==
    LET primary == PrimaryTargets(live, batch[p].cursor, RotationSlots(p), batch[p].hot)
    IN  /\ Goto(p, "primary", IF Cardinality(primary) < RotationSlots(p) THEN "wrap" ELSE "login")
        /\ batch' = [batch EXCEPT ![p] = [@ EXCEPT !.primary = primary, !.candidates = live,
                                                   !.catalogue = live]]
        /\ UNCHANGED <<db, published, records, work, reply, faults>>

SelectWrap(p) ==
    /\ Goto(p, "wrap", "login")
    /\ batch' = [batch EXCEPT ![p] = [@ EXCEPT
                    !.wrap = WrapTargets(live, RotationSlots(p), batch[p].primary, batch[p].hot),
                    !.catalogue = live]]
    /\ UNCHANGED <<db, published, records, work, reply, faults>>

SelectRotation(p) == ReadCursor(p) \/ SelectPrimary(p) \/ SelectWrap(p)

(* A SELECT throws: main() reports a fatal error and quits. *)
SelectFails(p) ==
    /\ pc[p] \in {"hot", "cursor", "primary", "wrap"}
    /\ Fault
    /\ Leave(p)
    /\ UNCHANGED <<db, published>>

-----------------------------------------------------------------------------
(* Poller::run. *)

Login(p) ==
    /\ Goto(p, "login", "request")
    /\ UNCHANGED <<db, published, locals, reply, faults>>

LoginFails(p) ==
    /\ pc[p] = "login"
    /\ Fault
    /\ Leave(p)
    /\ UNCHANGED <<db, published>>

(* GpPoller::build_query_url throws when both lists are empty; the throw    *)
(* escapes run() and main() quits.                                          *)
NoTargetsConfigured(p) ==
    /\ pc[p] = "request" /\ Targets(p) = {}
    /\ Leave(p)
    /\ UNCHANGED <<db, published, faults>>

FetchFails(p) ==
    /\ pc[p] = "request" /\ Targets(p) # {}
    /\ Fault
    /\ Leave(p)
    /\ UNCHANGED <<db, published>>

Answer(ids) == {published[o] : o \in {q \in ids : published[q] # NoElements}}

Fetch(p) ==
    /\ Targets(p) # {}
    /\ \A r \in Answer(Targets(p)) : r.orbit \notin Garbled
    /\ Goto(p, "request", "record")
    /\ records' = [records EXCEPT ![p] = Answer(Targets(p))]
    /\ reply' = [reply EXCEPT ![p] = [heard |-> Targets(p), answer |-> Answer(Targets(p))]]
    /\ UNCHANGED <<db, published, batch, work, faults>>

(* One record parse_gp_response throws on: run() catches the throw, nothing *)
(* of the answer is stored and the cursor stays where it is.                *)
FetchUnparseable(p) ==
    /\ pc[p] = "request" /\ Targets(p) # {}
    /\ \E r \in Answer(Targets(p)) : r.orbit \in Garbled
    /\ Leave(p)
    /\ UNCHANGED <<db, published, faults>>

-----------------------------------------------------------------------------
(* GpPoller::process_response, one record after the other. *)

(* Mutant of IsSameElementSet: dedup by epoch. *)
IsSameEpoch(s, r) == s.epoch = r.epoch

(* The dedup rule. *)
IsSameElementSet(s, r) == s.gp_id = r.gp_id

(* get_last_snapshot finds the element set already stored. *)
LookupUnchanged(p) ==
    /\ pc[p] = "record"
    /\ \E r \in records[p] :
        /\ IsNextRecord(p, r)
        /\ \E s \in LastSnapshots(r.norad_cat_id) : IsSameElementSet(s, r)
        /\ records' = [records EXCEPT ![p] = @ \ {r}]
    /\ UNCHANGED <<db, published, pc, batch, work, reply, faults>>

(* It finds another one, or none: the record is to be inserted. *)
LookupNew(p) ==
    /\ Goto(p, "record", "insert")
    /\ \E r \in records[p] :
        /\ IsNextRecord(p, r)
        /\ \E prev \in LastSnapshots(r.norad_cat_id) \cup {NoSnapshot} :
            /\ prev = NoSnapshot => LastSnapshots(r.norad_cat_id) = {}
            /\ prev # NoSnapshot => ~ IsSameElementSet(prev, r)
            /\ work' = [work EXCEPT ![p] = [NoWork EXCEPT !.record = r, !.prev = prev]]
        /\ records' = [records EXCEPT ![p] = @ \ {r}]
    /\ UNCHANGED <<db, published, batch, reply, faults>>

(* Mutant of Stored: no UNIQUE constraint. *)
NeverStored(gp_id) == FALSE

Stored(gp_id) == \E s \in snapshots : s.gp_id = gp_id

(* Mutant of SnapshotOf: the serial is read before it is drawn. *)
SnapshotOfPrevious(r, id) ==
    [id |-> id - 1, norad_cat_id |-> r.norad_cat_id, gp_id |-> r.gp_id,
     epoch |-> r.epoch, orbit |-> r.orbit]

SnapshotOf(r, id) ==
    [id |-> id, norad_cat_id |-> r.norad_cat_id, gp_id |-> r.gp_id,
     epoch |-> r.epoch, orbit |-> r.orbit]

(* Mutant of Firings: the first rule that fires ends the evaluation. *)
FirstFiring(prev, r) ==
    IF prev = NoSnapshot THEN {}
    ELSE LET fired == EvaluateGp(prev.orbit, r.orbit)
         IN  {code \in fired : \A d \in fired \ {code} : RegisteredBefore(GpRegistry, code, d)}

(* The rules run on the pair as soon as the snapshot is committed. *)
Firings(prev, r) == IF prev = NoSnapshot THEN {} ELSE EvaluateGp(prev.orbit, r.orbit)

InsertSnapshot(p) ==
    /\ pc[p] = "insert" /\ ~ Stored(work[p].record.gp_id)
    /\ snapshots' = snapshots \cup {SnapshotOf(work[p].record, snapshot_seq + 1)}
    /\ snapshot_seq' = snapshot_seq + 1
    /\ LET events == Firings(work[p].prev, work[p].record)
       IN  IF events = {}
           THEN NextRecord(p)
           ELSE /\ pc' = [pc EXCEPT ![p] = "event"]
                /\ work' = [work EXCEPT ![p].new_id = snapshot_seq + 1, ![p].events = events]
    /\ UNCHANGED <<live, hit_count, rotation_cursor, audt_events, event_seq,
                   published, batch, records, reply, faults>>

(* Mutant of InsertConflict: the record goes back to the answer. *)
InsertConflictRetry(p) ==
    /\ pc[p] = "insert" /\ Stored(work[p].record.gp_id)
    /\ records' = [records EXCEPT ![p] = @ \cup {work[p].record}]
    /\ NextRecord(p)
    /\ UNCHANGED <<db, published, batch, reply, faults>>

(* gp_id is UNIQUE: the insert throws and the record counts as an error.    *)
InsertConflict(p) ==
    /\ pc[p] = "insert" /\ Stored(work[p].record.gp_id)
    /\ NextRecord(p)
    /\ UNCHANGED <<db, published, batch, records, reply, faults>>

(* Mutant of IsNextFiring: the firings are written last first. *)
IsLastFiring(code, events) ==
    code \in events /\ \A other \in events \ {code} : RegisteredBefore(GpRegistry, other, code)

IsNextFiring(code, events) ==
    code \in events /\ \A other \in events \ {code} : RegisteredBefore(GpRegistry, code, other)

(* insert_event: one firing, one transaction. *)
InsertEvent(p) ==
    /\ pc[p] = "event"
    /\ \E code \in work[p].events :
        /\ IsNextFiring(code, work[p].events)
        /\ audt_events' = audt_events \cup
              {[id |-> event_seq + 1, norad_cat_id |-> work[p].record.norad_cat_id,
                event_type_code |-> code, prev_snapshot_id |-> work[p].prev.id,
                new_snapshot_id |-> work[p].new_id]}
        /\ event_seq' = event_seq + 1
        /\ IF work[p].events = {code}
           THEN NextRecord(p)
           ELSE /\ work' = [work EXCEPT ![p].events = @ \ {code}]
                /\ UNCHANGED pc
    /\ UNCHANGED <<live, hit_count, rotation_cursor, snapshots, snapshot_seq,
                   published, batch, records, reply, faults>>

(* A DbWriter call on the record throws; the loop goes on with the next one *)
(* and what this record had committed stays.                                *)
RecordFails(p) ==
    /\ Fault
    /\ \/ /\ pc[p] = "record"
          /\ \E r \in records[p] : /\ IsNextRecord(p, r)
                                   /\ records' = [records EXCEPT ![p] = @ \ {r}]
       \/ pc[p] \in {"insert", "event"} /\ UNCHANGED records
    /\ NextRecord(p)
    /\ UNCHANGED <<db, published, batch, reply>>

(* After the loop: advance_gp_rotation_cursor, then the process ends. *)
AdvanceCursor(p) ==
    /\ pc[p] = "record" /\ records[p] = {}
    /\ \/ \E o \in LastRun(batch[p]) : IsLastTarget(o, batch[p]) /\ rotation_cursor' = o
       \/ LastRun(batch[p]) = {} /\ UNCHANGED rotation_cursor
    /\ Leave(p)
    /\ UNCHANGED <<live, hit_count, snapshots, snapshot_seq, audt_events, event_seq,
                   published, faults>>

(* Its UPDATE throws; run() catches that too. *)
AdvanceFails(p) ==
    /\ pc[p] = "record" /\ records[p] = {} /\ LastRun(batch[p]) # {}
    /\ Fault
    /\ Leave(p)
    /\ UNCHANGED <<db, published>>

(* The process dies between two statements. *)
Crash(p) ==
    /\ pc[p] # "idle"
    /\ Fault
    /\ Leave(p)
    /\ UNCHANGED <<db, published>>

-----------------------------------------------------------------------------
(* The surroundings. *)

(* The SATCAT poller commits a row; none of its rows ever gets a decay_date *)
(* (its query asks for objects without one), so `live` only grows.          *)
CatalogObject(o) ==
    /\ o \notin live
    /\ live' = live \cup {o}
    /\ UNCHANGED <<hit_count, rotation_cursor, snapshots, snapshot_seq, audt_events, event_seq,
                   published, pc, locals, reply, faults>>

(* GET /objects/<id> counts the hit. *)
Hit(o) ==
    /\ o \in live /\ \A q \in Object : hit_count[q] < MaxHits
    /\ hit_count' = [hit_count EXCEPT ![o] = @ + 1]
    /\ UNCHANGED <<live, rotation_cursor, snapshots, snapshot_seq, audt_events, event_seq,
                   published, pc, locals, reply, faults>>

(* Space-Track issues a new element set for o. *)
Publish(o) ==
    LET old == published[o]
        n   == IF old = NoElements THEN 1 ELSE old.gp_id[2] + 1
    IN  /\ n <= MaxElementSets
        /\ \E step \in EpochStep, orbit \in Orbit \cup Garbled :
              published' = [published EXCEPT ![o] =
                  [norad_cat_id |-> o, gp_id |-> <<o, n>>, orbit |-> orbit,
                   epoch |-> (IF old = NoElements THEN 0 ELSE old.epoch) + step]]
        /\ UNCHANGED <<db, pc, locals, reply, faults>>

-----------------------------------------------------------------------------
(* What a process does when nothing goes wrong. *)
Step(p) ==
    \/ Start(p) \/ SelectHot(p) \/ SelectRotation(p)
    \/ Login(p) \/ NoTargetsConfigured(p) \/ Fetch(p) \/ FetchUnparseable(p)
    \/ LookupUnchanged(p) \/ LookupNew(p) \/ InsertSnapshot(p) \/ InsertConflict(p)
    \/ InsertEvent(p) \/ AdvanceCursor(p)

Failure(p) ==
    \/ SelectFails(p) \/ LoginFails(p) \/ FetchFails(p)
    \/ RecordFails(p) \/ AdvanceFails(p) \/ Crash(p)

Environment(o) == CatalogObject(o) \/ Hit(o) \/ Publish(o)

Next == \/ \E p \in Process : Step(p) \/ Failure(p)
        \/ \E o \in Object : Environment(o)

Spec == Init /\ [][Next]_vars

(* Cron keeps starting runs and a started run goes on: every call returns   *)
(* or throws.                                                               *)
FairSpec == Spec /\ \A p \in Process : WF_vars(Step(p))
=============================================================================
