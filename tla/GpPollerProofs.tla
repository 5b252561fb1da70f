---------------------------- MODULE GpPollerProofs ----------------------------
(***************************************************************************)
(* Proofs about GpPoller, for every catalogue, every number of overlapping *)
(* poller processes and every number of failures and crashes.              *)
(***************************************************************************)
EXTENDS GpPollerProperties, FiniteSetTheorems, TLAPS

(* The selections only ever pick from the rows they read. *)
LEMMA HotTargetsFromLive ==
    ASSUME NEW ids, NEW featured, NEW hits, NEW limit
    PROVE  HotTargets(ids, featured, hits, limit) \subseteq ids
BY DEF HotTargets

LEMMA RotationFromLive ==
    ASSUME NEW ids, NEW cursor, NEW n, NEW primary, NEW exclude
    PROVE  /\ PrimaryTargets(ids, cursor, n, exclude) \subseteq ids
           /\ WrapTargets(ids, n, primary, exclude) \subseteq ids
BY DEF PrimaryTargets, WrapTargets, LowestIds

(* An empty process is well typed. *)
LEMMA EmptyLocals ==
    /\ NoBatch \in BatchType
    /\ NoWork \in WorkType
    /\ NoReply \in ReplyType
BY DEF NoBatch, NoWork, NoReply, BatchType, WorkType, ReplyType, NoCursor

LEMMA LeaveType ==
    ASSUME TypeOK, NEW p \in Process, Leave(p)
    PROVE  /\ pc' \in [Process -> ProcessState]
           /\ batch' \in [Process -> BatchType]
           /\ records' \in [Process -> SUBSET ElementSet]
           /\ work' \in [Process -> WorkType]
           /\ reply' \in [Process -> ReplyType]
BY EmptyLocals DEF TypeOK, Leave, ProcessState

LEMMA NextRecordType ==
    ASSUME TypeOK, NEW p \in Process, NextRecord(p)
    PROVE  /\ pc' \in [Process -> ProcessState]
           /\ work' \in [Process -> WorkType]
BY EmptyLocals DEF TypeOK, NextRecord, ProcessState

LEMMA AnswerType ==
    ASSUME TypeOK, NEW ids \in SUBSET Object,
           \A r \in Answer(ids) : r.orbit \notin Garbled
    PROVE  Answer(ids) \subseteq ElementSet
BY DEF TypeOK, Answer, AnyElementSet, ElementSet

LEMMA TargetsType ==
    ASSUME TypeOK, NEW p \in Process
    PROVE  Targets(p) \in SUBSET Object
BY DEF TypeOK, Targets, BatchType

LEMMA LastSnapshotsType ==
    ASSUME TypeOK, NEW o
    PROVE  LastSnapshots(o) \subseteq snapshots
BY DEF LastSnapshots

(* ------------------------------ type correctness ----------------------- *)

LEMMA InitType == Init => TypeOK
BY EmptyLocals, ObjectAssumption DEF Init, TypeOK, ProcessState, NoCursor

LEMMA ElementSetRow ==
    ASSUME NEW r \in ElementSet, NEW n \in Nat
    PROVE  SnapshotOf(r, n + 1) \in SnapshotRow
BY DEF ElementSet, SnapshotOf, SnapshotRow

LEMMA FiringsType ==
    ASSUME NEW prev, NEW r
    PROVE  Firings(prev, r) \subseteq GpEventType
BY DEF Firings, EvaluateGp

LEMMA StartType ==
    ASSUME TypeOK, NEW p \in Process,
           Start(p) \/ Login(p)
    PROVE  TypeOK'
BY DEF TypeOK, Start, Login, Goto, ProcessState, db, locals, EventRow, WorkType

LEMMA SelectType ==
    ASSUME TypeOK, NEW p \in Process,
           SelectHot(p) \/ SelectRotation(p)
    PROVE  TypeOK'
<1>1. batch[p] \in BatchType
  BY DEF TypeOK
<1>2. CASE SelectHot(p)
  <2> DEFINE hot == HotTargets(live, Featured, hit_count, kGpMaxHotSlots)
  <2>1. hot \in SUBSET Object
    BY HotTargetsFromLive DEF TypeOK
  <2>2. [batch[p] EXCEPT !.hot = hot] \in BatchType
    <3> HIDE DEF hot
    <3> QED BY <1>1, <2>1 DEF BatchType
  <2>3. batch' = [batch EXCEPT ![p] = [batch[p] EXCEPT !.hot = hot]]
    BY <1>2 DEF SelectHot
  <2>4. batch' \in [Process -> BatchType]
    <3> HIDE DEF hot
    <3> QED BY <2>2, <2>3 DEF TypeOK
  <2> QED BY <1>2, <2>4 DEF TypeOK, SelectHot, Goto, ProcessState, db
<1>3. CASE ReadCursor(p)
  <2>1. [batch[p] EXCEPT !.cursor = rotation_cursor] \in BatchType
    BY <1>1 DEF TypeOK, BatchType
  <2>2. batch' = [batch EXCEPT ![p] = [batch[p] EXCEPT !.cursor = rotation_cursor]]
    BY <1>3 DEF ReadCursor
  <2>3. batch' \in [Process -> BatchType]
    BY <2>1, <2>2 DEF TypeOK
  <2> QED BY <1>3, <2>3 DEF TypeOK, ReadCursor, Goto, ProcessState, db
<1>4. CASE SelectPrimary(p)
  <2> DEFINE primary == PrimaryTargets(live, batch[p].cursor, RotationSlots(p), batch[p].hot)
             new == [batch[p] EXCEPT !.primary = primary, !.candidates = live, !.catalogue = live]
             to  == IF Cardinality(primary) < RotationSlots(p) THEN "wrap" ELSE "login"
  <2>1. primary \in SUBSET Object /\ live \in SUBSET Object
    BY RotationFromLive DEF TypeOK
  <2>2. batch' = [batch EXCEPT ![p] = new] /\ pc' = [pc EXCEPT ![p] = to]
    BY <1>4 DEF SelectPrimary, Goto
  <2>3. new \in BatchType /\ to \in ProcessState
    <3> HIDE DEF primary
    <3> QED BY <1>1, <2>1 DEF BatchType, ProcessState
  <2>4. batch' \in [Process -> BatchType] /\ pc' \in [Process -> ProcessState]
    <3> HIDE DEF new, to
    <3> QED BY <2>2, <2>3 DEF TypeOK
  <2> QED BY <1>4, <2>4 DEF TypeOK, SelectPrimary, db
<1>5. CASE SelectWrap(p)
  <2> DEFINE wrap == WrapTargets(live, RotationSlots(p), batch[p].primary, batch[p].hot)
             new  == [batch[p] EXCEPT !.wrap = wrap, !.catalogue = live]
  <2>1. wrap \in SUBSET Object /\ live \in SUBSET Object
    BY RotationFromLive DEF TypeOK
  <2>2. batch' = [batch EXCEPT ![p] = new]
    BY <1>5 DEF SelectWrap
  <2>3. new \in BatchType
    <3> HIDE DEF wrap
    <3> QED BY <1>1, <2>1 DEF BatchType
  <2>4. batch' \in [Process -> BatchType]
    <3> HIDE DEF new
    <3> QED BY <2>2, <2>3 DEF TypeOK
  <2> QED BY <1>5, <2>4 DEF TypeOK, SelectWrap, Goto, ProcessState, db
<1> QED BY <1>2, <1>3, <1>4, <1>5 DEF SelectRotation, ReadCursor, SelectPrimary, SelectWrap

LEMMA AbandonType ==
    ASSUME TypeOK, NEW p \in Process,
           \/ SelectFails(p) \/ LoginFails(p) \/ NoTargetsConfigured(p) \/ FetchFails(p)
           \/ FetchUnparseable(p) \/ AdvanceFails(p) \/ Crash(p)
    PROVE  TypeOK'
<1>1. Leave(p) /\ UNCHANGED <<db, published>> /\ faults' \in Nat
  BY DEF SelectFails, LoginFails, NoTargetsConfigured, FetchFails, FetchUnparseable,
         AdvanceFails, Crash, Fault, TypeOK
<1> QED BY <1>1, LeaveType DEF TypeOK, db

LEMMA FetchType ==
    ASSUME TypeOK, NEW p \in Process, Fetch(p)
    PROVE  TypeOK'
<1>1. Answer(Targets(p)) \subseteq ElementSet
  BY AnswerType, TargetsType DEF Fetch
<1>2. [heard |-> Targets(p), answer |-> Answer(Targets(p))] \in ReplyType
  BY <1>1, TargetsType DEF ReplyType
<1>3. records' \in [Process -> SUBSET ElementSet] /\ reply' \in [Process -> ReplyType]
  BY <1>1, <1>2 DEF Fetch, TypeOK
<1> QED BY <1>3 DEF TypeOK, Fetch, Goto, ProcessState, db

LEMMA LookupType ==
    ASSUME TypeOK, NEW p \in Process,
           LookupUnchanged(p) \/ LookupNew(p)
    PROVE  TypeOK'
<1>1. records' \in [Process -> SUBSET ElementSet]
  <2>1. \E r : records' = [records EXCEPT ![p] = @ \ {r}]
    <3>1. CASE LookupUnchanged(p)
      BY <3>1 DEF LookupUnchanged
    <3>2. CASE LookupNew(p)
      BY <3>2 DEF LookupNew
    <3> QED BY <3>1, <3>2
  <2> QED BY <2>1 DEF TypeOK
<1>2. CASE LookupUnchanged(p)
  BY <1>1, <1>2 DEF TypeOK, LookupUnchanged, db
<1>3. CASE LookupNew(p)
  <2>0. PICK r \in records[p] :
           \E prev \in LastSnapshots(r.norad_cat_id) \cup {NoSnapshot} :
              work' = [work EXCEPT ![p] = [NoWork EXCEPT !.record = r, !.prev = prev]]
    BY <1>3 DEF LookupNew
  <2>1. PICK prev \in LastSnapshots(r.norad_cat_id) \cup {NoSnapshot} :
           work' = [work EXCEPT ![p] = [NoWork EXCEPT !.record = r, !.prev = prev]]
    BY <2>0
  <2>2. r \in ElementSet /\ prev \in SnapshotRow \cup {NoSnapshot}
    BY LastSnapshotsType DEF TypeOK
  <2>3. [NoWork EXCEPT !.record = r, !.prev = prev] \in WorkType
    BY <2>2 DEF NoWork, WorkType
  <2>4. work' \in [Process -> WorkType]
    BY <2>1, <2>3 DEF TypeOK
  <2> QED BY <1>1, <1>3, <2>4 DEF TypeOK, LookupNew, Goto, ProcessState, db
<1> QED BY <1>2, <1>3

LEMMA RecordEndsType ==
    ASSUME TypeOK, NEW p \in Process,
           InsertConflict(p) \/ RecordFails(p)
    PROVE  TypeOK'
<1>1. records' \in [Process -> SUBSET ElementSet] /\ faults' \in Nat
  BY DEF TypeOK, InsertConflict, RecordFails, Fault
<1>2. NextRecord(p) /\ UNCHANGED <<db, published, batch, reply>>
  BY DEF InsertConflict, RecordFails
<1> QED BY <1>1, <1>2, NextRecordType DEF TypeOK, db

LEMMA AdvanceType ==
    ASSUME TypeOK, NEW p \in Process, AdvanceCursor(p)
    PROVE  TypeOK'
<1>1. LastRun(batch[p]) \subseteq Object
  BY DEF TypeOK, BatchType, LastRun
<1>2. rotation_cursor' \in Object \cup {NoCursor}
  BY <1>1 DEF AdvanceCursor, TypeOK
<1>3. Leave(p)
  BY DEF AdvanceCursor
<1> QED BY <1>2, <1>3, LeaveType DEF TypeOK, AdvanceCursor

LEMMA EnvironmentType ==
    ASSUME TypeOK, NEW o \in Object, Environment(o)
    PROVE  TypeOK'
<1>1. CASE CatalogObject(o)
  BY <1>1 DEF TypeOK, CatalogObject, locals
<1>2. CASE Hit(o)
  <2>1. hit_count' \in [Object -> Nat]
    BY <1>2 DEF TypeOK, Hit
  <2> QED BY <1>2, <2>1 DEF TypeOK, Hit, locals
<1>3. CASE Publish(o)
  <2> DEFINE old == published[o]
             n   == IF old = NoElements THEN 1 ELSE old.gp_id[2] + 1
             at  == IF old = NoElements THEN 0 ELSE old.epoch
  <2>1. n \in Nat /\ at \in Int
    BY DEF TypeOK, AnyElementSet, GpId
  <2>2. PICK step \in EpochStep, orbit \in Orbit \cup Garbled :
           published' = [published EXCEPT ![o] =
               [norad_cat_id |-> o, gp_id |-> <<o, n>>, orbit |-> orbit, epoch |-> at + step]]
    BY <1>3 DEF Publish
  <2>3. [norad_cat_id |-> o, gp_id |-> <<o, n>>, orbit |-> orbit, epoch |-> at + step] \in AnyElementSet
    <3> HIDE DEF n, at
    <3> QED BY <2>1, ContentAssumption DEF AnyElementSet, GpId
  <2>4. /\ published' \in [Object -> AnyElementSet \cup {NoElements}]
        /\ \A q \in Object : published'[q] # NoElements => published'[q].norad_cat_id = q
    <3> HIDE DEF n, at
    <3> QED BY <2>2, <2>3 DEF TypeOK
  <2> QED BY <1>3, <2>4 DEF TypeOK, Publish, db, locals
<1> QED BY <1>1, <1>2, <1>3 DEF Environment

(* --------------------------- the ingest invariant ---------------------- *)

(* A step that touches neither table and leaves every record in hand alone. *)
LEMMA QuietStep ==
    ASSUME IngestInv, TypeOK',
           UNCHANGED <<snapshots, snapshot_seq, audt_events>>,
           \A q \in Process : pc'[q] \in {"insert", "event"} => pc'[q] = pc[q] /\ work'[q] = work[q]
    PROVE  IngestInv'
<1>1. RowIds' /\ EventsJustified' /\ OncePerRow'
  BY DEF IngestInv, RowIds, EventsJustified, NotOvertaken, OncePerRow
<1>2. ASSUME NEW q \in Process PROVE InHand(q)' /\ BeingReported(q)'
  <2>1. InHand(q) /\ BeingReported(q)
    BY DEF IngestInv
  <2> QED BY <2>1 DEF InHand, NotOvertaken, BeingReported
<1>3. OneReporter'
  BY DEF IngestInv, OneReporter
<1> QED BY <1>1, <1>2, <1>3 DEF IngestInv

LEMMA LookupKeeps ==
    ASSUME IngestInv, NEW p \in Process, LookupUnchanged(p) \/ LookupNew(p)
    PROVE  IngestInv'
<1>1. TypeOK'
  BY LookupType DEF IngestInv
<1>2. CASE LookupUnchanged(p)
  BY <1>1, <1>2, QuietStep DEF LookupUnchanged, db
<1>3. CASE LookupNew(p)
  <2>0. PICK r \in records[p] :
           \E prev \in LastSnapshots(r.norad_cat_id) \cup {NoSnapshot} :
              work' = [work EXCEPT ![p] = [NoWork EXCEPT !.record = r, !.prev = prev]]
    BY <1>3 DEF LookupNew
  <2>1. PICK prev \in LastSnapshots(r.norad_cat_id) \cup {NoSnapshot} :
           work' = [work EXCEPT ![p] = [NoWork EXCEPT !.record = r, !.prev = prev]]
    BY <2>0
  <2>2. r \in ElementSet
    BY DEF IngestInv, TypeOK
  <2>3. prev # NoSnapshot => /\ prev \in snapshots /\ prev.norad_cat_id = r.norad_cat_id
                             /\ NotOvertaken(prev)
    BY DEF LastSnapshots, NotOvertaken
  <2>4. /\ UNCHANGED <<snapshots, snapshot_seq, audt_events>>
        /\ pc' = [pc EXCEPT ![p] = "insert"]
    BY <1>3 DEF LookupNew, Goto, db
  <2>5. \A q \in Process : q # p => pc'[q] = pc[q] /\ work'[q] = work[q]
    BY <2>1, <2>4 DEF IngestInv, TypeOK
  <2>6. pc'[p] = "insert" /\ work'[p].record = r /\ work'[p].prev = prev
    BY <2>1, <2>4 DEF IngestInv, TypeOK, NoWork
  <2>7. RowIds' /\ EventsJustified' /\ OncePerRow'
    BY <2>4 DEF IngestInv, RowIds, EventsJustified, NotOvertaken, OncePerRow
  <2>8. ASSUME NEW q \in Process PROVE InHand(q)' /\ BeingReported(q)'
    <3>1. InHand(q) /\ BeingReported(q)
      BY DEF IngestInv
    <3>2. CASE q = p
      BY <3>2, <2>2, <2>3, <2>4, <2>6 DEF InHand, NotOvertaken, BeingReported
    <3>3. CASE q # p
      BY <3>1, <3>3, <2>4, <2>5 DEF InHand, NotOvertaken, BeingReported
    <3> QED BY <3>2, <3>3
  <2>9. OneReporter'
    BY <2>5, <2>6 DEF IngestInv, OneReporter
  <2> QED BY <1>1, <2>7, <2>8, <2>9 DEF IngestInv
<1> QED BY <1>2, <1>3

(* The row insert_snapshot adds has a fresh id, and its record comes with a *)
(* previous row that is older than that.                                    *)
LEMMA InsertKeeps ==
    ASSUME IngestInv, NEW p \in Process, InsertSnapshot(p)
    PROVE  IngestInv'
<1> DEFINE r    == work[p].record
           prev == work[p].prev
           id   == snapshot_seq + 1
           row  == SnapshotOf(r, id)
           events == Firings(prev, r)
<1>1. TypeOK /\ RowIds /\ InHand(p) /\ OneReporter /\ snapshot_seq \in Nat
  BY DEF IngestInv, TypeOK
<1>2. r \in ElementSet /\ (prev # NoSnapshot => prev \in snapshots /\ prev.norad_cat_id = r.norad_cat_id)
  BY <1>1 DEF InsertSnapshot, InHand
<1>3. row \in SnapshotRow /\ row.id = id
  BY <1>1, <1>2, ElementSetRow DEF SnapshotOf
<1>4. /\ snapshots' = snapshots \cup {row} /\ snapshot_seq' = id
      /\ UNCHANGED <<live, hit_count, rotation_cursor, audt_events, event_seq, published,
                     batch, records, reply, faults>>
  BY DEF InsertSnapshot
<1>5. \A s \in snapshots : s.id \in Nat /\ s.id < id
  BY <1>1 DEF TypeOK, RowIds, SnapshotRow
<1>6. \/ /\ pc' = [pc EXCEPT ![p] = "record"]
         /\ work' = [work EXCEPT ![p] = NoWork]
      \/ /\ events # {}
         /\ pc' = [pc EXCEPT ![p] = "event"]
         /\ work' = [work EXCEPT ![p].new_id = id, ![p].events = events]
  BY DEF InsertSnapshot, NextRecord
<1>7. \A q \in Process : q # p => pc'[q] = pc[q] /\ work'[q] = work[q]
  BY <1>1, <1>6 DEF TypeOK
<1>8. pc'[p] = "event" =>
        /\ events # {}
        /\ work'[p].record = r /\ work'[p].prev = prev
        /\ work'[p].new_id = id /\ work'[p].events = events
  <2> HIDE DEF events, r, prev, id
  <2> QED BY <1>1, <1>6 DEF TypeOK, WorkType, r, prev
<1>9. pc'[p] \in {"record", "event"}
  BY <1>1, <1>6 DEF TypeOK
<1>10. events \subseteq GpEventType
  BY FiringsType
<1>11. TypeOK'
  <2>1. work' \in [Process -> WorkType]
    <3>1. [work[p] EXCEPT !.new_id = id, !.events = events] \in WorkType
      <4>1. work[p] \in WorkType /\ id \in Nat
        BY <1>1 DEF TypeOK
      <4> HIDE DEF events, id
      <4> QED BY <4>1, <1>10 DEF WorkType
    <3>2. \/ work' = [work EXCEPT ![p] = NoWork]
          \/ work' = [work EXCEPT ![p] = [work[p] EXCEPT !.new_id = id, !.events = events]]
      BY <1>6
    <3> HIDE DEF events, id
    <3> QED BY <3>1, <3>2, <1>1, EmptyLocals DEF TypeOK
  <2>2. pc' \in [Process -> ProcessState]
    BY <1>1, <1>6 DEF TypeOK, ProcessState
  <2> QED BY <1>1, <1>3, <1>4, <2>1, <2>2 DEF TypeOK
<1>17. ASSUME NEW s \in snapshots, NotOvertaken(s) PROVE NotOvertaken(s)'
  <2>1. ~ (row.id < s.id)
    BY <1>1, <1>3, <1>5
  <2> HIDE DEF row
  <2> QED BY <1>4, <1>17, <2>1 DEF NotOvertaken
<1>12. RowIds'
  <2>1. row.gp_id = r.gp_id /\ \A s \in snapshots : s.gp_id # r.gp_id
    BY DEF SnapshotOf, InsertSnapshot, Stored
  <2> HIDE DEF row
  <2> QED BY <1>1, <1>3, <1>4, <1>5, <2>1 DEF RowIds
<1>13. \A e \in audt_events : e.new_snapshot_id # id
  BY <1>5 DEF IngestInv, EventsJustified
<1>14. EventsJustified' /\ OncePerRow'
  <2>1. \A s \in snapshots : NotOvertaken(s) => NotOvertaken(s)'
    BY <1>17
  <2> HIDE DEF row
  <2> QED BY <1>4, <2>1 DEF IngestInv, EventsJustified, OncePerRow
<1>15. ASSUME NEW q \in Process PROVE InHand(q)' /\ BeingReported(q)'
  <2>1. InHand(q) /\ BeingReported(q)
    BY DEF IngestInv
  <2>2. CASE q # p
    <3>1. InHand(q)'
      <4>1. ASSUME pc'[q] \in {"insert", "event"}, work'[q].prev # NoSnapshot
            PROVE  NotOvertaken(work[q].prev)'
        <5>1. work[q].prev \in snapshots /\ NotOvertaken(work[q].prev) /\ work'[q] = work[q]
          BY <1>7, <2>1, <2>2, <4>1 DEF InHand
        <5> QED BY <1>17, <5>1 DEF NotOvertaken
      <4> HIDE DEF row
      <4> QED BY <2>1, <2>2, <1>4, <1>7, <4>1 DEF InHand
    <3> HIDE DEF row
    <3> QED BY <2>1, <2>2, <1>4, <1>7, <3>1 DEF BeingReported
  <2>3. CASE q = p /\ pc'[p] = "event"
    <3>1. prev # NoSnapshot /\ events = EvaluateGp(prev.orbit, r.orbit)
      BY <1>8, <2>3 DEF Firings
    <3>2. prev \in snapshots /\ prev.id < id
      BY <1>2, <1>5, <3>1
    <3>3. NotOvertaken(prev)
      BY <1>1, <3>1 DEF InsertSnapshot, InHand
    <3>4. InHand(p)'
      <4>1. NotOvertaken(work[p].prev)'
        <5>1. work'[p].prev = prev
          BY <1>8, <2>3
        <5> HIDE DEF prev
        <5> QED BY <1>17, <3>2, <3>3, <5>1 DEF NotOvertaken
      <4> HIDE DEF r, prev, id, events
      <4> QED BY <1>2, <1>4, <1>8, <2>3, <3>2, <4>1 DEF InHand, row
    <3> HIDE DEF r, prev, id, events
    <3> QED BY <1>2, <1>4, <1>8, <1>13, <2>3, <3>1, <3>2, <3>4 DEF BeingReported, row
  <2>4. CASE q = p /\ pc'[p] # "event"
    BY <2>4, <1>9 DEF InHand, BeingReported
  <2> QED BY <2>2, <2>3, <2>4
<1>16. OneReporter'
  <2>1. \A q \in Process : pc[q] = "event" => work[q].new_id < id
    <3>1. ASSUME NEW q \in Process, pc[q] = "event" PROVE work[q].new_id < id
      <4>1. SnapshotOf(work[q].record, work[q].new_id) \in snapshots
        BY <3>1 DEF IngestInv, BeingReported
      <4> QED BY <4>1, <1>5 DEF SnapshotOf
    <3> QED BY <3>1
  <2>2. \A q \in Process : pc[q] = "event" => work[q].new_id \in Nat
    BY <1>1 DEF TypeOK, WorkType
  <2> HIDE DEF events
  <2> QED BY <1>1, <1>7, <1>8, <1>9, <2>1, <2>2 DEF OneReporter
<1> QED BY <1>11, <1>12, <1>14, <1>15, <1>16 DEF IngestInv

(* insert_event writes a firing of the pair in hand, which nobody else has  *)
(* in hand, and takes it off the list of what is to be written.             *)
LEMMA InsertEventKeeps ==
    ASSUME IngestInv, NEW p \in Process, InsertEvent(p)
    PROVE  IngestInv'
<1> DEFINE r    == work[p].record
           prev == work[p].prev
           id   == work[p].new_id
           Event(code) == [id |-> event_seq + 1, norad_cat_id |-> r.norad_cat_id,
                           event_type_code |-> code, prev_snapshot_id |-> prev.id,
                           new_snapshot_id |-> id]
<1>1. /\ TypeOK /\ RowIds /\ OneReporter /\ InHand(p) /\ BeingReported(p)
      /\ EventsJustified /\ OncePerRow
      /\ pc[p] = "event"
  BY DEF IngestInv, InsertEvent
<1>2. PICK code \in work[p].events :
        /\ audt_events' = audt_events \cup {Event(code)}
        /\ event_seq' = event_seq + 1
        /\ IF work[p].events = {code}
           THEN NextRecord(p)
           ELSE /\ work' = [work EXCEPT ![p].events = work[p].events \ {code}]
                /\ UNCHANGED pc
  BY DEF InsertEvent
<1>3. UNCHANGED <<live, hit_count, rotation_cursor, snapshots, snapshot_seq,
                  published, batch, records, reply, faults>>
  BY DEF InsertEvent
<1>4. /\ r \in ElementSet
      /\ prev \in snapshots /\ prev.norad_cat_id = r.norad_cat_id /\ prev.id < id
      /\ NotOvertaken(prev) /\ SnapshotOf(r, id) \in snapshots
      /\ code \in EvaluateGp(prev.orbit, r.orbit)
      /\ \A e \in audt_events : e.new_snapshot_id = id => e.event_type_code # code
  BY <1>1, <1>2 DEF InHand, BeingReported
<1>5. prev \in SnapshotRow /\ SnapshotOf(r, id) \in SnapshotRow /\ code \in GpEventType
  BY <1>1, <1>4 DEF TypeOK, EvaluateGp
<1>6. Event(code) \in EventRow
  <2>1. prev.id \in Nat \ {0} /\ id \in Nat \ {0} /\ r.norad_cat_id \in Object
    BY <1>4, <1>5 DEF SnapshotRow, SnapshotOf, ElementSet
  <2>2. event_seq + 1 \in Nat \ {0}
    BY <1>1 DEF TypeOK
  <2> HIDE DEF r, prev, id
  <2> QED BY <1>5, <2>1, <2>2 DEF EventRow
<1>7. \A q \in Process : q # p => pc'[q] = pc[q] /\ work'[q] = work[q]
  BY <1>1, <1>2 DEF TypeOK, NextRecord
<1>8. /\ pc'[p] \in {"record", "event"}
      /\ pc'[p] = "event" => /\ work'[p].record = r /\ work'[p].prev = prev
                             /\ work'[p].new_id = id
                             /\ work'[p].events = work[p].events \ {code}
  <2>1. CASE work[p].events = {code}
    BY <1>1, <1>2, <2>1 DEF TypeOK, NextRecord
  <2>2. CASE work[p].events # {code}
    BY <1>1, <1>2, <2>2 DEF TypeOK, WorkType
  <2> QED BY <2>1, <2>2
<1>9. TypeOK'
  <2>1. work' \in [Process -> WorkType] /\ pc' \in [Process -> ProcessState]
    <3>1. CASE work[p].events = {code}
      BY <1>1, <1>2, <3>1, NextRecordType
    <3>2. CASE work[p].events # {code}
      <4>1. work[p] \in WorkType
        BY <1>1 DEF TypeOK
      <4>2. [work[p] EXCEPT !.events = work[p].events \ {code}] \in WorkType
        BY <4>1 DEF WorkType
      <4>3. work' = [work EXCEPT ![p] = [work[p] EXCEPT !.events = work[p].events \ {code}]]
        BY <1>2, <3>2
      <4> QED BY <1>1, <1>2, <3>2, <4>2, <4>3 DEF TypeOK
    <3> QED BY <3>1, <3>2
  <2>2. audt_events' \subseteq EventRow /\ event_seq' \in Nat
    BY <1>1, <1>2, <1>6 DEF TypeOK
  <2> QED BY <1>1, <1>3, <2>1, <2>2 DEF TypeOK
<1>10. RowIds'
  BY <1>1, <1>3 DEF RowIds
<1>11. EventsJustified'
  <2>1. \E s, t \in snapshots :
          /\ s.id = prev.id /\ t.id = id /\ s.id < t.id
          /\ s.norad_cat_id = r.norad_cat_id /\ t.norad_cat_id = r.norad_cat_id
          /\ code \in EvaluateGp(s.orbit, t.orbit) /\ NotOvertaken(s)
    BY <1>4 DEF SnapshotOf
  <2>2. \A s : NotOvertaken(s) => NotOvertaken(s)'
    BY <1>3 DEF NotOvertaken
  <2> HIDE DEF r, prev, id
  <2> QED BY <1>1, <1>2, <1>3, <2>1, <2>2 DEF EventsJustified
<1>12. OncePerRow'
  <2> HIDE DEF r, prev, id
  <2> QED BY <1>1, <1>2, <1>4 DEF OncePerRow
<1>13. ASSUME NEW q \in Process PROVE InHand(q)' /\ BeingReported(q)'
  <2>1. InHand(q) /\ BeingReported(q)
    BY DEF IngestInv
  <2>2. CASE q = p
    <3> HIDE DEF r, prev, id
    <3> QED BY <1>2, <1>3, <1>4, <1>8, <2>1, <2>2, <1>1
            DEF InHand, NotOvertaken, BeingReported, r, prev, id
  <2>3. CASE q # p
    <3>1. pc[q] = "event" => work[q].new_id # id
      BY <1>1, <2>3 DEF OneReporter
    <3> QED BY <1>2, <1>3, <1>7, <2>1, <2>3, <3>1 DEF InHand, NotOvertaken, BeingReported
  <2> QED BY <2>2, <2>3
<1>14. OneReporter'
  BY <1>1, <1>7, <1>8 DEF OneReporter
<1> QED BY <1>9, <1>10, <1>11, <1>12, <1>13, <1>14 DEF IngestInv

LEMMA OtherStepsKeep ==
    ASSUME IngestInv, NEW p \in Process,
           \/ Start(p) \/ Login(p) \/ SelectHot(p) \/ SelectRotation(p)
           \/ SelectFails(p) \/ LoginFails(p) \/ NoTargetsConfigured(p) \/ FetchFails(p)
           \/ FetchUnparseable(p) \/ AdvanceFails(p) \/ Crash(p)
           \/ Fetch(p) \/ InsertConflict(p) \/ RecordFails(p) \/ AdvanceCursor(p)
    PROVE  IngestInv'
<1>1. TypeOK /\ TypeOK'
  BY StartType, SelectType, AbandonType, FetchType, RecordEndsType, AdvanceType DEF IngestInv
<1>2. UNCHANGED <<snapshots, snapshot_seq, audt_events>>
  BY DEF Start, Login, SelectHot, SelectRotation, ReadCursor, SelectPrimary, SelectWrap,
         SelectFails, LoginFails, NoTargetsConfigured,
         FetchFails, FetchUnparseable, AdvanceFails, Crash, Fetch, InsertConflict, RecordFails,
         AdvanceCursor, db
<1>3. \A q \in Process : pc'[q] \in {"insert", "event"} => pc'[q] = pc[q] /\ work'[q] = work[q]
  <2>1. CASE Start(p) \/ Login(p) \/ SelectHot(p) \/ SelectRotation(p) \/ Fetch(p)
    BY <1>1, <2>1 DEF Start, Login, SelectHot, SelectRotation, ReadCursor, SelectPrimary,
                      SelectWrap, Fetch, Goto, TypeOK, locals
  <2>2. CASE InsertConflict(p) \/ RecordFails(p)
    BY <1>1, <2>2 DEF InsertConflict, RecordFails, NextRecord, TypeOK
  <2>3. CASE \/ SelectFails(p) \/ LoginFails(p) \/ NoTargetsConfigured(p) \/ FetchFails(p)
             \/ FetchUnparseable(p) \/ AdvanceFails(p) \/ Crash(p) \/ AdvanceCursor(p)
    <3>1. Leave(p)
      BY <2>3 DEF SelectFails, LoginFails, NoTargetsConfigured, FetchFails, FetchUnparseable,
                  AdvanceFails, Crash, AdvanceCursor
    <3> QED BY <1>1, <3>1 DEF Leave, TypeOK
  <2> QED BY <2>1, <2>2, <2>3
<1> QED BY <1>1, <1>2, <1>3, QuietStep

LEMMA EnvironmentKeeps ==
    ASSUME IngestInv, NEW o \in Object, Environment(o)
    PROVE  IngestInv'
<1>1. UNCHANGED <<snapshots, snapshot_seq, audt_events, pc, work>>
  BY DEF Environment, CatalogObject, Hit, Publish, db, locals
<1> QED BY <1>1, EnvironmentType, QuietStep DEF IngestInv

LEMMA InitKeeps == Init => IngestInv
<1> SUFFICES ASSUME Init PROVE IngestInv
  OBVIOUS
<1>1. \A p \in Process : pc[p] = "idle"
  BY DEF Init
<1>2. RowIds /\ EventsJustified /\ OncePerRow
  BY DEF Init, RowIds, EventsJustified, OncePerRow
<1> QED BY InitType, <1>1, <1>2 DEF IngestInv, OneReporter, InHand, BeingReported

LEMMA StutterKeeps ==
    ASSUME IngestInv, UNCHANGED vars
    PROVE  IngestInv'
<1>1. UNCHANGED <<db, published, pc, batch, records, work, reply, faults>>
  BY DEF vars, locals
<1>2. TypeOK'
  BY <1>1 DEF IngestInv, TypeOK, db
<1> QED BY <1>1, <1>2, QuietStep DEF db

THEOREM IngestInvariant == Spec => []IngestInv
<1>1. ASSUME IngestInv, [Next]_vars PROVE IngestInv'
  <2>1. ASSUME NEW p \in Process, Step(p) \/ Failure(p) PROVE IngestInv'
    BY <1>1, <2>1, OtherStepsKeep, LookupKeeps, InsertKeeps, InsertEventKeeps DEF Step, Failure
  <2>2. ASSUME NEW o \in Object, Environment(o) PROVE IngestInv'
    BY <1>1, <2>2, EnvironmentKeeps
  <2> QED BY <1>1, <2>1, <2>2, StutterKeeps DEF Next
<1> QED BY <1>1, InitKeeps, PTL DEF Spec

(* Every variable keeps its type, however runs overlap and fail. *)
THEOREM TypeCorrect == Spec => []TypeOK
<1>1. IngestInv => TypeOK
  BY DEF IngestInv
<1> QED BY <1>1, IngestInvariant, PTL

(* Every event of the log is a firing of the rules on two stored snapshots  *)
(* of the object it names, and the first of them had not been overtaken by  *)
(* a later epoch when it was stored -- with any number of overlapping runs, *)
(* failures and crashes.                                                    *)
THEOREM LogJustified == Spec => []EventsJustified
<1>1. IngestInv => EventsJustified
  BY DEF IngestInv
<1> QED BY <1>1, IngestInvariant, PTL

(* No change is reported twice, with any number of overlapping runs.        *)
THEOREM LogWithoutDuplicates == Spec => []NoDuplicateEvents
<1>1. IngestInv => NoDuplicateEvents
  BY DEF IngestInv, RowIds, OncePerRow, NoDuplicateEvents
<1> QED BY <1>1, IngestInvariant, PTL

(* --------------------- what a raan_shift is worth ----------------------- *)

kWholeCircle == 3600000     \* 360 degrees

(* How far the node really moved: the field is an angle, from 0 to 360.     *)
NodeMoved(prev, curr) ==
    LET delta == AbsDelta(curr.ra_of_asc_node, prev.ra_of_asc_node)
    IN  IF delta <= 1800000 THEN delta ELSE 3600000 - delta

(* The node's way round is measured by the shorter arc, which is never     *)
(* longer than the plain difference and else its complement to the circle.  *)
LEMMA CircleIsNumber == kWholeCircle \in Nat
BY DEF kWholeCircle

ShorterWay(delta) == IF delta <= 1800000 THEN delta ELSE 3600000 - delta

LEMMA ShorterWayLess ==
    ASSUME NEW delta \in Int
    PROVE  /\ ShorterWay(delta) \in Int
           /\ ShorterWay(delta) <= delta
           /\ ShorterWay(delta) = delta \/ ShorterWay(delta) = kWholeCircle - delta
BY DEF ShorterWay, kWholeCircle

LEMMA NodeMovedLess ==
    ASSUME NEW prev, NEW curr, prev.ra_of_asc_node \in 0..kWholeCircle,
           curr.ra_of_asc_node \in 0..kWholeCircle
    PROVE  LET delta == AbsDelta(curr.ra_of_asc_node, prev.ra_of_asc_node)
           IN  /\ delta \in Int /\ NodeMoved(prev, curr) \in Int
               /\ NodeMoved(prev, curr) <= delta
               /\ NodeMoved(prev, curr) = delta \/ NodeMoved(prev, curr) = kWholeCircle - delta
<1> DEFINE delta == AbsDelta(curr.ra_of_asc_node, prev.ra_of_asc_node)
<1>1. delta \in Int
  BY CircleIsNumber DEF AbsDelta
<1> HIDE DEF delta
<1>2. NodeMoved(prev, curr) = ShorterWay(delta)
  BY DEF NodeMoved, ShorterWay, delta
<1> QED BY <1>1, <1>2, ShorterWayLess DEF delta

(* A node that moves far enough is never overlooked, in whichever direction *)
(* and across zero as well ...                                              *)
LEMMA NodeShiftSeen ==
    ASSUME NEW prev, NEW curr, prev.ra_of_asc_node \in 0..kWholeCircle,
           curr.ra_of_asc_node \in 0..kWholeCircle,
           NodeMoved(prev, curr) > kRaanDeltaThreshold
    PROVE  "raan_shift" \in EvaluateGp(prev, curr)
<1>1. AbsDelta(curr.ra_of_asc_node, prev.ra_of_asc_node) > kRaanDeltaThreshold
  BY NodeMovedLess DEF kRaanDeltaThreshold
<1>2. "raan_shift" \in GpEventType
  <2>1. GpRegistry[2] = "raan_shift"
    BY DEF GpRegistry
  <2> QED BY <2>1 DEF GpEventType
<1> QED BY <1>1, <1>2 DEF EvaluateGp, RaanShift

(* ... and a raan_shift in the log is true, or the field jumped by all but  *)
(* the threshold of a whole circle: the only false alarms of the rule are   *)
(* nodes that crossed zero (raan_shift_rule.cpp takes the plain difference). *)
RaanShiftsAreRealOrWrapped ==
    \A e \in audt_events : \A s, t \in snapshots :
        /\ e.event_type_code = "raan_shift"
        /\ s.id = e.prev_snapshot_id /\ t.id = e.new_snapshot_id
        => \/ NodeMoved(s.orbit, t.orbit) > kRaanDeltaThreshold
           \/ AbsDelta(t.orbit.ra_of_asc_node, s.orbit.ra_of_asc_node)
                 >= kWholeCircle - kRaanDeltaThreshold

THEOREM FalseAlarmsOnlyAcrossZero ==
    ASSUME \A orbit \in Orbit : orbit.ra_of_asc_node \in 0..kWholeCircle
    PROVE  Spec => []RaanShiftsAreRealOrWrapped
<1>1. IngestInv => RaanShiftsAreRealOrWrapped
  <2> SUFFICES ASSUME IngestInv, NEW e \in audt_events, NEW s \in snapshots, NEW t \in snapshots,
                      e.event_type_code = "raan_shift",
                      s.id = e.prev_snapshot_id, t.id = e.new_snapshot_id
               PROVE  \/ NodeMoved(s.orbit, t.orbit) > kRaanDeltaThreshold
                      \/ AbsDelta(t.orbit.ra_of_asc_node, s.orbit.ra_of_asc_node)
                            >= kWholeCircle - kRaanDeltaThreshold
    BY DEF RaanShiftsAreRealOrWrapped
  <2>1. "raan_shift" \in EvaluateGp(s.orbit, t.orbit)
    BY DEF IngestInv, EventsJustified, RowIds
  <2>2. RaanShift(s.orbit, t.orbit)
    BY <2>1 DEF EvaluateGp
  <2>3. /\ s.orbit.ra_of_asc_node \in 0..kWholeCircle
        /\ t.orbit.ra_of_asc_node \in 0..kWholeCircle
    BY DEF IngestInv, TypeOK, SnapshotRow
  <2> QED BY <2>2, <2>3, CircleIsNumber, NodeMovedLess DEF RaanShift, kRaanDeltaThreshold
<1> QED BY <1>1, IngestInvariant, PTL

(* ------------------------- the dedup drops no news --------------------- *)

(* Records of p's answer that were processed and are not stored. *)
Missing(p) == {r \in Processed(p) : ~ Stored(r.gp_id)}

MissingFew(p) == IsFiniteSet(Missing(p)) /\ Cardinality(Missing(p)) <= faults

MissingInv == \A p \in Process : MissingFew(p)

LEMMA MissingInit == Init => MissingInv
<1> SUFFICES ASSUME Init, NEW p \in Process PROVE MissingFew(p)
  BY DEF MissingInv
<1>1. Missing(p) = {} /\ faults = 0
  BY DEF Init, Missing, Processed, NoReply
<1> QED BY <1>1, FS_EmptySet DEF MissingFew

LEMMA StoredStays ==
    ASSUME snapshots \subseteq snapshots', NEW gp_id, Stored(gp_id)
    PROVE  Stored(gp_id)'
BY DEF Stored

(* A process that has nothing more to miss, or one record more by a failure. *)
LEMMA MissingKept ==
    ASSUME TypeOK, NEW q \in Process, MissingFew(q), faults' \in Nat,
           \/ Missing(q)' \subseteq Missing(q) /\ faults' >= faults
           \/ faults' = faults + 1 /\ \E r : Missing(q)' \subseteq Missing(q) \cup {r}
    PROVE  MissingFew(q)'
<1>1. IsFiniteSet(Missing(q)) /\ Cardinality(Missing(q)) \in Nat /\ Cardinality(Missing(q)) <= faults
      /\ faults \in Nat
  BY FS_CardinalityType DEF MissingFew, TypeOK
<1>2. CASE Missing(q)' \subseteq Missing(q) /\ faults' >= faults
  <2>1. /\ IsFiniteSet(Missing(q)') /\ Cardinality(Missing(q)') \in Nat
        /\ Cardinality(Missing(q)') <= Cardinality(Missing(q))
    BY <1>1, <1>2, FS_Subset, FS_CardinalityType
  <2> QED BY <1>1, <1>2, <2>1 DEF MissingFew
<1>3. ASSUME faults' = faults + 1, NEW r, Missing(q)' \subseteq Missing(q) \cup {r}
      PROVE  MissingFew(q)'
  <2>1. /\ IsFiniteSet(Missing(q) \cup {r})
        /\ Cardinality(Missing(q) \cup {r}) <= Cardinality(Missing(q)) + 1
    BY <1>1, FS_AddElement
  <2>2. /\ IsFiniteSet(Missing(q)') /\ Cardinality(Missing(q)') \in Nat
        /\ Cardinality(Missing(q)') <= Cardinality(Missing(q) \cup {r})
    BY <1>3, <2>1, FS_Subset, FS_CardinalityType
  <2>3. Cardinality(Missing(q) \cup {r}) \in Nat
    BY <2>1, FS_CardinalityType
  <2> QED BY <1>1, <1>3, <2>1, <2>2, <2>3 DEF MissingFew
<1> QED BY <1>2, <1>3

(* A step that leaves a process alone costs it nothing. *)
LEMMA MissingElsewhere ==
    ASSUME TypeOK, MissingInv, snapshots \subseteq snapshots', faults' \in Nat, faults' >= faults,
           NEW q \in Process, reply'[q] = reply[q], records'[q] = records[q],
           pc'[q] = pc[q], work'[q] = work[q]
    PROVE  MissingFew(q)'
<1>1. Processed(q)' = Processed(q)
  BY DEF Processed
<1>2. Missing(q)' \subseteq Missing(q)
  BY <1>1, StoredStays DEF Missing
<1> QED BY <1>2, MissingKept DEF MissingInv

LEMMA MissingStep ==
    ASSUME TypeOK, MissingInv, TypeOK', NEW p \in Process, Step(p) \/ Failure(p)
    PROVE  MissingInv'
<1>1. snapshots \subseteq snapshots' /\ faults \in Nat /\ faults' \in Nat /\ faults' >= faults
  <2>1. snapshots \subseteq snapshots'
    BY DEF Step, Failure, db, Start, SelectHot, SelectRotation, ReadCursor, SelectPrimary,
           SelectWrap, Login, NoTargetsConfigured, Fetch,
           FetchUnparseable, LookupUnchanged, LookupNew, InsertSnapshot, InsertConflict,
           InsertEvent, AdvanceCursor, SelectFails, LoginFails, FetchFails, RecordFails,
           AdvanceFails, Crash
  <2>2. faults' = faults \/ faults' = faults + 1
    BY DEF Step, Failure, Fault, Start, SelectHot, SelectRotation, ReadCursor, SelectPrimary,
           SelectWrap, Login, NoTargetsConfigured,
           Fetch, FetchUnparseable, LookupUnchanged, LookupNew, InsertSnapshot, InsertConflict,
           InsertEvent, AdvanceCursor, SelectFails, LoginFails, FetchFails, RecordFails,
           AdvanceFails, Crash
  <2>3. faults \in Nat
    BY DEF TypeOK
  <2> QED BY <2>1, <2>2, <2>3
<1>2. ASSUME NEW q \in Process, q # p
      PROVE  reply'[q] = reply[q] /\ records'[q] = records[q] /\ pc'[q] = pc[q] /\ work'[q] = work[q]
  <2>1. CASE Start(p) \/ SelectHot(p) \/ SelectRotation(p) \/ Login(p) \/ Fetch(p)
    BY <1>2, <2>1 DEF TypeOK, locals, Goto, Start, SelectHot, SelectRotation, ReadCursor,
                      SelectPrimary, SelectWrap, Login, Fetch
  <2>2. CASE LookupUnchanged(p) \/ LookupNew(p)
    BY <1>2, <2>2 DEF TypeOK, Goto, LookupUnchanged, LookupNew
  <2>3. CASE InsertSnapshot(p) \/ InsertConflict(p) \/ InsertEvent(p) \/ RecordFails(p)
    <3>1. /\ UNCHANGED reply
          /\ UNCHANGED records \/ \E r \in records[p] : records' = [records EXCEPT ![p] = @ \ {r}]
      BY <2>3 DEF InsertSnapshot, InsertConflict, InsertEvent, RecordFails
    <3>2. pc'[q] = pc[q] /\ work'[q] = work[q]
      BY <1>2, <2>3 DEF TypeOK, NextRecord, InsertSnapshot, InsertConflict, InsertEvent, RecordFails
    <3> QED BY <1>2, <3>1, <3>2 DEF TypeOK
  <2>4. CASE \/ SelectFails(p) \/ LoginFails(p) \/ NoTargetsConfigured(p) \/ FetchFails(p)
             \/ FetchUnparseable(p) \/ AdvanceFails(p) \/ Crash(p) \/ AdvanceCursor(p)
    <3>1. Leave(p)
      BY <2>4 DEF SelectFails, LoginFails, NoTargetsConfigured, FetchFails, FetchUnparseable,
                  AdvanceFails, Crash, AdvanceCursor
    <3> QED BY <1>2, <3>1 DEF Leave, TypeOK
  <2> QED BY <2>1, <2>2, <2>3, <2>4 DEF Step, Failure
<1>3. MissingFew(p)
  BY DEF MissingInv
<1>4. SUFFICES MissingFew(p)'
  BY <1>1, <1>2, MissingElsewhere DEF MissingInv
<1>5. CASE Start(p) \/ SelectHot(p) \/ SelectRotation(p) \/ Login(p)
  <2>1. /\ UNCHANGED <<snapshots, reply, records, work, faults>>
        /\ pc[p] # "insert" /\ pc'[p] # "insert"
    BY <1>5 DEF Start, SelectHot, SelectRotation, ReadCursor, SelectPrimary, SelectWrap, Login,
                Goto, db, locals, TypeOK
  <2>2. Missing(p)' = Missing(p)
    BY <2>1 DEF Missing, Processed, Stored
  <2> QED BY <1>1, <1>3, <2>2, MissingKept
<1>6. CASE Fetch(p)
  <2>1. /\ records'[p] = Answer(Targets(p)) /\ reply'[p].answer = Answer(Targets(p))
    BY <1>6 DEF Fetch, TypeOK
  <2>2. Missing(p)' = {}
    BY <2>1 DEF Missing, Processed
  <2> QED BY <1>1, <1>3, <2>2, MissingKept
<1>7. CASE LookupUnchanged(p)
  <2>1. PICK r \in records[p] :
           /\ \E s \in LastSnapshots(r.norad_cat_id) : IsSameElementSet(s, r)
           /\ records' = [records EXCEPT ![p] = @ \ {r}]
    BY <1>7 DEF LookupUnchanged
  <2>2. UNCHANGED <<snapshots, reply, work, pc, faults>> /\ pc[p] = "record"
    BY <1>7 DEF LookupUnchanged, db
  <2>3. Stored(r.gp_id)
    BY <2>1 DEF LastSnapshots, IsSameElementSet, Stored
  <2>4. records'[p] = records[p] \ {r}
    BY <2>1 DEF TypeOK
  <2>5. Missing(p)' \subseteq Missing(p)
    BY <2>2, <2>3, <2>4 DEF Missing, Processed, Stored
  <2> QED BY <1>1, <1>3, <2>5, MissingKept
<1>8. CASE LookupNew(p)
  <2>1. PICK r \in records[p] :
           /\ \E prev : work' = [work EXCEPT ![p] = [NoWork EXCEPT !.record = r, !.prev = prev]]
           /\ records' = [records EXCEPT ![p] = @ \ {r}]
    BY <1>8 DEF LookupNew
  <2>2. UNCHANGED <<snapshots, reply, faults>> /\ pc[p] = "record" /\ pc'[p] = "insert"
    BY <1>8 DEF LookupNew, Goto, db, TypeOK
  <2>3. PICK prev : work' = [work EXCEPT ![p] = [NoWork EXCEPT !.record = r, !.prev = prev]]
    BY <2>1
  <2>4. work'[p].record = r /\ records'[p] = records[p] \ {r}
    BY <2>1, <2>3 DEF TypeOK, NoWork
  <2>5. Missing(p)' \subseteq Missing(p)
    BY <2>2, <2>4 DEF Missing, Processed, Stored
  <2> QED BY <1>1, <1>3, <2>5, MissingKept
<1>9. CASE InsertSnapshot(p)
  <2>1. /\ snapshots' = snapshots \cup {SnapshotOf(work[p].record, snapshot_seq + 1)}
        /\ UNCHANGED <<records, reply, faults>> /\ pc[p] = "insert"
    BY <1>9 DEF InsertSnapshot
  <2>2. \E s \in snapshots' : s.gp_id = work[p].record.gp_id
    <3> DEFINE row == SnapshotOf(work[p].record, snapshot_seq + 1)
    <3>1. row \in snapshots' /\ row.gp_id = work[p].record.gp_id
      BY <2>1 DEF SnapshotOf
    <3> HIDE DEF row
    <3> QED BY <3>1
  <2>3. Processed(p)' \subseteq Processed(p) \cup {work[p].record}
    BY <2>1 DEF Processed
  <2>4. Missing(p)' \subseteq Missing(p)
    BY <1>1, <2>2, <2>3 DEF Missing, Stored
  <2> QED BY <1>1, <1>3, <2>4, MissingKept
<1>10. CASE InsertConflict(p)
  <2>1. UNCHANGED <<snapshots, records, reply, faults>> /\ Stored(work[p].record.gp_id)
    BY <1>10 DEF InsertConflict, db
  <2>2. Processed(p)' \subseteq Processed(p) \cup {work[p].record}
    BY <2>1 DEF Processed
  <2>3. Missing(p)' \subseteq Missing(p)
    BY <2>1, <2>2 DEF Missing, Stored
  <2> QED BY <1>1, <1>3, <2>3, MissingKept
<1>11. CASE InsertEvent(p)
  <2>1. UNCHANGED <<snapshots, records, reply, faults>> /\ pc[p] = "event"
    BY <1>11 DEF InsertEvent
  <2>2. Missing(p)' \subseteq Missing(p)
    BY <2>1 DEF Missing, Processed, Stored
  <2> QED BY <1>1, <1>3, <2>2, MissingKept
<1>12. CASE RecordFails(p)
  <2>1. UNCHANGED <<snapshots, reply>> /\ faults' = faults + 1
    BY <1>12 DEF RecordFails, Fault, db
  <2>2. \E r : Processed(p)' \subseteq Processed(p) \cup {r}
    <3>1. CASE pc[p] = "record"
      <4>1. PICK r \in records[p] : records' = [records EXCEPT ![p] = @ \ {r}]
        BY <1>12, <3>1 DEF RecordFails
      <4>2. records'[p] = records[p] \ {r}
        BY <4>1 DEF TypeOK
      <4>3. Processed(p)' \subseteq Processed(p) \cup {r}
        BY <2>1, <3>1, <4>2 DEF Processed
      <4> QED BY <4>3
    <3>2. CASE pc[p] \in {"insert", "event"}
      <4>1. UNCHANGED records
        BY <1>12, <3>2 DEF RecordFails
      <4>2. Processed(p)' \subseteq Processed(p) \cup {work[p].record}
        BY <2>1, <4>1 DEF Processed
      <4> QED BY <4>2
    <3> QED BY <1>12, <3>1, <3>2 DEF RecordFails
  <2>3. PICK r : Processed(p)' \subseteq Processed(p) \cup {r}
    BY <2>2
  <2>4. Missing(p)' \subseteq Missing(p) \cup {r}
    BY <2>1, <2>3 DEF Missing, Stored
  <2> QED BY <1>1, <1>3, <2>1, <2>4, MissingKept
<1>13. CASE \/ SelectFails(p) \/ LoginFails(p) \/ NoTargetsConfigured(p) \/ FetchFails(p)
            \/ FetchUnparseable(p) \/ AdvanceFails(p) \/ Crash(p) \/ AdvanceCursor(p)
  <2>1. Leave(p)
    BY <1>13 DEF SelectFails, LoginFails, NoTargetsConfigured, FetchFails, FetchUnparseable,
                 AdvanceFails, Crash, AdvanceCursor
  <2>2. reply'[p].answer = {}
    BY <2>1 DEF Leave, TypeOK, NoReply
  <2>3. Missing(p)' = {}
    BY <2>2 DEF Missing, Processed
  <2> QED BY <1>1, <1>3, <2>3, MissingKept
<1> QED BY <1>5, <1>6, <1>7, <1>8, <1>9, <1>10, <1>11, <1>12, <1>13 DEF Step, Failure

(* For every run, however runs overlap, what Space-Track answered and the    *)
(* loop is done with is in the table, but for a record a failure each.       *)
THEOREM NoNewsDropped == Spec => []AnsweredIsStored
<1>1. ASSUME TypeOK, TypeOK', MissingInv, [Next]_vars PROVE MissingInv'
  <2>1. ASSUME UNCHANGED vars \/ \E o \in Object : Environment(o) PROVE MissingInv'
    <3>1. UNCHANGED <<snapshots, faults, reply, records, pc, work>>
      BY <2>1 DEF vars, db, locals, Environment, CatalogObject, Hit, Publish
    <3>2. faults \in Nat
      BY <1>1 DEF TypeOK
    <3> QED BY <1>1, <3>1, <3>2, MissingElsewhere DEF MissingInv
  <2> QED BY <1>1, <2>1, MissingStep DEF Next
<1>2. MissingInv => AnsweredIsStored
  BY DEF MissingInv, MissingFew, Missing, AnsweredIsStored
<1> QED BY <1>1, <1>2, MissingInit, TypeCorrect, PTL DEF Spec
=============================================================================
