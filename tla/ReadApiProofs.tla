----------------------------- MODULE ReadApiProofs -----------------------------
(***************************************************************************)
(* What readers of the API are told is true and never goes back, for any   *)
(* catalogue, any number of readers and of overlapping and failing runs.   *)
(***************************************************************************)
EXTENDS ReadApi, GpPollerProofs, GpTargetsProofs

(* Readers change nothing: all that is proved of the pollers holds beside   *)
(* them.                                                                    *)
THEOREM ReadersAreHarmless == ReadSpec => Spec
<1>1. ReadInit => Init
  BY DEF ReadInit
<1>2. [ReadNext]_readVars => [Next]_vars
  BY DEF ReadNext, readVars, PollersMove, AnswerNotFound, FindNoSnapshot
<1> QED BY <1>1, <1>2, PTL DEF ReadSpec, Spec

(* -------------------- what is stored was catalogued -------------------- *)

(* Targets, records and snapshots are of catalogued objects only. *)
CataloguedAt(p) ==
    /\ Targets(p) \subseteq live
    /\ \A r \in records[p] : r.norad_cat_id \in live
    /\ pc[p] \in {"insert", "event"} => work[p].record.norad_cat_id \in live

StoredCatalogued ==
    /\ IsFiniteSet(snapshots)
    /\ \A s \in snapshots : s.norad_cat_id \in live

CatalogueInv == StoredCatalogued /\ \A p \in Process : CataloguedAt(p)

LEMMA CatalogueInit == Init => CatalogueInv
BY FS_EmptySet DEF Init, CatalogueInv, StoredCatalogued, CataloguedAt, Targets, NoBatch

(* A process that only moves on, and a catalogue that only grows. *)
LEMMA CataloguedKept ==
    ASSUME NEW q \in Process, CataloguedAt(q), live \subseteq live', batch'[q] = batch[q],
           records'[q] \subseteq records[q],
           pc'[q] \in {"insert", "event"} =>
              pc[q] \in {"insert", "event"} /\ work'[q].record = work[q].record
    PROVE  CataloguedAt(q)'
BY DEF CataloguedAt, Targets

LEMMA CataloguedLeave ==
    ASSUME TypeOK, NEW p \in Process, Leave(p)
    PROVE  /\ CataloguedAt(p)'
           /\ \A q \in Process : q # p => /\ batch'[q] = batch[q] /\ records'[q] = records[q]
                                          /\ pc'[q] = pc[q] /\ work'[q] = work[q]
<1>1. pc'[p] = "idle" /\ batch'[p] = NoBatch /\ records'[p] = {}
  BY DEF Leave, TypeOK
<1>2. CataloguedAt(p)'
  BY <1>1 DEF CataloguedAt, Targets, NoBatch
<1> QED BY <1>2 DEF Leave, TypeOK

(* A step of p keeps what the others hold; what p holds is of the catalogue. *)
LEMMA CatalogueStep ==
    ASSUME IngestInv, CatalogueInv, NEW p \in Process, Step(p) \/ Failure(p)
    PROVE  CatalogueInv'
<1>1. TypeOK /\ CataloguedAt(p) /\ StoredCatalogued
  BY DEF IngestInv, CatalogueInv
<1>2. ASSUME UNCHANGED <<live, snapshots>>, CataloguedAt(p)',
             \A q \in Process : q # p => /\ batch'[q] = batch[q] /\ records'[q] = records[q]
                                         /\ pc'[q] = pc[q] /\ work'[q] = work[q]
      PROVE  CatalogueInv'
  <2>1. ASSUME NEW q \in Process, q # p PROVE CataloguedAt(q)'
    BY <1>2, <2>1, CataloguedKept DEF CatalogueInv
  <2> QED BY <1>1, <1>2, <2>1 DEF CatalogueInv, StoredCatalogued
<1>3. CASE Start(p) \/ Login(p)
  <2>1. CataloguedAt(p)'
    BY <1>1, <1>3, CataloguedKept DEF Start, Login, Goto, locals, db, TypeOK
  <2> QED BY <1>1, <1>2, <1>3, <2>1 DEF Start, Login, Goto, locals, db, TypeOK
<1>4. CASE SelectHot(p)
  <2> DEFINE hot == HotTargets(live, Featured, hit_count, kGpMaxHotSlots)
  <2>1. /\ batch' = [batch EXCEPT ![p] = [batch[p] EXCEPT !.hot = hot]]
        /\ pc' = [pc EXCEPT ![p] = "cursor"] /\ UNCHANGED <<live, snapshots, records, work>>
    BY <1>4 DEF SelectHot, Goto, db
  <2>2. hot \subseteq live /\ batch[p] \in BatchType
    BY <1>1, HotTargetsFromLive DEF TypeOK
  <2> HIDE DEF hot
  <2>3. /\ batch'[p].hot = hot /\ batch'[p].primary = batch[p].primary
        /\ batch'[p].wrap = batch[p].wrap /\ pc'[p] = "cursor"
    <3>1. batch'[p] = [batch[p] EXCEPT !.hot = hot] /\ pc'[p] = "cursor"
      BY <1>1, <2>1 DEF TypeOK
    <3> QED BY <2>2, <3>1 DEF BatchType
  <2>4. CataloguedAt(p)'
    BY <1>1, <2>1, <2>2, <2>3 DEF CataloguedAt, Targets
  <2> QED BY <1>1, <1>2, <2>1, <2>4 DEF TypeOK
<1>5. CASE SelectRotation(p)
  <2>1. PICK new \in BatchType, to \in {"primary", "wrap", "login"} :
            /\ batch' = [batch EXCEPT ![p] = new] /\ pc' = [pc EXCEPT ![p] = to]
            /\ new.hot \cup new.primary \cup new.wrap \subseteq live
    <3>1. batch[p] \in BatchType /\ live \in SUBSET Object /\ rotation_cursor \in Object \cup {NoCursor}
      BY <1>1 DEF TypeOK
    <3>2. batch[p].hot \cup batch[p].primary \cup batch[p].wrap \subseteq live
      BY <1>1 DEF CataloguedAt, Targets
    <3>3. CASE ReadCursor(p)
      <4> DEFINE new == [batch[p] EXCEPT !.cursor = rotation_cursor]
      <4>1. new \in BatchType /\ new.hot \cup new.primary \cup new.wrap \subseteq live
        BY <3>1, <3>2 DEF BatchType
      <4>2. batch' = [batch EXCEPT ![p] = new] /\ pc' = [pc EXCEPT ![p] = "primary"]
        BY <3>3 DEF ReadCursor, Goto
      <4> HIDE DEF new
      <4> QED BY <4>1, <4>2
    <3>4. CASE SelectPrimary(p)
      <4> DEFINE primary == PrimaryTargets(live, batch[p].cursor, RotationSlots(p), batch[p].hot)
                 new == [batch[p] EXCEPT !.primary = primary, !.candidates = live,
                                         !.catalogue = live]
                 to  == IF Cardinality(primary) < RotationSlots(p) THEN "wrap" ELSE "login"
      <4>1. primary \subseteq live
        BY RotationFromLive
      <4>2. to \in {"primary", "wrap", "login"}
        OBVIOUS
      <4>3. batch' = [batch EXCEPT ![p] = new] /\ pc' = [pc EXCEPT ![p] = to]
        BY <3>4 DEF SelectPrimary, Goto
      <4> HIDE DEF primary, to
      <4>4. new \in BatchType /\ new.hot \cup new.primary \cup new.wrap \subseteq live
        BY <3>1, <3>2, <4>1 DEF BatchType
      <4> HIDE DEF new
      <4> QED BY <4>2, <4>3, <4>4
    <3>5. CASE SelectWrap(p)
      <4> DEFINE wrap == WrapTargets(live, RotationSlots(p), batch[p].primary, batch[p].hot)
                 new  == [batch[p] EXCEPT !.wrap = wrap, !.catalogue = live]
      <4>1. wrap \subseteq live
        BY RotationFromLive
      <4>2. batch' = [batch EXCEPT ![p] = new] /\ pc' = [pc EXCEPT ![p] = "login"]
        BY <3>5 DEF SelectWrap, Goto
      <4> HIDE DEF wrap
      <4>3. new \in BatchType /\ new.hot \cup new.primary \cup new.wrap \subseteq live
        BY <3>1, <3>2, <4>1 DEF BatchType
      <4> HIDE DEF new
      <4> QED BY <4>2, <4>3
    <3> QED BY <1>5, <3>3, <3>4, <3>5 DEF SelectRotation
  <2>2. UNCHANGED <<live, snapshots, records, work>>
    BY <1>5 DEF SelectRotation, ReadCursor, SelectPrimary, SelectWrap, db
  <2>3. batch'[p] = new /\ pc'[p] = to
    BY <1>1, <2>1 DEF TypeOK
  <2>4. CataloguedAt(p)'
    BY <1>1, <2>1, <2>2, <2>3 DEF CataloguedAt, Targets
  <2> QED BY <1>1, <1>2, <2>1, <2>2, <2>4 DEF TypeOK
<1>6. CASE Fetch(p)
  <2>1. /\ records' = [records EXCEPT ![p] = Answer(Targets(p))]
        /\ pc' = [pc EXCEPT ![p] = "record"] /\ UNCHANGED <<live, snapshots, batch, work>>
    BY <1>6 DEF Fetch, Goto, db
  <2>2. \A r \in Answer(Targets(p)) : r.norad_cat_id \in live
    <3>1. Targets(p) \subseteq live /\ Targets(p) \subseteq Object
      BY <1>1, TargetsType DEF CataloguedAt
    <3> QED BY <1>1, <3>1 DEF Answer, TypeOK
  <2>3. records'[p] = Answer(Targets(p)) /\ pc'[p] = "record"
    BY <1>1, <2>1 DEF TypeOK
  <2>4. CataloguedAt(p)'
    BY <1>1, <2>1, <2>2, <2>3 DEF CataloguedAt, Targets
  <2> QED BY <1>1, <1>2, <2>1, <2>4 DEF TypeOK
<1>7. CASE LookupUnchanged(p)
  <2>1. CataloguedAt(p)'
    BY <1>1, <1>7, CataloguedKept DEF LookupUnchanged, db, TypeOK
  <2> QED BY <1>1, <1>2, <1>7, <2>1 DEF LookupUnchanged, db, TypeOK
<1>8. CASE LookupNew(p)
  <2>1. PICK r \in records[p] :
           /\ \E prev : work' = [work EXCEPT ![p] = [NoWork EXCEPT !.record = r, !.prev = prev]]
           /\ records' = [records EXCEPT ![p] = @ \ {r}]
    BY <1>8 DEF LookupNew
  <2>2. pc' = [pc EXCEPT ![p] = "insert"] /\ UNCHANGED <<live, snapshots, batch>>
    BY <1>8 DEF LookupNew, Goto, db
  <2>3. PICK prev : work' = [work EXCEPT ![p] = [NoWork EXCEPT !.record = r, !.prev = prev]]
    BY <2>1
  <2>4. work'[p].record = r
    BY <1>1, <2>3 DEF TypeOK, NoWork
  <2>5. records'[p] \subseteq records[p]
    BY <1>1, <2>1 DEF TypeOK
  <2>6. CataloguedAt(p)'
    BY <1>1, <2>2, <2>4, <2>5 DEF CataloguedAt, Targets
  <2>7. \A q \in Process : q # p => /\ batch'[q] = batch[q] /\ records'[q] = records[q]
                                    /\ pc'[q] = pc[q] /\ work'[q] = work[q]
    BY <1>1, <2>1, <2>2, <2>3 DEF TypeOK
  <2> QED BY <1>2, <2>2, <2>6, <2>7
<1>9. CASE InsertSnapshot(p)
  <2> DEFINE row == SnapshotOf(work[p].record, snapshot_seq + 1)
  <2>1. snapshots' = snapshots \cup {row} /\ UNCHANGED <<live, batch, records>>
    BY <1>9 DEF InsertSnapshot
  <2>2. row.norad_cat_id \in live
    BY <1>1, <1>9 DEF CataloguedAt, InsertSnapshot, SnapshotOf
  <2> HIDE DEF row
  <2>3. StoredCatalogued'
    BY <1>1, <2>1, <2>2, FS_AddElement DEF StoredCatalogued
  <2>4. /\ pc'[p] \in {"insert", "event"} => work'[p].record = work[p].record
        /\ \A q \in Process : q # p => pc'[q] = pc[q] /\ work'[q] = work[q]
    <3> DEFINE events == Firings(work[p].prev, work[p].record)
    <3>1. \/ /\ pc' = [pc EXCEPT ![p] = "record"] /\ work' = [work EXCEPT ![p] = NoWork]
          \/ /\ pc' = [pc EXCEPT ![p] = "event"]
             /\ work' = [work EXCEPT ![p] =
                            [work[p] EXCEPT !.new_id = snapshot_seq + 1, !.events = events]]
      BY <1>9 DEF InsertSnapshot, NextRecord
    <3>2. work[p] \in WorkType
      BY <1>1 DEF TypeOK
    <3> HIDE DEF events
    <3>3. DOMAIN pc = Process /\ DOMAIN work = Process
      BY <1>1 DEF TypeOK
    <3>4. [work[p] EXCEPT !.new_id = snapshot_seq + 1, !.events = events].record = work[p].record
      BY <3>2 DEF WorkType
    <3>5. CASE pc' = [pc EXCEPT ![p] = "record"] /\ work' = [work EXCEPT ![p] = NoWork]
      BY <3>3, <3>5
    <3>6. CASE /\ pc' = [pc EXCEPT ![p] = "event"]
               /\ work' = [work EXCEPT ![p] =
                              [work[p] EXCEPT !.new_id = snapshot_seq + 1, !.events = events]]
      BY <3>3, <3>4, <3>6
    <3> QED BY <3>1, <3>5, <3>6
  <2>5. pc[p] \in {"insert", "event"}
    BY <1>9 DEF InsertSnapshot
  <2>6. ASSUME NEW q \in Process PROVE CataloguedAt(q)'
    BY <2>1, <2>4, <2>5, CataloguedKept DEF CatalogueInv
  <2> QED BY <2>3, <2>6 DEF CatalogueInv
<1>10. CASE InsertConflict(p) \/ RecordFails(p)
  <2>1. /\ NextRecord(p) /\ UNCHANGED <<live, snapshots, batch>>
        /\ \/ UNCHANGED records
           \/ \E r \in records[p] : records' = [records EXCEPT ![p] = @ \ {r}]
    BY <1>10 DEF InsertConflict, RecordFails, db
  <2>2. pc'[p] = "record" /\ records'[p] \subseteq records[p]
    BY <1>1, <2>1 DEF NextRecord, TypeOK
  <2>3. CataloguedAt(p)'
    BY <1>1, <2>1, <2>2, CataloguedKept
  <2> QED BY <1>1, <1>2, <2>1, <2>3 DEF NextRecord, TypeOK
<1>11. CASE InsertEvent(p)
  <2>1. PICK code \in work[p].events :
          IF work[p].events = {code}
          THEN NextRecord(p)
          ELSE /\ work' = [work EXCEPT ![p] = [work[p] EXCEPT !.events = work[p].events \ {code}]]
               /\ UNCHANGED pc
    BY <1>11 DEF InsertEvent
  <2>2. UNCHANGED <<live, snapshots, batch, records>> /\ pc[p] = "event" /\ work[p] \in WorkType
    BY <1>1, <1>11 DEF InsertEvent, TypeOK
  <2>3. /\ pc'[p] \in {"insert", "event"} => work'[p].record = work[p].record
        /\ \A q \in Process : q # p => pc'[q] = pc[q] /\ work'[q] = work[q]
    BY <1>1, <2>1, <2>2 DEF NextRecord, TypeOK, WorkType
  <2>4. CataloguedAt(p)'
    BY <1>1, <2>2, <2>3, CataloguedKept
  <2> QED BY <1>2, <2>2, <2>3, <2>4
<1>12. CASE \/ SelectFails(p) \/ LoginFails(p) \/ NoTargetsConfigured(p) \/ FetchFails(p)
            \/ FetchUnparseable(p) \/ AdvanceFails(p) \/ Crash(p) \/ AdvanceCursor(p)
  <2>1. Leave(p) /\ UNCHANGED <<live, snapshots>>
    BY <1>12 DEF SelectFails, LoginFails, NoTargetsConfigured, FetchFails, FetchUnparseable,
                 AdvanceFails, Crash, AdvanceCursor, db
  <2> QED BY <1>1, <1>2, <2>1, CataloguedLeave
<1> QED BY <1>3, <1>4, <1>5, <1>6, <1>7, <1>8, <1>9, <1>10, <1>11, <1>12 DEF Step, Failure

LEMMA CatalogueElsewhere ==
    ASSUME CatalogueInv, UNCHANGED vars \/ \E o \in Object : Environment(o)
    PROVE  CatalogueInv'
<1>1. live \subseteq live' /\ UNCHANGED <<snapshots, pc, batch, records, work>>
  BY DEF Environment, CatalogObject, Hit, Publish, vars, db, locals
<1>2. \A q \in Process : CataloguedAt(q)'
  BY <1>1, CataloguedKept DEF CatalogueInv
<1> QED BY <1>1, <1>2 DEF CatalogueInv, StoredCatalogued

(* No snapshot is stored of an object the catalogue does not have. *)
THEOREM CatalogueInvariant == Spec => []CatalogueInv
<1>1. ASSUME IngestInv, CatalogueInv, [Next]_vars PROVE CatalogueInv'
  BY <1>1, CatalogueStep, CatalogueElsewhere DEF Next
<1> QED BY <1>1, CatalogueInit, IngestInvariant, PTL DEF Spec

(* ------------------------------ the readers ---------------------------- *)

(* An object with a snapshot has a last one, whatever the table holds. *)
LEMMA LastSnapshotExists ==
    ASSUME NEW rows \in SUBSET SnapshotRow, IsFiniteSet(rows),
           NEW o, \E s \in rows : s.norad_cat_id = o
    PROVE  \E g \in rows : /\ g.norad_cat_id = o
                           /\ \A t \in rows : t.norad_cat_id = o => t.epoch <= g.epoch
<1> DEFINE S   == {t \in rows : t.norad_cat_id = o}
           key == [t \in S |-> t.epoch]
<1>1. IsFiniteSet(S) /\ S # {}
  BY FS_Subset
<1>2. \A t \in S : key[t] = t.epoch
  OBVIOUS
<1>3. key \in [S -> Int]
  BY DEF SnapshotRow
<1> HIDE DEF key
<1>4. PICK g \in S : \A t \in S : key[t] <= key[g]
  <2> HIDE DEF S
  <2> QED BY <1>1, <1>3, GreatestExists
<1> QED BY <1>2, <1>4

(* Both tables only grow, and so does the catalogue. *)
LEMMA TablesGrow ==
    ASSUME [Next]_vars
    PROVE  snapshots \subseteq snapshots' /\ live \subseteq live'
BY DEF Next, Step, Failure, Environment, vars, db, Start, SelectHot, SelectRotation, ReadCursor,
       SelectPrimary, SelectWrap, Login, NoTargetsConfigured, Fetch, FetchUnparseable, LookupUnchanged, LookupNew, InsertSnapshot,
       InsertConflict, InsertEvent, AdvanceCursor, SelectFails, LoginFails, FetchFails,
       RecordFails, AdvanceFails, Crash, CatalogObject, Hit, Publish

(* Only the SATCAT poller catalogues, and it stores no snapshot. *)
LEMMA CataloguingStoresNothing ==
    ASSUME [Next]_vars, NEW o \in live', o \notin live
    PROVE  snapshots' = snapshots
BY DEF Next, Step, Failure, Environment, vars, db, Start, SelectHot, SelectRotation, ReadCursor,
       SelectPrimary, SelectWrap, Login, NoTargetsConfigured, Fetch, FetchUnparseable, LookupUnchanged, LookupNew, InsertSnapshot,
       InsertConflict, InsertEvent, AdvanceCursor, SelectFails, LoginFails, FetchFails,
       RecordFails, AdvanceFails, Crash, CatalogObject, Hit, Publish

(* The epoch a reader is told is that of a stored snapshot of the object. *)
LEMMA ToldIsStored ==
    ASSUME IngestInv, NEW o, NEW told \in EpochsTold(o)
    PROVE  \E s \in snapshots : s.norad_cat_id = o /\ s.epoch = told
<1>1. PICK s \in SnapshotsServed(o) \cup
                 {t \in snapshots : \E e \in EventsServed(o) : e.new_snapshot_id = t.id} :
        s.epoch = told
  BY DEF EpochsTold
<1>2. CASE s \in SnapshotsServed(o)
  BY <1>1, <1>2 DEF SnapshotsServed
<1>3. CASE s \in snapshots /\ \E e \in EventsServed(o) : e.new_snapshot_id = s.id
  <2>1. PICK e \in audt_events : e.norad_cat_id = o /\ e.new_snapshot_id = s.id
    BY <1>3 DEF EventsServed
  <2>2. PICK t \in snapshots : t.id = e.new_snapshot_id /\ t.norad_cat_id = e.norad_cat_id
    BY DEF IngestInv, EventsJustified
  <2>3. t = s
    BY <1>3, <2>1, <2>2 DEF IngestInv, RowIds
  <2> QED BY <1>1, <1>3, <2>1, <2>2, <2>3
<1> QED BY <1>1, <1>2, <1>3

(* Whatever a reader was told, by either route, the snapshot route answers   *)
(* with that epoch or a later one from then on.                              *)
THEOREM ReadersMoveForward == Spec => ReadsNeverGoBack
<1> DEFINE Forward == \A o \in Object : \A told \in EpochsTold(o) :
              /\ SnapshotsServed(o)' # {}
              /\ \A s \in SnapshotsServed(o)' : s.epoch >= told
<1>1. ASSUME IngestInv, IngestInv', CatalogueInv', [Next]_vars PROVE Forward
  <2> SUFFICES ASSUME NEW o \in Object, NEW told \in EpochsTold(o)
               PROVE  /\ SnapshotsServed(o)' # {}
                      /\ \A s \in SnapshotsServed(o)' : s.epoch >= told
    OBVIOUS
  <2>1. PICK s \in snapshots : s.norad_cat_id = o /\ s.epoch = told
    BY <1>1, ToldIsStored
  <2>2. s \in snapshots'
    BY <1>1, TablesGrow
  <2>3. (TypeOK /\ IsFiniteSet(snapshots))'
    BY <1>1 DEF IngestInv, CatalogueInv, StoredCatalogued
  <2>4. SnapshotsServed(o)' # {}
    <3>1. snapshots' \in SUBSET SnapshotRow /\ IsFiniteSet(snapshots')
      BY <2>3 DEF TypeOK
    <3>2. \E t \in snapshots' : t.norad_cat_id = o
      BY <2>1, <2>2
    <3> QED BY <3>1, <3>2, LastSnapshotExists DEF SnapshotsServed
  <2>5. \A t \in SnapshotsServed(o)' : t.epoch >= told
    <3>1. told \in Int
      BY <1>1, <2>1 DEF IngestInv, TypeOK, SnapshotRow
    <3>2. ASSUME NEW t \in SnapshotsServed(o)' PROVE t.epoch \in Int /\ s.epoch <= t.epoch
      BY <2>1, <2>2, <2>3 DEF SnapshotsServed, TypeOK, SnapshotRow
    <3> QED BY <2>1, <3>1, <3>2
  <2> QED BY <2>4, <2>5
<1>2. IngestInv /\ IngestInv' /\ CatalogueInv' /\ [Next]_vars => [Forward]_vars
  BY <1>1
<1> HIDE DEF Forward
<1>3. Spec => [][Forward]_vars
  BY <1>2, IngestInvariant, CatalogueInvariant, PTL DEF Spec
<1> QED BY <1>3 DEF ReadsNeverGoBack, Forward

(* The 404 that would be decided on now was the case during the request. *)
ReaderInv ==
    /\ asking \in [Client -> Object \cup {NotAsking}] /\ moments = [c \in Client |-> moments[c]]
    /\ NotFoundWasTrue

LEMMA ReaderInit == ReadInit => ReaderInv
BY DEF ReadInit, ReaderInv, NotFoundWasTrue

LEMMA ReaderStep ==
    ASSUME IngestInv, CatalogueInv, CatalogueInv', ReaderInv, [ReadNext]_readVars
    PROVE  ReaderInv'
<1>1. CASE UNCHANGED readVars
  BY <1>1 DEF readVars, vars, db, ReaderInv, NotFoundWasTrue, NotFoundError
<1>2. ASSUME NEW c \in Client, AnswerNotFound(c) PROVE ReaderInv'
  BY <1>2 DEF AnswerNotFound, vars, db, ReaderInv, NotFoundWasTrue, NotFoundError
<1>3. ASSUME NEW c \in Client, NEW o \in Object, FindNoSnapshot(c, o) PROVE ReaderInv'
  <2>1. /\ asking' = [asking EXCEPT ![c] = o] /\ moments' = [moments EXCEPT ![c] = {Situation(o)}]
        /\ UNCHANGED live /\ SnapshotsServed(o) = {}
    BY <1>3 DEF FindNoSnapshot, vars, db
  <2>2. \A s \in snapshots : s.norad_cat_id # o
    <3>1. snapshots \in SUBSET SnapshotRow /\ IsFiniteSet(snapshots)
      BY DEF IngestInv, TypeOK, CatalogueInv, StoredCatalogued
    <3>2. ASSUME NEW s \in snapshots, s.norad_cat_id = o PROVE FALSE
      <4>1. \E t \in snapshots : t.norad_cat_id = o
        BY <3>2
      <4>2. PICK g \in snapshots :
               g.norad_cat_id = o /\ \A t \in snapshots : t.norad_cat_id = o => t.epoch <= g.epoch
        BY <3>1, <4>1, LastSnapshotExists
      <4>3. g \in SnapshotsServed(o)
        BY <4>2 DEF SnapshotsServed
      <4> QED BY <2>1, <4>3
    <3> QED BY <3>2
  <2>3. Situation(o) = NotFoundError(o)
    BY <2>2 DEF Situation, NotFoundError
  <2> QED BY <2>1, <2>3 DEF ReaderInv, NotFoundWasTrue, NotFoundError
<1>4. CASE PollersMove
  <2>1. /\ UNCHANGED asking
        /\ moments' = [c \in Client |->
              IF asking[c] = NotAsking THEN {} ELSE moments[c] \cup {Situation(asking[c])'}]
        /\ [Next]_vars
    BY <1>4 DEF PollersMove
  <2>2. ASSUME NEW c \in Client, asking[c] # NotAsking
        PROVE  NotFoundError(asking[c])' \in moments'[c]
    <3> DEFINE o == asking[c]
    <3>1. moments'[c] = moments[c] \cup {Situation(o)'} /\ NotFoundError(o) \in moments[c]
      BY <2>1, <2>2 DEF ReaderInv, NotFoundWasTrue
    <3>2. CASE o \in live <=> o \in live'
      <4>1. NotFoundError(asking[c])' = NotFoundError(o)
        BY <2>1, <3>2 DEF NotFoundError
      <4> QED BY <3>1, <4>1
    <3>3. CASE o \in live' /\ o \notin live
      <4>1. \A s \in snapshots' : s.norad_cat_id # o
        BY <2>1, <3>3, CataloguingStoresNothing DEF CatalogueInv, StoredCatalogued
      <4>2. Situation(o)' = NotFoundError(asking[c])'
        BY <2>1, <3>3, <4>1 DEF Situation, NotFoundError
      <4> QED BY <3>1, <4>2
    <3>4. o \in live => o \in live'
      BY <2>1, TablesGrow
    <3> QED BY <3>2, <3>3, <3>4
  <2> QED BY <2>1, <2>2 DEF ReaderInv, NotFoundWasTrue
<1> QED BY <1>1, <1>2, <1>3, <1>4 DEF ReadNext

(* Whichever 404 the second statement decides on, it was the case at some    *)
(* moment of the request.                                                    *)
THEOREM NotFoundAlwaysTrue == ReadSpec => []NotFoundWasTrue
<1>1. ReaderInv => NotFoundWasTrue
  BY DEF ReaderInv
<1>2. IngestInv /\ CatalogueInv /\ CatalogueInv' /\ ReaderInv /\ [ReadNext]_readVars => ReaderInv'
  BY ReaderStep
<1> QED BY <1>1, <1>2, ReaderInit, ReadersAreHarmless, IngestInvariant, CatalogueInvariant, PTL
       DEF ReadSpec
=============================================================================
