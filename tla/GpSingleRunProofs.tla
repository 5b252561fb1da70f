-------------------------- MODULE GpSingleRunProofs --------------------------
(***************************************************************************)
(* What holds as long as runs do not overlap and Space-Track dates a new   *)
(* element set after the one it replaces.  Comparing with the gp_id of the *)
(* latest snapshot is all the dedup process_response needs, and a failure  *)
(* costs the events of one snapshot at most.  The arguments are about      *)
(* time: Space-Track numbers and dates the element sets of an object in    *)
(* the same order, a single run never holds an answer older than what is   *)
(* stored, and so rows are stored in that order too.                       *)
(***************************************************************************)
EXTENDS GpPollerProofs, GpPollerRefinement

(* Of two element sets of one object, stored or not, a is not the newer one. *)
NotNewer(a, b) ==
    a.norad_cat_id = b.norad_cat_id =>
        \/ a.gp_id = b.gp_id /\ a.epoch = b.epoch
        \/ a.gp_id[2] < b.gp_id[2] /\ a.epoch < b.epoch

Older(a, b) ==
    a.norad_cat_id = b.norad_cat_id => a.gp_id[2] < b.gp_id[2] /\ a.epoch < b.epoch

Own(a) == a.gp_id[1] = a.norad_cat_id

(* Space-Track has issued it. *)
Issued(a) ==
    /\ Own(a) /\ published[a.norad_cat_id] # NoElements
    /\ NotNewer(a, published[a.norad_cat_id])

(* Of all that is stored and answered. *)
Past ==
    /\ \A o \in Object : published[o] # NoElements => Own(published[o])
    /\ \A s \in snapshots : Issued(s) /\ LastSnapshots(s.norad_cat_id) # {}

Answered(p) ==
    \A r \in records[p] :
        /\ Issued(r) /\ \A s \in snapshots : NotNewer(s, r)
        /\ \A t \in records[p] : t.norad_cat_id = r.norad_cat_id => t = r
        /\ pc[p] = "insert" => work[p].record.norad_cat_id # r.norad_cat_id

News(p) ==
    pc[p] = "insert" =>
        Issued(work[p].record) /\ \A s \in snapshots : Older(s, work[p].record)

DedupInv == Past /\ \A p \in Process : Answered(p) /\ News(p)

-----------------------------------------------------------------------------
LEMMA DedupInit == Init => DedupInv
BY DEF Init, DedupInv, Past, Answered, News

(* Element sets and rows have the types the order needs. *)
LEMMA OrderTypes ==
    ASSUME TypeOK
    PROVE  /\ \A s \in snapshots : s \in SnapshotRow
           /\ \A o \in Object : published[o] # NoElements =>
                 published[o] \in AnyElementSet /\ published[o].norad_cat_id = o
           /\ \A p \in Process : records[p] \subseteq ElementSet
BY DEF TypeOK

(* Steps that touch neither tables nor Space-Track, nor bring news. *)
LEMMA DedupQuiet ==
    ASSUME DedupInv, UNCHANGED <<snapshots, published>>,
           \A p \in Process :
              /\ records'[p] \subseteq records[p]
              /\ pc'[p] = "insert" => pc[p] = "insert" /\ work'[p].record = work[p].record
    PROVE  DedupInv'
<1>1. Past'
  BY DEF DedupInv, Past, Issued, NotNewer, Own, LastSnapshots
<1>2. ASSUME NEW p \in Process PROVE Answered(p)' /\ News(p)'
  BY <1>2 DEF DedupInv, Answered, News, Issued, NotNewer, Own, Older
<1> QED BY <1>1, <1>2 DEF DedupInv

(* A new element set is numbered and dated after the one it replaces. *)
LEMMA DedupPublish ==
    ASSUME TypeOK, DedupInv, \A p \in Process : InHand(p),
           EpochStep \subseteq Nat \ {0}, NEW o \in Object, Publish(o)
    PROVE  DedupInv'
<1> DEFINE old == published[o]
           new == published'[o]
<1>1. /\ UNCHANGED <<snapshots, records, pc, work>>
      /\ \A u \in Object \ {o} : published'[u] = published[u]
  BY DEF Publish, db, locals, TypeOK
<1>2. /\ new.norad_cat_id = o /\ Own(new) /\ new # NoElements
      /\ old # NoElements =>
            new.gp_id[2] = old.gp_id[2] + 1 /\ \E step \in EpochStep : new.epoch = old.epoch + step
  <2>1. PICK step \in EpochStep, orbit \in Orbit \cup Garbled :
           new = [norad_cat_id |-> o, orbit |-> orbit,
                  gp_id |-> <<o, IF old = NoElements THEN 1 ELSE old.gp_id[2] + 1>>,
                  epoch |-> (IF old = NoElements THEN 0 ELSE old.epoch) + step]
    BY DEF Publish, TypeOK
  <2>2. old # NoElements => old.gp_id[2] \in Nat /\ old.epoch \in Int
    BY DEF TypeOK, AnyElementSet, GpId
  <2>3. new # NoElements
    BY <2>1, <2>2, MarkerAssumption DEF GpId
  <2> QED BY <2>1, <2>3 DEF Own
<1>3. ASSUME NEW a, a.norad_cat_id \in Object, Issued(a), a.gp_id[2] \in Nat, a.epoch \in Int
      PROVE  Issued(a)'
  <2>1. CASE a.norad_cat_id # o
    BY <1>1, <1>3, <2>1 DEF Issued, NotNewer, Own
  <2>2. CASE a.norad_cat_id = o
    <3>1. old # NoElements /\ old.norad_cat_id = o /\ old.gp_id[2] \in Nat /\ old.epoch \in Int
      BY <1>3, <2>2 DEF Issued, TypeOK, AnyElementSet, GpId
    <3>2. a.gp_id[2] <= old.gp_id[2] /\ a.epoch <= old.epoch
      BY <1>3, <2>2, <3>1 DEF Issued, NotNewer
    <3>3. PICK step \in EpochStep : new.epoch = old.epoch + step
      BY <1>2, <3>1
    <3>4. step \in Nat /\ step > 0
      OBVIOUS
    <3> HIDE DEF old, new
    <3>5. a.gp_id[2] < new.gp_id[2]
      BY <1>2, <1>3, <3>1, <3>2
    <3>6. a.epoch < new.epoch
      BY <1>3, <3>1, <3>2, <3>3, <3>4
    <3> QED BY <1>2, <1>3, <2>2, <3>5, <3>6 DEF Issued, new, NotNewer, Own
  <2> QED BY <2>1, <2>2
<1>4. Past'
  <2>1. \A u \in Object : published'[u] # NoElements => Own(published[u])'
    BY <1>1, <1>2 DEF DedupInv, Past, Own
  <2>2. \A s \in snapshots : Issued(s)'
    BY <1>3 DEF DedupInv, Past, TypeOK, SnapshotRow, GpId
  <2> QED BY <1>1, <2>1, <2>2 DEF DedupInv, Past, LastSnapshots
<1>5. ASSUME NEW p \in Process PROVE Answered(p)' /\ News(p)'
  <2>1. \A r \in records[p] : Issued(r)'
    BY <1>3 DEF DedupInv, Answered, TypeOK, ElementSet, GpId
  <2>2. pc[p] = "insert" => Issued(work[p].record)'
    <3> SUFFICES ASSUME pc[p] = "insert" PROVE Issued(work[p].record)'
      OBVIOUS
    <3>1. work[p].record \in ElementSet
      BY DEF InHand
    <3>2. PICK a : a = work[p].record /\ a = work'[p].record
      BY <1>1
    <3>3. Issued(a) /\ a.norad_cat_id \in Object /\ a.gp_id[2] \in Nat /\ a.epoch \in Int
      BY <3>1, <3>2 DEF DedupInv, News, ElementSet, GpId
    <3>4. Issued(a)'
      BY <1>3, <3>3
    <3> QED BY <3>2, <3>4
  <2> QED BY <1>1, <2>1, <2>2 DEF DedupInv, Answered, News, NotNewer, Older
<1> QED BY <1>4, <1>5 DEF DedupInv

(* The answer holds each object's latest element set, of which no row is newer. *)
LEMMA DedupFetch ==
    ASSUME TypeOK, DedupInv, \A p, q \in Process : p = q, NEW p \in Process, Fetch(p)
    PROVE  DedupInv'
<1>1. /\ UNCHANGED <<snapshots, published, work>> /\ pc'[p] = "record"
      /\ records'[p] = Answer(Targets(p)) /\ Targets(p) \subseteq Object
  BY DEF Fetch, Goto, db, TypeOK, Targets, BatchType
<1>2. Past'
  BY <1>1 DEF DedupInv, Past, Issued, NotNewer, Own, LastSnapshots
<1>3. \A r \in records'[p] : \E o \in Object :
         r = published[o] /\ published[o] # NoElements /\ r.norad_cat_id = o
  BY <1>1 DEF Answer, TypeOK
<1>4. \A r \in records'[p] : Issued(r) /\ \A s \in snapshots : NotNewer(s, r)
  BY <1>3 DEF DedupInv, Past, Issued, NotNewer
<1>5. \A r, t \in records'[p] : t.norad_cat_id = r.norad_cat_id => t = r
  BY <1>3
<1>6. Answered(p)' /\ News(p)'
  BY <1>1, <1>4, <1>5 DEF Answered, News, Issued, NotNewer, Own
<1> QED BY <1>2, <1>6 DEF DedupInv

(* The record differs from the latest row, hence is newer than every row.   *)
LEMMA DedupLookup ==
    ASSUME TypeOK, DedupInv, \A p, q \in Process : p = q, NEW p \in Process, LookupNew(p)
    PROVE  DedupInv'
<1>1. /\ UNCHANGED <<snapshots, published>> /\ pc[p] = "record" /\ pc'[p] = "insert"
  BY DEF LookupNew, Goto, db, TypeOK
<1>2. PICK r \in records[p] : \E prev \in LastSnapshots(r.norad_cat_id) \cup {NoSnapshot} :
         /\ prev = NoSnapshot => LastSnapshots(r.norad_cat_id) = {}
         /\ prev # NoSnapshot => ~ IsSameElementSet(prev, r)
         /\ work' = [work EXCEPT ![p] = [NoWork EXCEPT !.record = r, !.prev = prev]]
         /\ records' = [records EXCEPT ![p] = @ \ {r}]
  BY DEF LookupNew
<1>3. PICK prev \in LastSnapshots(r.norad_cat_id) \cup {NoSnapshot} :
         /\ prev = NoSnapshot => LastSnapshots(r.norad_cat_id) = {}
         /\ prev # NoSnapshot => ~ IsSameElementSet(prev, r)
         /\ work'[p].record = r /\ records'[p] = records[p] \ {r}
  BY <1>2 DEF TypeOK, NoWork
<1>4. r \in ElementSet /\ Issued(r) /\ \A s \in snapshots : NotNewer(s, r)
  BY DEF DedupInv, Answered, TypeOK
<1>5. ASSUME NEW s \in snapshots, s.norad_cat_id = r.norad_cat_id
      PROVE  s.gp_id[2] < r.gp_id[2] /\ s.epoch < r.epoch
  <2>1. prev \in LastSnapshots(r.norad_cat_id) /\ prev.gp_id # r.gp_id
    BY <1>3, <1>5 DEF DedupInv, Past, IsSameElementSet
  <2>2. /\ prev \in snapshots /\ prev.norad_cat_id = r.norad_cat_id /\ s.epoch <= prev.epoch
    BY <1>5, <2>1 DEF LastSnapshots
  <2>3. prev.epoch < r.epoch
    BY <1>4, <2>1, <2>2 DEF NotNewer
  <2>4. s.epoch \in Int /\ prev.epoch \in Int /\ r.epoch \in Int
    BY <1>4, <2>2 DEF TypeOK, SnapshotRow, ElementSet
  <2>5. s.epoch < r.epoch /\ s.epoch # r.epoch
    BY <2>2, <2>3, <2>4
  <2> QED BY <1>4, <1>5, <2>5 DEF NotNewer
<1>6. Past'
  BY <1>1 DEF DedupInv, Past, Issued, NotNewer, Own, LastSnapshots
<1>7. News(p)'
  BY <1>1, <1>3, <1>4, <1>5 DEF News, Older, Issued, NotNewer, Own
<1>8. Answered(p)'
  <2>1. \A t \in records'[p] : t \in records[p] /\ t.norad_cat_id # r.norad_cat_id
    BY <1>3 DEF DedupInv, Answered
  <2> QED BY <1>1, <1>3, <2>1 DEF DedupInv, Answered, Issued, NotNewer, Own
<1> QED BY <1>6, <1>7, <1>8 DEF DedupInv

(* The row stored is the latest of its object. *)
LEMMA DedupInsert ==
    ASSUME TypeOK, DedupInv, \A p, q \in Process : p = q, NEW p \in Process, InHand(p),
           InsertSnapshot(p)
    PROVE  DedupInv'
<1> DEFINE r   == work[p].record
           row == SnapshotOf(r, snapshot_seq + 1)
<1>1. /\ snapshots' = snapshots \cup {row} /\ UNCHANGED <<published, records>>
      /\ pc[p] = "insert" /\ pc'[p] # "insert"
  BY DEF InsertSnapshot, NextRecord, TypeOK
<1>2. /\ row.norad_cat_id = r.norad_cat_id /\ row.gp_id = r.gp_id /\ row.epoch = r.epoch
      /\ r.norad_cat_id \in Object /\ r.epoch \in Int
  BY <1>1 DEF SnapshotOf, InHand, ElementSet
<1>3. Issued(r) /\ \A s \in snapshots : Older(s, r)
  BY <1>1 DEF DedupInv, News
<1> HIDE DEF row, r
<1>4. Issued(row)
  BY <1>2, <1>3 DEF Issued, Own, NotNewer
<1>5. \A s \in snapshots' : Issued(s)'
  BY <1>1, <1>4 DEF DedupInv, Past, Issued, Own, NotNewer
<1>6. ASSUME NEW s \in snapshots' PROVE LastSnapshots(s.norad_cat_id)' # {}
  <2>1. CASE s.norad_cat_id = r.norad_cat_id
    <3>1. \A t \in snapshots' : t.norad_cat_id = r.norad_cat_id => t.epoch <= row.epoch
      BY <1>1, <1>2, <1>3 DEF Older, TypeOK, SnapshotRow
    <3> QED BY <1>1, <1>2, <2>1, <3>1 DEF LastSnapshots
  <2>2. CASE s.norad_cat_id # r.norad_cat_id
    <3>1. s \in snapshots
      BY <1>1, <1>2, <2>2
    <3>2. PICK t \in LastSnapshots(s.norad_cat_id) : TRUE
      BY <3>1 DEF DedupInv, Past
    <3>3. t \in LastSnapshots(s.norad_cat_id)'
      BY <1>1, <1>2, <2>2, <3>2 DEF LastSnapshots
    <3> QED BY <3>3
  <2> QED BY <2>1, <2>2
<1>7. Past'
  BY <1>1, <1>5, <1>6 DEF DedupInv, Past, Own
<1>8. Answered(p)' /\ News(p)'
  <2>1. \A q \in records[p] : q.norad_cat_id # r.norad_cat_id
    BY <1>1 DEF DedupInv, Answered, r
  <2>2. \A q \in records[p] : NotNewer(row, q)
    BY <1>2, <2>1 DEF NotNewer
  <2> QED BY <1>1, <2>2 DEF DedupInv, Answered, News, Issued, NotNewer, Own
<1> QED BY <1>7, <1>8 DEF DedupInv

LEMMA DedupStep ==
    ASSUME TypeOK, DedupInv, \A p, q \in Process : p = q, NEW p \in Process, InHand(p),
           Step(p) \/ Failure(p)
    PROVE  DedupInv'
<1>1. CASE Fetch(p)
  BY <1>1, DedupFetch
<1>2. CASE LookupNew(p)
  BY <1>2, DedupLookup
<1>3. CASE InsertSnapshot(p)
  BY <1>3, DedupInsert
<1>4. ASSUME UNCHANGED <<snapshots, published>>, records'[p] \subseteq records[p],
             pc'[p] # "insert"
      PROVE  DedupInv'
  BY <1>4, DedupQuiet
<1>5. CASE Start(p) \/ SelectHot(p) \/ SelectRotation(p) \/ Login(p)
  <2>1. UNCHANGED <<snapshots, published, records>> /\ pc'[p] # "insert"
    BY <1>5 DEF Start, SelectHot, SelectRotation, ReadCursor, SelectPrimary, SelectWrap, Login,
                Goto, db, locals, TypeOK
  <2> QED BY <1>4, <2>1
<1>6. CASE LookupUnchanged(p)
  <2>1. UNCHANGED <<snapshots, published, pc>> /\ pc[p] = "record"
    BY <1>6 DEF LookupUnchanged, db
  <2>2. records'[p] \subseteq records[p]
    BY <1>6 DEF LookupUnchanged, TypeOK
  <2> QED BY <1>4, <2>1, <2>2
<1>7. CASE InsertConflict(p) \/ InsertEvent(p)
  <2>1. UNCHANGED <<snapshots, published, records>> /\ pc'[p] # "insert"
    BY <1>7 DEF InsertConflict, InsertEvent, NextRecord, db, TypeOK
  <2> QED BY <1>4, <2>1
<1>8. CASE RecordFails(p)
  <2>1. UNCHANGED <<snapshots, published>> /\ pc'[p] = "record"
    BY <1>8 DEF RecordFails, NextRecord, db, TypeOK
  <2>2. records'[p] \subseteq records[p]
    BY <1>8 DEF RecordFails, TypeOK
  <2> QED BY <1>4, <2>1, <2>2
<1>9. CASE \/ SelectFails(p) \/ LoginFails(p) \/ NoTargetsConfigured(p) \/ FetchFails(p)
           \/ FetchUnparseable(p) \/ AdvanceFails(p) \/ Crash(p) \/ AdvanceCursor(p)
  <2>1. Leave(p) /\ UNCHANGED <<snapshots, published>>
    BY <1>9 DEF SelectFails, LoginFails, NoTargetsConfigured, FetchFails, FetchUnparseable,
                AdvanceFails, Crash, AdvanceCursor, db
  <2>2. records'[p] = {} /\ pc'[p] = "idle"
    BY <2>1 DEF Leave, TypeOK
  <2> QED BY <1>4, <2>1, <2>2
<1> QED BY <1>1, <1>2, <1>3, <1>5, <1>6, <1>7, <1>8, <1>9 DEF Step, Failure

(* The inductive invariant of a single run: all that is stored or answered  *)
(* was issued by Space-Track, no row is newer than a record still to be     *)
(* processed, and the record in hand is newer than every row of its object. *)
THEOREM DedupInvariant ==
    ASSUME \A p, q \in Process : p = q, EpochStep \subseteq Nat \ {0}
    PROVE  Spec => []DedupInv
<1>1. ASSUME IngestInv, DedupInv, [Next]_vars PROVE DedupInv'
  <2>1. TypeOK /\ \A p \in Process : InHand(p)
    BY <1>1 DEF IngestInv
  <2>2. ASSUME NEW p \in Process, Step(p) \/ Failure(p) PROVE DedupInv'
    BY <1>1, <2>1, <2>2, DedupStep
  <2>3. ASSUME NEW o \in Object, Publish(o) PROVE DedupInv'
    BY <1>1, <2>1, <2>3, DedupPublish
  <2>4. CASE UNCHANGED vars \/ \E o \in Object : CatalogObject(o) \/ Hit(o)
    <3>1. UNCHANGED <<snapshots, published, records, pc, work>>
      BY <2>4 DEF vars, db, locals, CatalogObject, Hit
    <3> QED BY <1>1, <3>1, DedupQuiet
  <2> QED BY <1>1, <2>2, <2>3, <2>4 DEF Next, Environment
<1> QED BY <1>1, DedupInit, IngestInvariant, PTL DEF Spec

(* As long as runs do not overlap and Space-Track dates a new element set   *)
(* after the one it replaces, a record that get_last_snapshot did not match *)
(* is in no row at all, whatever fails or crashes on the way.               *)
THEOREM DedupEnough ==
    ASSUME \A p, q \in Process : p = q, EpochStep \subseteq Nat \ {0}
    PROVE  Spec => []DedupSufficient
<1>1. ASSUME TypeOK, DedupInv, NEW p \in Process, pc[p] = "insert"
      PROVE  ~ Stored(work[p].record.gp_id)
  <2>1. Issued(work[p].record) /\ \A s \in snapshots : Issued(s) /\ Older(s, work[p].record)
    BY <1>1 DEF DedupInv, Past, News
  <2>2. ASSUME NEW s \in snapshots, s.gp_id = work[p].record.gp_id PROVE FALSE
    <3>1. s.norad_cat_id = work[p].record.norad_cat_id
      BY <2>1, <2>2 DEF Issued, Own
    <3>2. s.gp_id[2] < s.gp_id[2] /\ s.gp_id[2] \in Nat
      BY <1>1, <2>1, <2>2, <3>1 DEF Older, TypeOK, SnapshotRow, GpId
    <3> QED BY <3>2
  <2> QED BY <2>2 DEF Stored
<1>2. TypeOK /\ DedupInv => DedupSufficient
  BY <1>1 DEF DedupSufficient
<1> QED BY <1>2, DedupInvariant, TypeCorrect, PTL

-----------------------------------------------------------------------------
(* Rows are stored in the order of their epochs, and prev is the row before *)
(* the new one.                                                             *)
InOrder ==
    \A s, t \in snapshots : s.norad_cat_id = t.norad_cat_id /\ s.id < t.id => s.epoch < t.epoch

NextToLast(p) ==
    /\ pc[p] = "insert" => \A s \in snapshots :
          s.norad_cat_id = work[p].record.norad_cat_id =>
             work[p].prev # NoSnapshot /\ s.id <= work[p].prev.id
    /\ pc[p] = "event" => \A s \in snapshots :
          s.norad_cat_id = work[p].record.norad_cat_id /\ s.id < work[p].new_id =>
             s.id <= work[p].prev.id

LossFew == IsFiniteSet(Unreported) /\ Cardinality(Unreported) <= faults

LossInv == InOrder /\ LossFew /\ \A p \in Process : NextToLast(p)

LEMMA LossInit == Init => LossInv
<1> SUFFICES ASSUME Init PROVE LossInv
  OBVIOUS
<1>1. Unreported = {} /\ faults = 0
  BY DEF Init, Unreported
<1>2. LossFew
  BY <1>1, FS_EmptySet DEF LossFew
<1> QED BY <1>2 DEF Init, LossInv, InOrder, NextToLast

(* Nothing more goes unreported, or one snapshot more by a failure. *)
LEMMA LossKept ==
    ASSUME TypeOK, LossFew, faults' \in Nat,
           \/ Unreported' \subseteq Unreported /\ faults' >= faults
           \/ faults' = faults + 1 /\ \E t : Unreported' \subseteq Unreported \cup {t}
    PROVE  LossFew'
<1>1. IsFiniteSet(Unreported) /\ Cardinality(Unreported) \in Nat /\ Cardinality(Unreported) <= faults
      /\ faults \in Nat
  BY FS_CardinalityType DEF LossFew, TypeOK
<1>2. CASE Unreported' \subseteq Unreported /\ faults' >= faults
  <2>1. /\ IsFiniteSet(Unreported') /\ Cardinality(Unreported') \in Nat
        /\ Cardinality(Unreported') <= Cardinality(Unreported)
    BY <1>1, <1>2, FS_Subset, FS_CardinalityType
  <2> QED BY <1>1, <1>2, <2>1 DEF LossFew
<1>3. ASSUME faults' = faults + 1, NEW t, Unreported' \subseteq Unreported \cup {t}
      PROVE  LossFew'
  <2>1. /\ IsFiniteSet(Unreported \cup {t})
        /\ Cardinality(Unreported \cup {t}) <= Cardinality(Unreported) + 1
    <3>1. \A S : IsFiniteSet(S) => /\ IsFiniteSet(S \cup {t})
                                   /\ Cardinality(S) \in Nat
                                   /\ Cardinality(S \cup {t}) <= Cardinality(S) + 1
      BY FS_AddElement, FS_CardinalityType
    <3> QED BY <1>1, <3>1
  <2>2. /\ IsFiniteSet(Unreported') /\ Cardinality(Unreported') \in Nat
        /\ Cardinality(Unreported') <= Cardinality(Unreported \cup {t})
    BY <1>3, <2>1, FS_Subset, FS_CardinalityType
  <2>3. Cardinality(Unreported \cup {t}) \in Nat
    BY <2>1, FS_CardinalityType
  <2> QED BY <1>1, <1>3, <2>1, <2>2, <2>3 DEF LossFew
<1> QED BY <1>2, <1>3

(* Only the one process has events still to write. *)
LEMMA PendingOfOne ==
    ASSUME \A p, q \in Process : p = q, NEW p \in Process, NEW id
    PROVE  /\ Pending(id) = IF pc[p] = "event" /\ work[p].new_id = id THEN work[p].events ELSE {}
           /\ Pending(id)' = IF pc'[p] = "event" /\ work'[p].new_id = id THEN work'[p].events ELSE {}
BY DEF Pending

(* Steps that leave the tables and what is to be reported alone. *)
LEMMA LossQuiet ==
    ASSUME TypeOK, LossInv, \A p, q \in Process : p = q, NEW p \in Process,
           UNCHANGED <<snapshots, audt_events>>, pc[p] # "event", pc'[p] # "event",
           faults' \in Nat, faults' >= faults, NextToLast(p)'
    PROVE  LossInv'
<1>1. \A id : Pending(id)' = Pending(id)
  BY PendingOfOne
<1>2. Unreported' = Unreported
  BY <1>1 DEF Unreported, Successive, Logged
<1>3. InOrder' /\ LossFew'
  BY <1>2, LossKept DEF LossInv, InOrder
<1> QED BY <1>3 DEF LossInv

(* A failure in the middle of a row's events costs what is left of them.    *)
LEMMA LossByFailure ==
    ASSUME TypeOK, LossInv, \A p, q \in Process : p = q, NEW p \in Process, InHand(p),
           BeingReported(p), RowIds,
           UNCHANGED <<snapshots, audt_events>>, pc[p] = "event", pc'[p] \in {"record", "idle"},
           faults' \in Nat, faults' = faults + 1
    PROVE  LossInv'
<1> DEFINE row == SnapshotOf(work[p].record, work[p].new_id)
<1>1. row \in snapshots /\ row.id = work[p].new_id
  BY DEF BeingReported, SnapshotOf
<1> HIDE DEF row
<1>2. \A t \in snapshots \ {row} : t.id # work[p].new_id
  BY <1>1 DEF RowIds
<1>3. \A t \in snapshots \ {row} : Pending(t.id)' = Pending(t.id)
  BY <1>2, PendingOfOne
<1>4. Unreported' \subseteq Unreported \cup {row}
  BY <1>3 DEF Unreported, Successive, Logged
<1>5. LossFew'
  BY <1>4, LossKept DEF LossInv
<1>6. InOrder' /\ NextToLast(p)'
  BY DEF LossInv, InOrder, NextToLast
<1> QED BY <1>5, <1>6 DEF LossInv

(* One event: what was to be reported of the pair is now logged. *)
LEMMA LossEvent ==
    ASSUME TypeOK, LossInv, \A p, q \in Process : p = q, NEW p \in Process, InHand(p),
           BeingReported(p), RowIds, faults' \in Nat, InsertEvent(p)
    PROVE  LossInv'
<1>1. PICK code, e :
         /\ code \in work[p].events /\ audt_events' = audt_events \cup {e} /\ e.event_type_code = code
         /\ e.prev_snapshot_id = work[p].prev.id /\ e.new_snapshot_id = work[p].new_id
         /\ \/ pc'[p] = "record" /\ work[p].events = {code}
            \/ /\ pc'[p] = "event" /\ work'[p].new_id = work[p].new_id
               /\ work'[p].events = work[p].events \ {code} /\ work'[p].prev = work[p].prev
               /\ work'[p].record = work[p].record
  <2>1. PICK code \in work[p].events :
          /\ audt_events' = audt_events \cup
                {[id |-> event_seq + 1, norad_cat_id |-> work[p].record.norad_cat_id,
                  event_type_code |-> code, prev_snapshot_id |-> work[p].prev.id,
                  new_snapshot_id |-> work[p].new_id]}
          /\ IF work[p].events = {code}
             THEN NextRecord(p)
             ELSE /\ work' = [work EXCEPT ![p].events = @ \ {code}]
                  /\ UNCHANGED pc
    BY DEF InsertEvent
  <2>2. \/ pc'[p] = "record" /\ work[p].events = {code}
        \/ /\ pc'[p] = "event" /\ work'[p].new_id = work[p].new_id
           /\ work'[p].events = work[p].events \ {code} /\ work'[p].prev = work[p].prev
           /\ work'[p].record = work[p].record
    BY <2>1 DEF NextRecord, TypeOK, WorkType, InsertEvent
  <2> DEFINE e == [id |-> event_seq + 1, norad_cat_id |-> work[p].record.norad_cat_id,
                   event_type_code |-> code, prev_snapshot_id |-> work[p].prev.id,
                   new_snapshot_id |-> work[p].new_id]
  <2>3. /\ audt_events' = audt_events \cup {e} /\ e.event_type_code = code
        /\ e.prev_snapshot_id = work[p].prev.id /\ e.new_snapshot_id = work[p].new_id
    BY <2>1
  <2> HIDE DEF e
  <2> QED BY <2>2, <2>3
<1>2. UNCHANGED <<snapshots, faults>> /\ pc[p] = "event"
  BY DEF InsertEvent
<1>3. work[p].new_id \in Nat /\ work[p].prev \in snapshots
      /\ work[p].prev.norad_cat_id = work[p].record.norad_cat_id /\ work[p].prev.id < work[p].new_id
  BY <1>2 DEF BeingReported, InHand, TypeOK, WorkType
<1>4. ASSUME NEW s \in snapshots, NEW t \in snapshots, Successive(s, t)
      PROVE  Logged(s, t) \cup Pending(t.id) \subseteq Logged(s, t)' \cup Pending(t.id)'
  <2>1. Logged(s, t) \subseteq Logged(s, t)'
    BY <1>1 DEF Logged
  <2>2. CASE t.id # work[p].new_id
    BY <1>2, <2>1, <2>2, PendingOfOne
  <2>3. CASE t.id = work[p].new_id
    <3>1. t.norad_cat_id = work[p].record.norad_cat_id
      BY <1>2, <2>3 DEF BeingReported, RowIds, SnapshotOf
    <3>2. s.id <= work[p].prev.id
      BY <1>2, <1>4, <2>3, <3>1 DEF LossInv, NextToLast, Successive
    <3>3. s.id = work[p].prev.id
      BY <1>3, <1>4, <2>3, <3>1, <3>2 DEF Successive, TypeOK, SnapshotRow
    <3>4. code \in Logged(s, t)'
      BY <1>1, <2>3, <3>3 DEF Logged
    <3>5. Pending(t.id) = work[p].events
      BY <1>2, <2>3, PendingOfOne
    <3>6. work[p].events \subseteq {code} \cup Pending(t.id)'
      BY <1>1, <2>3, PendingOfOne
    <3> QED BY <2>1, <3>4, <3>5, <3>6
  <2> QED BY <2>2, <2>3
<1>5. Unreported' \subseteq Unreported
  BY <1>2, <1>4 DEF Unreported, Successive
<1>6. LossFew' /\ InOrder'
  BY <1>2, <1>5, LossKept DEF LossInv, InOrder, TypeOK
<1>7. NextToLast(p)'
  BY <1>1, <1>2 DEF LossInv, NextToLast
<1> QED BY <1>6, <1>7 DEF LossInv

(* A new row comes after prev, and all the pair tells is about to be        *)
(* written; older pairs are not disturbed.                                  *)
LEMMA LossInsert ==
    ASSUME TypeOK, DedupInv, LossInv, \A p, q \in Process : p = q, NEW p \in Process, InHand(p),
           RowIds, faults' \in Nat, InsertSnapshot(p)
    PROVE  LossInv'
<1> DEFINE r   == work[p].record
           row == SnapshotOf(r, snapshot_seq + 1)
<1>1. /\ snapshots' = snapshots \cup {row} /\ UNCHANGED <<audt_events, faults>>
      /\ pc[p] = "insert" /\ snapshot_seq \in Nat
  BY DEF InsertSnapshot, TypeOK
<1>2. /\ row.id = snapshot_seq + 1 /\ row.norad_cat_id = r.norad_cat_id
      /\ row.epoch = r.epoch /\ row.orbit = r.orbit
  BY DEF SnapshotOf
<1>3. \/ Firings(work[p].prev, r) = {} /\ pc'[p] = "record"
      \/ /\ pc'[p] = "event" /\ work'[p].new_id = row.id
         /\ work'[p].events = Firings(work[p].prev, r)
         /\ work'[p].prev = work[p].prev /\ work'[p].record = r
  BY <1>2 DEF InsertSnapshot, NextRecord, TypeOK, WorkType
<1>4. /\ \A s \in snapshots : s.id \in Nat /\ s.id < row.id
      /\ \A s \in snapshots : s.norad_cat_id = r.norad_cat_id => s.epoch < r.epoch
  BY <1>1, <1>2 DEF RowIds, TypeOK, SnapshotRow, DedupInv, News, Older
<1>5. \A s \in snapshots : s.norad_cat_id = r.norad_cat_id =>
         /\ work[p].prev # NoSnapshot /\ s.id <= work[p].prev.id
         /\ work[p].prev \in snapshots /\ work[p].prev.norad_cat_id = r.norad_cat_id
  BY <1>1 DEF LossInv, NextToLast, InHand
<1> HIDE DEF row, r
<1>6. ASSUME NEW t \in Unreported' PROVE t \in Unreported
  <2>1. PICK s \in snapshots' :
           /\ Successive(s, t)'
           /\ ~ EvaluateGp(s.orbit, t.orbit) \subseteq Logged(s, t)' \cup Pending(t.id)'
    BY DEF Unreported
  <2>2. t \in snapshots' /\ s.norad_cat_id = t.norad_cat_id /\ s.id < t.id
    BY <2>1 DEF Unreported, Successive
  <2>3. s \in snapshots
    <3> SUFFICES ASSUME s = row PROVE FALSE
      BY <1>1
    <3>1. t \in snapshots => t.id < s.id
      BY <1>4
    <3>2. t = row => t.id < t.id
      BY <2>2
    <3> QED BY <1>1, <1>2, <1>4, <2>2, <3>1, <3>2
  <2>4. CASE t = row
    <3>1. /\ work[p].prev # NoSnapshot /\ s.id <= work[p].prev.id /\ work[p].prev \in snapshots
          /\ work[p].prev.norad_cat_id = r.norad_cat_id
      BY <1>2, <1>5, <2>2, <2>3, <2>4
    <3>2. ~ s.id < work[p].prev.id
      BY <1>1, <1>2, <1>4, <2>1, <2>2, <2>4, <3>1 DEF Successive
    <3>3. s = work[p].prev
      BY <1>4, <2>3, <3>1, <3>2 DEF RowIds
    <3>4. EvaluateGp(s.orbit, t.orbit) = Firings(work[p].prev, r)
      BY <1>2, <2>4, <3>1, <3>3 DEF Firings
    <3>5. EvaluateGp(s.orbit, t.orbit) \subseteq Pending(t.id)'
      BY <1>3, <2>4, <3>4, PendingOfOne
    <3> QED BY <2>1, <3>5
  <2>5. CASE t \in snapshots
    <3>1. Successive(s, t)
      BY <1>1, <2>1 DEF Successive
    <3>2. Logged(s, t)' = Logged(s, t)
      BY <1>1 DEF Logged
    <3>3. Pending(t.id) = {}
      BY <1>1, PendingOfOne
    <3> QED BY <2>1, <2>3, <2>5, <3>1, <3>2, <3>3 DEF Unreported
  <2> QED BY <1>1, <2>2, <2>4, <2>5
<1>7. LossFew'
  BY <1>1, <1>6, LossKept DEF LossInv, TypeOK
<1>8. InOrder'
  <2>1. ASSUME NEW s \in snapshots', NEW t \in snapshots',
               s.norad_cat_id = t.norad_cat_id, s.id < t.id
        PROVE  s.epoch < t.epoch
    <3>1. CASE s \in snapshots /\ t \in snapshots
      BY <2>1, <3>1 DEF LossInv, InOrder
    <3>2. CASE s \in snapshots /\ t = row
      BY <1>2, <1>4, <2>1, <3>2
    <3>3. CASE s = row
      <4>1. t = row \/ (t.id \in Nat /\ t.id < row.id)
        BY <1>1, <1>4
      <4> QED BY <1>1, <1>2, <2>1, <3>3, <4>1
    <3> QED BY <1>1, <3>1, <3>2, <3>3
  <2> QED BY <2>1 DEF InOrder
<1>9. NextToLast(p)'
  <2>1. CASE pc'[p] = "record"
    BY <2>1 DEF NextToLast
  <2>2. CASE pc'[p] = "event"
    <3>1. /\ work'[p].new_id = row.id /\ work'[p].prev = work[p].prev /\ work'[p].record = r
      BY <1>3, <2>2
    <3>2. \A s \in snapshots' : s.id < row.id => s \in snapshots
      BY <1>1, <1>2
    <3> QED BY <1>5, <2>2, <3>1, <3>2 DEF NextToLast
  <2> QED BY <1>3, <2>1, <2>2
<1> QED BY <1>7, <1>8, <1>9 DEF LossInv

(* get_last_snapshot returns the row stored last. *)
LEMMA LossLookup ==
    ASSUME TypeOK, DedupInv, LossInv, RowIds, NEW p \in Process, LookupNew(p)
    PROVE  NextToLast(p)'
<1>1. UNCHANGED snapshots /\ pc'[p] = "insert"
  BY DEF LookupNew, Goto, db, TypeOK
<1>2. PICK r \in records[p] : \E prev \in LastSnapshots(r.norad_cat_id) \cup {NoSnapshot} :
         /\ prev = NoSnapshot => LastSnapshots(r.norad_cat_id) = {}
         /\ work' = [work EXCEPT ![p] = [NoWork EXCEPT !.record = r, !.prev = prev]]
  BY DEF LookupNew
<1>3. PICK prev \in LastSnapshots(r.norad_cat_id) \cup {NoSnapshot} :
         /\ prev = NoSnapshot => LastSnapshots(r.norad_cat_id) = {}
         /\ work'[p].record = r /\ work'[p].prev = prev
  BY <1>2 DEF TypeOK, NoWork
<1>4. ASSUME NEW s \in snapshots, s.norad_cat_id = r.norad_cat_id
      PROVE  prev # NoSnapshot /\ s.id <= prev.id
  <2>1. prev # NoSnapshot /\ prev \in LastSnapshots(r.norad_cat_id)
    BY <1>3, <1>4 DEF DedupInv, Past
  <2>2. prev \in snapshots /\ prev.norad_cat_id = r.norad_cat_id /\ s.epoch <= prev.epoch
    BY <1>4, <2>1 DEF LastSnapshots
  <2>3. s.id \in Nat /\ prev.id \in Nat /\ s.epoch \in Int /\ prev.epoch \in Int
    BY <2>2 DEF TypeOK, SnapshotRow
  <2>4. ~ prev.id < s.id
    BY <1>4, <2>2, <2>3 DEF LossInv, InOrder
  <2> QED BY <2>1, <2>3, <2>4
<1> QED BY <1>1, <1>3, <1>4 DEF NextToLast

LEMMA LossStep ==
    ASSUME IngestInv, DedupInv, LossInv, \A p, q \in Process : p = q, NEW p \in Process,
           faults' \in Nat, Step(p) \/ Failure(p)
    PROVE  LossInv'
<1>1. TypeOK /\ RowIds /\ InHand(p) /\ BeingReported(p) /\ faults \in Nat /\ InOrder /\ NextToLast(p)
  BY DEF IngestInv, LossInv, TypeOK
<1>2. ASSUME UNCHANGED <<snapshots, audt_events>>, pc[p] # "event",
             pc'[p] # "event", pc'[p] # "insert", faults' >= faults
      PROVE  LossInv'
  BY <1>1, <1>2, LossQuiet DEF NextToLast
<1>3. CASE Start(p) \/ SelectHot(p) \/ SelectRotation(p) \/ Login(p) \/ Fetch(p)
  <2>1. /\ UNCHANGED <<snapshots, audt_events, faults>>
        /\ pc[p] \in {"idle", "hot", "cursor", "primary", "wrap", "login", "request"}
        /\ pc'[p] \in {"hot", "cursor", "primary", "wrap", "login", "request", "record"}
    BY <1>1, <1>3 DEF Start, SelectHot, SelectRotation, ReadCursor, SelectPrimary, SelectWrap,
                      Login, Fetch, Goto, db, TypeOK
  <2> QED BY <1>1, <1>2, <2>1
<1>4. CASE LookupUnchanged(p) \/ InsertConflict(p)
  <2>1. /\ UNCHANGED <<snapshots, audt_events, faults>>
        /\ pc[p] \in {"record", "insert"} /\ pc'[p] = "record"
    BY <1>1, <1>4 DEF LookupUnchanged, InsertConflict, NextRecord, db, TypeOK
  <2> QED BY <1>1, <1>2, <2>1
<1>5. CASE LookupNew(p)
  <2>1. /\ UNCHANGED <<snapshots, audt_events, faults>>
        /\ pc[p] = "record" /\ pc'[p] = "insert"
    BY <1>1, <1>5 DEF LookupNew, Goto, db, TypeOK
  <2> QED BY <1>1, <1>5, <2>1, LossQuiet, LossLookup
<1>6. CASE InsertSnapshot(p)
  BY <1>1, <1>6, LossInsert
<1>7. CASE InsertEvent(p)
  BY <1>1, <1>7, LossEvent
<1>8. CASE RecordFails(p)
  <2>1. UNCHANGED <<snapshots, audt_events>> /\ faults' = faults + 1 /\ pc'[p] = "record"
    BY <1>1, <1>8 DEF RecordFails, NextRecord, Fault, db, TypeOK
  <2>2. CASE pc[p] = "event"
    BY <1>1, <2>1, <2>2, LossByFailure
  <2>3. CASE pc[p] # "event"
    BY <1>1, <1>2, <2>1, <2>3
  <2> QED BY <2>2, <2>3
<1>9. CASE Crash(p)
  <2>1. UNCHANGED <<snapshots, audt_events>> /\ faults' = faults + 1 /\ pc'[p] = "idle"
    BY <1>1, <1>9 DEF Crash, Leave, Fault, db, TypeOK
  <2>2. CASE pc[p] = "event"
    BY <1>1, <2>1, <2>2, LossByFailure
  <2>3. CASE pc[p] # "event"
    BY <1>1, <1>2, <2>1, <2>3
  <2> QED BY <2>2, <2>3
<1>10. CASE \/ SelectFails(p) \/ LoginFails(p) \/ NoTargetsConfigured(p) \/ FetchFails(p)
            \/ FetchUnparseable(p) \/ AdvanceFails(p) \/ AdvanceCursor(p)
  <2>1. /\ Leave(p) /\ UNCHANGED <<snapshots, audt_events>>
        /\ faults' = faults \/ faults' = faults + 1
        /\ pc[p] # "event"
    BY <1>10 DEF SelectFails, LoginFails, NoTargetsConfigured, FetchFails, FetchUnparseable,
                AdvanceFails, AdvanceCursor, Fault, db
  <2>2. pc'[p] = "idle"
    BY <1>1, <2>1 DEF Leave, TypeOK
  <2> QED BY <1>1, <1>2, <2>1, <2>2
<1> QED BY <1>3, <1>4, <1>5, <1>6, <1>7, <1>8, <1>9, <1>10 DEF Step, Failure

LEMMA LossKeeps ==
    ASSUME IngestInv, IngestInv', DedupInv, LossInv, \A p, q \in Process : p = q, [Next]_vars
    PROVE  LossInv'
<1>1. faults' \in Nat
  BY DEF IngestInv, TypeOK
<1>2. ASSUME NEW p \in Process, Step(p) \/ Failure(p) PROVE LossInv'
  BY <1>1, <1>2, LossStep
<1>3. CASE UNCHANGED vars \/ \E o \in Object : Environment(o)
  <2>1. UNCHANGED <<snapshots, audt_events, pc, work, faults>>
    BY <1>3 DEF vars, db, locals, Environment, CatalogObject, Hit, Publish
  <2>2. Unreported' = Unreported
    BY <2>1 DEF Unreported, Successive, Logged, Pending
  <2> QED BY <2>1, <2>2 DEF LossInv, LossFew, InOrder, NextToLast
<1> QED BY <1>2, <1>3 DEF Next

(* As long as runs do not overlap, the log reports every change between     *)
(* successive snapshots of an object, but for the events of one snapshot a  *)
(* failure: what is committed before a failure is neither lost nor told of  *)
(* twice, and what is asked for again is found.                             *)
THEOREM LossBounded ==
    ASSUME \A p, q \in Process : p = q, EpochStep \subseteq Nat \ {0}
    PROVE  Spec => []ReportLossBounded
<1>1. IngestInv /\ IngestInv' /\ DedupInv /\ LossInv /\ [Next]_vars => LossInv'
  BY LossKeeps
<1>2. LossInv => ReportLossBounded
  BY DEF LossInv, LossFew, ReportLossBounded
<1> QED BY <1>1, <1>2, LossInit, DedupInvariant, IngestInvariant, PTL DEF Spec

-----------------------------------------------------------------------------
(* A single run implements EventHistory. *)

(* What the log has of the row whose events are being written: the codes    *)
(* registered before those still to come, each for the pair of prev and row. *)
Telling(p) ==
    pc[p] = "event" =>
        /\ work[p].new_id = snapshot_seq /\ work[p].events # {}
        /\ Told(work[p].new_id) =
              EvaluateGp(work[p].prev.orbit, work[p].record.orbit) \ work[p].events
        /\ \A c \in Told(work[p].new_id), d \in work[p].events : RegisteredBefore(GpRegistry, c, d)
        /\ \A e \in audt_events :
              e.new_snapshot_id = work[p].new_id => e.prev_snapshot_id = work[p].prev.id

(* No event is of a row yet to come. *)
LEMMA NothingToldAhead ==
    ASSUME IngestInv, NEW n \in Nat, n > snapshot_seq
    PROVE  \A e \in audt_events : e.new_snapshot_id # n
<1> SUFFICES ASSUME NEW e \in audt_events, e.new_snapshot_id = n PROVE FALSE
  OBVIOUS
<1>1. PICK t \in snapshots : t.id = n
  BY DEF IngestInv, EventsJustified
<1>2. t.id <= snapshot_seq /\ snapshot_seq \in Nat
  BY DEF IngestInv, RowIds, TypeOK
<1> QED BY <1>1, <1>2

LEMMA TellingInsert ==
    ASSUME IngestInv, NEW p \in Process, InsertSnapshot(p)
    PROVE  Telling(p)'
<1> DEFINE events == Firings(work[p].prev, work[p].record)
<1>1. /\ UNCHANGED audt_events /\ snapshot_seq' = snapshot_seq + 1 /\ snapshot_seq \in Nat
      /\ TypeOK
  BY DEF InsertSnapshot, IngestInv, TypeOK
<1>2. \/ pc'[p] = "record"
      \/ /\ pc'[p] = "event" /\ work'[p].new_id = snapshot_seq + 1 /\ work'[p].events = events
         /\ work'[p].prev = work[p].prev /\ work'[p].record = work[p].record /\ events # {}
  BY <1>1 DEF InsertSnapshot, NextRecord, TypeOK, WorkType
<1>3. \A e \in audt_events : e.new_snapshot_id # snapshot_seq + 1
  BY <1>1, NothingToldAhead
<1>4. \A id : id = snapshot_seq + 1 => Told(id)' = {}
  BY <1>1, <1>3 DEF Told
<1>5. events # {} => events = EvaluateGp(work[p].prev.orbit, work[p].record.orbit)
  BY DEF Firings
<1> HIDE DEF events
<1>6. CASE pc'[p] = "record"
  BY <1>6 DEF Telling
<1>7. CASE pc'[p] = "event"
  BY <1>1, <1>2, <1>3, <1>4, <1>5, <1>7 DEF Telling
<1> QED BY <1>2, <1>6, <1>7

(* The event written is the next in the order of the registry. *)
LEMMA EventWritten ==
    ASSUME IngestInv, NEW p \in Process, InsertEvent(p)
    PROVE  \E code \in work[p].events :
             /\ IsNextFiring(code, work[p].events)
             /\ \A id : Told(id)' = Told(id) \cup (IF id = work[p].new_id THEN {code} ELSE {})
             /\ \A e \in audt_events' \ audt_events :
                   e.new_snapshot_id = work[p].new_id /\ e.prev_snapshot_id = work[p].prev.id
             /\ audt_events \subseteq audt_events'
             /\ UNCHANGED <<snapshots, snapshot_seq, faults>> /\ pc[p] = "event"
             /\ \/ pc'[p] = "record" /\ work[p].events = {code}
                \/ /\ pc'[p] = "event" /\ work'[p].new_id = work[p].new_id
                   /\ work'[p].events = work[p].events \ {code} /\ work'[p].prev = work[p].prev
                   /\ work'[p].record = work[p].record /\ work[p].events # {code}
<1>1. PICK code \in work[p].events :
        /\ IsNextFiring(code, work[p].events)
        /\ audt_events' = audt_events \cup
              {[id |-> event_seq + 1, norad_cat_id |-> work[p].record.norad_cat_id,
                event_type_code |-> code, prev_snapshot_id |-> work[p].prev.id,
                new_snapshot_id |-> work[p].new_id]}
        /\ IF work[p].events = {code}
           THEN NextRecord(p)
           ELSE /\ work' = [work EXCEPT ![p].events = @ \ {code}]
                /\ UNCHANGED pc
  BY DEF InsertEvent
<1>2. UNCHANGED <<snapshots, snapshot_seq, faults>> /\ pc[p] = "event" /\ TypeOK
  BY DEF InsertEvent, IngestInv
<1>3. \/ pc'[p] = "record" /\ work[p].events = {code}
      \/ /\ pc'[p] = "event" /\ work'[p].new_id = work[p].new_id
         /\ work'[p].events = work[p].events \ {code} /\ work'[p].prev = work[p].prev
         /\ work'[p].record = work[p].record /\ work[p].events # {code}
  BY <1>1, <1>2 DEF NextRecord, TypeOK, WorkType
<1> DEFINE e == [id |-> event_seq + 1, norad_cat_id |-> work[p].record.norad_cat_id,
                 event_type_code |-> code, prev_snapshot_id |-> work[p].prev.id,
                 new_snapshot_id |-> work[p].new_id]
<1>4. /\ audt_events' = audt_events \cup {e} /\ e.event_type_code = code
      /\ e.prev_snapshot_id = work[p].prev.id /\ e.new_snapshot_id = work[p].new_id
  BY <1>1
<1> HIDE DEF e
<1>5. ASSUME NEW id
      PROVE  Told(id)' = Told(id) \cup (IF id = work[p].new_id THEN {code} ELSE {})
  BY <1>4 DEF Told
<1>6. \A f \in audt_events' \ audt_events :
         f.new_snapshot_id = work[p].new_id /\ f.prev_snapshot_id = work[p].prev.id
  BY <1>4
<1>7. IsNextFiring(code, work[p].events)
  BY <1>1
<1>8. audt_events \subseteq audt_events'
  BY <1>4
<1> HIDE DEF IsNextFiring
<1> QED BY <1>2, <1>3, <1>5, <1>6, <1>7, <1>8

LEMMA TellingEvent ==
    ASSUME IngestInv, NEW p \in Process, Telling(p), InsertEvent(p)
    PROVE  Telling(p)'
<1>1. PICK code \in work[p].events :
        /\ IsNextFiring(code, work[p].events)
        /\ \A id : Told(id)' = Told(id) \cup (IF id = work[p].new_id THEN {code} ELSE {})
        /\ \A e \in audt_events' \ audt_events :
              e.new_snapshot_id = work[p].new_id /\ e.prev_snapshot_id = work[p].prev.id
        /\ UNCHANGED <<snapshots, snapshot_seq, faults>> /\ pc[p] = "event"
        /\ \/ pc'[p] = "record" /\ work[p].events = {code}
           \/ /\ pc'[p] = "event" /\ work'[p].new_id = work[p].new_id
              /\ work'[p].events = work[p].events \ {code} /\ work'[p].prev = work[p].prev
              /\ work'[p].record = work[p].record /\ work[p].events # {code}
  BY EventWritten
<1>2. CASE pc'[p] = "record"
  BY <1>2 DEF Telling
<1>3. CASE pc'[p] = "event"
  <2> DEFINE id    == work[p].new_id
             fired == EvaluateGp(work[p].prev.orbit, work[p].record.orbit)
  <2>1. /\ work'[p].new_id = id /\ work'[p].events = work[p].events \ {code}
        /\ work'[p].prev = work[p].prev /\ work'[p].record = work[p].record
        /\ work[p].events # {code}
    BY <1>1, <1>3
  <2>2. PICK told : told = Told(id)
    OBVIOUS
  <2>3. \A i : i = id => Told(i)' = told \cup {code}
    BY <1>1, <2>2
  <2>4. told = fired \ work[p].events /\ work[p].events \subseteq fired /\ id = snapshot_seq
        /\ \A c \in told, d \in work[p].events : RegisteredBefore(GpRegistry, c, d)
    BY <1>1, <2>2 DEF Telling, IngestInv, BeingReported
  <2>5. \A d \in work[p].events \ {code} : RegisteredBefore(GpRegistry, code, d)
    BY <1>1 DEF IsNextFiring
  <2>6. told \cup {code} = fired \ (work[p].events \ {code})
    BY <2>4
  <2>7. \A e \in audt_events' : e.new_snapshot_id = id => e.prev_snapshot_id = work[p].prev.id
    <3> SUFFICES ASSUME NEW e \in audt_events', e.new_snapshot_id = id
                 PROVE  e.prev_snapshot_id = work[p].prev.id
      OBVIOUS
    <3>1. CASE e \in audt_events
      BY <1>1, <3>1, Zenon DEF Telling
    <3>2. CASE e \notin audt_events
      <4>1. e \in audt_events' \ audt_events
        BY <3>2
      <4> QED BY <1>1, <4>1, Zenon
    <3> QED BY <3>1, <3>2
  <2>8. \A c \in told \cup {code}, d \in work[p].events \ {code} : RegisteredBefore(GpRegistry, c, d)
    BY <2>4, <2>5
  <2>9. work[p].events \ {code} # {}
    BY <2>1
  <2> HIDE DEF id, fired
  <2>10. /\ EvaluateGp(work'[p].prev.orbit, work'[p].record.orbit) = fired
         /\ Told(work[p].new_id)' = told \cup {code}
    <3>1. EvaluateGp(work'[p].prev.orbit, work'[p].record.orbit) = fired
      BY <2>1 DEF fired
    <3>2. Told(work[p].new_id)' = told \cup {code}
      BY <2>1, <2>3 DEF Told
    <3> QED BY <3>1, <3>2
  <2> QED BY <1>1, <1>3, <2>1, <2>4, <2>6, <2>7, <2>8, <2>9, <2>10 DEF Telling
<1> QED BY <1>1, <1>2, <1>3

LEMMA TellingStep ==
    ASSUME IngestInv, \A p, q \in Process : p = q, NEW p \in Process, Telling(p), [Next]_vars
    PROVE  Telling(p)'
<1>1. TypeOK
  BY DEF IngestInv
<1>2. ASSUME pc'[p] # "event" PROVE Telling(p)'
  BY <1>2 DEF Telling
<1>3. CASE InsertSnapshot(p)
  BY <1>3, TellingInsert
<1>4. CASE InsertEvent(p)
  BY <1>4, TellingEvent
<1>5. CASE \/ Start(p) \/ SelectHot(p) \/ SelectRotation(p) \/ Login(p) \/ Fetch(p)
           \/ InsertConflict(p) \/ RecordFails(p) \/ LookupNew(p)
  BY <1>1, <1>2, <1>5 DEF Start, SelectHot, SelectRotation, ReadCursor, SelectPrimary, SelectWrap,
                          Login, Fetch, InsertConflict, RecordFails,
     LookupNew, NextRecord, Goto, TypeOK
<1>6. CASE LookupUnchanged(p)
  BY <1>2, <1>6 DEF LookupUnchanged
<1>7. CASE \/ SelectFails(p) \/ LoginFails(p) \/ NoTargetsConfigured(p) \/ FetchFails(p)
           \/ FetchUnparseable(p) \/ AdvanceFails(p) \/ Crash(p) \/ AdvanceCursor(p)
  <2>1. Leave(p)
    BY <1>7 DEF SelectFails, LoginFails, NoTargetsConfigured, FetchFails, FetchUnparseable,
                AdvanceFails, Crash, AdvanceCursor
  <2> QED BY <1>1, <1>2, <2>1 DEF Leave, TypeOK
<1>8. CASE UNCHANGED vars \/ \E o \in Object : Environment(o)
  <2>1. UNCHANGED <<snapshot_seq, audt_events, pc, work>>
    BY <1>8 DEF vars, db, locals, Environment, CatalogObject, Hit, Publish
  <2> QED BY <2>1 DEF Telling, Told
<1> QED BY <1>3, <1>4, <1>5, <1>6, <1>7, <1>8 DEF Next, Step, Failure

SingleRunInv == IngestInv /\ DedupInv /\ LossInv /\ \A p \in Process : Telling(p)

LEMMA SingleRunInvariant ==
    ASSUME \A p, q \in Process : p = q, EpochStep \subseteq Nat \ {0}
    PROVE  Spec => []SingleRunInv
<1>1. Init => LossInv /\ DedupInv /\ \A p \in Process : Telling(p)
  BY LossInit, DedupInit DEF Init, Telling
<1>2. ASSUME IngestInv, IngestInv', DedupInv, LossInv, \A p \in Process : Telling(p), [Next]_vars
      PROVE  LossInv' /\ \A p \in Process : Telling(p)'
  BY <1>2, LossKeeps, TellingStep
<1> DEFINE Tells == \A p \in Process : Telling(p)
<1>3. IngestInv /\ DedupInv /\ LossInv /\ Tells <=> SingleRunInv
  BY DEF SingleRunInv
<1>4. /\ Init => LossInv /\ Tells
      /\ IngestInv /\ IngestInv' /\ DedupInv /\ LossInv /\ Tells /\ [Next]_vars => LossInv' /\ Tells'
  BY <1>1, <1>2
<1> HIDE DEF Tells
<1> QED BY <1>3, <1>4, DedupInvariant, IngestInvariant, PTL DEF Spec

(* ------------------- the steps of EventHistory ------------------------- *)

(* The history and the poller go by the same rules. *)
LEMMA SameRules ==
    /\ \A a, b : History!EvaluateGp(a, b) = EvaluateGp(a, b)
    /\ \A c, d : History!RegisteredBefore(History!GpRegistry, c, d)
                   <=> RegisteredBefore(GpRegistry, c, d)
<1>1. \A x, y : History!AbsDelta(x, y) = AbsDelta(x, y)
  BY DEF History!AbsDelta, AbsDelta
<1>2. \A a, b : /\ History!ManeuverDetected(a, b) <=> ManeuverDetected(a, b)
                /\ History!RaanShift(a, b) <=> RaanShift(a, b)
                /\ History!EccentricityChange(a, b) <=> EccentricityChange(a, b)
                /\ History!DragChange(a, b) <=> DragChange(a, b)
  BY <1>1 DEF History!ManeuverDetected, ManeuverDetected, History!RaanShift, RaanShift,
     History!EccentricityChange, EccentricityChange, History!DragChange, DragChange,
     History!kInclinationDeltaThreshold, kInclinationDeltaThreshold,
     History!kSemimajorAxisDeltaThreshold, kSemimajorAxisDeltaThreshold,
     History!kRaanDeltaThreshold, kRaanDeltaThreshold,
     History!kEccentricityDeltaThreshold, kEccentricityDeltaThreshold,
     History!kBstarNearZeroThreshold, kBstarNearZeroThreshold,
     History!kBstarAbsoluteDeltaThreshold, kBstarAbsoluteDeltaThreshold
<1>3. History!GpRegistry = GpRegistry
  BY DEF History!GpRegistry, GpRegistry
<1>4. History!GpEventType = GpEventType
  BY <1>3 DEF History!GpEventType, GpEventType
<1>5. \A a, b : History!EvaluateGp(a, b) = EvaluateGp(a, b)
  BY <1>2, <1>4 DEF History!EvaluateGp, EvaluateGp
<1>6. \A c, d : History!RegisteredBefore(History!GpRegistry, c, d)
                  <=> RegisteredBefore(GpRegistry, c, d)
  BY <1>3 DEF History!RegisteredBefore, RegisteredBefore
<1> QED BY <1>5, <1>6

LEMMA InFlightOfOne ==
    ASSUME \A p, q \in Process : p = q, NEW p \in Process
    PROVE  /\ InFlight = IF pc[p] = "event" THEN {work[p].new_id} ELSE {}
           /\ InFlight' = IF pc'[p] = "event" THEN {work'[p].new_id} ELSE {}
BY DEF InFlight

(* What readers see stays. *)
LEMMA Unseen ==
    ASSUME Complete' = Complete, \A s \in Complete : Told(s.id)' = Told(s.id),
           Unreported' = Unreported
    PROVE  UNCHANGED History!vars
<1>1. \A o \in Object : HistoryOf(o)' = HistoryOf(o)
  BY DEF HistoryOf, EntryOf
<1>2. LogOf' = LogOf
  BY DEF LogOf
<1> QED BY <1>1, <1>2 DEF History!vars

(* A row whose record is done with enters the history after prev, the latest *)
(* row of the object so far, and its events enter the log with it.           *)
LEMMA Accepting ==
    ASSUME NEW row \in SnapshotRow, NEW prev,
           Complete' = Complete \cup {row},
           \A s \in Complete : s.norad_cat_id = row.norad_cat_id =>
              /\ prev # NoSnapshot /\ prev \in Complete /\ prev.norad_cat_id = row.norad_cat_id
              /\ s.epoch < row.epoch /\ (s = prev \/ s.epoch < prev.epoch),
           prev # NoSnapshot => prev \in Complete /\ prev.norad_cat_id = row.norad_cat_id,
           Complete \subseteq SnapshotRow,
           \A s \in Complete : Told(s.id)' = Told(s.id)
    PROVE  /\ History!Accept(row.norad_cat_id, EntryOf(row))
           /\ EntryOf(row) \in HistoryOf(row.norad_cat_id)'
           /\ History!Changes(row.norad_cat_id, EntryOf(row)) = Firings(prev, row)
           /\ LogOf' = LogOf \cup {<<EntryOf(row).gp_id, code>> : code \in Told(row.id)'}
<1> DEFINE o == row.norad_cat_id
           e == EntryOf(row)
           history == [q \in Object |-> HistoryOf(q)]
<1>1. /\ e \in ElementSet /\ e.norad_cat_id = o /\ e.epoch = row.epoch /\ e.orbit = row.orbit
      /\ e.gp_id = row.gp_id /\ o \in Object
  BY DEF EntryOf, ElementSet, SnapshotRow
<1>2. \A q \in Object : HistoryOf(q)' = HistoryOf(q) \cup (IF q = o THEN {e} ELSE {})
  BY DEF HistoryOf, EntryOf
<1>3. \A d \in HistoryOf(o) : \E s \in Complete :
         /\ s.norad_cat_id = o /\ d.epoch = s.epoch /\ d.orbit = s.orbit
  BY DEF HistoryOf, EntryOf
<1>4. \A s \in Complete : s.norad_cat_id = o =>
         EntryOf(s) \in HistoryOf(o) /\ EntryOf(s).epoch = s.epoch /\ EntryOf(s).orbit = s.orbit
  BY DEF HistoryOf, EntryOf
<1>5. LogOf' = LogOf \cup {<<e.gp_id, code>> : code \in Told(row.id)'}
  BY <1>1 DEF LogOf
<1>6. history'= [history EXCEPT ![o] = @ \cup {e}]
  BY <1>1, <1>2
<1>7. history[o] = HistoryOf(o)
  BY <1>1
<1> HIDE DEF e, history
<1>8. History!Accept(o, e)
  BY <1>1, <1>3, <1>6, <1>7 DEF History!Accept, history
<1>9. History!Changes(o, e) = Firings(prev, row)
  <2> DEFINE Latest == {c \in HistoryOf(o) : \A d \in HistoryOf(o) : d.epoch <= c.epoch}
  <2>1. History!Changes(o, e) = UNION {EvaluateGp(d.orbit, e.orbit) : d \in Latest}
    BY <1>7, SameRules DEF History!Changes, History!IsLatest, history
  <2>2. CASE prev = NoSnapshot
    <3>1. HistoryOf(o) = {}
      BY <1>3, <2>2
    <3> QED BY <2>1, <2>2, <3>1 DEF Firings
  <2>3. CASE prev # NoSnapshot
    <3>1. prev \in Complete /\ prev.norad_cat_id = o /\ prev.epoch \in Int
      BY <2>3 DEF SnapshotRow
    <3>2. EntryOf(prev) \in HistoryOf(o) /\ EntryOf(prev).epoch = prev.epoch
          /\ EntryOf(prev).orbit = prev.orbit
      BY <1>4, <3>1
    <3>3. ASSUME NEW c \in Latest PROVE c.orbit = prev.orbit
      <4>1. PICK s \in Complete : s.norad_cat_id = o /\ c.epoch = s.epoch /\ c.orbit = s.orbit
        BY <1>3
      <4>2. prev.epoch <= s.epoch /\ s.epoch \in Int
        BY <3>2, <4>1 DEF SnapshotRow
      <4>3. s = prev
        BY <3>1, <4>1, <4>2
      <4> QED BY <4>1, <4>3
    <3>4. EntryOf(prev) \in Latest
      <4>1. ASSUME NEW d \in HistoryOf(o) PROVE d.epoch <= prev.epoch
        <5>1. PICK s \in Complete : s.norad_cat_id = o /\ d.epoch = s.epoch
          BY <1>3
        <5>2. s.epoch \in Int /\ (s = prev \/ s.epoch < prev.epoch)
          BY <5>1 DEF SnapshotRow
        <5> QED BY <3>1, <5>1, <5>2
      <4> QED BY <3>2, <4>1
    <3> HIDE DEF Latest
    <3>5. UNION {EvaluateGp(d.orbit, e.orbit) : d \in Latest} = EvaluateGp(prev.orbit, e.orbit)
      <4>1. \A d \in Latest : EvaluateGp(d.orbit, e.orbit) = EvaluateGp(prev.orbit, e.orbit)
        BY <3>3
      <4> QED BY <3>4, <4>1
    <3> QED BY <1>1, <2>1, <2>3, <3>5 DEF Firings
  <2> QED BY <2>2, <2>3
<1> QED BY <1>2, <1>5, <1>8, <1>9, <1>1 DEF e

(* The rows of a single run when its process is at a record. *)
LEMMA RowsOfRun ==
    ASSUME SingleRunInv, \A p, q \in Process : p = q, NEW p \in Process, pc[p] = "event"
    PROVE  \E row \in snapshots :
             /\ row = SnapshotOf(work[p].record, work[p].new_id) /\ row.id = work[p].new_id
             /\ row \in SnapshotRow /\ row \notin Complete /\ snapshots = Complete \cup {row}
             /\ work[p].prev \in Complete /\ work[p].prev # NoSnapshot
             /\ work[p].prev.norad_cat_id = row.norad_cat_id
             /\ Successive(work[p].prev, row)
             /\ row \notin Unreported
             /\ \A s \in Complete : s.norad_cat_id = row.norad_cat_id =>
                   s.epoch < row.epoch /\ (s = work[p].prev \/ s.epoch < work[p].prev.epoch)
<1> DEFINE row  == SnapshotOf(work[p].record, work[p].new_id)
           prev == work[p].prev
<1>1. /\ TypeOK /\ RowIds /\ InHand(p) /\ BeingReported(p) /\ InOrder /\ NextToLast(p) /\ Telling(p)
  BY DEF SingleRunInv, IngestInv, LossInv
<1>2. row \in snapshots /\ row.id = work[p].new_id /\ row.norad_cat_id = work[p].record.norad_cat_id
      /\ row.orbit = work[p].record.orbit
  BY <1>1 DEF BeingReported, SnapshotOf
<1>3. prev \in snapshots /\ prev # NoSnapshot /\ prev.id < work[p].new_id
      /\ prev.norad_cat_id = work[p].record.norad_cat_id
  BY <1>1 DEF BeingReported, InHand
<1>4. \A s \in snapshots : s \in SnapshotRow /\ s.id \in Nat /\ s.id <= work[p].new_id
      /\ s.epoch \in Int
  BY <1>1 DEF RowIds, Telling, TypeOK, SnapshotRow
<1> HIDE DEF row
<1>5. InFlight = {work[p].new_id}
  BY InFlightOfOne
<1>6. /\ row \notin Complete /\ snapshots = Complete \cup {row}
      /\ \A s \in Complete : s \in snapshots /\ s.id # work[p].new_id /\ s.id < work[p].new_id
      /\ prev \in Complete
  BY <1>1, <1>2, <1>3, <1>4, <1>5 DEF Complete, RowIds
<1>7. ASSUME NEW s \in Complete, s.norad_cat_id = row.norad_cat_id
      PROVE  s.epoch < row.epoch /\ (s = prev \/ s.epoch < prev.epoch)
  <2>1. s.epoch < row.epoch
    BY <1>1, <1>2, <1>6, <1>7 DEF InOrder
  <2>2. s.id <= prev.id
    BY <1>1, <1>2, <1>6, <1>7 DEF NextToLast
  <2>3. s.id = prev.id => s = prev
    BY <1>1, <1>3, <1>6 DEF RowIds
  <2>4. s.id < prev.id => s.epoch < prev.epoch
    BY <1>1, <1>2, <1>3, <1>6, <1>7 DEF InOrder
  <2> QED BY <1>3, <1>4, <1>6, <2>1, <2>2, <2>3, <2>4
<1>8. Successive(prev, row)
  <2>1. ~ \E m \in snapshots : m.norad_cat_id = prev.norad_cat_id /\ prev.id < m.id /\ m.id < row.id
    BY <1>1, <1>2, <1>3, <1>4 DEF NextToLast
  <2> QED BY <1>2, <1>3, <2>1 DEF Successive
<1>9. row \notin Unreported
  <2>1. ASSUME NEW s \in snapshots, Successive(s, row)
        PROVE  EvaluateGp(s.orbit, row.orbit) \subseteq Logged(s, row) \cup Pending(row.id)
    <3>1. s = prev
      BY <1>1, <1>2, <1>3, <1>4, <1>8, <2>1 DEF Successive, RowIds
    <3>2. Pending(row.id) = work[p].events
      BY <1>2, PendingOfOne
    <3>3. Logged(s, row) = Told(work[p].new_id)
      BY <1>1, <1>2, <3>1 DEF Logged, Told, Telling
    <3>4. Told(work[p].new_id) = EvaluateGp(prev.orbit, row.orbit) \ work[p].events
      BY <1>1, <1>2 DEF Telling
    <3> QED BY <3>1, <3>2, <3>3, <3>4
  <2> QED BY <2>1 DEF Unreported
<1> QED BY <1>2, <1>3, <1>4, <1>6, <1>7, <1>8, <1>9 DEF row

(* An insert whose pair fires nothing is a step of its own; otherwise the    *)
(* row stays hidden.                                                         *)
LEMMA InsertSteps ==
    ASSUME SingleRunInv, \A p, q \in Process : p = q, NEW p \in Process, InsertSnapshot(p)
    PROVE  \/ UNCHANGED History!vars
           \/ \E o \in Object : \E e \in HistoryOf(o)' : History!Ingest(o, e)
<1>0. PICK r, prev, row :
        r = work[p].record /\ prev = work[p].prev /\ row = SnapshotOf(r, snapshot_seq + 1)
  OBVIOUS
<1>1. /\ TypeOK /\ RowIds /\ InHand(p) /\ InOrder /\ NextToLast(p) /\ snapshot_seq \in Nat
      /\ pc[p] = "insert" /\ News(p) /\ IngestInv
  BY DEF SingleRunInv, IngestInv, LossInv, DedupInv, TypeOK, InsertSnapshot
<1>2. /\ snapshots' = snapshots \cup {row} /\ UNCHANGED audt_events
  BY <1>0 DEF InsertSnapshot
<1>3. /\ row \in SnapshotRow /\ row.id \in Nat /\ row.id = snapshot_seq + 1
      /\ row.norad_cat_id = r.norad_cat_id
      /\ row.epoch = r.epoch /\ row.orbit = r.orbit
  BY <1>0, <1>1, ElementSetRow DEF SnapshotOf, InHand
<1>4. \/ Firings(prev, r) = {} /\ pc'[p] = "record"
      \/ pc'[p] = "event" /\ work'[p].new_id = row.id /\ work'[p].events = Firings(prev, r)
  BY <1>0, <1>1, <1>3 DEF InsertSnapshot, NextRecord, TypeOK, WorkType
<1>5. /\ \A s \in snapshots : s \in SnapshotRow /\ s.id \in Nat /\ s.id < row.id
      /\ \A s \in snapshots : s.norad_cat_id = r.norad_cat_id => s.epoch < r.epoch
  BY <1>0, <1>1, <1>3 DEF RowIds, TypeOK, SnapshotRow, News, Older
<1>6. \A s \in snapshots : s.norad_cat_id = r.norad_cat_id =>
         prev # NoSnapshot /\ s.id <= prev.id
  BY <1>0, <1>1 DEF NextToLast
<1>7. prev # NoSnapshot => prev \in snapshots /\ prev.norad_cat_id = r.norad_cat_id
  BY <1>0, <1>1 DEF InHand
<1>8. Complete = snapshots
  BY <1>1, InFlightOfOne DEF Complete
<1>9. \A id : Told(id)' = Told(id)
  BY <1>2 DEF Told
<1>10. Firings(prev, row) = Firings(prev, r)
  BY <1>3 DEF Firings
<1>11. Unreported' = Unreported
  <2>1. \A s, t \in snapshots : Successive(s, t)' <=> Successive(s, t)
    <3> SUFFICES ASSUME NEW s \in snapshots, NEW t \in snapshots
                 PROVE  Successive(s, t)' <=> Successive(s, t)
      OBVIOUS
    <3>1. ~ row.id < t.id
      BY <1>3, <1>5
    <3> QED BY <1>2, <3>1 DEF Successive
  <2>2. \A s, t \in snapshots : Logged(s, t)' = Logged(s, t)
    BY <1>2 DEF Logged
  <2>3. ASSUME NEW t \in snapshots PROVE Pending(t.id)' = Pending(t.id)
    <3>1. t.id # row.id
      BY <1>3, <1>5
    <3>2. Pending(t.id) = {}
      BY <1>1, PendingOfOne
    <3>3. ~ (pc'[p] = "event" /\ work'[p].new_id = t.id)
      BY <1>4, <3>1
    <3>4. Pending(t.id)' =
              IF pc'[p] = "event" /\ work'[p].new_id = t.id THEN work'[p].events ELSE {}
      BY PendingOfOne
    <3> QED BY <3>2, <3>3, <3>4
  <2>4. ASSUME NEW s \in snapshots, Successive(s, row)'
        PROVE  EvaluateGp(s.orbit, row.orbit) \subseteq Logged(s, row)' \cup Pending(row.id)'
    <3>1. s.norad_cat_id = r.norad_cat_id /\ prev \in snapshots /\ prev # NoSnapshot /\ s.id <= prev.id
          /\ prev.norad_cat_id = r.norad_cat_id
      BY <1>3, <1>6, <1>7, <2>4 DEF Successive
    <3>2. ~ s.id < prev.id
      BY <1>2, <1>3, <1>5, <2>4, <3>1 DEF Successive
    <3>3. s = prev
      BY <1>1, <1>5, <3>1, <3>2 DEF RowIds
    <3>4. EvaluateGp(s.orbit, row.orbit) = Firings(prev, r)
      BY <1>3, <3>1, <3>3 DEF Firings
    <3>5. Firings(prev, r) \subseteq Pending(row.id)'
      BY <1>4, PendingOfOne
    <3> QED BY <3>4, <3>5
  <2>5. \A t \in snapshots' : ~ Successive(row, t)'
    <3> SUFFICES ASSUME NEW t \in snapshots' PROVE ~ row.id < t.id
      BY DEF Successive
    <3> QED BY <1>2, <1>3, <1>5
  <2>6. row \notin snapshots
    BY <1>5 DEF SnapshotRow
  <2>7. Unreported' \subseteq Unreported
    <3> SUFFICES ASSUME NEW t \in Unreported' PROVE t \in Unreported
      OBVIOUS
    <3>1. PICK s \in snapshots' : /\ t \in snapshots' /\ Successive(s, t)'
             /\ ~ EvaluateGp(s.orbit, t.orbit) \subseteq Logged(s, t)' \cup Pending(t.id)'
      BY DEF Unreported
    <3>2. s \in snapshots
      BY <1>2, <2>5, <3>1
    <3>3. t \in snapshots
      BY <1>2, <2>4, <3>1, <3>2
    <3> QED BY <2>1, <2>2, <2>3, <3>1, <3>2, <3>3 DEF Unreported
  <2>8. Unreported \subseteq Unreported'
    BY <1>2, <2>1, <2>2, <2>3 DEF Unreported
  <2> QED BY <2>7, <2>8
<1>12. CASE pc'[p] = "event"
  <2>1. InFlight' = {row.id}
    BY <1>4, <1>12, InFlightOfOne
  <2>2. Complete' = Complete
    BY <1>2, <1>5, <1>8, <2>1 DEF Complete
  <2> QED BY <1>9, <1>11, <2>2, Unseen
<1>13. CASE pc'[p] = "record"
  <2>1. InFlight' = {}
    BY <1>13, InFlightOfOne
  <2>2. Complete' = Complete \cup {row}
    BY <1>2, <1>8, <2>1 DEF Complete
  <2>3. ASSUME NEW s \in Complete, s.norad_cat_id = row.norad_cat_id
        PROVE  /\ prev # NoSnapshot /\ prev \in Complete /\ prev.norad_cat_id = row.norad_cat_id
               /\ s.epoch < row.epoch /\ (s = prev \/ s.epoch < prev.epoch)
    <3>1. /\ prev # NoSnapshot /\ prev \in snapshots /\ prev.norad_cat_id = row.norad_cat_id
          /\ s \in snapshots /\ s.epoch < row.epoch /\ s.id <= prev.id
      BY <1>3, <1>5, <1>6, <1>7, <1>8, <2>3
    <3>2. s.id = prev.id => s = prev
      BY <1>1, <3>1 DEF RowIds
    <3>3. s.id < prev.id => s.epoch < prev.epoch
      BY <1>1, <2>3, <3>1 DEF InOrder
    <3> QED BY <1>5, <1>8, <3>1, <3>2, <3>3
  <2>4. /\ History!Accept(row.norad_cat_id, EntryOf(row))
        /\ EntryOf(row) \in HistoryOf(row.norad_cat_id)'
        /\ History!Changes(row.norad_cat_id, EntryOf(row)) = Firings(prev, row)
        /\ LogOf' = LogOf \cup {<<EntryOf(row).gp_id, code>> : code \in Told(row.id)'}
    BY <1>3, <1>5, <1>7, <1>8, <1>9, <2>2, <2>3, Accepting
  <2>5. Firings(prev, row) = {} /\ Told(row.id)' = {}
    <3>1. \A e \in audt_events : e.new_snapshot_id # snapshot_seq + 1
      BY <1>1, NothingToldAhead
    <3> QED BY <1>2, <1>3, <1>4, <1>10, <1>13, <3>1 DEF Told
  <2>6. LogOf' = LogOf \cup {<<EntryOf(row).gp_id, code>> :
                               code \in History!Changes(row.norad_cat_id, EntryOf(row))}
    BY <2>4, <2>5
  <2>7. row.norad_cat_id \in Object
    BY <1>3 DEF SnapshotRow
  <2> QED BY <1>11, <2>4, <2>6, <2>7 DEF History!Ingest, History!Report
<1> QED BY <1>4, <1>12, <1>13

(* The predecessor of a row is one. *)
LEMMA OnePredecessor ==
    ASSUME TypeOK, RowIds, NEW s \in snapshots, NEW t \in snapshots, NEW row \in snapshots,
           Successive(s, row), Successive(t, row)
    PROVE  s = t
<1>1. s.id \in Nat /\ t.id \in Nat
  BY DEF TypeOK, SnapshotRow
<1>2. ~ s.id < t.id /\ ~ t.id < s.id
  BY DEF Successive
<1> QED BY <1>1, <1>2 DEF RowIds

(* The last event of a row brings it into the history, with all its events. *)
LEMMA EventSteps ==
    ASSUME SingleRunInv, \A p, q \in Process : p = q, NEW p \in Process, InsertEvent(p)
    PROVE  \/ UNCHANGED History!vars
           \/ \E o \in Object : \E e \in HistoryOf(o)' : History!Ingest(o, e)
<1>1. /\ TypeOK /\ RowIds /\ BeingReported(p) /\ Telling(p) /\ IngestInv /\ pc[p] = "event"
      /\ Complete \subseteq snapshots /\ snapshots \subseteq SnapshotRow
  BY DEF SingleRunInv, IngestInv, InsertEvent, TypeOK, Complete
<1>2. PICK code \in work[p].events :
        /\ \A id : Told(id)' = Told(id) \cup (IF id = work[p].new_id THEN {code} ELSE {})
        /\ \A e \in audt_events' \ audt_events :
              e.new_snapshot_id = work[p].new_id /\ e.prev_snapshot_id = work[p].prev.id
        /\ audt_events \subseteq audt_events'
        /\ UNCHANGED snapshots
        /\ \/ pc'[p] = "record" /\ work[p].events = {code}
           \/ /\ pc'[p] = "event" /\ work'[p].new_id = work[p].new_id
              /\ work'[p].events = work[p].events \ {code}
  BY <1>1, EventWritten
<1>3. PICK row \in snapshots :
        /\ row = SnapshotOf(work[p].record, work[p].new_id) /\ row.id = work[p].new_id
        /\ row \in SnapshotRow /\ row \notin Complete /\ snapshots = Complete \cup {row}
        /\ work[p].prev \in Complete /\ work[p].prev # NoSnapshot
        /\ work[p].prev.norad_cat_id = row.norad_cat_id
        /\ Successive(work[p].prev, row)
        /\ row \notin Unreported
        /\ \A s \in Complete : s.norad_cat_id = row.norad_cat_id =>
              s.epoch < row.epoch /\ (s = work[p].prev \/ s.epoch < work[p].prev.epoch)
  BY <1>1, RowsOfRun
<1>4. PICK prev, events, fired :
        /\ prev = work[p].prev /\ events = work[p].events
        /\ fired = EvaluateGp(prev.orbit, row.orbit)
  OBVIOUS
<1>5. /\ Told(row.id) = fired \ events /\ events \subseteq fired
      /\ \A e \in audt_events : e.new_snapshot_id = row.id => e.prev_snapshot_id = prev.id
  <2>1. row.orbit = work[p].record.orbit
    BY <1>3 DEF SnapshotOf
  <2>2. Told(row.id) = fired \ events /\ events \subseteq fired
    BY <1>1, <1>3, <1>4, <2>1 DEF Telling, BeingReported
  <2>3. \A e \in audt_events : e.new_snapshot_id = row.id => e.prev_snapshot_id = prev.id
    BY <1>1, <1>3, <1>4 DEF Telling
  <2> QED BY <2>2, <2>3
<1>6. Told(row.id)' = (fired \ events) \cup {code} /\ code \in events /\ code \in fired
  BY <1>2, <1>3, <1>4, <1>5
<1>7. \A s \in Complete : s.id # row.id /\ Told(s.id)' = Told(s.id)
  <2>1. \A s \in Complete : s.id # row.id
    BY <1>1, <1>3 DEF RowIds
  <2> QED BY <1>2, <1>3, <2>1
<1>8. Unreported' = Unreported
  <2>1. \A s, t \in snapshots : Successive(s, t)' <=> Successive(s, t)
    BY <1>2 DEF Successive
  <2>2. \A s, t \in snapshots : t # row => Logged(s, t)' = Logged(s, t)
    <3> SUFFICES ASSUME NEW s \in snapshots, NEW t \in snapshots, t # row
                 PROVE  Logged(s, t)' = Logged(s, t)
      OBVIOUS
    <3>1. t.id # work[p].new_id
      BY <1>1, <1>3 DEF RowIds
    <3> QED BY <1>2, <3>1 DEF Logged
  <2>3. \A t \in snapshots : t # row => Pending(t.id)' = Pending(t.id)
    <3> SUFFICES ASSUME NEW t \in snapshots, t # row PROVE Pending(t.id)' = Pending(t.id)
      OBVIOUS
    <3>1. t.id # work[p].new_id
      BY <1>1, <1>3 DEF RowIds
    <3> QED BY <1>2, <3>1, PendingOfOne
  <2>4. ASSUME NEW s \in snapshots, Successive(s, row)
        PROVE  EvaluateGp(s.orbit, row.orbit) \subseteq Logged(s, row)' \cup Pending(row.id)'
    <3>1. s = prev
      BY <1>1, <1>3, <1>4, <2>4, OnePredecessor
    <3>2. events \ {code} \subseteq Pending(row.id)'
      BY <1>2, <1>3, <1>4, PendingOfOne
    <3>3. \A e \in audt_events' : e.new_snapshot_id = row.id => e.prev_snapshot_id = prev.id
      <4> SUFFICES ASSUME NEW e \in audt_events', e.new_snapshot_id = row.id
                   PROVE  e.prev_snapshot_id = prev.id
        OBVIOUS
      <4>1. CASE e \in audt_events
        BY <1>5, <4>1
      <4>2. CASE e \notin audt_events
        BY <1>2, <1>4, <4>2
      <4> QED BY <4>1, <4>2
    <3>4. Told(row.id)' \subseteq Logged(prev, row)'
      BY <3>3 DEF Told, Logged
    <3> QED BY <1>4, <1>6, <3>1, <3>2, <3>4
  <2>5. \A t \in snapshots : t # row => (t \in Unreported' <=> t \in Unreported)
    BY <1>2, <2>1, <2>2, <2>3 DEF Unreported
  <2>6. row \notin Unreported'
    BY <1>2, <2>1, <2>4 DEF Unreported
  <2>7. Unreported \subseteq snapshots /\ Unreported' \subseteq snapshots
    BY <1>2 DEF Unreported
  <2> QED BY <1>3, <2>5, <2>6, <2>7
<1>9. CASE pc'[p] = "event"
  <2>1. InFlight' = InFlight
    BY <1>1, <1>2, <1>9, InFlightOfOne
  <2>2. Complete' = Complete
    BY <1>2, <2>1 DEF Complete
  <2> QED BY <1>7, <1>8, <2>2, Unseen
<1>10. CASE pc'[p] = "record"
  <2>1. InFlight' = {}
    BY <1>10, InFlightOfOne
  <2>2. Complete' = Complete \cup {row}
    BY <1>2, <1>3, <2>1 DEF Complete
  <2>3. /\ History!Accept(row.norad_cat_id, EntryOf(row))
        /\ EntryOf(row) \in HistoryOf(row.norad_cat_id)'
        /\ History!Changes(row.norad_cat_id, EntryOf(row)) = Firings(prev, row)
        /\ LogOf' = LogOf \cup {<<EntryOf(row).gp_id, c>> : c \in Told(row.id)'}
    BY <1>1, <1>3, <1>4, <1>7, <2>2, Accepting
  <2>4. Firings(prev, row) = fired /\ Told(row.id)' = fired
    BY <1>2, <1>3, <1>4, <1>5, <1>6, <1>10 DEF Firings
  <2>5. LogOf' = LogOf \cup {<<EntryOf(row).gp_id, c>> :
                               c \in History!Changes(row.norad_cat_id, EntryOf(row))}
    BY <2>3, <2>4
  <2>6. row.norad_cat_id \in Object
    BY <1>3 DEF SnapshotRow
  <2> QED BY <1>8, <2>3, <2>5, <2>6 DEF History!Ingest, History!Report
<1> QED BY <1>2, <1>9, <1>10

(* A failure among the events of a row brings the row into the history with  *)
(* those that were written, the ones registered first.                       *)
LEMMA FailureSteps ==
    ASSUME SingleRunInv, \A p, q \in Process : p = q, NEW p \in Process,
           pc[p] = "event", pc'[p] \in {"record", "idle"},
           UNCHANGED <<snapshots, audt_events>>, Fault
    PROVE  \E o \in Object : \E e \in HistoryOf(o)' : History!IngestCutShort(o, e)
<1>1. /\ TypeOK /\ RowIds /\ BeingReported(p) /\ Telling(p) /\ LossFew
      /\ Complete \subseteq snapshots /\ snapshots \subseteq SnapshotRow
  BY DEF SingleRunInv, IngestInv, LossInv, TypeOK, Complete
<1>2. PICK row \in snapshots :
        /\ row = SnapshotOf(work[p].record, work[p].new_id) /\ row.id = work[p].new_id
        /\ row \in SnapshotRow /\ row \notin Complete /\ snapshots = Complete \cup {row}
        /\ work[p].prev \in Complete /\ work[p].prev # NoSnapshot
        /\ work[p].prev.norad_cat_id = row.norad_cat_id
        /\ Successive(work[p].prev, row)
        /\ row \notin Unreported
        /\ \A s \in Complete : s.norad_cat_id = row.norad_cat_id =>
              s.epoch < row.epoch /\ (s = work[p].prev \/ s.epoch < work[p].prev.epoch)
  BY RowsOfRun
<1>3. PICK prev, events, fired, told :
        /\ prev = work[p].prev /\ events = work[p].events /\ told = Told(row.id)
        /\ fired = EvaluateGp(prev.orbit, row.orbit)
  OBVIOUS
<1>4. /\ told = fired \ events /\ events \subseteq fired /\ events # {}
      /\ \A c \in told, d \in events : RegisteredBefore(GpRegistry, c, d)
  <2>1. row.orbit = work[p].record.orbit
    BY <1>2 DEF SnapshotOf
  <2> QED BY <1>1, <1>2, <1>3, <2>1 DEF Telling, BeingReported
<1>5. \A id : Told(id)' = Told(id)
  BY DEF Told
<1>6. Unreported' = Unreported \cup {row}
  <2>1. \A s, t \in snapshots : /\ Successive(s, t)' <=> Successive(s, t)
                                /\ Logged(s, t)' = Logged(s, t)
    BY DEF Successive, Logged
  <2>2. \A t \in snapshots : t # row => Pending(t.id)' = Pending(t.id)
    <3> SUFFICES ASSUME NEW t \in snapshots, t # row PROVE Pending(t.id)' = Pending(t.id)
      OBVIOUS
    <3>1. t.id # work[p].new_id
      BY <1>1, <1>2 DEF RowIds
    <3> QED BY <3>1, PendingOfOne
  <2>3. Pending(row.id)' = {}
    BY PendingOfOne
  <2>4. Logged(prev, row)' \subseteq told
    BY <1>3 DEF Logged, Told
  <2>5. ~ EvaluateGp(prev.orbit, row.orbit) \subseteq Logged(prev, row)' \cup Pending(row.id)'
    BY <1>3, <1>4, <2>3, <2>4
  <2>6. row \in Unreported'
    BY <1>1, <1>2, <1>3, <2>1, <2>5 DEF Unreported
  <2>7. \A t \in snapshots : t # row => (t \in Unreported' <=> t \in Unreported)
    BY <2>1, <2>2 DEF Unreported
  <2>8. Unreported \subseteq snapshots /\ Unreported' \subseteq snapshots
    BY DEF Unreported
  <2> QED BY <1>2, <2>6, <2>7, <2>8
<1>7. /\ Cardinality(Unreported)' = Cardinality(Unreported) + 1
      /\ Cardinality(Unreported) < MaxFaults
  <2>1. IsFiniteSet(Unreported) /\ Cardinality(Unreported) \in Nat
    BY <1>1, FS_CardinalityType DEF LossFew
  <2>2. Cardinality(Unreported \cup {row}) = Cardinality(Unreported) + 1
    BY <1>2, <2>1, FS_AddElement
  <2>3. Cardinality(Unreported) <= faults /\ faults < MaxFaults /\ faults \in Nat /\ MaxFaults \in Nat
    BY <1>1, FaultAssumption DEF LossFew, Fault, TypeOK
  <2> QED BY <1>6, <2>1, <2>2, <2>3
<1>8. Complete' = Complete \cup {row}
  <2>1. InFlight' = {}
    BY InFlightOfOne
  <2> QED BY <1>2, <2>1 DEF Complete
<1>9. /\ History!Accept(row.norad_cat_id, EntryOf(row))
      /\ EntryOf(row) \in HistoryOf(row.norad_cat_id)'
      /\ History!Changes(row.norad_cat_id, EntryOf(row)) = Firings(prev, row)
      /\ LogOf' = LogOf \cup {<<EntryOf(row).gp_id, c>> : c \in Told(row.id)'}
  BY <1>1, <1>2, <1>3, <1>5, <1>8, Accepting
<1>10. History!Changes(row.norad_cat_id, EntryOf(row)) = fired
  BY <1>2, <1>3, <1>9 DEF Firings
<1>11. History!Report(EntryOf(row), told)
  BY <1>3, <1>5, <1>9 DEF History!Report
<1>12. \A c \in told, d \in fired \ told :
          History!RegisteredBefore(History!GpRegistry, c, d)
  BY <1>4, SameRules
<1>13. told \in SUBSET fired /\ told # fired
  BY <1>4
<1>14. row.norad_cat_id \in Object
  BY <1>2 DEF SnapshotRow
<1>15. History!IngestCutShort(row.norad_cat_id, EntryOf(row))
  BY <1>7, <1>9, <1>10, <1>11, <1>12, <1>13 DEF History!IngestCutShort
<1> QED BY <1>9, <1>14, <1>15

(* Steps that neither store nor report, nor give up a row half reported.     *)
LEMMA QuietSteps ==
    ASSUME \A p, q \in Process : p = q, NEW p \in Process,
           UNCHANGED <<snapshots, audt_events>>, pc[p] # "event", pc'[p] # "event"
    PROVE  UNCHANGED History!vars
<1>1. InFlight = {} /\ InFlight' = {}
  BY InFlightOfOne
<1>2. Complete' = Complete
  BY <1>1 DEF Complete
<1>3. \A id : Told(id)' = Told(id)
  BY DEF Told
<1>4. \A id : Pending(id)' = Pending(id)
  BY PendingOfOne
<1>5. Unreported' = Unreported
  BY <1>4 DEF Unreported, Successive, Logged
<1> QED BY <1>2, <1>3, <1>5, Unseen

LEMMA RunSteps ==
    ASSUME SingleRunInv, \A p, q \in Process : p = q, NEW p \in Process, Step(p) \/ Failure(p)
    PROVE  [History!Next]_(History!vars)
<1>1. TypeOK
  BY DEF SingleRunInv, IngestInv
<1>2. CASE InsertSnapshot(p) \/ InsertEvent(p)
  BY <1>2, InsertSteps, EventSteps DEF History!Next
<1>3. CASE \/ Start(p) \/ SelectHot(p) \/ SelectRotation(p) \/ Login(p) \/ Fetch(p)
           \/ LookupUnchanged(p) \/ LookupNew(p) \/ InsertConflict(p)
  <2>1. /\ UNCHANGED <<snapshots, audt_events>> /\ pc[p] # "event" /\ pc'[p] # "event"
    BY <1>1, <1>3 DEF Start, SelectHot, SelectRotation, ReadCursor, SelectPrimary, SelectWrap,
                      Login, Fetch, LookupUnchanged, LookupNew,
       InsertConflict, NextRecord, Goto, db, TypeOK
  <2> QED BY <2>1, QuietSteps
<1>4. CASE \/ RecordFails(p) \/ SelectFails(p) \/ LoginFails(p) \/ NoTargetsConfigured(p)
           \/ FetchFails(p) \/ FetchUnparseable(p) \/ AdvanceFails(p) \/ Crash(p) \/ AdvanceCursor(p)
  <2>1. /\ UNCHANGED <<snapshots, audt_events>> /\ pc'[p] \in {"record", "idle"}
    BY <1>1, <1>4 DEF RecordFails, SelectFails, LoginFails, NoTargetsConfigured, FetchFails,
       FetchUnparseable, AdvanceFails, Crash, AdvanceCursor, NextRecord, Leave, db, TypeOK
  <2>2. pc[p] = "event" => Fault
    BY <1>4 DEF RecordFails, SelectFails, LoginFails, NoTargetsConfigured, FetchFails,
       FetchUnparseable, AdvanceFails, Crash, AdvanceCursor
  <2>3. CASE pc[p] = "event"
    BY <2>1, <2>2, <2>3, FailureSteps DEF History!Next
  <2>4. CASE pc[p] # "event"
    BY <2>1, <2>4, QuietSteps
  <2> QED BY <2>3, <2>4
<1> QED BY <1>2, <1>3, <1>4 DEF Step, Failure

(* As long as runs do not overlap and Space-Track dates a new element set    *)
(* after the one it replaces, the poller implements EventHistory: whatever   *)
(* fails or crashes between its transactions, each element set is accepted   *)
(* once, after all before it, together with the events of its change, and a  *)
(* failure cuts at most one report short, from its end.                      *)
THEOREM ImplementsHistory ==
    ASSUME \A p, q \in Process : p = q, EpochStep \subseteq Nat \ {0}
    PROVE  Spec => ImplementsEventHistory
<1>1. ASSUME Init PROVE History!Init
  <2>1. Complete = {} /\ Unreported = {}
    BY <1>1 DEF Init, Complete, Unreported
  <2>2. LogOf = {} /\ \A o \in Object : HistoryOf(o) = {}
    BY <2>1 DEF LogOf, HistoryOf
  <2> QED BY <2>1, <2>2, FS_EmptySet DEF History!Init
<1>2. ASSUME SingleRunInv, [Next]_vars PROVE [History!Next]_(History!vars)
  <2>1. CASE UNCHANGED vars \/ \E o \in Object : Environment(o)
    <3>1. UNCHANGED <<snapshots, audt_events, pc, work>>
      BY <2>1 DEF vars, db, locals, Environment, CatalogObject, Hit, Publish
    <3>2. Complete' = Complete /\ Unreported' = Unreported /\ \A id : Told(id)' = Told(id)
      BY <3>1 DEF Complete, InFlight, Unreported, Successive, Logged, Pending, Told
    <3> QED BY <3>2, Unseen
  <2> QED BY <1>2, <2>1, RunSteps DEF Next
<1> QED BY <1>1, <1>2, SingleRunInvariant, PTL DEF Spec, ImplementsEventHistory, History!Spec
=============================================================================
