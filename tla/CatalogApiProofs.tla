--------------------------- MODULE CatalogApiProofs ---------------------------
(***************************************************************************)
(* A 304 for a settled copy tells the truth, for any catalogue, any number *)
(* of clients and any sequence of imports, failures and requests.          *)
(***************************************************************************)
EXTENDS CatalogApi, SatcatPollerProperties, FiniteSetTheorems, TLAPS

RowField == {"object_name", "object_type", "rcs_size", "decay_date", "site", "object_id", "hit_count"}

(* ---------------------------- rows and entries ------------------------- *)

LEMMA EntryField ==
    ASSUME NEW e \in Entry
    PROVE  /\ e.object_name \in Text("object_name") /\ e.object_type \in Text("object_type")
           /\ e.rcs_size \in Text("rcs_size") /\ e.decay_date \in Text("decay_date")
           /\ e.site \in Text("site")
BY DEF Text

LEMMA NewRowType ==
    ASSUME NEW e \in Entry
    PROVE  NewRow(e) \in Row
<1>1. Absent \in Text("object_id")
  BY DEF Text
<1> QED BY <1>1, EntryField DEF NewRow, Row

LEMMA RefreshType ==
    ASSUME NEW row \in Row, NEW e \in Entry
    PROVE  Refresh(row, e) \in Row
<1>1. DOMAIN row = RowField
  BY DEF Row, RowField
<1>2. Refresh(row, e) = [object_name |-> e.object_name, object_type |-> e.object_type,
                         rcs_size |-> e.rcs_size, decay_date |-> e.decay_date,
                         site |-> row.site, object_id |-> row.object_id,
                         hit_count |-> row.hit_count]
  BY <1>1 DEF Refresh, Refreshed, RowField
<1>3. /\ row.site \in Text("site") /\ row.object_id \in Text("object_id") /\ row.hit_count \in Nat
  BY DEF Row
<1> QED BY <1>2, <1>3, EntryField DEF Row

LEMMA HitType ==
    ASSUME NEW row \in Row
    PROVE  /\ [row EXCEPT !.hit_count = @ + 1] \in Row
           /\ \A f \in Columns : [row EXCEPT !.hit_count = @ + 1][f] = row[f]
BY DEF Row, Columns

(* ------------------------------ the poller ----------------------------- *)

(* No transaction is open before the answer is there. *)
NothingWritten == pc # "process" => records = {} /\ upserted = {} /\ inserted = {}

PollerInv == TypeOK /\ NothingWritten

LEMMA InitType == Init => PollerInv
BY DEF Init, PollerInv, TypeOK, NothingWritten, NoAnswer

LEMMA LeaveType ==
    ASSUME TypeOK, Leave, UNCHANGED <<objects, audt_events, satcat, amendments>>, faults' \in Nat
    PROVE  TypeOK'
BY DEF TypeOK, Leave, NoAnswer

LEMMA ActiveType ==
    ASSUME TypeOK, NEW o \in Active
    PROVE  o \in Object /\ satcat[o] \in Entry
BY DEF TypeOK, Active

LEMMA ProcessRowType ==
    ASSUME TypeOK, NEW o \in Object, ProcessRow(o)
    PROVE  TypeOK'
<1>1. Firings(objects[o], parsed[o]) \subseteq ObjectEventType
  BY DEF Firings, EvaluateObject
<1>2. inserted' \subseteq upserted' \X ObjectEventType
  BY <1>1 DEF TypeOK, ProcessRow
<1> QED BY <1>2 DEF TypeOK, ProcessRow, db, external

LEMMA CommitType ==
    ASSUME TypeOK, Commit
    PROVE  TypeOK'
<1>1. objects' \in [Object -> Row \cup {NoRow}]
  <2>1. ASSUME NEW o \in upserted PROVE Upsert(objects[o], parsed[o]) \in Row
    <3>1. o \in Object /\ parsed[o] \in Entry /\ objects[o] \in Row \cup {NoRow}
      BY DEF TypeOK
    <3> QED BY <3>1, NewRowType, RefreshType DEF Upsert
  <2> QED BY <2>1 DEF TypeOK, Commit
<1>2. audt_events' \in [Object \X ObjectEventType -> Nat]
  BY DEF TypeOK, Commit
<1> QED BY <1>1, <1>2 DEF TypeOK, Commit, Leave, NoAnswer, external

(* A step of the poller, a hit or an amendment keeps every variable in type. *)
LEMMA StepType ==
    ASSUME PollerInv, [Next]_vars
    PROVE  TypeOK'
<1> USE DEF PollerInv
<1>1. CASE Start
  BY <1>1 DEF Start, TypeOK, db, external
<1>2. CASE Fetch
  BY <1>2, ActiveType DEF Fetch, TypeOK, NothingWritten, db, external
<1>3. CASE FetchNothing
  BY <1>3, LeaveType DEF FetchNothing, db, external, TypeOK
<1>4. CASE Commit
  BY <1>4, CommitType
<1>5. CASE \E o \in Object : ProcessRow(o)
  BY <1>5, ProcessRowType
<1>6. CASE \E o \in Object : RejectRow(o)
  BY <1>6, LeaveType DEF RejectRow, db, external, TypeOK
<1>7. CASE Fail
  BY <1>7, LeaveType DEF Fail, db, external, TypeOK
<1>8. ASSUME NEW o \in Object, Hit(o) PROVE TypeOK'
  <2>1. objects[o] \in Row
    BY <1>8 DEF TypeOK, Hit
  <2>2. objects' = [objects EXCEPT ![o] = [objects[o] EXCEPT !.hit_count = @ + 1]]
    BY <1>8 DEF Hit
  <2> HIDE DEF Row
  <2> QED BY <1>8, <2>1, <2>2, HitType DEF Hit, TypeOK, process, external
<1>9. ASSUME NEW o \in Object, Amend(o) PROVE TypeOK'
  BY <1>9 DEF Amend, TypeOK, db, process
<1>10. CASE UNCHANGED vars
  BY <1>10 DEF vars, db, process, external, TypeOK
<1> QED BY <1>1, <1>2, <1>3, <1>4, <1>5, <1>6, <1>7, <1>8, <1>9, <1>10 DEF Next, Step, Environment

LEMMA StepKeepsPollerInv ==
    ASSUME PollerInv, [Next]_vars
    PROVE  PollerInv'
<1>1. TypeOK'
  BY StepType
<1>2. NothingWritten'
  BY DEF PollerInv, NothingWritten, Next, Step, Environment, Start, Fetch, FetchNothing, Commit, ProcessRow,
         RejectRow, Fail, Leave, Hit, Amend, vars, process
<1> QED BY <1>1, <1>2 DEF PollerInv

(* Every variable of the SATCAT poller stays within its type, for any        *)
(* catalogue and any entries.                                                *)
THEOREM SatcatTypeCorrect == Spec => []TypeOK
<1>1. PollerInv /\ [Next]_vars => PollerInv'
  BY StepKeepsPollerInv
<1>2. PollerInv => TypeOK
  BY DEF PollerInv
<1> QED BY <1>1, <1>2, InitType, PTL DEF Spec

(* ------------------ SatcatPoller implements CatalogHistory -------------- *)

(* What History is given as Entry: the facts of an entry, with the site of   *)
(* the object's first sighting.                                              *)
Fact == {[Says(e) EXCEPT !.site = s] : e \in Entry, s \in Sites}

LEMMA FactOf ==
    ASSUME NEW e \in Entry, NEW s \in Sites
    PROVE  /\ [Says(e) EXCEPT !.site = s] \in Fact
           /\ [Says(e) EXCEPT !.site = s] =
                [object_name |-> e.object_name, object_type |-> e.object_type,
                 rcs_size |-> e.rcs_size, decay_date |-> e.decay_date, site |-> s]
<1>1. [Says(e) EXCEPT !.site = s] =
         [object_name |-> e.object_name, object_type |-> e.object_type,
          rcs_size |-> e.rcs_size, decay_date |-> e.decay_date, site |-> s]
  BY DEF Says
<1>2. [Says(e) EXCEPT !.site = s] \in Fact
  BY DEF Fact
<1> QED BY <1>1, <1>2

LEMMA FactRecord ==
    ASSUME NEW e \in Entry, NEW s \in Sites, NEW fact,
           fact = [object_name |-> e.object_name, object_type |-> e.object_type,
                   rcs_size |-> e.rcs_size, decay_date |-> e.decay_date, site |-> s]
    PROVE  fact \in Fact
<1> DEFINE said == [Says(e) EXCEPT !.site = s]
<1>1. said \in Fact /\ fact = said
  BY FactOf
<1> QED BY <1>1

LEMMA KnownRow ==
    ASSUME NEW row \in Row
    PROVE  /\ row # NoRow /\ Known(row) # NoRow
           /\ Known(row) = [object_name |-> row.object_name, object_type |-> row.object_type,
                            rcs_size |-> row.rcs_size, decay_date |-> row.decay_date,
                            site |-> row.site]
<1>1. row # NoRow
  BY RowAssumption
<1>2. Known(row) = [object_name |-> row.object_name, object_type |-> row.object_type,
                    rcs_size |-> row.rcs_size, decay_date |-> row.decay_date, site |-> row.site]
  BY <1>1 DEF Known
<1>3. Known(row) \in Facts
  BY <1>2 DEF Row, Facts
<1> QED BY <1>1, <1>2, <1>3, RowAssumption

(* A row is inserted as the entry says. *)
LEMMA KnownNewRow ==
    ASSUME NEW e \in Entry
    PROVE  Known(NewRow(e)) \in Fact /\ NewRow(e).hit_count = 0
<1>1. Known(NewRow(e)) = [object_name |-> e.object_name, object_type |-> e.object_type,
                          rcs_size |-> e.rcs_size, decay_date |-> e.decay_date, site |-> e.site]
  <2> DEFINE row == NewRow(e)
  <2>1. row \in Row
    BY NewRowType
  <2>2. /\ row.object_name = e.object_name /\ row.object_type = e.object_type
        /\ row.rcs_size = e.rcs_size /\ row.decay_date = e.decay_date /\ row.site = e.site
    BY DEF NewRow
  <2> HIDE DEF row
  <2>3. Known(row) = [object_name |-> e.object_name, object_type |-> e.object_type,
                      rcs_size |-> e.rcs_size, decay_date |-> e.decay_date, site |-> e.site]
    BY <2>1, <2>2, KnownRow
  <2> QED BY <2>3 DEF row
<1>2. e.site \in Sites
  BY DEF Sites
<1>3. Known(NewRow(e)) \in Fact
  BY <1>1, <1>2, FactRecord
<1>4. NewRow(e).hit_count = 0
  BY DEF NewRow
<1> QED BY <1>3, <1>4

(* A refreshed row says what the entry says, but for its first sighting, and *)
(* the rules cannot tell it from the entry.                                  *)
LEMMA KnownRefresh ==
    ASSUME NEW row \in Row, NEW e \in Entry, Known(row) \in Fact
    PROVE  /\ Refresh(row, e) \in Row
           /\ Known(Refresh(row, e)) \in Fact
           /\ Known(Refresh(row, e)).site = Known(row).site
           /\ Refresh(row, e).hit_count = row.hit_count
           /\ EvaluateObject(Known(row), Known(Refresh(row, e))) = EvaluateObject(row, e)
<1> DEFINE next == Refresh(row, e)
<1>1. DOMAIN row = RowField
  BY DEF Row, RowField
<1>2. /\ next.object_name = e.object_name /\ next.object_type = e.object_type
      /\ next.rcs_size = e.rcs_size /\ next.decay_date = e.decay_date
      /\ next.site = row.site /\ next.hit_count = row.hit_count
  BY <1>1 DEF Refresh, Refreshed, RowField
<1>3. next \in Row
  BY RefreshType
<1> HIDE DEF next
<1>4. Known(next) = [object_name |-> e.object_name, object_type |-> e.object_type,
                     rcs_size |-> e.rcs_size, decay_date |-> e.decay_date, site |-> row.site]
  BY <1>2, <1>3, KnownRow
<1>5. Known(row) = [object_name |-> row.object_name, object_type |-> row.object_type,
                    rcs_size |-> row.rcs_size, decay_date |-> row.decay_date, site |-> row.site]
  BY KnownRow
<1>6. row.site \in Sites
  <2>1. PICK d \in Entry, s \in Sites : Known(row) = [Says(d) EXCEPT !.site = s]
    BY DEF Fact
  <2>2. Known(row).site = s
    BY <2>1, FactOf
  <2> QED BY <1>5, <2>2
<1>7. Known(next) \in Fact
  BY <1>4, <1>6, FactRecord
<1>8. EvaluateObject(Known(row), Known(next)) = EvaluateObject(row, e)
  <2> DEFINE old == Known(row)
             new == Known(next)
  <2>1. /\ old.object_name = row.object_name /\ old.object_type = row.object_type
        /\ old.rcs_size = row.rcs_size /\ old.decay_date = row.decay_date
    BY <1>5
  <2>2. /\ new.object_name = e.object_name /\ new.object_type = e.object_type
        /\ new.rcs_size = e.rcs_size /\ new.decay_date = e.decay_date
    BY <1>4
  <2> HIDE DEF old, new
  <2>3. /\ DecayDetected(old, new) <=> DecayDetected(row, e)
        /\ ObjectRenamed(old, new) <=> ObjectRenamed(row, e)
        /\ ObjectTypeChanged(old, new) <=> ObjectTypeChanged(row, e)
        /\ RcsSizeChanged(old, new) <=> RcsSizeChanged(row, e)
    BY <2>1, <2>2 DEF DecayDetected, ObjectRenamed, ObjectTypeChanged, RcsSizeChanged, KnownChange
  <2>4. EvaluateObject(old, new) = EvaluateObject(row, e)
    BY <2>3 DEF EvaluateObject
  <2> QED BY <2>4 DEF old, new
<1> QED BY <1>2, <1>3, <1>4, <1>5, <1>7, <1>8 DEF next

(* What fires no rule: an entry that says nothing new. *)
LEMMA NothingNew ==
    ASSUME NEW f
    PROVE  EvaluateObject(f, f) = {}
BY DEF EvaluateObject, DecayDetected, ObjectRenamed, ObjectTypeChanged, RcsSizeChanged, KnownChange

(* Rows hold facts of Space-Track, and the transaction has written exactly   *)
(* the events of the rows it has upserted so far.                            *)
HistoryInv ==
    /\ PollerInv
    /\ \A o \in Object : objects[o] # NoRow => Known(objects[o]) \in Fact
    /\ \A o \in upserted, code \in ObjectEventType :
          <<o, code>> \in inserted <=> code \in Firings(objects[o], parsed[o])

LEMMA HistoryInitInv == Init => HistoryInv
BY InitType DEF Init, HistoryInv

(* A row with a record still to come is not upserted yet, and its columns    *)
(* stay while the transaction is open.                                       *)
LEMMA ProcessRowHistory ==
    ASSUME HistoryInv, NEW o \in Object, ProcessRow(o)
    PROVE  HistoryInv'
<1>1. /\ o \in records /\ UNCHANGED <<objects, parsed>>
      /\ upserted' = upserted \cup {o}
      /\ inserted' = inserted \cup {<<o, code>> : code \in Firings(objects[o], parsed[o])}
  BY DEF ProcessRow, db
<1>2. o \notin upserted /\ inserted \subseteq upserted \X ObjectEventType
  BY <1>1 DEF HistoryInv, PollerInv, TypeOK
<1>3. PollerInv'
  BY StepKeepsPollerInv DEF HistoryInv, Next, Step
<1>4. \A q \in upserted', code \in ObjectEventType :
         <<q, code>> \in inserted' <=> code \in Firings(objects[q], parsed[q])
  <2>1. ASSUME NEW q \in upserted, NEW code \in ObjectEventType
        PROVE  <<q, code>> \in inserted' <=> code \in Firings(objects[q], parsed[q])
    BY <1>1, <1>2 DEF HistoryInv
  <2>2. ASSUME NEW code \in ObjectEventType
        PROVE  <<o, code>> \in inserted' <=> code \in Firings(objects[o], parsed[o])
    BY <1>1, <1>2
  <2> QED BY <1>1, <2>1, <2>2
<1> QED BY <1>1, <1>3, <1>4 DEF HistoryInv, Known, Firings

(* What a commit makes of each row. *)
LEMMA Committed ==
    ASSUME HistoryInv, Commit, NEW o \in Object
    PROVE  \/ /\ o \in upserted /\ parsed[o] \in Entry
              /\ objects'[o] = Upsert(objects[o], parsed[o])
           \/ o \notin upserted /\ objects'[o] = objects[o]
BY DEF HistoryInv, PollerInv, TypeOK, Commit

LEMMA RowsOf ==
    ASSUME HistoryInv, NEW o \in Object, objects[o] # NoRow
    PROVE  objects[o] \in Row /\ Known(objects[o]) \in Fact
BY DEF HistoryInv, PollerInv, TypeOK

LEMMA CommitHistory ==
    ASSUME HistoryInv, Commit
    PROVE  HistoryInv'
<1>1. PollerInv'
  BY StepKeepsPollerInv DEF HistoryInv, Next, Step
<1>2. ASSUME NEW o \in Object, objects'[o] # NoRow PROVE Known(objects'[o]) \in Fact
  <2>1. CASE o \notin upserted
    BY <1>2, <2>1, Committed, RowsOf
  <2>2. CASE o \in upserted /\ objects[o] = NoRow
    BY <2>2, Committed, KnownNewRow DEF Upsert
  <2>3. CASE o \in upserted /\ objects[o] # NoRow
    BY <2>3, Committed, RowsOf, KnownRefresh DEF Upsert
  <2> QED BY <2>1, <2>2, <2>3
<1>3. upserted' = {}
  BY DEF Commit, Leave
<1> QED BY <1>1, <1>2, <1>3 DEF HistoryInv, Known

(* A hit is counted in a row that no open transaction has written. *)
LEMMA HitHistory ==
    ASSUME HistoryInv, NEW o \in Object, Hit(o)
    PROVE  /\ HistoryInv'
           /\ \A q \in Object : Known(objects'[q]) = Known(objects[q])
<1>1. /\ o \notin upserted /\ UNCHANGED <<upserted, inserted, parsed>>
      /\ objects[o] # NoRow /\ objects' = [objects EXCEPT ![o] = [objects[o] EXCEPT !.hit_count = @ + 1]]
  BY DEF Hit, process
<1>2. objects[o] \in Row /\ [objects[o] EXCEPT !.hit_count = @ + 1] \in Row
  BY <1>1, RowsOf, HitType
<1>3. objects'[o] = [objects[o] EXCEPT !.hit_count = @ + 1]
      /\ \A q \in Object \ {o} : objects'[q] = objects[q]
  BY <1>1 DEF HistoryInv, PollerInv, TypeOK
<1>4. Known(objects'[o]) = Known(objects[o])
  <2>1. /\ objects'[o].object_name = objects[o].object_name
        /\ objects'[o].object_type = objects[o].object_type
        /\ objects'[o].rcs_size = objects[o].rcs_size
        /\ objects'[o].decay_date = objects[o].decay_date
        /\ objects'[o].site = objects[o].site
    BY <1>2, <1>3 DEF Row
  <2> QED BY <1>2, <1>3, <2>1, KnownRow
<1>5. PollerInv'
  BY StepKeepsPollerInv DEF HistoryInv, Next, Environment
<1>6. upserted \subseteq Object
  BY DEF HistoryInv, PollerInv, TypeOK
<1>7. \A q \in Object : objects'[q] # NoRow => objects[q] # NoRow
  BY <1>1, <1>3
<1> QED BY <1>1, <1>3, <1>4, <1>5, <1>6, <1>7 DEF HistoryInv, Known, Firings

(* The steps readers do not see. *)
Unseen == UNCHANGED db

LEMMA UnseenSteps ==
    ASSUME [Next]_vars
    PROVE  Commit \/ (\E o \in Object : Hit(o)) \/ Unseen
BY DEF Next, Step, Environment, Start, Fetch, FetchNothing, ProcessRow, RejectRow, Fail, Amend,
       vars, Unseen

LEMMA UnseenHistory ==
    ASSUME HistoryInv, [Next]_vars, Unseen
    PROVE  HistoryInv'
<1>1. PollerInv'
  BY StepKeepsPollerInv DEF HistoryInv
<1>2. \A o \in Object : objects'[o] # NoRow => Known(objects'[o]) \in Fact
  BY DEF HistoryInv, Unseen, db, Known
<1>3. ASSUME upserted' = {} PROVE HistoryInv'
  BY <1>1, <1>2, <1>3 DEF HistoryInv, Known
<1>4. ASSUME UNCHANGED <<upserted, inserted, parsed>> PROVE HistoryInv'
  BY <1>1, <1>2, <1>4 DEF HistoryInv, Known, Unseen, db, Firings
<1>5. CASE \E o \in Object : ProcessRow(o)
  BY <1>5, ProcessRowHistory
<1>6. ASSUME Fetch PROVE upserted' = {}
  BY <1>6 DEF Fetch, HistoryInv, PollerInv, NothingWritten
<1> QED BY <1>3, <1>4, <1>5, <1>6, CommitHistory, HitHistory
        DEF Next, Step, Environment, Start, FetchNothing, RejectRow, Fail, Leave, Amend, vars, process

LEMMA StepKeepsHistoryInv ==
    ASSUME HistoryInv, [Next]_vars
    PROVE  HistoryInv'
BY UnseenSteps, UnseenHistory, CommitHistory, HitHistory

(* The history and the poller go by the same rules. *)
LEMMA SameRules ==
    /\ History!ObjectEventType = ObjectEventType
    /\ \A a, b : History!EvaluateObject(a, b) = EvaluateObject(a, b)
<1>1. History!ObjectEventType = ObjectEventType
  BY DEF History!ObjectEventType, ObjectEventType, History!ObjectRegistry, ObjectRegistry
<1>2. ASSUME NEW a, NEW b PROVE History!EvaluateObject(a, b) = EvaluateObject(a, b)
  <2>1. History!DecayDetected(a, b) <=> DecayDetected(a, b)
    BY DEF History!DecayDetected, DecayDetected, History!Absent, Absent
  <2>2. \A x, y : History!KnownChange(x, y) <=> KnownChange(x, y)
    BY DEF History!KnownChange, KnownChange, History!Absent, Absent
  <2> QED BY <1>1, <2>1, <2>2
          DEF History!EvaluateObject, EvaluateObject, History!ObjectRenamed, ObjectRenamed,
              History!ObjectTypeChanged, ObjectTypeChanged, History!RcsSizeChanged, RcsSizeChanged
<1> QED BY <1>1, <1>2

(* An import is one step of the history. *)
LEMMA CommitImports ==
    ASSUME HistoryInv, Commit
    PROVE  History!Import
<1> DEFINE known(o) == Known(objects[o])
<1>1. ASSUME NEW o \in Object
      PROVE  /\ Known(objects'[o]) \in Fact \cup {NoRow}
             /\ known(o) # NoRow => Known(objects'[o]) \in Fact /\ Known(objects'[o]).site = known(o).site
             /\ (IF objects'[o] = NoRow THEN 0 ELSE objects'[o].hit_count)
                   = (IF objects[o] = NoRow THEN 0 ELSE objects[o].hit_count)
  <2>1. CASE o \notin upserted
    <3>1. objects'[o] = objects[o]
      BY <2>1, Committed
    <3>2. objects[o] = NoRow => known(o) = NoRow
      BY DEF Known
    <3> QED BY <3>1, <3>2, RowsOf
  <2>2. CASE o \in upserted /\ objects[o] = NoRow
    <3>1. objects'[o] = NewRow(parsed[o]) /\ parsed[o] \in Entry
      BY <2>2, Committed DEF Upsert
    <3>2. known(o) = NoRow
      BY <2>2 DEF Known
    <3>3. objects'[o] # NoRow
      BY <3>1, NewRowType, KnownRow
    <3> QED BY <2>2, <3>1, <3>2, <3>3, KnownNewRow
  <2>3. CASE o \in upserted /\ objects[o] # NoRow
    <3>1. objects'[o] = Refresh(objects[o], parsed[o]) /\ parsed[o] \in Entry
      BY <2>3, Committed DEF Upsert
    <3>2. objects[o] \in Row /\ known(o) \in Fact
      BY <2>3, RowsOf
    <3>3. objects'[o] # NoRow
      BY <3>1, <3>2, KnownRefresh, KnownRow
    <3> QED BY <2>3, <3>1, <3>2, <3>3, KnownRefresh
  <2> QED BY <2>1, <2>2, <2>3
<1>2. ASSUME NEW o \in Object, NEW code \in ObjectEventType
      PROVE  <<o, code>> \in inserted <=> History!Changed(known(o), Known(objects'[o]), code)
  <2>1. CASE o \notin upserted
    <3>1. Known(objects'[o]) = known(o)
      BY <2>1, Committed
    <3>2. <<o, code>> \notin inserted
      BY <2>1 DEF HistoryInv, PollerInv, TypeOK
    <3> QED BY <3>1, <3>2 DEF History!Changed
  <2>2. CASE o \in upserted /\ objects[o] = NoRow
    <3>1. <<o, code>> \notin inserted
      BY <2>2 DEF HistoryInv, Firings
    <3>2. known(o) = NoRow
      BY <2>2 DEF Known
    <3> QED BY <3>1, <3>2 DEF History!Changed
  <2>3. CASE o \in upserted /\ objects[o] # NoRow
    <3>1. objects'[o] = Refresh(objects[o], parsed[o]) /\ parsed[o] \in Entry
      BY <2>3, Committed DEF Upsert
    <3>2. objects[o] \in Row /\ known(o) \in Fact /\ known(o) # NoRow
      BY <2>3, RowsOf, KnownRow
    <3>3. EvaluateObject(known(o), Known(objects'[o])) = EvaluateObject(objects[o], parsed[o])
      BY <3>1, <3>2, KnownRefresh
    <3>4. <<o, code>> \in inserted <=> code \in EvaluateObject(objects[o], parsed[o])
      BY <2>3 DEF HistoryInv, Firings
    <3>5. History!EvaluateObject(known(o), Known(objects'[o])) = EvaluateObject(known(o), Known(objects'[o]))
      BY SameRules
    <3>6. known(o) = Known(objects'[o]) => EvaluateObject(known(o), Known(objects'[o])) = {}
      BY NothingNew
    <3> HIDE DEF known
    <3> QED BY <3>2, <3>3, <3>4, <3>5, <3>6 DEF History!Changed
  <2> QED BY <2>1, <2>2, <2>3
<1> DEFINE catalog == [o \in Object |-> Known(objects[o])]
           hits    == [o \in Object |-> IF objects[o] = NoRow THEN 0 ELSE objects[o].hit_count]
<1>3. /\ catalog' \in [Object -> Fact \cup {NoRow}]
      /\ \A o \in Object : catalog'[o] \in History!MayBecome(catalog[o])
  <2>1. catalog' = [o \in Object |-> Known(objects'[o])]
    BY DEF Known
  <2>2. \A o \in Object : catalog[o] = known(o) /\ catalog'[o] = Known(objects'[o])
    BY <2>1
  <2>3. \A old : History!MayBecome(old) =
            IF old = NoRow THEN Fact \cup {NoRow} ELSE {e \in Fact : e.site = old.site}
    BY DEF History!MayBecome, Fact
  <2> HIDE DEF catalog, known
  <2> QED BY <1>1, <2>1, <2>2, <2>3
<1>4. hits' = hits
  BY <1>1
<1>5. audt_events' = [x \in DOMAIN audt_events |->
         audt_events[x] + IF History!Changed(catalog[x[1]], catalog'[x[1]], x[2]) THEN 1 ELSE 0]
  <2>1. DOMAIN audt_events = Object \X ObjectEventType
    BY DEF HistoryInv, PollerInv, TypeOK
  <2>2. audt_events' = [x \in DOMAIN audt_events |-> audt_events[x] + IF x \in inserted THEN 1 ELSE 0]
    BY DEF Commit
  <2>3. ASSUME NEW x \in Object \X ObjectEventType
        PROVE  x \in inserted <=> History!Changed(catalog[x[1]], catalog'[x[1]], x[2])
    <3>1. x[1] \in Object /\ x[2] \in ObjectEventType /\ x = <<x[1], x[2]>>
      OBVIOUS
    <3>2. catalog[x[1]] = known(x[1]) /\ catalog'[x[1]] = Known(objects'[x[1]])
      BY <3>1 DEF Known
    <3> HIDE DEF catalog, known
    <3> QED BY <1>2, <3>1, <3>2
  <2> HIDE DEF catalog
  <2> QED BY <2>1, <2>2, <2>3
<1> QED BY <1>3, <1>4, <1>5 DEF History!Import, Fact

(* A hit is one too, and every other step is none. *)
LEMMA HitIsHit ==
    ASSUME HistoryInv, NEW o \in Object, Hit(o)
    PROVE  History!Hit(o)
<1> DEFINE catalog == [q \in Object |-> Known(objects[q])]
           hits    == [q \in Object |-> IF objects[q] = NoRow THEN 0 ELSE objects[q].hit_count]
<1>1. objects[o] # NoRow /\ UNCHANGED audt_events /\ objects[o] \in Row
      /\ objects' = [objects EXCEPT ![o] = [objects[o] EXCEPT !.hit_count = @ + 1]]
  BY RowsOf DEF Hit
<1>2. catalog[o] # NoRow
  BY <1>1, KnownRow
<1>3. catalog' = catalog
  BY HitHistory
<1>4. /\ \A q \in Object \ {o} : objects'[q] = objects[q]
      /\ objects'[o] \in Row /\ objects'[o].hit_count = objects[o].hit_count + 1
  <2>1. objects'[o] = [objects[o] EXCEPT !.hit_count = @ + 1]
        /\ \A q \in Object \ {o} : objects'[q] = objects[q]
    BY <1>1 DEF HistoryInv, PollerInv, TypeOK
  <2>2. [objects[o] EXCEPT !.hit_count = @ + 1].hit_count = objects[o].hit_count + 1
    BY <1>1 DEF Row
  <2> QED BY <1>1, <2>1, <2>2, HitType
<1>5. hits' = [hits EXCEPT ![o] = @ + 1]
  <2>1. hits[o] = objects[o].hit_count
    BY <1>1
  <2>2. hits'[o] = hits[o] + 1
    BY <1>4, <2>1, RowAssumption
  <2>3. \A q \in Object \ {o} : hits'[q] = hits[q]
    BY <1>4
  <2>4. hits = [q \in Object |-> hits[q]] /\ hits' = [q \in Object |-> hits'[q]]
    OBVIOUS
  <2> HIDE DEF hits
  <2> QED BY <2>2, <2>3, <2>4
<1> QED BY <1>1, <1>2, <1>3, <1>5 DEF History!Hit

(* The SATCAT poller implements CatalogHistory, for any catalogue, entries,  *)
(* hits and failures: an import is visible at once or not at all, with the   *)
(* events of exactly the rows it changed.                                    *)
THEOREM ImportIsAtomic == Spec => ImplementsCatalogHistory
<1>1. Init => History!Init
  BY SameRules DEF Init, History!Init, Known
<1>2. ASSUME HistoryInv, [Next]_vars PROVE [History!Next]_(History!vars)
  <2>1. CASE Commit
    BY <1>2, <2>1, CommitImports DEF History!Next
  <2>2. CASE \E o \in Object : Hit(o)
    BY <1>2, <2>2, HitIsHit DEF History!Next
  <2>3. CASE Unseen
    BY <2>3 DEF Unseen, db, Known, History!vars
  <2> QED BY <1>2, <2>1, <2>2, <2>3, UnseenSteps
<1>3. HistoryInv /\ [Next]_vars => HistoryInv'
  BY StepKeepsHistoryInv
<1> QED BY <1>1, <1>2, <1>3, HistoryInitInv, PTL DEF Spec, ImplementsCatalogHistory, History!Spec

(* -------------------------- no decay on record -------------------------- *)

(* No decay date gets past the query: not into the answer, so not into the   *)
(* events of the open transaction, and not into the table.                   *)
NoDecayInside ==
    /\ \A o \in DOMAIN parsed : parsed[o].decay_date = Absent
    /\ \A o \in Object : <<o, "decay_detected">> \notin inserted
    /\ NoDecayOnRecord

LEMMA UpsertDecayDate ==
    ASSUME NEW row \in Row \cup {NoRow}, NEW e \in Entry
    PROVE  Upsert(row, e).decay_date = e.decay_date
<1>1. CASE row = NoRow
  BY <1>1 DEF Upsert, NewRow
<1>2. CASE row # NoRow
  <2>1. "decay_date" \in DOMAIN row
    BY <1>2 DEF Row
  <2> QED BY <1>2, <2>1 DEF Upsert, Refresh, Refreshed
<1> QED BY <1>1, <1>2

LEMMA NoDecayInit == Init => NoDecayInside
<1>1. "decay_detected" \in ObjectEventType
  <2>1. ObjectRegistry[1] = "decay_detected"
    BY DEF ObjectRegistry
  <2> QED BY <2>1 DEF ObjectEventType
<1> QED BY <1>1 DEF Init, NoDecayInside, NoDecayOnRecord, NoAnswer

LEMMA NoDecayStep ==
    ASSUME PollerInv, NoDecayInside, [Next]_vars
    PROVE  NoDecayInside'
<1>1. TypeOK
  BY DEF PollerInv
<1>2. CASE Fetch
  <2>1. /\ DOMAIN parsed' = Active /\ \A o \in Active : parsed'[o] = satcat[o]
        /\ UNCHANGED <<objects, audt_events, inserted>>
    BY <1>2 DEF Fetch, db
  <2>2. \A o \in Active : satcat[o].decay_date = Absent
    BY DEF Active
  <2> QED BY <2>1, <2>2 DEF NoDecayInside, NoDecayOnRecord
<1>3. ASSUME NEW o \in Object, ProcessRow(o) PROVE NoDecayInside'
  <2>1. /\ inserted' = inserted \cup {<<o, code>> : code \in Firings(objects[o], parsed[o])}
        /\ UNCHANGED <<objects, audt_events, parsed>> /\ o \in DOMAIN parsed
    BY <1>1, <1>3 DEF ProcessRow, db, TypeOK
  <2>2. "decay_detected" \notin Firings(objects[o], parsed[o])
    BY <2>1 DEF NoDecayInside, Firings, EvaluateObject, DecayDetected
  <2> QED BY <2>1, <2>2 DEF NoDecayInside, NoDecayOnRecord
<1>4. CASE Commit
  <2>1. parsed' = NoAnswer /\ inserted' = {}
    BY <1>4 DEF Commit, Leave
  <2>2. ASSUME NEW o \in Object, objects'[o] # NoRow PROVE objects'[o].decay_date = Absent
    <3>1. CASE o \in upserted
      <4>1. objects'[o] = Upsert(objects[o], parsed[o])
        BY <1>1, <1>4, <3>1 DEF Commit, TypeOK
      <4>2. o \in DOMAIN parsed /\ parsed[o] \in Entry /\ objects[o] \in Row \cup {NoRow}
        BY <1>1, <3>1 DEF TypeOK
      <4> QED BY <4>1, <4>2, UpsertDecayDate DEF NoDecayInside
    <3>2. CASE o \notin upserted
      BY <1>4, <2>2, <3>2 DEF Commit, NoDecayInside, NoDecayOnRecord
    <3> QED BY <3>1, <3>2
  <2>3. ASSUME NEW o \in Object PROVE audt_events'[<<o, "decay_detected">>] = 0
    <3>1. <<o, "decay_detected">> \in Object \X ObjectEventType
      <4>1. ObjectRegistry[1] = "decay_detected"
        BY DEF ObjectRegistry
      <4> QED BY <4>1 DEF ObjectEventType
    <3> QED BY <1>1, <1>4, <3>1 DEF Commit, TypeOK, NoDecayInside, NoDecayOnRecord
  <2> QED BY <2>1, <2>2, <2>3 DEF NoDecayInside, NoDecayOnRecord, NoAnswer
<1>5. ASSUME NEW o \in Object, Hit(o) PROVE NoDecayInside'
  <2>1. /\ UNCHANGED <<audt_events, parsed, inserted>> /\ objects[o] \in Row /\ objects[o] # NoRow
        /\ objects' = [objects EXCEPT ![o] = [objects[o] EXCEPT !.hit_count = @ + 1]]
    BY <1>1, <1>5 DEF Hit, process, TypeOK
  <2>2. [objects[o] EXCEPT !.hit_count = @ + 1].decay_date = objects[o].decay_date
    BY <2>1 DEF Row
  <2>3. \A q \in Object : objects'[q] # NoRow => objects'[q].decay_date = Absent
    BY <1>1, <2>1, <2>2 DEF NoDecayInside, NoDecayOnRecord, TypeOK
  <2> QED BY <2>1, <2>3 DEF NoDecayInside, NoDecayOnRecord
<1>6. CASE Start \/ (\E o \in Object : Amend(o)) \/ UNCHANGED vars
  BY <1>6 DEF Start, Amend, vars, db, process, NoDecayInside, NoDecayOnRecord
<1>7. CASE FetchNothing \/ (\E o \in Object : RejectRow(o)) \/ Fail
  BY <1>7 DEF FetchNothing, RejectRow, Fail, Leave, NoAnswer, db, NoDecayInside, NoDecayOnRecord
<1> QED BY <1>2, <1>3, <1>4, <1>5, <1>6, <1>7 DEF Next, Step, Environment

(* The query keeps decayed objects out, so no row ever gets a decay date     *)
(* and the decay rule never fires: for any catalogue, whatever Space-Track   *)
(* says of an object and whenever it says it (satcat_poller.cpp).            *)
THEOREM DecayNeverRecorded == Spec => []NoDecayOnRecord
<1>1. PollerInv /\ [Next]_vars => PollerInv'
  BY StepKeepsPollerInv
<1>2. PollerInv /\ NoDecayInside /\ [Next]_vars => NoDecayInside'
  BY NoDecayStep
<1>3. NoDecayInside => NoDecayOnRecord
  BY DEF NoDecayInside
<1> QED BY <1>1, <1>2, <1>3, InitType, NoDecayInit, PTL DEF Spec

(* -------------------------- imports settle ----------------------------- *)

(* No record of an answer is lost between the answer and the commit. *)
WrittenOrToCome == pc = "process" => records \cup upserted = DOMAIN parsed

LEMMA WrittenStep ==
    ASSUME PollerInv, WrittenOrToCome, [Next]_vars
    PROVE  WrittenOrToCome'
<1>1. CASE Fetch
  BY <1>1 DEF Fetch, PollerInv, NothingWritten, WrittenOrToCome
<1>2. CASE \E o \in Object : ProcessRow(o)
  BY <1>2 DEF ProcessRow, WrittenOrToCome
<1>3. CASE Start \/ (\E o \in Object : Hit(o) \/ Amend(o)) \/ UNCHANGED vars
  BY <1>3 DEF Start, Hit, Amend, vars, process, WrittenOrToCome
<1>4. CASE FetchNothing \/ Commit \/ (\E o \in Object : RejectRow(o)) \/ Fail
  BY <1>4 DEF FetchNothing, Commit, RejectRow, Fail, Leave, WrittenOrToCome
<1> QED BY <1>1, <1>2, <1>3, <1>4 DEF Next, Step, Environment

LEMMA UpsertAgrees ==
    ASSUME NEW row \in Row \cup {NoRow}, NEW e \in Entry
    PROVE  Upsert(row, e) # NoRow /\ \A f \in Refreshed : Upsert(row, e)[f] = e[f]
<1>1. CASE row = NoRow
  BY <1>1, NewRowType, RowAssumption DEF Upsert, NewRow, Refreshed
<1>2. CASE row # NoRow
  <2>1. Refreshed \subseteq DOMAIN row
    BY <1>2 DEF Row, Refreshed
  <2> QED BY <1>2, <2>1, RefreshType, RowAssumption DEF Upsert, Refresh
<1> QED BY <1>1, <1>2

(* While Space-Track says what it said, a step keeps the answer current. *)
LEMMA AnswerStaysCurrent ==
    ASSUME TypeOK, [Next]_vars, AnswerCurrent, satcat' = satcat
    PROVE  AnswerCurrent'
<1>1. Active' = Active
  BY DEF Active
<1>2. CASE Fetch
  BY <1>1, <1>2 DEF Fetch, AnswerCurrent
<1>3. CASE pc' = "process" => pc = "process" /\ parsed' = parsed
  BY <1>1, <1>3 DEF AnswerCurrent
<1> QED BY <1>2, <1>3 DEF Next, Step, Environment, Start, FetchNothing, Commit, ProcessRow, RejectRow,
                          Fail, Leave, Hit, Amend, vars, process

(* And it takes no active object out of agreement, while a commit brings     *)
(* every one of them into it.                                                *)
LEMMA AgreementGrows ==
    ASSUME PollerInv, WrittenOrToCome, [Next]_vars, AnswerCurrent, satcat' = satcat,
           NEW o \in Active, InSync(o) \/ Commits
    PROVE  InSync(o)'
<1>1. TypeOK /\ o \in Object /\ satcat[o] \in Entry
  BY ActiveType DEF PollerInv
<1>2. CASE Commit
  <2>1. pc = "process" /\ records = {} /\ parsed = [q \in Active |-> satcat[q]]
    BY <1>2 DEF Commit, AnswerCurrent
  <2>2. o \in upserted /\ parsed[o] = satcat[o]
    BY <2>1 DEF WrittenOrToCome
  <2>3. objects'[o] = Upsert(objects[o], satcat[o]) /\ objects[o] \in Row \cup {NoRow}
    BY <1>1, <1>2, <2>2 DEF Commit, TypeOK
  <2> QED BY <1>1, <2>3, UpsertAgrees DEF InSync
<1>3. CASE ~ Commit
  <2>1. InSync(o)
    <3>1. faults \in Nat
      BY <1>1 DEF TypeOK
    <3>2. ~ Commits
      BY <1>3, <3>1 DEF Commits, Next, Step, Environment, Start, Fetch, FetchNothing, ProcessRow,
                       RejectRow, Fail, Hit, Amend, vars, process
    <3> QED BY <3>2
  <2>2. ASSUME NEW q \in Object, Hit(q) PROVE InSync(o)'
    <3>1. /\ objects[q] \in Row /\ objects[q] # NoRow
          /\ objects' = [objects EXCEPT ![q] = [objects[q] EXCEPT !.hit_count = @ + 1]]
      BY <1>1, <2>2 DEF Hit, TypeOK
    <3>2. /\ [objects[q] EXCEPT !.hit_count = @ + 1] # NoRow
          /\ \A f \in Refreshed : [objects[q] EXCEPT !.hit_count = @ + 1][f] = objects[q][f]
      <4>1. [objects[q] EXCEPT !.hit_count = @ + 1] \in Row
        BY <3>1, HitType
      <4>2. \A f \in Refreshed : [objects[q] EXCEPT !.hit_count = @ + 1][f] = objects[q][f]
        BY <3>1 DEF Row, Refreshed
      <4> QED BY <4>1, <4>2, RowAssumption
    <3>3. CASE o = q
      <4>1. objects'[o] = [objects[q] EXCEPT !.hit_count = @ + 1]
        BY <1>1, <3>1, <3>3 DEF TypeOK
      <4> QED BY <2>1, <3>2, <3>3, <4>1 DEF InSync
    <3>4. CASE o # q
      BY <1>1, <2>1, <3>1, <3>4 DEF InSync, TypeOK
    <3> QED BY <3>3, <3>4
  <2>3. CASE UNCHANGED objects
    BY <2>1, <2>3 DEF InSync
  <2> QED BY <1>3, <2>2, <2>3 DEF Next, Step, Environment, Start, Fetch, FetchNothing, ProcessRow,
                                 RejectRow, Fail, Amend, vars, db
<1> QED BY <1>2, <1>3

(* The safety half of convergence: whatever fails, is rolled back or counts  *)
(* a hit, an import from a current answer ends with every active object in   *)
(* agreement, and nothing takes one out of it but an amendment.              *)
THEOREM ImportsSettle == Spec => CurrentImportsSettle
<1>1. PollerInv /\ [Next]_vars => PollerInv'
  BY StepKeepsPollerInv
<1>2. PollerInv /\ WrittenOrToCome /\ [Next]_vars => WrittenOrToCome'
  BY WrittenStep
<1>3. PollerInv /\ WrittenOrToCome /\ [Next]_vars
      => [AnswerCurrent /\ satcat' = satcat
          => /\ AnswerCurrent'
             /\ \A o \in Active : InSync(o) \/ Commits => InSync(o)']_vars
  BY AnswerStaysCurrent, AgreementGrows DEF PollerInv
<1>4. Init => WrittenOrToCome
  BY DEF Init, WrittenOrToCome
<1> QED BY <1>1, <1>2, <1>3, <1>4, InitType, PTL DEF Spec, CurrentImportsSettle

(* ------------------------- stamps, labels, copies ---------------------- *)

ClockType ==
    /\ now \in Nat /\ last_run \in Nat \cup {Never}
    /\ last_run # Never => last_run <= now

(* Nothing is imported before the first stamp. *)
EmptyBeforeStamp == last_run = Never => pc = "idle" /\ \A o \in Object : objects[o] = NoRow

(* An answer is labelled with the latest stamp, or with the time when there  *)
(* was none yet, so its label is not ahead of a stamp that comes later.      *)
LabelOfPast(c) ==
    asking[c].active =>
        /\ asking[c].last_modified \in Nat /\ asking[c].etag[1] = asking[c].last_modified
        /\ asking[c].last_modified <= IF last_run = Never THEN now ELSE last_run
        /\ last_run = Never => asking[c].etag[2] = 0

(* A settled copy under the latest stamp was read after the run of that      *)
(* stamp had ended, and nothing was committed since.                         *)
Stamped(c) ==
    /\ last_run # Never /\ copy[c].last_modified \in Nat
    /\ copy[c].etag[1] = copy[c].last_modified /\ copy[c].last_modified <= last_run
    /\ copy[c].last_modified = last_run => pc = "idle" /\ copy[c].content = Content

(* One that was read before the first stamp says that there is no row.       *)
Unstamped(c) == copy[c].etag[2] = 0 /\ copy[c].content = [o \in {} |-> NoRow]

CopyOfPast(c) == copy[c] # NoCopy /\ copy[c].settled => Stamped(c) \/ Unstamped(c)

ApiInv ==
    /\ PollerInv /\ ClockType /\ EmptyBeforeStamp
    /\ asking = [c \in Client |-> asking[c]] /\ copy = [c \in Client |-> copy[c]]
    /\ \A c \in Client : LabelOfPast(c) /\ CopyOfPast(c)

LEMMA ApiInitInv == ApiInit => ApiInv
<1> SUFFICES ASSUME ApiInit PROVE ApiInv
  OBVIOUS
<1>1. PollerInv /\ ClockType /\ EmptyBeforeStamp
  BY InitType DEF ApiInit, ClockType, EmptyBeforeStamp, Init
<1>2. /\ asking = [c \in Client |-> NotAsking] /\ copy = [c \in Client |-> NoCopy]
  BY DEF ApiInit
<1>3. \A c \in Client : LabelOfPast(c) /\ CopyOfPast(c)
  BY <1>2 DEF LabelOfPast, CopyOfPast, NotAsking
<1> QED BY <1>1, <1>2, <1>3 DEF ApiInv

(* Only a commit changes the content of the answers. *)
LEMMA HitContent ==
    ASSUME TypeOK, NEW o \in Object, Hit(o)
    PROVE  Content' = Content
<1>1. objects[o] \in Row /\ [objects[o] EXCEPT !.hit_count = @ + 1] \in Row
  BY HitType DEF TypeOK, Hit
<1>2. objects' = [objects EXCEPT ![o] = [objects[o] EXCEPT !.hit_count = @ + 1]]
  BY DEF Hit
<1>3. \A q \in Object : objects'[q] = NoRow <=> objects[q] = NoRow
  <2> HIDE DEF Row
  <2> QED BY <1>1, <1>2, RowAssumption DEF TypeOK
<1>4. \A q \in Object : objects[q] # NoRow => \A f \in Columns : objects'[q][f] = objects[q][f]
  <2>1. \A f \in Columns : objects'[o][f] = objects[o][f]
    BY <1>1, <1>2, HitType DEF TypeOK
  <2>2. \A q \in Object \ {o} : objects'[q] = objects[q]
    BY <1>2 DEF TypeOK
  <2> QED BY <2>1, <2>2
<1> QED BY <1>3, <1>4 DEF Content

(* An empty catalogue is shown as one, and counts no row. *)
LEMMA NoRowsShown ==
    /\ (\A o \in Object : objects[o] = NoRow) <=> DOMAIN Content = {}
    /\ DOMAIN Content = {} => Content = [o \in {} |-> NoRow] /\ ObjectCount = 0
    /\ IsFiniteSet(Object) /\ ObjectCount = 0 => DOMAIN Content = {}
<1>1. DOMAIN Content = {q \in Object : objects[q] # NoRow}
  BY DEF Content
<1>2. Content = [o \in DOMAIN Content |-> Content[o]]
  BY DEF Content
<1>3. DOMAIN Content = {} => Content = [o \in {} |-> NoRow]
  BY <1>2
<1>4. DOMAIN Content = {} => ObjectCount = 0
  BY FS_EmptySet DEF ObjectCount
<1>5. IsFiniteSet(Object) /\ ObjectCount = 0 => DOMAIN Content = {}
  BY <1>1, FS_Subset, FS_EmptySet DEF ObjectCount
<1> QED BY <1>1, <1>3, <1>4, <1>5

(* The steps that leave requests, copies and stamp alone keep the labels;    *)
(* they keep the copies too if the content stays or a run is going on.       *)
LEMMA BackgroundStep ==
    ASSUME ApiInv, PollerInv', UNCHANGED <<now, last_run, api>>,
           pc # "idle" \/ (pc' = pc /\ Content' = Content)
    PROVE  ApiInv'
<1>1. UNCHANGED <<now, last_run, asking, copy>>
  BY DEF api
<1>2. \A c \in Client : LabelOfPast(c)'
  BY <1>1 DEF ApiInv, LabelOfPast
<1>3. \A c \in Client : CopyOfPast(c)'
  BY <1>1 DEF ApiInv, CopyOfPast, Stamped, Unstamped
<1>4. EmptyBeforeStamp'
  <2>1. last_run = Never => pc' = pc /\ Content' = Content
    BY DEF ApiInv, EmptyBeforeStamp
  <2>2. DOMAIN Content = {q \in Object : objects[q] # NoRow}
        /\ DOMAIN Content' = {q \in Object : objects'[q] # NoRow}
    BY DEF Content
  <2> QED BY <1>1, <2>1, <2>2 DEF ApiInv, EmptyBeforeStamp
<1> QED BY <1>1, <1>2, <1>3, <1>4 DEF ApiInv, ClockType

LEMMA ApiTick ==
    ASSUME ApiInv, Tick
    PROVE  ApiInv'
<1>1. UNCHANGED <<vars, last_run, asking, copy>> /\ now' = now + 1
  BY DEF Tick, api
<1>2. PollerInv'
  BY <1>1, StepKeepsPollerInv DEF ApiInv
<1>3. Content' = Content /\ pc' = pc
  BY <1>1 DEF vars, db, process, Content
<1>4. ClockType'
  BY <1>1 DEF ApiInv, ClockType
<1>5. \A c \in Client : LabelOfPast(c)'
  BY <1>1 DEF ApiInv, ClockType, LabelOfPast
<1>6. \A c \in Client : CopyOfPast(c)'
  BY <1>1, <1>3 DEF ApiInv, CopyOfPast, Stamped, Unstamped
<1>7. EmptyBeforeStamp'
  BY <1>1 DEF ApiInv, EmptyBeforeStamp, vars, db, process
<1> QED BY <1>1, <1>2, <1>4, <1>5, <1>6, <1>7 DEF ApiInv

(* A new stamp is later than the label of every answer so far. *)
LEMMA ApiStamp ==
    ASSUME ApiInv, StampAndStart
    PROVE  ApiInv'
<1>1. /\ last_run # Never => last_run < now
      /\ last_run' = now /\ UNCHANGED <<now, asking, copy>>
  BY DEF StampAndStart, api
<1>2. PollerInv'
  BY StepKeepsPollerInv DEF ApiInv, StampAndStart, Next, Step
<1>3. now \in Nat /\ now # Never /\ (last_run # Never => last_run \in Nat)
  BY StampAssumption DEF ApiInv, ClockType
<1>4. ClockType'
  BY <1>1, <1>3 DEF ClockType
<1>5. \A c \in Client : LabelOfPast(c)'
  BY <1>1, <1>3 DEF ApiInv, LabelOfPast
<1>6. \A c \in Client : CopyOfPast(c)'
  BY <1>1, <1>3 DEF ApiInv, CopyOfPast, Stamped, Unstamped
<1>7. EmptyBeforeStamp'
  BY <1>1, <1>3 DEF EmptyBeforeStamp
<1> QED BY <1>1, <1>2, <1>4, <1>5, <1>6, <1>7 DEF ApiInv

(* While the poller is importing, no settled copy has the latest stamp. *)
LEMMA ApiImport ==
    ASSUME ApiInv, Import
    PROVE  ApiInv'
<1>1. PollerInv'
  BY StepKeepsPollerInv DEF ApiInv, Import, Next, Step
<1>2. pc # "idle" /\ UNCHANGED <<now, last_run, api>>
  BY DEF Import, Fetch, FetchNothing, Commit, Fail, ProcessRow, RejectRow
<1> QED BY <1>1, <1>2, BackgroundStep

LEMMA ApiSurroundings ==
    ASSUME ApiInv, Surroundings
    PROVE  ApiInv'
<1>1. PollerInv' /\ UNCHANGED <<now, last_run, api>>
  BY StepKeepsPollerInv DEF ApiInv, Surroundings, Next
<1>2. PICK o \in Object : Hit(o) \/ Amend(o)
  BY DEF Surroundings, Environment
<1>3. pc' = pc /\ Content' = Content
  <2>1. CASE Hit(o)
    BY <2>1, HitContent DEF ApiInv, PollerInv, Hit, process
  <2>2. CASE Amend(o)
    BY <2>2 DEF Amend, db, process, Content
  <2> QED BY <1>2, <2>1, <2>2
<1> QED BY <1>1, <1>3, BackgroundStep

(* The first statement labels the answer with the stamp it reads. *)
LEMMA ApiReadMeta ==
    ASSUME ApiInv, NEW c \in Client, ReadMeta(c)
    PROVE  ApiInv'
<1>1. /\ asking' = [asking EXCEPT ![c] =
                      [etag |-> ETag, last_modified |-> GeneratedAt, active |-> TRUE]]
      /\ UNCHANGED <<vars, now, last_run, copy>>
  BY DEF ReadMeta, LastModified
<1>2. PollerInv' /\ ClockType' /\ EmptyBeforeStamp' /\ pc' = pc /\ Content' = Content
  <2>1. PollerInv'
    BY <1>1, StepKeepsPollerInv DEF ApiInv
  <2> QED BY <1>1, <2>1 DEF ApiInv, ClockType, EmptyBeforeStamp, vars, db, process, Content
<1>3. /\ ETag[1] = GeneratedAt /\ GeneratedAt = IF last_run = Never THEN now ELSE last_run
      /\ last_run = Never => ETag[2] = 0
  BY NoRowsShown DEF ETag, GeneratedAt, ApiInv, EmptyBeforeStamp
<1>4. GeneratedAt \in Nat
  BY DEF ApiInv, ClockType, GeneratedAt
<1>5. ASSUME NEW d \in Client PROVE LabelOfPast(d)'
  <2>1. CASE d = c
    BY <1>1, <1>3, <1>4, <2>1 DEF ApiInv, LabelOfPast
  <2>2. CASE d # c
    BY <1>1, <2>2 DEF ApiInv, LabelOfPast
  <2> QED BY <2>1, <2>2
<1>6. \A d \in Client : CopyOfPast(d)'
  BY <1>1, <1>2 DEF ApiInv, CopyOfPast, Stamped, Unstamped
<1>7. asking' = [d \in Client |-> asking'[d]] /\ copy' = [d \in Client |-> copy'[d]]
  BY <1>1 DEF ApiInv
<1> QED BY <1>2, <1>5, <1>6, <1>7 DEF ApiInv

(* The second one reads the rows; the copy is settled only if no run is      *)
(* going on, so what it says is what the table holds.                        *)
LEMMA ApiReadRows ==
    ASSUME ApiInv, NEW c \in Client, ReadRows(c)
    PROVE  ApiInv'
<1> DEFINE answer == [etag |-> asking[c].etag, last_modified |-> asking[c].last_modified,
                      content |-> Content, settled |-> pc = "idle"]
<1>1. /\ asking[c].active
      /\ copy' = [copy EXCEPT ![c] = answer]
      /\ asking' = [asking EXCEPT ![c] = NotAsking]
      /\ UNCHANGED <<vars, now, last_run>>
  BY DEF ReadRows
<1>2. PollerInv' /\ ClockType' /\ EmptyBeforeStamp' /\ pc' = pc /\ Content' = Content
  <2>1. PollerInv'
    BY <1>1, StepKeepsPollerInv DEF ApiInv
  <2> QED BY <1>1, <2>1 DEF ApiInv, ClockType, EmptyBeforeStamp, vars, db, process, Content
<1>3. \A d \in Client : LabelOfPast(d)'
  BY <1>1 DEF ApiInv, LabelOfPast, NotAsking
<1>4. ASSUME NEW d \in Client PROVE CopyOfPast(d)'
  <2>1. CASE d = c
    <3>1. copy'[c] = answer
      BY <1>1 DEF ApiInv
    <3>2. answer.settled => pc = "idle"
      OBVIOUS
    <3>3. LabelOfPast(c)
      BY DEF ApiInv
    <3>4. /\ answer.last_modified = asking[c].last_modified /\ answer.etag = asking[c].etag
          /\ answer.content = Content
      OBVIOUS
    <3> HIDE DEF answer
    <3>5. CASE last_run = Never
      <4>1. Content = [o \in {} |-> NoRow]
        BY <3>5, NoRowsShown DEF ApiInv, EmptyBeforeStamp
      <4>2. Unstamped(c)'
        BY <1>1, <3>1, <3>3, <3>4, <3>5, <4>1 DEF LabelOfPast, Unstamped
      <4> QED BY <2>1, <4>2 DEF CopyOfPast
    <3>6. CASE last_run # Never
      <4>1. answer.settled => Stamped(c)'
        BY <1>1, <1>2, <3>1, <3>2, <3>3, <3>4, <3>6 DEF LabelOfPast, Stamped
      <4> QED BY <2>1, <3>1, <4>1 DEF CopyOfPast
    <3> QED BY <3>5, <3>6
  <2>2. CASE d # c
    <3>1. copy'[d] = copy[d]
      BY <1>1, <2>2 DEF ApiInv
    <3> QED BY <1>1, <1>2, <3>1 DEF ApiInv, CopyOfPast, Stamped, Unstamped
  <2> QED BY <2>1, <2>2
<1>5. asking' = [d \in Client |-> asking'[d]] /\ copy' = [d \in Client |-> copy'[d]]
  BY <1>1 DEF ApiInv
<1> QED BY <1>2, <1>3, <1>4, <1>5 DEF ApiInv

LEMMA ApiAnswerError ==
    ASSUME ApiInv, NEW c \in Client, AnswerError(c)
    PROVE  ApiInv'
<1>1. asking' = [asking EXCEPT ![c] = NotAsking] /\ UNCHANGED <<vars, now, last_run, copy>>
  BY DEF AnswerError
<1>2. PollerInv' /\ ClockType' /\ EmptyBeforeStamp' /\ pc' = pc /\ Content' = Content
  <2>1. PollerInv'
    BY <1>1, StepKeepsPollerInv DEF ApiInv
  <2> QED BY <1>1, <2>1 DEF ApiInv, ClockType, EmptyBeforeStamp, vars, db, process, Content
<1>3. \A d \in Client : LabelOfPast(d)' /\ CopyOfPast(d)'
  BY <1>1, <1>2 DEF ApiInv, LabelOfPast, CopyOfPast, Stamped, Unstamped, NotAsking
<1>4. asking' = [d \in Client |-> asking'[d]] /\ copy' = [d \in Client |-> copy'[d]]
  BY <1>1 DEF ApiInv
<1> QED BY <1>2, <1>3, <1>4 DEF ApiInv

LEMMA ApiStutter ==
    ASSUME ApiInv, UNCHANGED apiVars
    PROVE  ApiInv'
<1>1. UNCHANGED <<vars, now, last_run, api>>
  BY DEF apiVars
<1>2. PollerInv'
  BY <1>1, StepKeepsPollerInv DEF ApiInv
<1>3. pc' = pc /\ Content' = Content
  BY <1>1 DEF vars, db, process, Content
<1> QED BY <1>1, <1>2, <1>3, BackgroundStep

THEOREM ApiInvariant == ApiSpec => []ApiInv
<1>1. ASSUME ApiInv, [ApiNext]_apiVars PROVE ApiInv'
  <2>1. CASE \E c \in Client : AnswerNotModified(c)
    BY <1>1, <2>1, ApiStutter DEF AnswerNotModified
  <2> QED BY <1>1, <2>1, ApiTick, ApiStamp, ApiImport, ApiSurroundings, ApiReadMeta, ApiReadRows,
             ApiAnswerError, ApiStutter DEF ApiNext
<1> QED BY <1>1, ApiInitInv, PTL DEF ApiSpec

(* A copy read while no import was going on, the one of an empty catalogue   *)
(* before the first stamp included, is validated by its ETag only while the  *)
(* table still holds what it says, and by its date too if it has rows.       *)
THEOREM SettledCopyTrue ==
    ASSUME IsFiniteSet(Object)
    PROVE  ApiSpec => []SettledCopyIsCurrent
<1>1. ApiInv => SettledCopyIsCurrent
  <2> SUFFICES ASSUME ApiInv, NEW c \in Client, copy[c] # NoCopy, copy[c].settled,
                      copy[c].content # Content
               PROVE  /\ ~ NotModified(c, "If-None-Match")
                      /\ NotModified(c, "If-Modified-Since") => DOMAIN copy[c].content = {}
    BY DEF SettledCopyIsCurrent
  <2>1. CASE Stamped(c)
    <3>1. copy[c].last_modified < last_run
      BY <2>1 DEF Stamped, ApiInv, ClockType
    <3>2. ETag[1] = last_run /\ LastModified = last_run
      BY <2>1 DEF Stamped, ETag, LastModified, GeneratedAt
    <3>3. copy[c].etag # ETag /\ ~ LastModified <= copy[c].last_modified
      BY <2>1, <3>1, <3>2 DEF Stamped, ApiInv, ClockType
    <3> QED BY <3>3 DEF NotModified
  <2>2. CASE Unstamped(c)
    <3>1. ETag[2] # 0
      BY <2>2, NoRowsShown DEF Unstamped, ETag
    <3> QED BY <2>2, <3>1 DEF Unstamped, NotModified
  <2> QED BY <2>1, <2>2 DEF ApiInv, CopyOfPast
<1> QED BY <1>1, ApiInvariant, PTL

(* -------------------- the poller beside the API ------------------------ *)

LEMMA ApiStepIsPollerStep ==
    ASSUME [ApiNext]_apiVars
    PROVE  [Next]_vars
<1>1. CASE StampAndStart
  BY <1>1 DEF StampAndStart, Next, Step
<1>2. CASE Import
  BY <1>2 DEF Import, Next, Step
<1>3. CASE Surroundings
  BY <1>3 DEF Surroundings, Next
<1>4. CASE Tick \/ UNCHANGED apiVars
  BY <1>4 DEF Tick, apiVars
<1>5. ASSUME NEW c \in Client,
             AnswerNotModified(c) \/ ReadMeta(c) \/ ReadRows(c) \/ AnswerError(c)
      PROVE  UNCHANGED vars
  BY <1>5 DEF AnswerNotModified, ReadMeta, ReadRows, AnswerError, apiVars
<1> QED BY <1>1, <1>2, <1>3, <1>4, <1>5 DEF ApiNext

(* Stamping its runs and answering requests beside them adds no behaviour to *)
(* the poller: with the API running, what is proved of the poller alone      *)
(* still holds: imports are atomic, settle, and record no decay.             *)
THEOREM ApiLeavesImportAlone ==
    ApiSpec => Spec /\ ImplementsCatalogHistory /\ CurrentImportsSettle /\ []NoDecayOnRecord
<1>1. ApiInit => Init
  BY DEF ApiInit
<1>2. [ApiNext]_apiVars => [Next]_vars
  BY ApiStepIsPollerStep
<1>3. ApiSpec => Spec
  BY <1>1, <1>2, PTL DEF ApiSpec, Spec
<1> QED BY <1>3, ImportIsAtomic, ImportsSettle, DecayNeverRecorded, PTL

(* ----------------------- well-formed labels ---------------------------- *)

WellFormed(c) ==
    /\ asking[c].active \in BOOLEAN
    /\ asking[c].etag \in Nat \X Nat /\ asking[c].last_modified \in Nat
    /\ copy[c] # NoCopy =>
          /\ copy[c].etag \in Nat \X Nat /\ copy[c].last_modified \in Nat
          /\ copy[c].settled \in BOOLEAN

LEMMA LabelType ==
    ASSUME ClockType, IsFiniteSet(Object)
    PROVE  ETag \in Nat \X Nat /\ LastModified \in Nat
<1>1. GeneratedAt \in Nat
  BY DEF ClockType, GeneratedAt
<1>2. DOMAIN Content \subseteq Object
  BY DEF Content
<1>3. ObjectCount \in Nat
  BY <1>2, FS_Subset, FS_CardinalityType DEF ObjectCount
<1> QED BY <1>1, <1>3 DEF ETag, LastModified

(* The handler is given, and the clients keep, well-formed answers, for any  *)
(* finite catalogue.                                                         *)
THEOREM ApiTypeCorrect ==
    ASSUME IsFiniteSet(Object)
    PROVE  ApiSpec => []ApiTypeOK
<1> DEFINE Typed == \A c \in Client : WellFormed(c)
<1>1. ASSUME ApiInit, NEW c \in Client PROVE WellFormed(c)
  <2>1. asking[c] = NotAsking /\ copy[c] = NoCopy
    BY <1>1 DEF ApiInit
  <2> QED BY <2>1 DEF WellFormed, NotAsking
<1>2. ASSUME ApiInv, Typed, [ApiNext]_apiVars, NEW d \in Client PROVE WellFormed(d)'
  <2>1. ClockType /\ WellFormed(d)
    BY <1>2 DEF ApiInv
  <2>2. CASE asking'[d] = asking[d] /\ copy'[d] = copy[d]
    BY <2>1, <2>2 DEF WellFormed
  <2>3. CASE UNCHANGED <<asking, copy>>
    BY <2>2, <2>3
  <2>4. ASSUME NEW c \in Client, ReadMeta(c) PROVE WellFormed(d)'
    <3>1. /\ asking' = [asking EXCEPT ![c] =
                          [etag |-> ETag, last_modified |-> LastModified, active |-> TRUE]]
          /\ UNCHANGED copy
      BY <2>4 DEF ReadMeta
    <3>2. ETag \in Nat \X Nat /\ LastModified \in Nat
      BY <2>1, LabelType
    <3>3. CASE d = c
      BY <1>2, <2>1, <3>1, <3>2, <3>3 DEF ApiInv, WellFormed
    <3>4. CASE d # c
      BY <1>2, <2>2, <3>1, <3>4 DEF ApiInv
    <3> QED BY <3>3, <3>4
  <2>5. ASSUME NEW c \in Client, ReadRows(c) PROVE WellFormed(d)'
    <3> DEFINE answer == [etag |-> asking[c].etag, last_modified |-> asking[c].last_modified,
                          content |-> Content, settled |-> pc = "idle"]
    <3>1. copy' = [copy EXCEPT ![c] = answer] /\ asking' = [asking EXCEPT ![c] = NotAsking]
      BY <2>5 DEF ReadRows
    <3>2. /\ answer.etag = asking[c].etag /\ answer.last_modified = asking[c].last_modified
          /\ answer.settled \in BOOLEAN
      OBVIOUS
    <3>3. NotAsking.active \in BOOLEAN /\ NotAsking.etag \in Nat \X Nat
          /\ NotAsking.last_modified \in Nat
      BY DEF NotAsking
    <3> HIDE DEF answer
    <3>4. CASE d = c
      <4>1. copy'[d] = answer /\ asking'[d] = NotAsking
        BY <1>2, <3>1, <3>4 DEF ApiInv
      <4> QED BY <2>1, <3>2, <3>3, <3>4, <4>1 DEF WellFormed
    <3>5. CASE d # c
      BY <1>2, <2>2, <3>1, <3>5 DEF ApiInv
    <3> QED BY <3>4, <3>5
  <2>6. ASSUME NEW c \in Client, AnswerError(c) PROVE WellFormed(d)'
    <3>1. UNCHANGED copy /\ asking' = [asking EXCEPT ![c] = NotAsking]
      BY <2>6 DEF AnswerError
    <3>2. CASE d = c
      BY <1>2, <2>1, <3>1, <3>2 DEF ApiInv, WellFormed, NotAsking
    <3>3. CASE d # c
      BY <1>2, <2>2, <3>1, <3>3 DEF ApiInv
    <3> QED BY <3>2, <3>3
  <2>7. CASE Tick \/ StampAndStart \/ Import \/ Surroundings \/ UNCHANGED apiVars
             \/ \E c \in Client : AnswerNotModified(c)
    <3>1. UNCHANGED api
      BY <2>7 DEF Tick, StampAndStart, Import, Surroundings, AnswerNotModified, apiVars
    <3> QED BY <2>3, <3>1 DEF api
  <2> QED BY <1>2, <2>4, <2>5, <2>6, <2>7 DEF ApiNext
<1>3. ApiInv /\ Typed => ApiTypeOK
  BY DEF ApiInv, ClockType, WellFormed, ApiTypeOK
<1> HIDE DEF Typed
<1>4. ApiInv /\ Typed /\ [ApiNext]_apiVars => Typed'
  BY <1>2 DEF Typed
<1>5. ApiInit => Typed
  BY <1>1 DEF Typed
<1> QED BY <1>3, <1>4, <1>5, ApiInvariant, PTL DEF ApiSpec
=============================================================================
