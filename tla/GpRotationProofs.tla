--------------------------- MODULE GpRotationProofs ---------------------------
(***************************************************************************)
(* What a request names, and what the rotation passes over, for every      *)
(* catalogue, any batch size, any number of overlapping and failing runs,  *)
(* and whatever is committed between the statements of a selection.        *)
(***************************************************************************)
EXTENDS GpPollerProofs, GpTargetsProofs

Choosing == {"cursor", "primary", "wrap"}
Working  == {"record", "insert", "event"}

(* The hot slice of p keeps to its slots. *)
HotBounded(p) ==
    /\ IsFiniteSet(batch[p].hot) /\ Cardinality(batch[p].hot) \in Nat
    /\ Cardinality(batch[p].hot) <= kGpMaxHotSlots

(* Between the two SELECTs: the first one left room, and what it saw is     *)
(* still in the catalogue.                                                  *)
PrimarySelected(p) ==
    /\ batch[p].candidates \subseteq live
    /\ batch[p].primary = PrimaryTargets(batch[p].candidates, batch[p].cursor,
                                         RotationSlots(p), batch[p].hot)
    /\ Cardinality(batch[p].primary) < RotationSlots(p)

(* Once selected, the batch of p stays what RotationBatch returns for the   *)
(* cursor and the rows it read and the slots that the hot slice left.       *)
Chosen(p) == RotationBatch(batch[p].candidates, batch[p].catalogue, batch[p].cursor,
                           RotationSlots(p), batch[p].hot)

Selected(p) ==
    /\ batch[p].candidates \subseteq batch[p].catalogue /\ batch[p].catalogue \subseteq Object
    /\ batch[p].cursor \in Object \cup {NoCursor}
    /\ batch[p].primary = Chosen(p).primary /\ batch[p].wrap = Chosen(p).wrap

(* Where the selection of p has got to; `heard` are its targets, once it    *)
(* has its answer.                                                          *)
SelectionOf(p) ==
    /\ pc[p] \in {"idle", "hot"} \cup Choosing => batch[p].wrap = {}
    /\ pc[p] \notin {"idle", "hot"} => HotBounded(p)
    /\ pc[p] = "wrap" => PrimarySelected(p)
    /\ pc[p] \in {"login", "request"} \cup Working => Selected(p)
    /\ pc[p] \in Working => reply[p].heard = Targets(p)

SelectionInv == \A p \in Process : SelectionOf(p)

LEMMA SelectionInit == Init => SelectionInv
BY DEF Init, SelectionInv, SelectionOf, Choosing, Working, NoBatch

(* A step that keeps what q has selected and heard, or ends its run.        *)
Undisturbed(q) ==
    /\ live \subseteq live'
    /\ \/ pc'[q] = "idle" /\ batch'[q].wrap = {}
       \/ /\ batch'[q] = batch[q] /\ reply'[q] = reply[q]
          /\ \/ pc'[q] = pc[q]
             \/ pc[q] = "idle" /\ pc'[q] = "hot"
             \/ pc[q] = "login" /\ pc'[q] = "request"
             \/ pc[q] \in Working /\ pc'[q] \in Working

LEMMA SelectionKept ==
    ASSUME SelectionInv, NEW q \in Process, Undisturbed(q)
    PROVE  SelectionOf(q)'
<1>1. CASE pc'[q] = "idle" /\ batch'[q].wrap = {}
  BY <1>1 DEF SelectionOf, Choosing, Working
<1>2. CASE ~ (pc'[q] = "idle" /\ batch'[q].wrap = {})
  <2>1. SelectionOf(q) /\ batch'[q] = batch[q] /\ reply'[q] = reply[q] /\ live \subseteq live'
    BY <1>2 DEF SelectionInv, Undisturbed
  <2>2. (HotBounded(q) => HotBounded(q)') /\ Targets(q)' = Targets(q)
    BY <2>1 DEF HotBounded, Targets
  <2>3. (Selected(q) => Selected(q)') /\ (PrimarySelected(q) => PrimarySelected(q)')
    BY <2>1 DEF Selected, Chosen, PrimarySelected, RotationSlots
  <2>4. \/ pc'[q] = pc[q]
        \/ pc[q] = "idle" /\ pc'[q] = "hot"
        \/ pc[q] = "login" /\ pc'[q] = "request"
        \/ pc[q] \in Working /\ pc'[q] \in Working
    BY <1>2 DEF Undisturbed
  <2> QED BY <2>1, <2>2, <2>3, <2>4 DEF SelectionOf, Choosing, Working
<1> QED BY <1>1, <1>2

LEMMA SelectionQuiet ==
    ASSUME SelectionInv, \A q \in Process : Undisturbed(q)
    PROVE  SelectionInv'
BY SelectionKept DEF SelectionInv

(* Only p's own step concerns p, and it concerns nobody else.               *)
LEMMA SelectionOfOne ==
    ASSUME TypeOK, SelectionInv, NEW p \in Process, SelectionOf(p)', UNCHANGED live,
           \A q \in Process \ {p} : pc'[q] = pc[q] /\ batch'[q] = batch[q] /\ reply'[q] = reply[q]
    PROVE  SelectionInv'
<1>1. ASSUME NEW q \in Process, q # p PROVE SelectionOf(q)'
  <2>1. Undisturbed(q)
    BY <1>1 DEF Undisturbed
  <2> QED BY <2>1, SelectionKept
<1> QED BY <1>1 DEF SelectionInv

LEMMA SelectHotKeeps ==
    ASSUME TypeOK, SelectionInv, NEW p \in Process, SelectHot(p)
    PROVE  SelectionInv'
<1> DEFINE hot == HotTargets(live, Featured, hit_count, kGpMaxHotSlots)
           new == [batch[p] EXCEPT !.hot = hot]
<1>1. /\ batch' = [batch EXCEPT ![p] = new] /\ pc[p] = "hot"
      /\ pc' = [pc EXCEPT ![p] = "cursor"] /\ UNCHANGED <<live, reply>>
  BY DEF SelectHot, Goto, db
<1>2. batch[p] \in BatchType /\ live \subseteq Object /\ hit_count \in [Object -> Nat]
  BY DEF TypeOK
<1>3. /\ pc'[p] = "cursor" /\ batch'[p] = new
      /\ \A q \in Process \ {p} : pc'[q] = pc[q] /\ batch'[q] = batch[q] /\ reply'[q] = reply[q]
  <2> HIDE DEF new
  <2> QED BY <1>1 DEF TypeOK
<1>4. batch'[p].hot = hot /\ batch'[p].wrap = {}
  <2>1. batch[p].wrap = {}
    BY <1>1 DEF SelectionInv, SelectionOf
  <2> HIDE DEF hot
  <2> QED BY <1>2, <1>3, <2>1 DEF BatchType
<1>5. HotBounded(p)'
  <2>1. live \subseteq Nat /\ IsFiniteSet(live) /\ \A o \in live : hit_count[o] \in Nat
    BY <1>2, ObjectAssumption, FS_Subset
  <2>2. kGpMaxHotSlots \in Nat
    BY BatchAssumption
  <2>3. IsFiniteSet(hot) /\ Cardinality(hot) \in Nat
    <3>1. hot \subseteq live
      BY HotTargetsFromLive
    <3> HIDE DEF hot
    <3> QED BY <2>1, <3>1, FS_Subset, FS_CardinalityType
  <2>4. Cardinality(hot) <= kGpMaxHotSlots
    BY <2>1, <2>2, HotTargetsBounded
  <2> HIDE DEF hot, new
  <2> QED BY <1>4, <2>3, <2>4 DEF HotBounded
<1>6. SelectionOf(p)'
  <2> HIDE DEF hot, new
  <2> QED BY <1>3, <1>4, <1>5 DEF SelectionOf, Choosing, Working
<1> HIDE DEF hot, new
<1> QED BY <1>1, <1>3, <1>6, SelectionOfOne

LEMMA ReadCursorKeeps ==
    ASSUME TypeOK, SelectionInv, NEW p \in Process, ReadCursor(p)
    PROVE  SelectionInv'
<1> DEFINE new == [batch[p] EXCEPT !.cursor = rotation_cursor]
<1>1. /\ batch' = [batch EXCEPT ![p] = new] /\ pc[p] = "cursor"
      /\ pc' = [pc EXCEPT ![p] = "primary"] /\ UNCHANGED <<live, reply>>
  BY DEF ReadCursor, Goto, db
<1>2. /\ pc'[p] = "primary" /\ batch'[p] = new
      /\ \A q \in Process \ {p} : pc'[q] = pc[q] /\ batch'[q] = batch[q] /\ reply'[q] = reply[q]
  <2> HIDE DEF new
  <2> QED BY <1>1 DEF TypeOK
<1>3. batch'[p].hot = batch[p].hot /\ batch'[p].wrap = batch[p].wrap
  BY <1>2 DEF TypeOK, BatchType
<1>4. HotBounded(p) /\ batch[p].wrap = {}
  BY <1>1 DEF SelectionInv, SelectionOf, Choosing
<1> HIDE DEF new
<1>5. HotBounded(p)'
  BY <1>3, <1>4 DEF HotBounded
<1>6. SelectionOf(p)'
  BY <1>2, <1>3, <1>4, <1>5 DEF SelectionOf, Choosing, Working
<1> QED BY <1>1, <1>2, <1>6, SelectionOfOne

LEMMA SelectPrimaryKeeps ==
    ASSUME TypeOK, SelectionInv, NEW p \in Process, SelectPrimary(p)
    PROVE  SelectionInv'
<1> DEFINE n       == RotationSlots(p)
           primary == PrimaryTargets(live, batch[p].cursor, n, batch[p].hot)
           new     == [batch[p] EXCEPT !.primary = primary, !.candidates = live, !.catalogue = live]
           to      == IF Cardinality(primary) < n THEN "wrap" ELSE "login"
<1>1. /\ batch' = [batch EXCEPT ![p] = new] /\ pc[p] = "primary"
      /\ pc' = [pc EXCEPT ![p] = to] /\ UNCHANGED <<live, reply>>
  BY DEF SelectPrimary, Goto, db
<1>2. /\ pc'[p] = to /\ batch'[p] = new
      /\ \A q \in Process \ {p} : pc'[q] = pc[q] /\ batch'[q] = batch[q] /\ reply'[q] = reply[q]
  <2> HIDE DEF new, to
  <2> QED BY <1>1 DEF TypeOK
<1>3. /\ batch'[p].hot = batch[p].hot /\ batch'[p].wrap = batch[p].wrap
      /\ batch'[p].cursor = batch[p].cursor /\ batch'[p].primary = primary
      /\ batch'[p].candidates = live /\ batch'[p].catalogue = live
  <2>1. batch[p] \in BatchType
    BY DEF TypeOK
  <2> HIDE DEF primary, to
  <2> QED BY <1>2, <2>1 DEF BatchType
<1>4. /\ HotBounded(p) /\ batch[p].wrap = {}
      /\ live \subseteq Object /\ batch[p].cursor \in Object \cup {NoCursor}
  BY <1>1 DEF SelectionInv, SelectionOf, Choosing, TypeOK, BatchType
<1> HIDE DEF new
<1>5. HotBounded(p)' /\ RotationSlots(p)' = n
  BY <1>3, <1>4 DEF HotBounded, RotationSlots
<1>6. CASE Cardinality(primary) < n
  <2>1. PrimarySelected(p)'
    <3> HIDE DEF primary, n
    <3>1. batch'[p].primary = primary /\ Cardinality(primary) < n /\ RotationSlots(p)' = n
      BY <1>3, <1>5, <1>6
    <3>2. primary = PrimaryTargets(batch'[p].candidates, batch'[p].cursor, n, batch'[p].hot)
      BY <1>3 DEF primary
    <3> QED BY <1>1, <1>3, <3>1, <3>2 DEF PrimarySelected
  <2> HIDE DEF primary, n
  <2> QED BY <1>1, <1>2, <1>3, <1>4, <1>5, <1>6, <2>1, SelectionOfOne
          DEF SelectionOf, Choosing, Working, to
<1>7. CASE ~ (Cardinality(primary) < n)
  <2>1. Chosen(p)'.primary = primary /\ Chosen(p)'.wrap = {}
    <3>1. Chosen(p)' = RotationBatch(live, live, batch[p].cursor, n, batch[p].hot)
      BY <1>1, <1>3, <1>5 DEF Chosen
    <3> QED BY <1>7, <3>1 DEF RotationBatch
  <2> HIDE DEF primary, n
  <2>2. Selected(p)'
    BY <1>1, <1>3, <1>4, <2>1 DEF Selected
  <2> QED BY <1>1, <1>2, <1>3, <1>4, <1>5, <1>7, <2>2, SelectionOfOne
          DEF SelectionOf, Choosing, Working, to
<1> QED BY <1>6, <1>7

LEMMA SelectWrapKeeps ==
    ASSUME TypeOK, SelectionInv, NEW p \in Process, SelectWrap(p)
    PROVE  SelectionInv'
<1> DEFINE n    == RotationSlots(p)
           wrap == WrapTargets(live, n, batch[p].primary, batch[p].hot)
           new  == [batch[p] EXCEPT !.wrap = wrap, !.catalogue = live]
<1>1. /\ batch' = [batch EXCEPT ![p] = new] /\ pc[p] = "wrap"
      /\ pc' = [pc EXCEPT ![p] = "login"] /\ UNCHANGED <<live, reply>>
  BY DEF SelectWrap, Goto, db
<1>2. /\ pc'[p] = "login" /\ batch'[p] = new
      /\ \A q \in Process \ {p} : pc'[q] = pc[q] /\ batch'[q] = batch[q] /\ reply'[q] = reply[q]
  <2> HIDE DEF new
  <2> QED BY <1>1 DEF TypeOK
<1>3. /\ batch'[p].hot = batch[p].hot /\ batch'[p].wrap = wrap
      /\ batch'[p].cursor = batch[p].cursor /\ batch'[p].primary = batch[p].primary
      /\ batch'[p].candidates = batch[p].candidates /\ batch'[p].catalogue = live
  <2>1. batch[p] \in BatchType
    BY DEF TypeOK
  <2> HIDE DEF wrap
  <2> QED BY <1>2, <2>1 DEF BatchType
<1>4. /\ HotBounded(p) /\ PrimarySelected(p)
      /\ live \subseteq Object /\ batch[p].cursor \in Object \cup {NoCursor}
  BY <1>1 DEF SelectionInv, SelectionOf, Choosing, TypeOK, BatchType
<1> HIDE DEF new
<1>5. HotBounded(p)' /\ RotationSlots(p)' = n
  BY <1>3, <1>4 DEF HotBounded, RotationSlots
<1>6. Chosen(p)'.primary = batch[p].primary /\ Chosen(p)'.wrap = wrap
  <2>1. Chosen(p)' = RotationBatch(batch[p].candidates, live, batch[p].cursor, n, batch[p].hot)
    BY <1>1, <1>3, <1>5 DEF Chosen
  <2>2. /\ batch[p].primary = PrimaryTargets(batch[p].candidates, batch[p].cursor, n, batch[p].hot)
        /\ Cardinality(batch[p].primary) < n
    BY <1>4 DEF PrimarySelected
  <2> HIDE DEF n
  <2> QED BY <2>1, <2>2 DEF RotationBatch
<1>7. Selected(p)'
  <2> HIDE DEF wrap
  <2> QED BY <1>1, <1>3, <1>4, <1>6 DEF Selected, PrimarySelected
<1> HIDE DEF wrap, n
<1> QED BY <1>1, <1>2, <1>5, <1>7, SelectionOfOne DEF SelectionOf, Choosing, Working

LEMMA FetchKeeps ==
    ASSUME TypeOK, SelectionInv, NEW p \in Process, Fetch(p)
    PROVE  SelectionInv'
<1>1. /\ UNCHANGED <<batch, live>> /\ pc' = [pc EXCEPT ![p] = "record"] /\ pc[p] = "request"
      /\ reply' = [reply EXCEPT ![p] = [heard |-> Targets(p), answer |-> Answer(Targets(p))]]
  BY DEF Fetch, Goto, db
<1>2. HotBounded(p) /\ Selected(p)
  BY <1>1 DEF SelectionInv, SelectionOf
<1>3. HotBounded(p)' /\ Selected(p)'
  BY <1>1, <1>2 DEF HotBounded, Selected, Chosen, RotationSlots
<1>4. (reply[p].heard = Targets(p))'
  <2>1. reply'[p].heard = Targets(p)
    BY <1>1 DEF TypeOK
  <2> QED BY <1>1, <2>1 DEF Targets
<1>5. /\ pc'[p] = "record"
      /\ \A q \in Process \ {p} : pc'[q] = pc[q] /\ batch'[q] = batch[q] /\ reply'[q] = reply[q]
  BY <1>1 DEF TypeOK
<1> QED BY <1>1, <1>3, <1>4, <1>5, SelectionOfOne DEF SelectionOf, Choosing, Working

LEMMA SelectionStep ==
    ASSUME TypeOK, SelectionInv, NEW p \in Process, Step(p) \/ Failure(p)
    PROVE  SelectionInv'
<1>1. CASE SelectHot(p)
  BY <1>1, SelectHotKeeps
<1>2. CASE SelectRotation(p)
  BY <1>2, ReadCursorKeeps, SelectPrimaryKeeps, SelectWrapKeeps DEF SelectRotation
<1>3. CASE Fetch(p)
  BY <1>3, FetchKeeps
<1>4. CASE Start(p) \/ Login(p)
  <2>1. \A q \in Process : Undisturbed(q)
    BY <1>4 DEF Start, Login, Goto, TypeOK, db, locals, Undisturbed
  <2> QED BY <2>1, SelectionQuiet
<1>5. CASE \/ LookupUnchanged(p) \/ LookupNew(p) \/ InsertSnapshot(p) \/ InsertConflict(p)
           \/ InsertEvent(p) \/ RecordFails(p)
  <2>1. UNCHANGED <<live, batch, reply>>
    BY <1>5 DEF LookupUnchanged, LookupNew, InsertSnapshot, InsertConflict, InsertEvent,
                RecordFails, db
  <2>2. pc[p] \in Working
    BY <1>5 DEF LookupUnchanged, LookupNew, InsertSnapshot, InsertConflict, InsertEvent,
                RecordFails, Goto, Working
  <2>3. /\ \A q \in Process : q # p => pc'[q] = pc[q]
        /\ pc'[p] = pc[p] \/ pc'[p] \in Working
    BY <1>5 DEF LookupUnchanged, LookupNew, InsertSnapshot, InsertConflict, InsertEvent,
                RecordFails, Goto, NextRecord, TypeOK, Working
  <2>4. \A q \in Process : Undisturbed(q)
    BY <2>1, <2>2, <2>3 DEF Undisturbed
  <2> QED BY <2>4, SelectionQuiet
<1>6. CASE \/ SelectFails(p) \/ LoginFails(p) \/ NoTargetsConfigured(p) \/ FetchFails(p)
           \/ FetchUnparseable(p) \/ AdvanceFails(p) \/ Crash(p) \/ AdvanceCursor(p)
  <2>1. Leave(p) /\ UNCHANGED live
    BY <1>6 DEF SelectFails, LoginFails, NoTargetsConfigured, FetchFails, FetchUnparseable,
                AdvanceFails, Crash, AdvanceCursor, db
  <2>2. \A q \in Process : Undisturbed(q)
    BY <2>1 DEF Leave, TypeOK, Undisturbed, NoBatch
  <2> QED BY <2>2, SelectionQuiet
<1> QED BY <1>1, <1>2, <1>3, <1>4, <1>5, <1>6 DEF Step, Failure

THEOREM SelectionInvariant == Spec => []SelectionInv
<1>1. ASSUME TypeOK, SelectionInv, [Next]_vars PROVE SelectionInv'
  <2>1. ASSUME NEW o \in Object, Environment(o) PROVE SelectionInv'
    BY <1>1, <2>1, SelectionQuiet DEF Undisturbed, Environment, CatalogObject, Hit, Publish, db, locals
  <2>2. CASE UNCHANGED vars
    BY <1>1, <2>2, SelectionQuiet DEF Undisturbed, vars, db, locals
  <2> QED BY <1>1, <2>1, <2>2, SelectionStep DEF Next
<1> QED BY <1>1, SelectionInit, TypeCorrect, PTL DEF Spec

(* What the lemmas of GpTargetsProofs ask of a batch. *)
LEMMA SelectedBatch ==
    ASSUME SelectionInv, NEW p \in Process, pc[p] \in {"login", "request"} \cup Working
    PROVE  /\ IsBatch(Chosen(p), batch[p].candidates, batch[p].catalogue, batch[p].cursor,
                      RotationSlots(p), batch[p].hot)
           /\ batch[p].primary = Chosen(p).primary /\ batch[p].wrap = Chosen(p).wrap
           /\ batch[p].candidates \subseteq batch[p].catalogue
           /\ RotationSlots(p) \in Nat
           /\ kGpBatchSize = RotationSlots(p) + Cardinality(batch[p].hot)
<1>1. HotBounded(p) /\ Selected(p)
  BY DEF SelectionInv, SelectionOf, Working
<1>2. /\ RotationSlots(p) \in Nat /\ RotationSlots(p) \in Int
      /\ kGpBatchSize = RotationSlots(p) + Cardinality(batch[p].hot)
  BY <1>1, BatchAssumption DEF HotBounded, RotationSlots
<1>3. batch[p].catalogue \in SUBSET Object /\ batch[p].cursor \in Object \cup {NoCursor}
  BY <1>1 DEF Selected
<1>4. IsFiniteSet(batch[p].catalogue) /\ batch[p].catalogue \subseteq Nat
  BY <1>3, ObjectAssumption, FS_Subset
<1>5. batch[p].cursor \in Int
  <2>1. Object \subseteq Int /\ NoCursor \in Int
    BY ObjectAssumption DEF NoCursor
  <2> QED BY <1>3, <2>1
<1>6. IsBatch(Chosen(p), batch[p].candidates, batch[p].catalogue, batch[p].cursor,
              RotationSlots(p), batch[p].hot)
  BY <1>1, <1>2, <1>4, <1>5 DEF Selected, Chosen, IsBatch
<1> QED BY <1>1, <1>2, <1>6 DEF Selected

(* Whatever run moves the cursor, it moves it over objects that were named  *)
(* in a request that got its answer, and over nothing else.                 *)
THEOREM RotationSkipsNobody == Spec => CursorSkipsNobody
<1> DEFINE Moves(p) == pc[p] = "record" /\ pc'[p] = "idle" /\ rotation_cursor' # rotation_cursor
           Covered(p) == Arc(batch[p].candidates, batch[p].cursor, rotation_cursor', batch[p].wrap # {})
                            \subseteq reply[p].heard
<1>1. ASSUME TypeOK, SelectionInv, [Next]_vars, NEW p \in Process, Moves(p)
      PROVE  Covered(p)
  <2>1. PICK q \in Process : AdvanceCursor(q)
    BY <1>1 DEF Next, Step, Failure, Environment, vars, db, Start, SelectHot, SelectRotation,
                ReadCursor, SelectPrimary, SelectWrap, Login,
                NoTargetsConfigured, Fetch, FetchUnparseable, LookupUnchanged, LookupNew,
                InsertSnapshot, InsertConflict, InsertEvent, SelectFails, LoginFails, FetchFails,
                RecordFails, AdvanceFails, Crash, CatalogObject, Hit, Publish
  <2>2. q = p
    BY <1>1, <2>1 DEF AdvanceCursor, Leave, TypeOK
  <2>3. IsLastTarget(rotation_cursor', batch[p])
    BY <1>1, <2>1, <2>2 DEF AdvanceCursor
  <2>4. reply[p].heard = Targets(p)
    BY <1>1 DEF SelectionInv, SelectionOf, Working
  <2>5. /\ IsBatch(Chosen(p), batch[p].candidates, batch[p].catalogue, batch[p].cursor,
                   RotationSlots(p), batch[p].hot)
        /\ batch[p].primary = Chosen(p).primary /\ batch[p].wrap = Chosen(p).wrap
    BY <1>1, SelectedBatch DEF Working
  <2>6. IsLastTarget(rotation_cursor', Chosen(p))
    BY <2>3, <2>5 DEF IsLastTarget, LastRun
  <2>7. Arc(batch[p].candidates, batch[p].cursor, rotation_cursor', Chosen(p).wrap # {})
           \subseteq batch[p].hot \cup Chosen(p).primary \cup Chosen(p).wrap
    BY <2>5, <2>6, ArcCovered
  <2> QED BY <2>4, <2>5, <2>7 DEF Targets
<1>2. TypeOK /\ SelectionInv /\ [Next]_vars => [\A p \in Process : Moves(p) => Covered(p)]_vars
  BY <1>1
<1> QED BY <1>2, TypeCorrect, SelectionInvariant, PTL DEF Spec, CursorSkipsNobody

(* The last statement of a run is its cursor's, unless something fails. *)
LEMMA NoFailure ==
    ASSUME TypeOK, faults' = faults, NEW q \in Process
    PROVE  ~ Failure(q)
<1>1. faults' # faults + 1
  BY DEF TypeOK
<1> QED BY <1>1 DEF Failure, SelectFails, LoginFails, FetchFails, RecordFails, AdvanceFails, Crash, Fault

LEMMA OnlyTheCursorIsLast ==
    ASSUME TypeOK, NEW p \in Process, pc[p] = "record", pc'[p] = "idle", NEW q \in Process, Step(q)
    PROVE  AdvanceCursor(q)
<1>1. ASSUME NEW to \in ProcessState \ {"idle"},
             pc' = [pc EXCEPT ![q] = to]
      PROVE  FALSE
  BY <1>1 DEF TypeOK
<1>2. ASSUME pc[q] # "record", pc' = [pc EXCEPT ![q] = "idle"] PROVE FALSE
  BY <1>2 DEF TypeOK
<1>3. pc' # pc
  OBVIOUS
<1>4. CASE Start(q) \/ SelectHot(q) \/ SelectRotation(q) \/ Login(q) \/ Fetch(q) \/ LookupNew(q)
  <2>1. \E to \in ProcessState \ {"idle"} : pc' = [pc EXCEPT ![q] = to]
    BY <1>4 DEF Start, SelectHot, SelectRotation, ReadCursor, SelectPrimary, SelectWrap, Login, Fetch,
                LookupNew, Goto, ProcessState
  <2> QED BY <1>1, <2>1
<1>5. CASE LookupUnchanged(q) \/ InsertSnapshot(q) \/ InsertConflict(q) \/ InsertEvent(q)
  BY <1>1, <1>3, <1>5 DEF LookupUnchanged, InsertSnapshot, InsertConflict, InsertEvent, NextRecord,
                          ProcessState
<1>6. CASE NoTargetsConfigured(q) \/ FetchUnparseable(q)
  BY <1>2, <1>6 DEF NoTargetsConfigured, FetchUnparseable, Leave
<1> QED BY <1>4, <1>5, <1>6 DEF Step

(* As long as the hot slice leaves the rotation a slot, each run that ends   *)
(* without a failure has heard of an object or comes closer to it.           *)
THEOREM SweepAdvances ==
    ASSUME kGpMaxHotSlots < kGpBatchSize
    PROVE  Spec => SweepComesCloser
<1> DEFINE Ends(p) == pc[p] = "record" /\ pc'[p] = "idle" /\ faults' = faults
           Closer(p, o) ==
              LET before == Ahead(batch[p].catalogue, batch[p].cursor, o)
                  after  == Ahead(batch[p].catalogue, rotation_cursor', o)
              IN  after \subseteq before /\ after # before
<1>1. ASSUME TypeOK, SelectionInv, [Next]_vars, NEW p \in Process, Ends(p),
             NEW o \in batch[p].candidates \ reply[p].heard
      PROVE  Closer(p, o)
  <2>1. AdvanceCursor(p)
    <3>1. PICK q \in Process : AdvanceCursor(q)
      <4>1. ~ \E q \in Process : Failure(q)
        BY <1>1, NoFailure
      <4>2. ~ UNCHANGED pc
        BY <1>1
      <4>3. PICK q \in Process : Step(q)
        BY <1>1, <4>1, <4>2 DEF Next, Environment, CatalogObject, Hit, Publish, vars
      <4> QED BY <1>1, <4>3, OnlyTheCursorIsLast
    <3>2. q = p
      BY <1>1, <3>1 DEF AdvanceCursor, Leave, TypeOK
    <3> QED BY <3>1, <3>2
  <2>2. reply[p].heard = Targets(p)
    BY <1>1 DEF SelectionInv, SelectionOf, Working
  <2>3. /\ IsBatch(Chosen(p), batch[p].candidates, batch[p].catalogue, batch[p].cursor,
                   RotationSlots(p), batch[p].hot)
        /\ batch[p].primary = Chosen(p).primary /\ batch[p].wrap = Chosen(p).wrap
        /\ batch[p].candidates \subseteq batch[p].catalogue
    BY <1>1, SelectedBatch DEF Working
  <2>4. RotationSlots(p) \in Nat \ {0}
    <3>1. HotBounded(p)
      BY <1>1 DEF SelectionInv, SelectionOf
    <3> QED BY <3>1, BatchAssumption DEF HotBounded, RotationSlots
  <2>5. /\ o \in batch[p].candidates /\ o \in batch[p].catalogue
        /\ o \notin batch[p].hot \cup Chosen(p).primary \cup Chosen(p).wrap
    BY <2>2, <2>3 DEF Targets
  <2>6. LastRun(Chosen(p)) # {}
    BY <2>3, <2>4, <2>5, BatchHasLastTarget
  <2>7. IsLastTarget(rotation_cursor', Chosen(p))
    <3>1. LastRun(batch[p]) = LastRun(Chosen(p))
      BY <2>3 DEF LastRun
    <3> QED BY <2>1, <2>6, <3>1 DEF AdvanceCursor, IsLastTarget
  <2> DEFINE before == Ahead(batch[p].catalogue, batch[p].cursor, o)
             after  == Ahead(batch[p].catalogue, rotation_cursor', o)
  <2>8. after \subseteq before /\ rotation_cursor' \in before \ after
    BY <2>3, <2>5, <2>7, LastTargetIsCloser
  <2> QED BY <2>8
<1>2. TypeOK /\ SelectionInv /\ [Next]_vars
      => [\A p \in Process : Ends(p) =>
             \A o \in batch[p].candidates \ reply[p].heard : Closer(p, o)]_vars
  BY <1>1
<1> QED BY <1>2, TypeCorrect, SelectionInvariant, PTL DEF Spec, SweepComesCloser

(* What the properties of a request count. *)
LEMMA RequestCounted ==
    ASSUME SelectionInv, NEW p \in Process, pc[p] = "request"
    PROVE  /\ Cardinality(batch[p].hot) <= kGpMaxHotSlots
           /\ Cardinality(batch[p].hot) + Cardinality(batch[p].primary) + Cardinality(batch[p].wrap)
                 <= kGpBatchSize
           /\ batch[p].hot \cap (batch[p].primary \cup batch[p].wrap) = {}
           /\ batch[p].primary \cap batch[p].wrap # {} => batch[p].candidates \subseteq Targets(p)
           /\ \/ batch[p].catalogue \subseteq Targets(p)
              \/ Cardinality(batch[p].hot) + Cardinality(batch[p].primary) + Cardinality(batch[p].wrap)
                    = kGpBatchSize
<1> DEFINE n == RotationSlots(p)
<1>1. /\ IsBatch(Chosen(p), batch[p].candidates, batch[p].catalogue, batch[p].cursor,
                 n, batch[p].hot)
      /\ batch[p].primary = Chosen(p).primary /\ batch[p].wrap = Chosen(p).wrap
      /\ n \in Nat /\ kGpBatchSize = n + Cardinality(batch[p].hot)
  BY SelectedBatch
<1>2. /\ Cardinality(batch[p].primary) \in Nat /\ Cardinality(batch[p].wrap) \in Nat
      /\ Cardinality(batch[p].primary) + Cardinality(batch[p].wrap) <= n
      /\ \/ Cardinality(batch[p].primary) + Cardinality(batch[p].wrap) = n
         \/ batch[p].catalogue \ batch[p].hot \subseteq batch[p].primary \cup batch[p].wrap
  <2> HIDE DEF n
  <2>1. Fills(Chosen(p), n, batch[p].catalogue \ batch[p].hot)
    BY <1>1, RotationFillsSlots
  <2> QED BY <1>1, <2>1 DEF Fills
<1>3. /\ batch[p].hot \cap (batch[p].primary \cup batch[p].wrap) = {}
      /\ batch[p].primary \cap batch[p].wrap # {} => batch[p].candidates \subseteq Targets(p)
  <2> HIDE DEF n
  <2>1. /\ batch[p].hot \cap (Chosen(p).primary \cup Chosen(p).wrap) = {}
        /\ Chosen(p).primary \cap Chosen(p).wrap # {}
              => batch[p].candidates \subseteq batch[p].hot \cup Chosen(p).primary \cup Chosen(p).wrap
    BY <1>1, RepeatsCostNothing
  <2> QED BY <1>1, <2>1 DEF Targets
<1>4. \/ batch[p].catalogue \subseteq Targets(p)
      \/ Cardinality(batch[p].primary) + Cardinality(batch[p].wrap) = n
  BY <1>2 DEF Targets
<1>5. Cardinality(batch[p].hot) \in Nat /\ Cardinality(batch[p].hot) <= kGpMaxHotSlots
  BY DEF SelectionInv, SelectionOf, HotBounded
<1> HIDE DEF n
<1> QED BY <1>1, <1>2, <1>3, <1>4, <1>5

(* A request keeps to its size and its hot slice to its own; an id takes two *)
(* slots only in a request that names all that its primary SELECT found.     *)
THEOREM RequestsBounded == Spec => []RequestBounded
<1>1. SelectionInv => RequestBounded
  BY RequestCounted DEF RequestBounded
<1> QED BY <1>1, SelectionInvariant, PTL

(* It leaves no slot empty while an object is not asked for that was in the  *)
(* catalogue at its last SELECT.                                             *)
THEOREM RequestsFilled == Spec => []NoSlotWasted
<1>1. SelectionInv => NoSlotWasted
  BY RequestCounted DEF NoSlotWasted
<1> QED BY <1>1, SelectionInvariant, PTL

(* The one SELECT behind the hot slice gives the marked rows their slots and *)
(* the rest to the most popular objects, whatever else is going on.          *)
THEOREM HotSliceKeepsPromises == Spec => HotSliceAsPromised
<1> DEFINE Selects(p) == pc[p] = "hot" /\ pc'[p] = "cursor"
           Promised(p) ==
              LET marked == Featured \cap live
                  room   == kGpMaxHotSlots - Cardinality(marked)
              IN  /\ room >= 0 => marked \subseteq batch'[p].hot
                  /\ \A o \in PopularObjects(live, hit_count, room) :
                        hit_count[o] > 0 => o \in batch'[p].hot
<1>1. ASSUME TypeOK, [Next]_vars, NEW p \in Process, Selects(p)
      PROVE  Promised(p)
  <2>1. PICK q \in Process : SelectHot(q)
    <3>1. CASE UNCHANGED vars \/ \E o \in Object : Environment(o)
      <4>1. UNCHANGED pc
        BY <3>1 DEF vars, locals, Environment, CatalogObject, Hit, Publish
      <4> QED BY <1>1, <4>1
    <3>2. CASE \E q \in Process : Step(q) \/ Failure(q)
      <4>1. PICK q \in Process : Step(q) \/ Failure(q)
        BY <3>2
      <4>2. CASE SelectHot(q)
        BY <4>2
      <4>3. ASSUME NEW to \in ProcessState \ {"cursor"},
                   pc' = [pc EXCEPT ![q] = to]
            PROVE  FALSE
        BY <1>1, <4>3 DEF TypeOK
      <4>4. CASE Start(q) \/ SelectRotation(q) \/ Login(q) \/ Fetch(q) \/ LookupNew(q)
        <5>1. \E to \in ProcessState \ {"cursor"} : pc' = [pc EXCEPT ![q] = to]
          BY <4>4 DEF Start, SelectRotation, ReadCursor, SelectPrimary, SelectWrap, Login, Fetch,
                      LookupNew, Goto, ProcessState
        <5> QED BY <4>3, <5>1
      <4>5. CASE \/ NoTargetsConfigured(q) \/ FetchUnparseable(q) \/ AdvanceCursor(q)
                 \/ SelectFails(q) \/ LoginFails(q) \/ FetchFails(q) \/ AdvanceFails(q) \/ Crash(q)
        <5>1. pc' = [pc EXCEPT ![q] = "idle"]
          BY <4>5 DEF NoTargetsConfigured, FetchUnparseable, AdvanceCursor, SelectFails, LoginFails,
                      FetchFails, AdvanceFails, Crash, Leave
        <5> QED BY <4>3, <5>1 DEF ProcessState
      <4>6. CASE \/ LookupUnchanged(q) \/ InsertSnapshot(q) \/ InsertConflict(q)
                 \/ InsertEvent(q) \/ RecordFails(q)
        <5>1. CASE UNCHANGED pc
          BY <1>1, <5>1
        <5>2. \/ UNCHANGED pc \/ pc' = [pc EXCEPT ![q] = "record"]
              \/ pc' = [pc EXCEPT ![q] = "event"]
          BY <4>6 DEF LookupUnchanged, InsertSnapshot, InsertConflict, InsertEvent, RecordFails,
                      NextRecord, db, locals
        <5> QED BY <4>3, <5>1, <5>2 DEF ProcessState
      <4> QED BY <4>1, <4>2, <4>4, <4>5, <4>6 DEF Step, Failure
    <3> QED BY <1>1, <3>1, <3>2 DEF Next
  <2>2. q = p
    BY <1>1, <2>1 DEF SelectHot, Goto, TypeOK
  <2> DEFINE hot == HotTargets(live, Featured, hit_count, kGpMaxHotSlots)
  <2>3. batch'[p].hot = hot
    <3>1. batch' = [batch EXCEPT ![p] = [batch[p] EXCEPT !.hot = hot]] /\ batch[p] \in BatchType
      BY <1>1, <2>1, <2>2 DEF SelectHot, TypeOK
    <3> HIDE DEF hot
    <3>2. batch'[p] = [batch[p] EXCEPT !.hot = hot]
      BY <1>1, <3>1 DEF TypeOK
    <3> QED BY <3>1, <3>2 DEF BatchType
  <2>4. /\ live \subseteq Nat /\ IsFiniteSet(live) /\ \A o \in live : hit_count[o] \in Nat
        /\ kGpMaxHotSlots \in Nat
    <3>1. live \in SUBSET Object /\ hit_count \in [Object -> Nat]
      BY <1>1 DEF TypeOK
    <3>2. IsFiniteSet(live)
      BY <3>1, ObjectAssumption, FS_Subset
    <3> QED BY <3>1, <3>2, ObjectAssumption, BatchAssumption
  <2> DEFINE marked == Featured \cap live
  <2>5. /\ kGpMaxHotSlots - Cardinality(marked) >= 0 => marked \subseteq hot
        /\ \A o \in PopularObjects(live, hit_count, kGpMaxHotSlots - Cardinality(marked)) :
              hit_count[o] > 0 => o \in hot
    BY <2>4, HotTargetsKeepPromises
  <2> HIDE DEF hot
  <2> QED BY <2>3, <2>5
<1>2. TypeOK /\ [Next]_vars => [\A p \in Process : Selects(p) => Promised(p)]_vars
  BY <1>1
<1> QED BY <1>2, TypeCorrect, PTL DEF Spec, HotSliceAsPromised

-----------------------------------------------------------------------------
(* The length of a run.                                                      *)

LEMMA FourTypes == IsFiniteSet(GpEventType) /\ Cardinality(GpEventType) = 4
<1> DEFINE T1 == {"maneuver_detected"}
           T2 == T1 \cup {"raan_shift"}
           T3 == T2 \cup {"eccentricity_change"}
           T4 == T3 \cup {"drag_change"}
<1>1. IsFiniteSet(T1) /\ Cardinality(T1) = 1
  BY FS_Singleton
<1>2. "raan_shift" \notin T1 /\ "eccentricity_change" \notin T2 /\ "drag_change" \notin T3
  OBVIOUS
<1>3. GpEventType = T4
  <2>1. /\ GpRegistry[1] = "maneuver_detected" /\ GpRegistry[2] = "raan_shift"
        /\ GpRegistry[3] = "eccentricity_change" /\ GpRegistry[4] = "drag_change"
    BY DEF GpRegistry
  <2>2. 1..4 = {1, 2, 3, 4}
    OBVIOUS
  <2> QED BY <2>1, <2>2 DEF GpEventType
<1> HIDE DEF T1
<1>4. IsFiniteSet(T2) /\ Cardinality(T2) = 2
  BY <1>1, <1>2, FS_AddElement
<1> HIDE DEF T2
<1>5. IsFiniteSet(T3) /\ Cardinality(T3) = 3
  BY <1>2, <1>4, FS_AddElement
<1> HIDE DEF T3
<1>6. IsFiniteSet(T4) /\ Cardinality(T4) = 4
  BY <1>2, <1>5, FS_AddElement
<1> QED BY <1>3, <1>6

(* One record per object at most. *)
LEMMA AnswerBounded ==
    ASSUME TypeOK, NEW ids \in SUBSET Object, IsFiniteSet(ids)
    PROVE  IsFiniteSet(Answer(ids)) /\ Cardinality(Answer(ids)) <= Cardinality(ids)
<1> DEFINE object == [r \in Answer(ids) |-> r.norad_cat_id]
<1>1. \A r \in Answer(ids) : r.norad_cat_id \in ids /\ r = published[r.norad_cat_id]
  BY DEF Answer, TypeOK
<1>2. object \in [Answer(ids) -> ids] /\ \A q, r \in Answer(ids) : object[q] = object[r] => q = r
  BY <1>1
<1> HIDE DEF object
<1>3. object \in Injection(Answer(ids), ids)
  BY <1>2 DEF Injection, IsInjective
<1> QED BY <1>3, FS_Injection

(* So an answer has no more records than the request has slots. *)
LEMMA AnswerFitsBatch ==
    ASSUME TypeOK, SelectionInv, NEW p \in Process, pc[p] = "request"
    PROVE  /\ IsFiniteSet(Answer(Targets(p)))
           /\ Cardinality(Answer(Targets(p))) \in Nat
           /\ Cardinality(Answer(Targets(p))) <= kGpBatchSize
<1> DEFINE hot == batch[p].hot  primary == batch[p].primary  wrap == batch[p].wrap
<1>1. Targets(p) \in SUBSET Object
  BY TargetsType
<1>2. IsFiniteSet(Targets(p)) /\ IsFiniteSet(hot) /\ IsFiniteSet(primary) /\ IsFiniteSet(wrap)
  <2>1. IsFiniteSet(Targets(p))
    BY <1>1, ObjectAssumption, FS_Subset
  <2> QED BY <2>1, FS_Subset DEF Targets
<1> HIDE DEF hot, primary, wrap
<1>3. /\ Cardinality(hot \cup primary) <= Cardinality(hot) + Cardinality(primary)
      /\ IsFiniteSet(hot \cup primary) /\ Cardinality(hot \cup primary) \in Nat
  BY <1>2, UnionBounded, FS_Union, FS_CardinalityType
<1>4. Cardinality(hot \cup primary \cup wrap) <= Cardinality(hot \cup primary) + Cardinality(wrap)
  BY <1>2, <1>3, UnionBounded
<1>5. /\ Cardinality(hot) \in Nat /\ Cardinality(primary) \in Nat /\ Cardinality(wrap) \in Nat
      /\ Cardinality(Targets(p)) \in Nat /\ kGpBatchSize \in Nat
  BY <1>2, FS_CardinalityType, BatchAssumption
<1>6. Targets(p) = hot \cup primary \cup wrap
  BY DEF Targets, hot, primary, wrap
<1>7. Cardinality(hot) + Cardinality(primary) + Cardinality(wrap) <= kGpBatchSize
  BY RequestCounted DEF hot, primary, wrap
<1>8. Cardinality(Targets(p)) <= kGpBatchSize
  BY <1>3, <1>4, <1>5, <1>6, <1>7
<1>9. /\ IsFiniteSet(Answer(Targets(p)))
      /\ Cardinality(Answer(Targets(p))) <= Cardinality(Targets(p))
  BY <1>1, <1>2, AnswerBounded
<1>10. Cardinality(Answer(Targets(p))) \in Nat
  BY <1>9, FS_CardinalityType
<1> QED BY <1>5, <1>8, <1>9, <1>10

(* What a process has before it is finite, and it is at a record's events   *)
(* only while there is one to write.                                        *)
FiniteRecords == \A p \in Process : IsFiniteSet(records[p])

SomethingToWrite == \A p \in Process : pc[p] = "event" => work[p].events # {}

LEMMA SomethingToWriteStep ==
    ASSUME TypeOK, SomethingToWrite, [Next]_vars
    PROVE  SomethingToWrite'
<1> SUFFICES ASSUME NEW q \in Process, pc'[q] = "event"
             PROVE  work'[q].events # {}
  BY DEF SomethingToWrite
<1>1. CASE pc[q] = "event" /\ work'[q] = work[q]
  BY <1>1 DEF SomethingToWrite
<1>2. CASE \E p \in Process : InsertSnapshot(p)
  <2>1. PICK p \in Process : InsertSnapshot(p)
    BY <1>2
  <2> DEFINE fired == Firings(work[p].prev, work[p].record)
  <2>2. CASE p # q
    BY <1>1, <2>1, <2>2 DEF InsertSnapshot, NextRecord, TypeOK
  <2>3. CASE p = q
    <3>1. fired # {} /\ work' = [work EXCEPT ![p] = [work[p] EXCEPT !.new_id = snapshot_seq + 1,
                                                                  !.events = fired]]
      BY <2>1, <2>3 DEF InsertSnapshot, NextRecord, TypeOK
    <3>2. work[p] \in WorkType /\ work \in [Process -> WorkType]
      BY DEF TypeOK
    <3> HIDE DEF fired
    <3>3. work'[p] = [work[p] EXCEPT !.new_id = snapshot_seq + 1, !.events = fired]
      BY <3>1, <3>2
    <3> QED BY <2>3, <3>1, <3>2, <3>3 DEF WorkType
  <2> QED BY <2>2, <2>3
<1>3. CASE \E p \in Process : InsertEvent(p)
  <2>1. PICK p \in Process : InsertEvent(p)
    BY <1>3
  <2>2. CASE p # q
    BY <1>1, <2>1, <2>2 DEF InsertEvent, NextRecord, TypeOK
  <2>3. CASE p = q
    <3>1. PICK code \in work[p].events :
              /\ work[p].events # {code}
              /\ work' = [work EXCEPT ![p] = [work[p] EXCEPT !.events = work[p].events \ {code}]]
      BY <2>1, <2>3 DEF InsertEvent, NextRecord, TypeOK
    <3>2. work[p] \in WorkType /\ work \in [Process -> WorkType]
      BY DEF TypeOK
    <3>3. work'[p] = [work[p] EXCEPT !.events = work[p].events \ {code}]
      BY <3>1, <3>2
    <3> QED BY <2>3, <3>1, <3>2, <3>3 DEF WorkType
  <2> QED BY <2>2, <2>3
<1>4. ASSUME NEW p \in Process, Step(p) \/ Failure(p), ~ InsertSnapshot(p), ~ InsertEvent(p)
      PROVE  pc[q] = "event" /\ work'[q] = work[q]
  <2>1. CASE Leave(p) \/ RecordFails(p) \/ InsertConflict(p)
    BY <2>1 DEF Leave, RecordFails, InsertConflict, NextRecord, TypeOK
  <2>2. CASE ~ (Leave(p) \/ RecordFails(p) \/ InsertConflict(p))
    BY <1>4, <2>2 DEF Step, Failure, Start, SelectHot, SelectRotation, ReadCursor, SelectPrimary,
                      SelectWrap, Login, Fetch, LookupUnchanged,
              LookupNew, NoTargetsConfigured, FetchUnparseable, AdvanceCursor, SelectFails,
              LoginFails, FetchFails, AdvanceFails, Crash, Goto, locals, TypeOK
  <2> QED BY <2>1, <2>2
<1>5. ASSUME UNCHANGED vars \/ \E o \in Object : Environment(o)
      PROVE  pc[q] = "event" /\ work'[q] = work[q]
  BY <1>5 DEF vars, locals, Environment, CatalogObject, Hit, Publish
<1> QED BY <1>1, <1>2, <1>3, <1>4, <1>5 DEF Next

LEMMA RecordsStep ==
    ASSUME TypeOK, SelectionInv, FiniteRecords, [Next]_vars
    PROVE  FiniteRecords'
<1>1. CASE UNCHANGED records
  BY <1>1 DEF FiniteRecords
<1>2. ASSUME NEW p \in Process, NEW set, IsFiniteSet(set), records' = [records EXCEPT ![p] = set]
      PROVE  FiniteRecords'
  BY <1>2 DEF FiniteRecords, TypeOK
<1>3. CASE \E p \in Process : Fetch(p)
  <2>1. PICK p \in Process : Fetch(p)
    BY <1>3
  <2>2. /\ records' = [records EXCEPT ![p] = Answer(Targets(p))] /\ IsFiniteSet(Answer(Targets(p)))
    BY <2>1, AnswerFitsBatch DEF Fetch, Goto
  <2> QED BY <1>2, <2>2
<1>4. CASE \E p \in Process : Leave(p)
  BY <1>2, <1>4, FS_EmptySet DEF Leave
<1>5. CASE \E p \in Process : LookupUnchanged(p) \/ LookupNew(p) \/ RecordFails(p)
  <2>1. PICK p \in Process : LookupUnchanged(p) \/ LookupNew(p) \/ RecordFails(p)
    BY <1>5
  <2>2. UNCHANGED records \/ \E r \in records[p] : records' = [records EXCEPT ![p] = records[p] \ {r}]
    BY <2>1 DEF LookupUnchanged, LookupNew, RecordFails
  <2>3. \A r \in records[p] : IsFiniteSet(records[p] \ {r})
    BY FS_RemoveElement DEF FiniteRecords
  <2> QED BY <1>1, <1>2, <2>2, <2>3
<1>6. ASSUME NEW p \in Process, Step(p) \/ Failure(p),
             ~ (Fetch(p) \/ LookupUnchanged(p) \/ LookupNew(p) \/ RecordFails(p)), ~ Leave(p)
      PROVE  UNCHANGED records
  BY <1>6 DEF Step, Failure, Start, SelectHot, SelectRotation, ReadCursor, SelectPrimary,
              SelectWrap, Login, InsertSnapshot, InsertConflict,
              InsertEvent, NoTargetsConfigured, FetchUnparseable, AdvanceCursor, SelectFails,
              LoginFails, FetchFails, AdvanceFails, Crash, locals
<1>7. ASSUME UNCHANGED vars \/ \E o \in Object : Environment(o) PROVE UNCHANGED records
  BY <1>7 DEF vars, locals, Environment, CatalogObject, Hit, Publish
<1> QED BY <1>1, <1>3, <1>4, <1>5, <1>6, <1>7 DEF Next

(* Where a step of p itself takes it. *)
LEMMA OwnStepIsShorter ==
    ASSUME TypeOK, SelectionInv, FiniteRecords, SomethingToWrite,
           NEW p \in Process, pc[p] # "idle", Step(p) \/ Failure(p)
    PROVE  StepsLeft(p)' < StepsLeft(p)
<1> DEFINE k == Cardinality(records[p])
<1>1. /\ k \in Nat /\ kGpBatchSize \in Nat /\ PerRecord = 6
      /\ Cardinality(work[p].events) \in 0..4
  <2>1. k \in Nat
    BY FS_CardinalityType DEF FiniteRecords
  <2>2. work[p].events \in SUBSET GpEventType
    BY DEF TypeOK, WorkType
  <2>3. Cardinality(work[p].events) \in Nat /\ Cardinality(work[p].events) <= 4
    BY <2>2, FourTypes, FS_Subset, FS_CardinalityType
  <2> QED BY <2>1, <2>3, FourTypes, BatchAssumption DEF PerRecord
<1> HIDE DEF k
<1>2. StepsLeft(p) =
          CASE pc[p] = "idle"     -> 0
            [] pc[p] = "hot"      -> 6 * kGpBatchSize + 7
            [] pc[p] = "cursor"   -> 6 * kGpBatchSize + 6
            [] pc[p] = "primary"  -> 6 * kGpBatchSize + 5
            [] pc[p] = "wrap"     -> 6 * kGpBatchSize + 4
            [] pc[p] = "login"    -> 6 * kGpBatchSize + 3
            [] pc[p] = "request"  -> 6 * kGpBatchSize + 2
            [] pc[p] = "record"   -> 6 * k + 1
            [] pc[p] = "insert"   -> 6 * k + 6
            [] pc[p] = "event"    -> 6 * k + 1 + Cardinality(work[p].events)
  BY <1>1 DEF StepsLeft, k
<1>3. StepsLeft(p)' =
          CASE pc'[p] = "idle"     -> 0
            [] pc'[p] = "hot"      -> 6 * kGpBatchSize + 7
            [] pc'[p] = "cursor"   -> 6 * kGpBatchSize + 6
            [] pc'[p] = "primary"  -> 6 * kGpBatchSize + 5
            [] pc'[p] = "wrap"     -> 6 * kGpBatchSize + 4
            [] pc'[p] = "login"    -> 6 * kGpBatchSize + 3
            [] pc'[p] = "request"  -> 6 * kGpBatchSize + 2
            [] pc'[p] = "record"   -> 6 * Cardinality(records'[p]) + 1
            [] pc'[p] = "insert"   -> 6 * Cardinality(records'[p]) + 6
            [] pc'[p] = "event"    -> 6 * Cardinality(records'[p]) + 1 + Cardinality(work'[p].events)
  BY <1>1 DEF StepsLeft
<1>4. pc[p] \in ProcessState /\ p \in DOMAIN pc /\ p \in DOMAIN records /\ p \in DOMAIN work
  BY DEF TypeOK
<1>5. CASE Leave(p)
  <2>1. pc'[p] = "idle"
    BY <1>4, <1>5 DEF Leave
  <2>2. StepsLeft(p) > 0
    BY <1>1, <1>2, <1>4 DEF ProcessState
  <2> QED BY <1>3, <2>1, <2>2
<1>6. CASE SelectHot(p) \/ SelectRotation(p) \/ Login(p)
  <2>1. \/ pc[p] = "hot" /\ pc'[p] = "cursor"
        \/ pc[p] = "cursor" /\ pc'[p] = "primary"
        \/ pc[p] = "primary" /\ pc'[p] \in {"wrap", "login"}
        \/ pc[p] = "wrap" /\ pc'[p] = "login"
        \/ pc[p] = "login" /\ pc'[p] = "request"
    BY <1>4, <1>6 DEF SelectHot, SelectRotation, ReadCursor, SelectPrimary, SelectWrap, Login, Goto
  <2> QED BY <1>1, <1>2, <1>3, <2>1
<1>7. CASE Fetch(p)
  <2>1. /\ pc[p] = "request" /\ pc'[p] = "record" /\ records'[p] = Answer(Targets(p))
    BY <1>4, <1>7 DEF Fetch, Goto
  <2>2. Cardinality(records'[p]) \in Nat /\ Cardinality(records'[p]) <= kGpBatchSize
    BY <2>1, AnswerFitsBatch
  <2> QED BY <1>1, <1>2, <1>3, <2>1, <2>2
<1>8. ASSUME NEW r \in records[p], records' = [records EXCEPT ![p] = records[p] \ {r}]
      PROVE  Cardinality(records'[p]) = k - 1
  BY <1>4, <1>8, FS_RemoveElement DEF FiniteRecords, k
<1>9. CASE LookupUnchanged(p)
  <2>1. pc[p] = "record" /\ pc'[p] = "record" /\ Cardinality(records'[p]) = k - 1
    BY <1>8, <1>9 DEF LookupUnchanged
  <2> QED BY <1>1, <1>2, <1>3, <2>1
<1>10. CASE LookupNew(p)
  <2>1. pc[p] = "record" /\ pc'[p] = "insert"
    BY <1>4, <1>10 DEF LookupNew, Goto
  <2>2. Cardinality(records'[p]) = k - 1
    BY <1>8, <1>10 DEF LookupNew
  <2> QED BY <1>1, <1>2, <1>3, <2>1, <2>2
<1>11. CASE InsertConflict(p)
  <2>1. pc[p] = "insert" /\ pc'[p] = "record" /\ records' = records
    BY <1>4, <1>11 DEF InsertConflict, NextRecord
  <2> QED BY <1>1, <1>2, <1>3, <2>1 DEF k
<1>12. CASE InsertSnapshot(p)
  <2> DEFINE fired == Firings(work[p].prev, work[p].record)
  <2>1. pc[p] = "insert" /\ records' = records
    BY <1>12 DEF InsertSnapshot
  <2>2. CASE fired = {}
    <3>1. pc'[p] = "record"
      BY <1>4, <1>12, <2>2 DEF InsertSnapshot, NextRecord
    <3> QED BY <1>1, <1>2, <1>3, <2>1, <3>1 DEF k
  <2>3. CASE fired # {}
    <3>1. pc'[p] = "event" /\ work'[p].events = fired
      <4>1. /\ pc' = [pc EXCEPT ![p] = "event"]
            /\ work' = [work EXCEPT ![p] = [work[p] EXCEPT !.new_id = snapshot_seq + 1,
                                                          !.events = fired]]
        BY <1>12, <2>3 DEF InsertSnapshot
      <4>2. work[p] \in WorkType
        BY DEF TypeOK
      <4> HIDE DEF fired
      <4>3. pc'[p] = "event" /\ work'[p] = [work[p] EXCEPT !.new_id = snapshot_seq + 1,
                                                          !.events = fired]
        BY <1>4, <4>1
      <4> QED BY <4>2, <4>3 DEF WorkType
    <3>2. fired \in SUBSET GpEventType
      BY FiringsType
    <3> HIDE DEF fired
    <3>3. Cardinality(fired) \in Nat /\ Cardinality(fired) <= 4
      BY <3>2, FourTypes, FS_Subset, FS_CardinalityType
    <3> QED BY <1>1, <1>2, <1>3, <2>1, <3>1, <3>3 DEF k
  <2> QED BY <2>2, <2>3
<1>13. CASE InsertEvent(p)
  <2>1. PICK code \in work[p].events :
            /\ IF work[p].events = {code}
               THEN NextRecord(p)
               ELSE /\ work' = [work EXCEPT ![p] = [work[p] EXCEPT !.events = work[p].events \ {code}]]
                    /\ UNCHANGED pc
    BY <1>13 DEF InsertEvent
  <2>2. pc[p] = "event" /\ records' = records
    BY <1>13 DEF InsertEvent
  <2>3. /\ IsFiniteSet(work[p].events) /\ Cardinality(work[p].events) \in Nat
        /\ work[p] \in WorkType
    <3>1. work[p] \in WorkType
      BY DEF TypeOK
    <3>2. work[p].events \in SUBSET GpEventType
      BY <3>1 DEF WorkType
    <3> QED BY <3>1, <3>2, FourTypes, FS_Subset, FS_CardinalityType
  <2>4. Cardinality(work[p].events) > 0
    BY <2>3, FS_EmptySet
  <2>5. CASE work[p].events = {code}
    <3>1. pc'[p] = "record"
      BY <1>4, <2>1, <2>5 DEF NextRecord
    <3> QED BY <1>1, <1>2, <1>3, <2>2, <2>3, <2>4, <3>1 DEF k
  <2>6. CASE work[p].events # {code}
    <3>1. pc'[p] = "event" /\ work'[p] = [work[p] EXCEPT !.events = work[p].events \ {code}]
      BY <1>4, <2>1, <2>2, <2>6
    <3>2. work'[p].events = work[p].events \ {code}
      BY <2>3, <3>1 DEF WorkType
    <3>3. Cardinality(work'[p].events) = Cardinality(work[p].events) - 1
      <4>1. Cardinality(work[p].events \ {code}) = Cardinality(work[p].events) - 1
        BY <2>1, <2>3, FS_RemoveElement
      <4> QED BY <3>2, <4>1
    <3>4. pc'[p] = "event" /\ Cardinality(records'[p]) = k
      BY <2>2, <3>1 DEF k
    <3>5. StepsLeft(p) = 6 * k + 1 + Cardinality(work[p].events)
      BY <1>2, <2>2
    <3>6. StepsLeft(p)' = 6 * k + 1 + Cardinality(work'[p].events)
      BY <1>3, <3>4
    <3> QED BY <1>1, <2>3, <3>3, <3>5, <3>6
  <2> QED BY <2>5, <2>6
<1>14. CASE RecordFails(p)
  <2>1. pc'[p] = "record"
    BY <1>4, <1>14 DEF RecordFails, NextRecord
  <2>2. CASE pc[p] = "record"
    <3>1. Cardinality(records'[p]) = k - 1
      BY <1>8, <1>14, <2>2 DEF RecordFails
    <3> QED BY <1>1, <1>2, <1>3, <2>1, <2>2, <3>1
  <2>3. CASE pc[p] \in {"insert", "event"}
    <3>1. records' = records
      BY <1>14, <2>3 DEF RecordFails
    <3>2. pc[p] = "event" => Cardinality(work[p].events) > 0
      <4>1. work[p].events \in SUBSET GpEventType
        BY DEF TypeOK, WorkType
      <4> QED BY <1>1, <4>1, FourTypes, FS_Subset, FS_EmptySet DEF SomethingToWrite
    <3> QED BY <1>1, <1>2, <1>3, <2>1, <2>3, <3>1, <3>2 DEF k
  <2> QED BY <1>14, <2>2, <2>3 DEF RecordFails
<1>15. Step(p) \/ Failure(p) =>
           \/ Leave(p) \/ SelectHot(p) \/ SelectRotation(p) \/ Login(p) \/ Fetch(p)
           \/ LookupUnchanged(p) \/ LookupNew(p) \/ InsertSnapshot(p) \/ InsertConflict(p)
           \/ InsertEvent(p) \/ RecordFails(p)
  BY DEF Step, Failure, Start, Goto, NoTargetsConfigured, FetchUnparseable, AdvanceCursor,
         SelectFails, LoginFails, FetchFails, AdvanceFails, Crash
<1> QED BY <1>5, <1>6, <1>7, <1>9, <1>10, <1>11, <1>12, <1>13, <1>14, <1>15

(* A step of the surroundings, or of another process, leaves p where it is. *)
LEMMA OthersLeaveIt ==
    ASSUME TypeOK, NEW p \in Process, [Next]_vars, ~ (Step(p) \/ Failure(p))
    PROVE  UNCHANGED <<pc[p], batch[p], records[p], work[p]>>
<1>1. ASSUME UNCHANGED vars \/ \E o \in Object : Environment(o)
      PROVE  UNCHANGED <<pc[p], batch[p], records[p], work[p]>>
  BY <1>1 DEF vars, locals, Environment, CatalogObject, Hit, Publish
<1>2. ASSUME NEW q \in Process, q # p, Step(q) \/ Failure(q)
      PROVE  UNCHANGED <<pc[p], batch[p], records[p], work[p]>>
  <2>1. /\ pc \in [Process -> ProcessState] /\ batch \in [Process -> BatchType]
        /\ records \in [Process -> SUBSET ElementSet] /\ work \in [Process -> WorkType]
    BY DEF TypeOK
  <2>2. CASE Leave(q)
    BY <1>2, <2>1, <2>2 DEF Leave
  <2>3. CASE InsertSnapshot(q) \/ InsertEvent(q) \/ InsertConflict(q) \/ RecordFails(q)
    BY <1>2, <2>1, <2>3 DEF InsertSnapshot, InsertEvent, InsertConflict, RecordFails, NextRecord
  <2>4. CASE Start(q) \/ SelectHot(q) \/ SelectRotation(q) \/ Login(q) \/ Fetch(q)
    BY <1>2, <2>1, <2>4 DEF Start, SelectHot, SelectRotation, ReadCursor, SelectPrimary,
                            SelectWrap, Login, Fetch, Goto, locals
  <2>5. CASE LookupUnchanged(q) \/ LookupNew(q)
    BY <1>2, <2>1, <2>5 DEF LookupUnchanged, LookupNew, Goto
  <2>6. Step(q) \/ Failure(q) =>
            \/ Leave(q) \/ InsertSnapshot(q) \/ InsertEvent(q) \/ InsertConflict(q) \/ RecordFails(q)
            \/ Start(q) \/ SelectHot(q) \/ SelectRotation(q) \/ Login(q) \/ Fetch(q)
            \/ LookupUnchanged(q) \/ LookupNew(q)
    BY DEF Step, Failure, NoTargetsConfigured, FetchUnparseable, AdvanceCursor,
           SelectFails, LoginFails, FetchFails, AdvanceFails, Crash
  <2> QED BY <1>2, <2>2, <2>3, <2>4, <2>5, <2>6
<1> QED BY <1>1, <1>2 DEF Next

(* Every step of a run leaves it fewer steps than it had, and nothing that  *)
(* happens beside it gives it more: a run ends within kGpBatchSize times    *)
(* PerRecord steps and seven, however often its calls fail, whatever         *)
(* Space-Track answers and however many runs race it for the same records   *)
(* (process_response of gp_poller.cpp).                                     *)
THEOREM RunsComeToTheirEnd == Spec => RunComesToItsEnd
<1> DEFINE RunInv == TypeOK /\ SelectionInv /\ FiniteRecords /\ SomethingToWrite
<1>1. Init => FiniteRecords /\ SomethingToWrite
  BY FS_EmptySet DEF Init, FiniteRecords, SomethingToWrite
<1>2. TypeOK /\ SelectionInv /\ FiniteRecords /\ [Next]_vars => FiniteRecords'
  BY RecordsStep
<1>3. TypeOK /\ SomethingToWrite /\ [Next]_vars => SomethingToWrite'
  BY SomethingToWriteStep
<1>4. ASSUME RunInv, [Next]_vars, NEW p \in Process, pc[p] # "idle"
      PROVE  \/ StepsLeft(p)' < StepsLeft(p)
             \/ UNCHANGED <<pc[p], batch[p], records[p], work[p]>>
  BY <1>4, OwnStepIsShorter, OthersLeaveIt
<1>5. RunInv /\ [Next]_vars =>
          [\A p \in Process :
              pc[p] # "idle" => \/ StepsLeft(p)' < StepsLeft(p)
                                \/ UNCHANGED <<pc[p], batch[p], records[p], work[p]>>]_vars
  BY <1>4
<1> QED BY <1>1, <1>2, <1>3, <1>5, TypeCorrect, SelectionInvariant, PTL DEF Spec, RunComesToItsEnd
=============================================================================
