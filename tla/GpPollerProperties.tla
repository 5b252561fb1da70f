-------------------------- MODULE GpPollerProperties --------------------------
(***************************************************************************)
(* What the GP poller promises, stated over the states of GpPoller.        *)
(***************************************************************************)
EXTENDS GpPoller

ProcessState == {"idle", "hot", "cursor", "primary", "wrap", "login", "request",
                 "record", "insert", "event"}

AnyElementSet == [norad_cat_id : Object, gp_id : GpId, epoch : Int, orbit : Orbit \cup Garbled]

BatchType == [hot : SUBSET Object, primary : SUBSET Object, wrap : SUBSET Object,
              cursor : Object \cup {NoCursor}, candidates : SUBSET Object,
              catalogue : SUBSET Object]

WorkType == [record : ElementSet \cup {NoElements}, prev : SnapshotRow \cup {NoSnapshot},
             new_id : Nat, events : SUBSET GpEventType]

ReplyType == [heard : SUBSET Object, answer : SUBSET ElementSet]

(* Every variable stays within its type: the rows of the tables, the locals *)
(* of the processes and the element sets Space-Track holds.                 *)
TypeOK ==
    /\ live \subseteq Object
    /\ hit_count \in [Object -> Nat]
    /\ rotation_cursor \in Object \cup {NoCursor}
    /\ snapshots \subseteq SnapshotRow /\ snapshot_seq \in Nat
    /\ audt_events \subseteq EventRow /\ event_seq \in Nat
    /\ published \in [Object -> AnyElementSet \cup {NoElements}]
    /\ \A o \in Object : published[o] # NoElements => published[o].norad_cat_id = o
    /\ pc \in [Process -> ProcessState]
    /\ batch \in [Process -> BatchType]
    /\ records \in [Process -> SUBSET ElementSet]
    /\ work \in [Process -> WorkType]
    /\ reply \in [Process -> ReplyType]
    /\ faults \in Nat

-----------------------------------------------------------------------------
(* The event log. *)

(* No row of the object that was stored before s is of a later epoch. *)
NotOvertaken(s) ==
    \A m \in snapshots : m.norad_cat_id = s.norad_cat_id /\ m.id < s.id => m.epoch <= s.epoch

(* Every event of the log points at two stored snapshots of the object it   *)
(* names, the earlier row first, and is one the rules really fire on that   *)
(* pair.  The earlier row had not been overtaken when it was stored: what a *)
(* straggling run stores after a newer element set never becomes what later *)
(* changes are measured from.  All this whatever runs overlap, fail or      *)
(* crash between get_last_snapshot, insert_snapshot and insert_event, and   *)
(* also if epochs tie.                                                      *)
EventsJustified ==
    \A e \in audt_events : \E s, t \in snapshots :
        /\ s.id = e.prev_snapshot_id /\ t.id = e.new_snapshot_id /\ s.id < t.id
        /\ s.norad_cat_id = e.norad_cat_id /\ t.norad_cat_id = e.norad_cat_id
        /\ e.event_type_code \in EvaluateGp(s.orbit, t.orbit)
        /\ NotOvertaken(s)

(* No change of an object is reported twice: an element set has at most one *)
(* event of each type, in whichever rows it was stored.  Nothing in the     *)
(* audt_events schema says so; two overlapping runs that both found the     *)
(* element set new would otherwise both store and both report it.           *)
NoDuplicateEvents ==
    \A d, e \in audt_events : \A s, t \in snapshots :
        /\ s.id = d.new_snapshot_id /\ t.id = e.new_snapshot_id /\ s.gp_id = t.gp_id
        /\ d.event_type_code = e.event_type_code
        => d = e

(* Why the first two hold, as an inductive invariant: ids are handed out    *)
(* once, and an element set is stored once; the locals of a record in hand  *)
(* agree with committed rows; and what is still to be reported for a new    *)
(* row is in nobody else's hands and not in the log.                        *)
RowIds ==
    /\ \A s \in snapshots : s.id <= snapshot_seq
    /\ \A s, t \in snapshots : s.id = t.id \/ s.gp_id = t.gp_id => s = t

OncePerRow ==
    \A d, e \in audt_events :
        d.new_snapshot_id = e.new_snapshot_id /\ d.event_type_code = e.event_type_code => d = e

InHand(p) ==
    pc[p] \in {"insert", "event"} =>
        /\ work[p].record \in ElementSet
        /\ work[p].prev # NoSnapshot =>
              /\ work[p].prev \in snapshots
              /\ work[p].prev.norad_cat_id = work[p].record.norad_cat_id
              /\ NotOvertaken(work[p].prev)

BeingReported(p) ==
    pc[p] = "event" =>
        /\ work[p].prev # NoSnapshot /\ work[p].prev.id < work[p].new_id
        /\ SnapshotOf(work[p].record, work[p].new_id) \in snapshots
        /\ work[p].events \subseteq EvaluateGp(work[p].prev.orbit, work[p].record.orbit)
        /\ \A e \in audt_events :
              e.new_snapshot_id = work[p].new_id => e.event_type_code \notin work[p].events

OneReporter ==
    \A p, q \in Process :
        pc[p] = "event" /\ pc[q] = "event" /\ work[p].new_id = work[q].new_id => p = q

IngestInv ==
    /\ TypeOK /\ RowIds /\ OneReporter
    /\ \A p \in Process : InHand(p) /\ BeingReported(p)
    /\ EventsJustified /\ OncePerRow

(* Rows of the same object next to each other in the order they were stored. *)
Successive(s, t) ==
    /\ s.norad_cat_id = t.norad_cat_id /\ s.id < t.id
    /\ ~ \E m \in snapshots : m.norad_cat_id = s.norad_cat_id /\ s.id < m.id /\ m.id < t.id

(* rule.hpp: a rule "compares two consecutive GP snapshots of the same      *)
(* object (prev.epoch < curr.epoch)", and README.md: rules run "against the *)
(* immediately preceding snapshot for that object".  So every event of the  *)
(* log is about two rows of which the one follows the other.                *)
EventsOfSuccessiveRows ==
    \A e \in audt_events : \A s, t \in snapshots :
        s.id = e.prev_snapshot_id /\ t.id = e.new_snapshot_id
        => Successive(s, t) /\ s.epoch < t.epoch

Logged(s, t) == {e.event_type_code : e \in {d \in audt_events :
                    d.prev_snapshot_id = s.id /\ d.new_snapshot_id = t.id}}

(* Events process p has still to write for the snapshot under id. *)
Pending(id) == UNION {work[p].events : p \in {q \in Process : pc[q] = "event" /\ work[q].new_id = id}}

(* Snapshots whose change since the one before is not fully reported. *)
Unreported ==
    {t \in snapshots : \E s \in snapshots :
        Successive(s, t) /\ ~ EvaluateGp(s.orbit, t.orbit) \subseteq Logged(s, t) \cup Pending(t.id)}

(* As long as runs do not overlap, the log reports every change between     *)
(* successive snapshots of an object, except that a failure may cost the    *)
(* events of one snapshot each: a lost login, request or record never costs *)
(* more, and a run without failures costs nothing.                          *)
ReportLossBounded == Cardinality(Unreported) <= faults

-----------------------------------------------------------------------------
(* From the answer to the table. *)

(* Records of p's answer that the loop is done with. *)
Processed(p) == reply[p].answer \ (records[p] \cup (IF pc[p] = "insert" THEN {work[p].record} ELSE {}))

(* The dedup never drops news: once the loop is done with a record, its     *)
(* element set is in `snapshots`, whether this run stored it, found it, or  *)
(* lost a race for it -- unless a call failed.                              *)
AnsweredIsStored ==
    \A p \in Process : Cardinality({r \in Processed(p) : ~ Stored(r.gp_id)}) <= faults

(* The dedup is enough: without overlapping runs, and as long as a new      *)
(* element set is of a later epoch than the one it replaces, a record that  *)
(* get_last_snapshot did not match is in no row at all, so the UNIQUE       *)
(* constraint is never what stops an insert.                                *)
DedupSufficient ==
    \A p \in Process : pc[p] = "insert" => ~ Stored(work[p].record.gp_id)

-----------------------------------------------------------------------------
(* The rotation. *)

(* A request never takes more slots than kGpBatchSize, its hot ids never    *)
(* more than kGpMaxHotSlots, and a hot id takes no rotation slot.  The wrap *)
(* SELECT may name an id of the primary one again; but such a repeat costs  *)
(* nobody a slot: it happens only in a request that asks for every object   *)
(* the primary SELECT found, whatever is committed between the two.         *)
RequestBounded ==
    \A p \in Process : pc[p] = "request" =>
        /\ Cardinality(batch[p].hot) <= kGpMaxHotSlots
        /\ Cardinality(batch[p].hot) + Cardinality(batch[p].primary) + Cardinality(batch[p].wrap)
              <= kGpBatchSize
        /\ batch[p].hot \cap (batch[p].primary \cup batch[p].wrap) = {}
        /\ batch[p].primary \cap batch[p].wrap # {} => batch[p].candidates \subseteq Targets(p)

(* The request leaves no slot empty while an object is not asked for that   *)
(* was there at the last SELECT.                                            *)
NoSlotWasted ==
    \A p \in Process : pc[p] = "request" =>
        \/ batch[p].catalogue \subseteq Targets(p)
        \/ Cardinality(batch[p].hot) + Cardinality(batch[p].primary) + Cardinality(batch[p].wrap)
              = kGpBatchSize

(* The hot slice keeps two promises in the one SELECT that fills it.  The   *)
(* rows migration 007 marks are in it "regardless of hit_count", as long as *)
(* the slice has room for them; and the room they leave goes to the objects *)
(* that GET /objects/popular lists first, so what visitors look at is       *)
(* refreshed in the next request -- however hits, imports and runs overlap. *)
HotSliceAsPromised ==
    [][\A p \in Process : pc[p] = "hot" /\ pc'[p] = "cursor" =>
          LET marked == Featured \cap live
              room   == kGpMaxHotSlots - Cardinality(marked)
          IN  /\ room >= 0 => marked \subseteq batch'[p].hot
              /\ \A o \in PopularObjects(live, hit_count, room) :
                    hit_count[o] > 0 => o \in batch'[p].hot]_vars

(* The cursor skips nobody: when process p moves it, every object that was  *)
(* in the catalogue at the primary SELECT and lies on the way from the      *)
(* cursor it read to the one it writes was named in a request that got its  *)
(* answer -- in a hot slot or in a rotation slot, over the end of the       *)
(* catalogue too.                                                           *)
CursorSkipsNobody ==
    [][\A p \in Process :
          pc[p] = "record" /\ pc'[p] = "idle" /\ rotation_cursor' # rotation_cursor
          => Arc(batch[p].candidates, batch[p].cursor, rotation_cursor', batch[p].wrap # {})
                \subseteq reply[p].heard]_vars

(* Why the sweep comes to everybody: a run that ends without a failure has  *)
(* heard of an object the primary SELECT could choose, or brings the sweep  *)
(* closer to it -- of the rows the last SELECT of the batch saw, the cursor *)
(* the run writes has strictly fewer before that object than the cursor it  *)
(* read.  So whatever is committed between the statements, though the batch *)
(* shares its slots with a hot slice that changes, wraps over the end of    *)
(* the catalogue, and may reach past its own start.                         *)
SweepComesCloser ==
    [][\A p \in Process :
          pc[p] = "record" /\ pc'[p] = "idle" /\ faults' = faults
          => \A o \in batch[p].candidates \ reply[p].heard :
                LET before == Ahead(batch[p].catalogue, batch[p].cursor, o)
                    after  == Ahead(batch[p].catalogue, rotation_cursor', o)
                IN  after \subseteq before /\ after # before]_vars

(* Every object of the catalogue is asked for again and again. *)
EveryObjectPolled ==
    \A o \in Object : []<>(o \in live => \E p \in Process : o \in reply[p].heard)

(* gp_poller.cpp: "an isolated bad record" is "not a reason to keep         *)
(* re-requesting the same batch forever".  So whatever Space-Track answers, *)
(* the sweep comes to every object of the catalogue again and again.        *)
BatchNotStuck ==
    \A o \in Object : []<>(o \in live => \E p \in Process : pc[p] = "request" /\ o \in Targets(p))

-----------------------------------------------------------------------------
(* The length of a run. *)

(* Steps process p has left at most: six until its request is answered,     *)
(* then for each record a lookup, an insert and an event of each type, and  *)
(* in the end the cursor.                                                   *)
PerRecord == 2 + Cardinality(GpEventType)

StepsLeft(p) ==
    LET answered == PerRecord * Cardinality(records[p]) + 1
        asked    == PerRecord * kGpBatchSize + 2
    IN  CASE pc[p] = "idle"     -> 0
          [] pc[p] = "hot"      -> asked + 5
          [] pc[p] = "cursor"   -> asked + 4
          [] pc[p] = "primary"  -> asked + 3
          [] pc[p] = "wrap"     -> asked + 2
          [] pc[p] = "login"    -> asked + 1
          [] pc[p] = "request"  -> asked
          [] pc[p] = "record"   -> answered
          [] pc[p] = "insert"   -> answered + PerRecord - 1
          [] pc[p] = "event"    -> answered + Cardinality(work[p].events)

(* A run comes to its end: each step of it leaves it fewer steps than        *)
(* before, counted from what a full batch can cost, and no step of another   *)
(* run, of the API or of Space-Track makes it longer.  So neither a record   *)
(* that cannot be stored nor a lost race is tried again within the run.      *)
RunComesToItsEnd ==
    [][\A p \in Process :
          pc[p] # "idle" => \/ StepsLeft(p)' < StepsLeft(p)
                            \/ UNCHANGED <<pc[p], batch[p], records[p], work[p]>>]_vars
=============================================================================
