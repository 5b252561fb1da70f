------------------------ MODULE SatcatPollerProperties ------------------------
(***************************************************************************)
(* What the SATCAT poller promises, stated over the states of SatcatPoller. *)
(***************************************************************************)
EXTENDS SatcatPoller

Text(field) == {e[field] : e \in Entry} \cup {Absent}

Row == [object_name : Text("object_name"), object_type : Text("object_type"),
        rcs_size : Text("rcs_size"), decay_date : Text("decay_date"), site : Text("site"),
        object_id : Text("object_id"), hit_count : Nat]

(* The part of a row that the poller writes. *)
Facts == [object_name : Text("object_name"), object_type : Text("object_type"),
          rcs_size : Text("rcs_size"), decay_date : Text("decay_date"), site : Text("site")]

ASSUME RowAssumption == NoRow \notin Row /\ NoRow \notin Facts

(* Every variable stays within its type, and the open transaction holds only *)
(* records of the answer and events of the rows it wrote.                   *)
TypeOK ==
    /\ objects \in [Object -> Row \cup {NoRow}]
    /\ audt_events \in [Object \X ObjectEventType -> Nat]
    /\ pc \in {"idle", "fetch", "process"}
    /\ DOMAIN parsed \subseteq Object /\ \A o \in DOMAIN parsed : parsed[o] \in Entry
    /\ records \subseteq DOMAIN parsed /\ upserted \subseteq DOMAIN parsed \ records
    /\ inserted \subseteq upserted \X ObjectEventType
    /\ satcat \in [Object -> Entry \cup {NotListed}]
    /\ amendments \in Nat /\ faults \in Nat

-----------------------------------------------------------------------------
(* What a row says, without the columns the poller does not refresh. *)
Known(row) ==
    IF row = NoRow THEN NoRow
    ELSE [object_name |-> row.object_name, object_type |-> row.object_type,
          rcs_size |-> row.rcs_size, decay_date |-> row.decay_date, site |-> row.site]

Says(e) == [object_name |-> e.object_name, object_type |-> e.object_type,
            rcs_size |-> e.rcs_size, decay_date |-> e.decay_date, site |-> e.site]

Sites == {e.site : e \in Entry}

History == INSTANCE CatalogHistory WITH
    Entry    <- {[Says(e) EXCEPT !.site = s] : e \in Entry, s \in Sites},
    catalog  <- [o \in Object |-> Known(objects[o])],
    hits     <- [o \in Object |-> IF objects[o] = NoRow THEN 0 ELSE objects[o].hit_count],
    reported <- audt_events

(* The poller implements CatalogHistory: whatever fails between two of its  *)
(* statements and whoever counts a hit meanwhile, readers see an import     *)
(* happen at once or not at all, together with exactly the events of the    *)
(* rows it changed, and neither a hit nor a fact of first sighting is lost. *)
ImplementsCatalogHistory == History!Spec

-----------------------------------------------------------------------------
(* An import that cannot be committed: a row of the active catalogue has a  *)
(* value the columns do not take.                                           *)
Blocked == \E o \in Active : satcat[o] \in Rejected

InSync(o) ==
    /\ objects[o] # NoRow
    /\ \A f \in Refreshed : objects[o][f] = satcat[o][f]

(* The catalogue converges: once Space-Track stops changing what it says,   *)
(* every active object has its row, with the refreshed columns as           *)
(* Space-Track has them -- lost runs and rolled back batches are made up    *)
(* for -- unless a rejected row holds up the whole catalogue.               *)
CatalogConverges == <>[](Blocked \/ \A o \in Active : InSync(o))

(* What convergence rests on.  An answer is current while Space-Track says   *)
(* what it said when it was asked.  Then a run keeps it current, disturbs no *)
(* row that agrees with it, and, if it comes to its commit, leaves every     *)
(* active object in agreement -- one record of the answer lost on the way,   *)
(* or one row written from an older answer, would be enough to break that.   *)
AnswerCurrent == pc = "process" => parsed = [o \in Active |-> satcat[o]]

Commits == pc = "process" /\ records = {} /\ pc' = "idle" /\ faults' = faults

CurrentImportsSettle ==
    [][AnswerCurrent /\ satcat' = satcat
       => /\ AnswerCurrent'
          /\ \A o \in Active : InSync(o) \/ Commits => InSync(o)']_vars

-----------------------------------------------------------------------------
HasDecayed(o) == satcat[o] # NotListed /\ satcat[o].decay_date # Absent

(* The query leaves out whoever has decayed.  So no row ever gets a decay    *)
(* date, whatever Space-Track says and when, and the decay rule never fires: *)
(* `decay_date IS NULL` holds for the whole table for good.                  *)
NoDecayOnRecord ==
    \A o \in Object :
        /\ objects[o] # NoRow => objects[o].decay_date = Absent
        /\ audt_events[<<o, "decay_detected">>] = 0

(* README.md: DecayDetectedRule "fires when decay_date flips from null to   *)
(* non-null"; decay_detected_rule.cpp: the SATCAT poller's row "can" observe *)
(* the transition.  So an object that is in the catalogue when Space-Track  *)
(* gives it a decay date is reported as decayed, unless that is taken back. *)
DecayReported ==
    \A o \in Object :
        objects[o] # NoRow /\ HasDecayed(o) ~> audt_events[<<o, "decay_detected">>] > 0 \/ ~ HasDecayed(o)
=============================================================================
