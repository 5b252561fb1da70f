-------------------------- MODULE GpPollerRefinement --------------------------
(***************************************************************************)
(* GpPoller, run by run, implements EventHistory.  A snapshot enters the   *)
(* abstract history when its record is done with: its row is hidden while  *)
(* the run that inserted it is still writing the events.                   *)
(***************************************************************************)
EXTENDS GpPollerProperties

InFlight == {work[p].new_id : p \in {q \in Process : pc[q] = "event"}}

Complete == {s \in snapshots : s.id \notin InFlight}

EntryOf(s) == [norad_cat_id |-> s.norad_cat_id, gp_id |-> s.gp_id, epoch |-> s.epoch, orbit |-> s.orbit]

HistoryOf(o) == {EntryOf(s) : s \in {t \in Complete : t.norad_cat_id = o}}

(* The events whose news the snapshot under id is. *)
Told(id) == {e.event_type_code : e \in {d \in audt_events : d.new_snapshot_id = id}}

LogOf == UNION {{<<s.gp_id, code>> : code \in Told(s.id)} : s \in Complete}

History == INSTANCE EventHistory WITH
    Entry     <- ElementSet,
    MaxLosses <- MaxFaults,
    history   <- [o \in Object |-> HistoryOf(o)],
    log       <- LogOf,
    losses    <- Cardinality(Unreported)

(* Without overlapping runs, what the readers of the database see is an     *)
(* EventHistory: process_response with its three transactions per record,   *)
(* its dedup and its error path takes one accepting step per element set or *)
(* none.                                                                    *)
ImplementsEventHistory == History!Spec
=============================================================================
