------------------------------ MODULE ReadRoutes ------------------------------
(***************************************************************************)
(* What GET /objects/<id>/snapshot and GET /objects/<id>/events (services/ *)
(* api/routes.cpp) answer from.  Each is one SELECT and takes no lock, so  *)
(* a reader sees the tables as they are between any two transactions of    *)
(* any run: an answer is a function of the state.                          *)
(***************************************************************************)
EXTENDS GpPollerProperties

(* Mutant of SnapshotsServed: the row inserted last. *)
SnapshotsServedById(o) ==
    {s \in snapshots : /\ s.norad_cat_id = o
                       /\ \A t \in snapshots : t.norad_cat_id = o => t.id <= s.id}

(* The snapshot route's first statement, ORDER BY epoch DESC LIMIT 1: the   *)
(* order get_last_snapshot uses, and as free among equal epochs.            *)
SnapshotsServed(o) ==
    {s \in snapshots : /\ s.norad_cat_id = o
                       /\ \A t \in snapshots : t.norad_cat_id = o => t.epoch <= s.epoch}

(* What the events route lists. *)
EventsServed(o) == {e \in audt_events : e.norad_cat_id = o}

(* The epochs a reader may be told of an object: by the snapshot route, and  *)
(* by the events route, whose events tell of the snapshot they are about.    *)
EpochsTold(o) ==
    {s.epoch : s \in SnapshotsServed(o) \cup
                    {t \in snapshots : \E e \in EventsServed(o) : e.new_snapshot_id = t.id}}

-----------------------------------------------------------------------------
(* Property. *)

(* A reader never goes back in time: once a client may have been told of a  *)
(* snapshot, by the snapshot route or by an event about it, the snapshot    *)
(* route has an answer, and none it may give is of an earlier epoch --      *)
(* though an overlapping run may store an older element set last.  (That an *)
(* event is never shown before its snapshot is the foreign key's doing:     *)
(* insert_event needs the id insert_snapshot returned.)                     *)
ReadsNeverGoBack ==
    [][\A o \in Object : \A told \in EpochsTold(o) :
          /\ SnapshotsServed(o)' # {}
          /\ \A s \in SnapshotsServed(o)' : s.epoch >= told]_vars
=============================================================================
