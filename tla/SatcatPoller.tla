----------------------------- MODULE SatcatPoller -----------------------------
(***************************************************************************)
(* The SATCAT poller (services/poller/satcat_poller.cpp): once a day it    *)
(* asks Space-Track for the whole active catalogue, diffs every record     *)
(* against the row of `objects` it replaces, and writes rows and events in *)
(* ONE transaction (DbWriter::upsert_objects_from_satcat).  Meanwhile      *)
(* Space-Track amends its catalogue and the API counts hits in the rows.   *)
(*                                                                         *)
(* Runs are a day apart, so there is one process at a time; when it is due *)
(* is the subject of Scheduler.  A row is the record it was made from and  *)
(* a hit count; `site` stands for the three facts fixed on first sighting  *)
(* (country_code, launch_date, site).                                      *)
(***************************************************************************)
EXTENDS RuleEngine, FiniteSets

CONSTANTS
    Object,             \* NORAD catalogue numbers
    Entry,              \* what Space-Track may say of an object
    Rejected,           \* entries with a value the columns of `objects` do not take
    MaxAmendments,      \* bound: changes Space-Track makes to its catalogue
    MaxHits,            \* bound: hits counted per object
    MaxFaults,          \* bound: failed calls and crashes
    NoRow,              \* `objects` has no row for the id
    NotListed           \* Space-Track does not know the id yet

ASSUME EntryAssumption ==
    /\ Entry \subseteq [object_name : STRING, object_type : STRING, rcs_size : STRING,
                        decay_date : STRING, site : STRING, object_id : STRING]
    /\ Rejected \subseteq Entry /\ NotListed \notin Entry

VARIABLES
    \* The database, as committed.
    objects,            \* the row of each object
    audt_events,        \* how many events of each type each object has
    \* The poller's process and its open transaction.
    pc,                 \* what the process does next
    records,            \* objects whose record is still to be processed
    parsed,             \* the answer, one entry per object
    upserted,           \* objects whose row the transaction wrote, and locks
    inserted,           \* events the transaction wrote
    \* Space-Track.
    satcat,             \* the entry of each object
    amendments,         \* changes made so far
    \* Observation only.
    faults              \* failures so far

db       == <<objects, audt_events>>
process  == <<pc, records, parsed, upserted, inserted>>
external == <<satcat, amendments>>
vars     == <<db, process, external, faults>>

-----------------------------------------------------------------------------
(* Rows. *)

(* The columns the ON CONFLICT clause refreshes. *)
Refreshed == {"object_name", "object_type", "rcs_size", "decay_date"}

(* INSERT: every column but object_id comes from the entry. *)
NewRow(e) ==
    [object_name |-> e.object_name, object_type |-> e.object_type, rcs_size |-> e.rcs_size,
     decay_date |-> e.decay_date, site |-> e.site, object_id |-> Absent, hit_count |-> 0]

(* ON CONFLICT (norad_cat_id) DO UPDATE: the rest of the row stays. *)
Refresh(row, e) ==
    [f \in DOMAIN row |-> IF f \in Refreshed THEN e[f] ELSE row[f]]

Upsert(row, e) == IF row = NoRow THEN NewRow(e) ELSE Refresh(row, e)

(* No rule runs on first sighting. *)
Firings(row, e) == IF row = NoRow THEN {} ELSE EvaluateObject(row, e)

(* Mutant of Active: the query names no DECAY. *)
ActiveOrDecayed == {o \in Object : satcat[o] # NotListed}

(* The query: /CURRENT/Y/DECAY/null-val. *)
Active == {o \in Object : satcat[o] # NotListed /\ satcat[o].decay_date = Absent}

-----------------------------------------------------------------------------
NoAnswer == [o \in {} |-> NotListed]

Init ==
    /\ objects = [o \in Object |-> NoRow]
    /\ audt_events = [x \in Object \X ObjectEventType |-> 0]
    /\ pc = "idle"
    /\ records = {} /\ parsed = NoAnswer
    /\ upserted = {} /\ inserted = {}
    /\ satcat = [o \in Object |-> NotListed]
    /\ amendments = 0
    /\ faults = 0

(* Mutant of Leave: the transaction stays open. *)
LeaveOpen ==
    /\ pc' = "idle"
    /\ records' = {} /\ parsed' = NoAnswer
    /\ UNCHANGED <<upserted, inserted>>

(* The process goes; an open transaction is rolled back. *)
Leave ==
    /\ pc' = "idle"
    /\ records' = {} /\ parsed' = NoAnswer
    /\ upserted' = {} /\ inserted' = {}

-----------------------------------------------------------------------------
(* main() stamps the run and calls Poller::run. *)
Start ==
    /\ pc = "idle" /\ pc' = "fetch"
    /\ UNCHANGED <<db, records, parsed, upserted, inserted, external, faults>>

(* The request is answered and parsed. *)
Fetch ==
    /\ pc = "fetch" /\ Active # {}
    /\ pc' = "process"
    /\ parsed' = [o \in Active |-> satcat[o]]
    /\ records' = Active
    /\ UNCHANGED <<db, upserted, inserted, external, faults>>

(* An empty answer opens no transaction. *)
FetchNothing ==
    /\ pc = "fetch" /\ Active = {}
    /\ Leave
    /\ UNCHANGED <<db, external, faults>>

(* Mutant of ProcessRow: a row that fires nothing is left alone. *)
ProcessRowIfChanged(o) ==
    /\ pc = "process" /\ o \in records /\ parsed[o] \notin Rejected
    /\ records' = records \ {o}
    /\ inserted' = inserted \cup {<<o, code>> : code \in Firings(objects[o], parsed[o])}
    /\ upserted' = IF Firings(objects[o], parsed[o]) = {} THEN upserted ELSE upserted \cup {o}
    /\ UNCHANGED <<db, pc, parsed, external, faults>>

(* One record: SELECT its committed row, run the rules on the pair, INSERT   *)
(* what they fired, upsert.  The query names no order of the records.  The  *)
(* statements make one step, since only Hit can come between them and it    *)
(* neither reads nor writes the columns they read.  The upsert locks the    *)
(* row until the transaction ends.                                          *)
ProcessRow(o) ==
    /\ pc = "process" /\ o \in records /\ parsed[o] \notin Rejected
    /\ records' = records \ {o}
    /\ inserted' = inserted \cup {<<o, code>> : code \in Firings(objects[o], parsed[o])}
    /\ upserted' = upserted \cup {o}
    /\ UNCHANGED <<db, pc, parsed, external, faults>>

(* Mutant of RejectRow: the events had transactions of their own. *)
RejectRowKeepEvents(o) ==
    /\ pc = "process" /\ o \in records /\ parsed[o] \in Rejected
    /\ audt_events' = [x \in DOMAIN audt_events |->
                          audt_events[x] + IF x \in inserted THEN 1 ELSE 0]
    /\ Leave
    /\ UNCHANGED <<objects, external, faults>>

(* The upsert throws (say, a name longer than VARCHAR(25)): nothing of the  *)
(* batch is committed.                                                      *)
RejectRow(o) ==
    /\ pc = "process" /\ o \in records /\ parsed[o] \in Rejected
    /\ Leave
    /\ UNCHANGED <<db, external, faults>>

Commit ==
    /\ pc = "process" /\ records = {}
    /\ objects' = [o \in Object |->
                      IF o \in upserted THEN Upsert(objects[o], parsed[o]) ELSE objects[o]]
    /\ audt_events' = [x \in DOMAIN audt_events |->
                          audt_events[x] + IF x \in inserted THEN 1 ELSE 0]
    /\ Leave
    /\ UNCHANGED <<external, faults>>

(* The login, the request, parsing or a statement fails, or the process     *)
(* dies: run() or process_response reports it, and the transaction is gone. *)
Fail ==
    /\ pc # "idle" /\ faults < MaxFaults
    /\ faults' = faults + 1
    /\ Leave
    /\ UNCHANGED <<db, external>>

-----------------------------------------------------------------------------
(* GET /objects/<id>: UPDATE ... SET hit_count = hit_count + 1, which waits *)
(* for the lock of an upsert.                                               *)
Hit(o) ==
    /\ objects[o] # NoRow /\ o \notin upserted
    /\ objects[o].hit_count < MaxHits
    /\ objects' = [objects EXCEPT ![o].hit_count = @ + 1]
    /\ UNCHANGED <<audt_events, process, external, faults>>

(* Space-Track lists o, or changes what it says of it. *)
Amend(o) ==
    /\ amendments < MaxAmendments
    /\ amendments' = amendments + 1
    /\ \E e \in Entry \ {satcat[o]} : satcat' = [satcat EXCEPT ![o] = e]
    /\ UNCHANGED <<db, process, faults>>

-----------------------------------------------------------------------------
Step == \/ Start \/ Fetch \/ FetchNothing \/ Commit
        \/ \E o \in Object : ProcessRow(o) \/ RejectRow(o)

Environment == \E o \in Object : Hit(o) \/ Amend(o)

Next == Step \/ Fail \/ Environment

Spec == Init /\ [][Next]_vars

(* Cron keeps starting runs, and a started run goes on: every call returns  *)
(* or throws.                                                               *)
FairSpec == Spec /\ WF_vars(Step)
=============================================================================
