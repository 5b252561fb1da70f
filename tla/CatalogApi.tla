------------------------------ MODULE CatalogApi ------------------------------
(***************************************************************************)
(* GET /objects/catalog beside the SATCAT poller.  The handler             *)
(* (services/api/routes.cpp) labels the catalogue with the stamp of the    *)
(* latest SATCAT run, not with anything of the rows: the poller stamps its *)
(* run before the request (services/poller/main.cpp) and commits the rows  *)
(* at its end, and the handler reads stamp and rows in two statements, so  *)
(* a commit may fall between them.  Clients keep the answer and revalidate *)
(* it with If-None-Match or If-Modified-Since.                             *)
(*                                                                         *)
(* Time is counted in the unit that separates two stamps.  The hit_count   *)
(* of a row, which the answer also carries, is left out of the comparison  *)
(* of contents (MaxHits is best 0 here).                                   *)
(***************************************************************************)
EXTENDS SatcatPoller

CONSTANTS
    Client,             \* clients of the API, or caches in front of it
    MaxTime,            \* bound: the clock
    Never,              \* poller_state has no row for 'satcat'
    NoCopy              \* the client has nothing to revalidate

ASSUME StampAssumption == Never \notin Int

VARIABLES
    now,                \* the clock of the database
    last_run,           \* poller_state.last_run_at of 'satcat'
    asking,             \* the request each client has in the handler
    copy                \* what each client keeps of its last 200

api     == <<asking, copy>>
apiVars == <<vars, now, last_run, api>>

-----------------------------------------------------------------------------
(* The columns of kCatalogColumns. *)
Columns == {"object_name", "object_id", "object_type", "decay_date", "site"}

Content == [o \in {q \in Object : objects[q] # NoRow} |-> [f \in Columns |-> objects[o][f]]]

(* COALESCE(last_run_at, now()) *)
GeneratedAt == IF last_run = Never THEN now ELSE last_run

ObjectCount == Cardinality(DOMAIN Content)

(* Mutant of ETag: the row count alone. *)
ETagOfCount == <<0, ObjectCount>>

(* ETag and Last-Modified of an answer. *)
ETag         == <<GeneratedAt, ObjectCount>>
LastModified == GeneratedAt

(* The conditional header a client sends, if any, and when it saves the rows. *)
Header == {"none", "If-None-Match", "If-Modified-Since"}

NotModified(c, header) ==
    /\ copy[c] # NoCopy
    /\ \/ header = "If-None-Match" /\ copy[c].etag = ETag
       \/ header = "If-Modified-Since" /\ LastModified <= copy[c].last_modified

NotAsking == [etag |-> <<0, 0>>, last_modified |-> 0, active |-> FALSE]

-----------------------------------------------------------------------------
ApiInit ==
    /\ Init
    /\ now = 0 /\ last_run = Never
    /\ asking = [c \in Client |-> NotAsking]
    /\ copy = [c \in Client |-> NoCopy]

Tick ==
    /\ now < MaxTime
    /\ now' = now + 1
    /\ UNCHANGED <<vars, last_run, api>>

(* Mutant of StampAndStart: stamps when the poller is due next. *)
StampNextAndStart ==
    /\ last_run # Never => last_run < now
    /\ Start
    /\ last_run' = now + 1
    /\ UNCHANGED <<now, api>>

(* The poller is due, and main() stamps the run. *)
StampAndStart ==
    /\ last_run # Never => last_run < now
    /\ Start
    /\ last_run' = now
    /\ UNCHANGED <<now, api>>

(* The rest of the run. *)
Import ==
    /\ \/ Fetch \/ FetchNothing \/ Commit \/ Fail
       \/ \E o \in Object : ProcessRow(o) \/ RejectRow(o)
    /\ UNCHANGED <<now, last_run, api>>

(* Hits and Space-Track. *)
Surroundings == Environment /\ UNCHANGED <<now, last_run, api>>

-----------------------------------------------------------------------------
(* The handler's first statement: stamp and row count.  A 304 ends the      *)
(* request and the client keeps its copy.                                   *)
AnswerNotModified(c) ==
    /\ ~ asking[c].active
    /\ \E header \in Header : NotModified(c, header)
    /\ UNCHANGED apiVars

ReadMeta(c) ==
    /\ ~ asking[c].active
    /\ \E header \in Header : ~ NotModified(c, header)
    /\ asking' = [asking EXCEPT ![c] =
                     [etag |-> ETag, last_modified |-> LastModified, active |-> TRUE]]
    /\ UNCHANGED <<vars, now, last_run, copy>>

(* The second one: the rows.  `settled` notes whether no run was going on.  *)
ReadRows(c) ==
    /\ asking[c].active
    /\ copy' = [copy EXCEPT ![c] =
                   [etag |-> asking[c].etag, last_modified |-> asking[c].last_modified,
                    content |-> Content, settled |-> pc = "idle"]]
    /\ asking' = [asking EXCEPT ![c] = NotAsking]
    /\ UNCHANGED <<vars, now, last_run>>

(* It throws: a 500, and the client keeps what it has. *)
AnswerError(c) ==
    /\ asking[c].active
    /\ asking' = [asking EXCEPT ![c] = NotAsking]
    /\ UNCHANGED <<vars, now, last_run, copy>>

-----------------------------------------------------------------------------
ApiNext ==
    \/ Tick \/ StampAndStart \/ Import \/ Surroundings
    \/ \E c \in Client :
          AnswerNotModified(c) \/ ReadMeta(c) \/ ReadRows(c) \/ AnswerError(c)

ApiSpec == ApiInit /\ [][ApiNext]_apiVars

-----------------------------------------------------------------------------
(* Properties. *)

(* The handler is given, and the clients keep, well-formed answers. *)
ApiTypeOK ==
    /\ now \in Nat /\ last_run \in Nat \cup {Never} /\ (last_run # Never => last_run <= now)
    /\ \A c \in Client :
        /\ asking[c].active \in BOOLEAN
        /\ asking[c].etag \in Nat \X Nat /\ asking[c].last_modified \in Nat
        /\ copy[c] # NoCopy =>
              /\ copy[c].etag \in Nat \X Nat /\ copy[c].last_modified \in Nat
              /\ copy[c].settled \in BOOLEAN

(* A 304 tells the truth about a copy that was read while no import was     *)
(* going on: it is validated only while the table still holds what it says  *)
(* -- whatever was stamped, committed, lost or rolled back since, and even  *)
(* if a commit fell between the two statements that made it.  By its ETag   *)
(* this is so of every such copy, by If-Modified-Since of those with rows:  *)
(* the copy of an empty catalogue bears the time of the request for a label *)
(* (the COALESCE), which is no older than a first stamp of the same second. *)
SettledCopyIsCurrent ==
    \A c \in Client :
        copy[c] # NoCopy /\ copy[c].settled /\ copy[c].content # Content
        => /\ ~ NotModified(c, "If-None-Match")
           /\ NotModified(c, "If-Modified-Since") => DOMAIN copy[c].content = {}

(* routes.cpp: "Strong validator: changes exactly when generated_at or the  *)
(* row count changes, both of which only happen on a SatcatPoller run".  So *)
(* a copy whose ETag is the present one has the present content.            *)
StrongValidator ==
    \A c \in Client :
        copy[c] # NoCopy /\ NotModified(c, "If-None-Match") => copy[c].content = Content
=============================================================================
