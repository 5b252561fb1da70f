------------------------------- MODULE ReadApi -------------------------------
(***************************************************************************)
(* GET /objects/<id>/snapshot (services/api/routes.cpp) when there is no   *)
(* snapshot, beside the GP pollers.  The handler asks in one statement for *)
(* the latest snapshot and, only if there is none, in a second one whether *)
(* the object exists; it takes no lock, so anything may be committed in    *)
(* between.                                                                *)
(***************************************************************************)
EXTENDS ReadRoutes

CONSTANTS
    Client,             \* readers of the API
    NotAsking           \* the client has no request in the handler

ASSUME ClientAssumption == NotAsking \notin Object

VARIABLES
    asking,             \* the object whose snapshot the first statement did not find
    moments             \* observation: how things were with it during the request

readVars == <<vars, asking, moments>>

-----------------------------------------------------------------------------
(* Mutant of NotFoundError: one error for both cases. *)
SameNotFoundError(o) == "object not found"

(* The 404 the second statement decides on. *)
NotFoundError(o) ==
    IF o \in live THEN "no snapshot data available for this object" ELSE "object not found"

(* How things are with an object at one moment. *)
Situation(o) ==
    IF o \notin live THEN "object not found"
    ELSE IF \A s \in snapshots : s.norad_cat_id # o
         THEN "no snapshot data available for this object"
         ELSE "snapshot"

-----------------------------------------------------------------------------
ReadInit ==
    /\ Init
    /\ asking = [c \in Client |-> NotAsking]
    /\ moments = [c \in Client |-> {}]

(* The first statement finds no row; a row would be the answer at once. *)
FindNoSnapshot(c, o) ==
    /\ asking[c] = NotAsking /\ SnapshotsServed(o) = {}
    /\ asking' = [asking EXCEPT ![c] = o]
    /\ moments' = [moments EXCEPT ![c] = {Situation(o)}]
    /\ UNCHANGED vars

(* The second statement, or its failure, ends the request: 404 or 500. *)
AnswerNotFound(c) ==
    /\ asking[c] # NotAsking
    /\ asking' = [asking EXCEPT ![c] = NotAsking]
    /\ moments' = [moments EXCEPT ![c] = {}]
    /\ UNCHANGED vars

(* A step of the pollers and their surroundings, observed by every request  *)
(* in the handler.                                                          *)
PollersMove ==
    /\ Next
    /\ UNCHANGED asking
    /\ moments' = [c \in Client |->
          IF asking[c] = NotAsking THEN {} ELSE moments[c] \cup {Situation(asking[c])'}]

ReadNext ==
    \/ PollersMove
    \/ \E c \in Client : AnswerNotFound(c) \/ \E o \in Object : FindNoSnapshot(c, o)

ReadSpec == ReadInit /\ [][ReadNext]_readVars

-----------------------------------------------------------------------------
(* Properties. *)

(* The 404 tells the truth: whichever error the second statement decides    *)
(* on, it was the case at some moment of the request, whatever was          *)
(* catalogued, inserted or rolled back between the two statements.          *)
NotFoundWasTrue ==
    \A c \in Client : asking[c] # NotAsking => NotFoundError(asking[c]) \in moments[c]
=============================================================================
