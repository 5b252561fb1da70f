---------------------------- MODULE CatalogHistory ----------------------------
(***************************************************************************)
(* What readers of the database may rely on, whoever writes it: a row of   *)
(* the catalogue, once there, keeps its identity and its hits; an import   *)
(* changes rows and reports the changes in one step, each exactly once.    *)
(***************************************************************************)
EXTENDS RuleEngine

CONSTANTS Object, Entry, NoRow

VARIABLES
    catalog,            \* what is known of each object: an entry, or NoRow
    hits,               \* hits counted for each object
    reported            \* events reported for each object and type

vars == <<catalog, hits, reported>>

Init ==
    /\ catalog = [o \in Object |-> NoRow]
    /\ hits = [o \in Object |-> 0]
    /\ reported = [x \in Object \X ObjectEventType |-> 0]

(* Whether an import that makes `old` into `new` has a change of this type  *)
(* to report.  A first sighting is no change.                               *)
Changed(old, new, code) == old # NoRow /\ old # new /\ code \in EvaluateObject(old, new)

(* The facts fixed on first sighting stay. *)
MayBecome(old) ==
    IF old = NoRow THEN Entry \cup {NoRow} ELSE {e \in Entry : e.site = old.site}

Import ==
    /\ catalog' \in [Object -> Entry \cup {NoRow}]
    /\ \A o \in Object : catalog'[o] \in MayBecome(catalog[o])
    /\ reported' = [x \in DOMAIN reported |->
            reported[x] + IF Changed(catalog[x[1]], catalog'[x[1]], x[2]) THEN 1 ELSE 0]
    /\ UNCHANGED hits

Hit(o) ==
    /\ catalog[o] # NoRow
    /\ hits' = [hits EXCEPT ![o] = @ + 1]
    /\ UNCHANGED <<catalog, reported>>

Next == Import \/ \E o \in Object : Hit(o)

Spec == Init /\ [][Next]_vars
=============================================================================
