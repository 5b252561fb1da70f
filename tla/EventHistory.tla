----------------------------- MODULE EventHistory -----------------------------
(***************************************************************************)
(* What ingestion promises to the readers of the database, without         *)
(* processes, requests or transactions: per object a history of element    *)
(* sets that only grows, by one later than all before, and a log that      *)
(* reports every change between an element set and the one before it in    *)
(* the same step that it appears in -- except for a bounded number of      *)
(* element sets whose report was cut short.  GpPoller implements it when   *)
(* runs do not overlap (GpPollerRefinement).                               *)
(***************************************************************************)
EXTENDS RuleEngine

CONSTANTS Object, Entry, MaxLosses

VARIABLES
    history,    \* per object, the element sets accepted so far
    log,        \* <<gp_id of the element set, event type>>
    losses      \* element sets whose report is incomplete

vars == <<history, log, losses>>

Init ==
    /\ history = [o \in Object |-> {}]
    /\ log = {}
    /\ losses = 0

IsLatest(o, d) == d \in history[o] /\ \A c \in history[o] : c.epoch <= d.epoch

(* What e changes; the first element set of an object changes nothing. *)
Changes(o, e) ==
    UNION {EvaluateGp(d.orbit, e.orbit) : d \in {c \in history[o] : IsLatest(o, c)}}

(* Only news is accepted: a later epoch than anything the object has. *)
Accept(o, e) ==
    /\ e \in Entry /\ e.norad_cat_id = o
    /\ \A d \in history[o] : d.epoch < e.epoch
    /\ history' = [history EXCEPT ![o] = @ \cup {e}]

Report(e, codes) == log' = log \cup {<<e.gp_id, code>> : code \in codes}

Ingest(o, e) ==
    /\ Accept(o, e)
    /\ Report(e, Changes(o, e))
    /\ UNCHANGED losses

(* A report cut short keeps the rules registered first. *)
IngestCutShort(o, e) ==
    /\ losses < MaxLosses /\ losses' = losses + 1
    /\ Accept(o, e)
    /\ \E codes \in SUBSET Changes(o, e) :
        /\ codes # Changes(o, e)
        /\ \A c \in codes, d \in Changes(o, e) \ codes : RegisteredBefore(GpRegistry, c, d)
        /\ Report(e, codes)

(* The element set a step accepts is in the history after it. *)
Next == \E o \in Object : \E e \in history'[o] : Ingest(o, e) \/ IngestCutShort(o, e)

Spec == Init /\ [][Next]_vars
=============================================================================
