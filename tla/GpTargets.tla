------------------------------- MODULE GpTargets -------------------------------
(***************************************************************************)
(* Which NORAD ids the next GP request asks for: the three SELECTs of      *)
(* DbWriter that pick them, as pure operators over the rows they read,     *)
(* and the API's query for the most popular objects, which reads the same  *)
(* hit counts.  `live` is the set of ids whose row has a NULL decay_date.  *)
(***************************************************************************)
EXTENDS Integers, FiniteSets

(* The sentinel for "no cursor yet": below every catalogue number. *)
NoCursor == -1

(* ORDER BY norad_cat_id LIMIT n. *)
LowestIds(ids, n) == {o \in ids : Cardinality({q \in ids : q < o}) < n}

(* ORDER BY hit_count DESC, norad_cat_id ASC: q comes before o. *)
MorePopular(q, o, hit_count) ==
    \/ hit_count[q] > hit_count[o]
    \/ hit_count[q] = hit_count[o] /\ q < o

(* GET /objects/popular: the list the API shows to visitors. *)
PopularObjects(ids, hit_count, limit) ==
    {o \in ids : Cardinality({q \in ids : MorePopular(q, o, hit_count)}) < limit}

(* Mutant of Outranks: the hit count goes first. *)
OutranksByHits(q, o, featured, hit_count) ==
    \/ hit_count[q] > hit_count[o]
    \/ hit_count[q] = hit_count[o] /\ q \in featured /\ o \notin featured
    \/ hit_count[q] = hit_count[o] /\ (q \in featured <=> o \in featured) /\ q < o

(* ORDER BY featured DESC, hit_count DESC, norad_cat_id ASC: q comes first. *)
Outranks(q, o, featured, hit_count) ==
    \/ q \in featured /\ o \notin featured
    \/ (q \in featured <=> o \in featured) /\ MorePopular(q, o, hit_count)

(* DbWriter::top_gp_hot_targets. *)
HotTargets(live, featured, hit_count, limit) ==
    LET hot == {o \in live : o \in featured \/ hit_count[o] > 0}
    IN  {o \in hot : Cardinality({q \in hot : Outranks(q, o, featured, hit_count)}) < limit}

(* DbWriter::next_gp_rotation_batch runs two SELECTs, each on the rows that *)
(* are committed when it starts.  The first one goes on from the cursor.    *)
PrimaryTargets(live, cursor, batch_size, exclude) ==
    LowestIds({o \in live \ exclude : o > cursor}, batch_size)

(* Mutants of WrapTargets: a full batch after the wrap; no wrap at all.     *)
WrapTargetsOverfull(live, batch_size, primary, exclude) == LowestIds(live \ exclude, batch_size)

NoWrapTargets(live, batch_size, primary, exclude) == {}

(* The second one fills what the first left empty, from the beginning.  It  *)
(* has no upper bound at the cursor, so it may name ids of the first again. *)
WrapTargets(live, batch_size, primary, exclude) ==
    LowestIds(live \ exclude, batch_size - Cardinality(primary))

(* Mutant of LastRun: the highest id of the batch, not its last one. *)
WholeBatch(batch) == batch.primary \cup batch.wrap

(* The vector of targets is `primary` and then `wrap`, each in ascending    *)
(* order.  So rotation_target_ids_.back() is the highest id of `wrap` when  *)
(* the sweep wrapped, otherwise of `primary`.                               *)
LastRun(batch) == IF batch.wrap # {} THEN batch.wrap ELSE batch.primary

IsLastTarget(o, batch) == o \in LastRun(batch) /\ \A q \in LastRun(batch) : q <= o

(* The ids a sweep from cursor `from` to cursor `to` passes over; it goes   *)
(* over the end of the catalogue when `wrapped`.                            *)
Arc(ids, from, to, wrapped) ==
    IF wrapped THEN {o \in ids : o > from \/ o <= to}
               ELSE {o \in ids : o > from /\ o <= to}

(* The ids a sweep at cursor `from` comes to until it has come to o. *)
Ahead(ids, from, o) == Arc(ids, from, o, o <= from)
=============================================================================
