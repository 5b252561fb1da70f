------------------------------ MODULE RuleEngine ------------------------------
(***************************************************************************)
(* libs/rule_engine: the rules that turn two states of one catalogued      *)
(* object into events.  Everything here is a pure operator: a rule looks   *)
(* at `prev` and `curr` only, and a registry fires every rule that applies.*)
(*                                                                         *)
(* Quantities are integers in units fine enough to express every threshold *)
(* of the code: inclination and ra_of_asc_node in 10^-4 degree,            *)
(* semimajor_axis in 10^-1 km, eccentricity in 10^-4, bstar in 10^-7.      *)
(* The detail_json of an event carries no decision and is left out, so an  *)
(* event is its event_type_code.                                           *)
(***************************************************************************)
EXTENDS Integers

AbsDelta(x, y) == IF x < y THEN y - x ELSE x - y

-----------------------------------------------------------------------------
(* GP rules: `prev` and `curr` are orbits, the part of a Snapshot they read. *)

kInclinationDeltaThreshold   == 100      \* 0.01 degree
kSemimajorAxisDeltaThreshold == 10       \* 1.0 km
kRaanDeltaThreshold          == 100      \* 0.01 degree
kEccentricityDeltaThreshold  == 10       \* 0.001
kBstarNearZeroThreshold      == 10       \* 10^-6
kBstarAbsoluteDeltaThreshold == 1000     \* 10^-4

ManeuverDetected(prev, curr) ==
    \/ AbsDelta(curr.inclination, prev.inclination) > kInclinationDeltaThreshold
    \/ AbsDelta(curr.semimajor_axis, prev.semimajor_axis) > kSemimajorAxisDeltaThreshold

RaanShift(prev, curr) ==
    AbsDelta(curr.ra_of_asc_node, prev.ra_of_asc_node) > kRaanDeltaThreshold

EccentricityChange(prev, curr) ==
    AbsDelta(curr.eccentricity, prev.eccentricity) > kEccentricityDeltaThreshold

(* A relative change above one half, written without the division, unless  *)
(* the earlier value is too close to zero to divide by.                    *)
DragChange(prev, curr) ==
    IF AbsDelta(prev.bstar, 0) < kBstarNearZeroThreshold
    THEN AbsDelta(curr.bstar, prev.bstar) > kBstarAbsoluteDeltaThreshold
    ELSE 2 * AbsDelta(curr.bstar, prev.bstar) > AbsDelta(prev.bstar, 0)

(* make_default_rule_registry, in registration order. *)
GpRegistry == <<"maneuver_detected", "raan_shift", "eccentricity_change", "drag_change">>

GpEventType == {GpRegistry[i] : i \in 1..4}

(* RuleRegistryBase::evaluate_all: every firing, not only the first. *)
EvaluateGp(prev, curr) ==
    {code \in GpEventType :
        \/ code = "maneuver_detected"   /\ ManeuverDetected(prev, curr)
        \/ code = "raan_shift"          /\ RaanShift(prev, curr)
        \/ code = "eccentricity_change" /\ EccentricityChange(prev, curr)
        \/ code = "drag_change"         /\ DragChange(prev, curr)}

(* Firings come out in registration order: `a` is written before `b`. *)
RegisteredBefore(registry, a, b) ==
    \E i, j \in DOMAIN registry : i < j /\ registry[i] = a /\ registry[j] = b

-----------------------------------------------------------------------------
(* SATCAT rules: `prev` and `curr` are ObjectState records.  Absent is the  *)
(* empty string the parser maps a missing or null text field to, and the    *)
(* nullopt of an absent decay_date.                                         *)

Absent == ""

DecayDetected(prev, curr) ==
    prev.decay_date = Absent /\ curr.decay_date # Absent

(* The shape the three text rules share: a change between known values. *)
KnownChange(old, new) == old # Absent /\ new # Absent /\ old # new

ObjectRenamed(prev, curr)     == KnownChange(prev.object_name, curr.object_name)
ObjectTypeChanged(prev, curr) == KnownChange(prev.object_type, curr.object_type)
RcsSizeChanged(prev, curr)    == KnownChange(prev.rcs_size, curr.rcs_size)

(* make_default_object_rule_registry, in registration order. *)
ObjectRegistry == <<"decay_detected", "object_renamed", "object_type_changed", "rcs_size_changed">>

ObjectEventType == {ObjectRegistry[i] : i \in 1..4}

EvaluateObject(prev, curr) ==
    {code \in ObjectEventType :
        \/ code = "decay_detected"      /\ DecayDetected(prev, curr)
        \/ code = "object_renamed"      /\ ObjectRenamed(prev, curr)
        \/ code = "object_type_changed" /\ ObjectTypeChanged(prev, curr)
        \/ code = "rcs_size_changed"    /\ RcsSizeChanged(prev, curr)}
=============================================================================
