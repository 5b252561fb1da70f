---------------------------- MODULE MCSatcatPoller ----------------------------
EXTENDS SatcatPollerProperties

MCTwoObjects == {5, 9}

(* One object's entry over time. *)
Listed   == [object_name |-> "ZARYA", object_type |-> "PAYLOAD", rcs_size |-> "LARGE",
             decay_date |-> Absent, site |-> "TTMTR", object_id |-> "1998-067A"]
BrokenUp == [Listed EXCEPT !.object_name = "ZARYA DEB", !.object_type = "DEBRIS", !.site = "AFETR"]
Unnamed  == [Listed EXCEPT !.object_name = Absent, !.rcs_size = "SMALL"]
Decayed  == [Listed EXCEPT !.decay_date = "2026-07-01"]
TooLong  == [Listed EXCEPT !.object_name = "A NAME OF MORE THAN 25 CHARACTERS"]

MCEntries  == {Listed, BrokenUp, Unnamed, Decayed, TooLong}
MCRejected == {TooLong}

MCActiveEntries == {Listed, BrokenUp}
MCDecayEntries  == {Listed, Decayed}
MCNoneRejected  == {}
=============================================================================
