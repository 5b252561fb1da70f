----------------------------- MODULE MCCatalogApi -----------------------------
EXTENDS CatalogApi

CONSTANTS c1

MCTwoObjects == {5, 9}
MCClient     == {c1}

Listed  == [object_name |-> "ZARYA", object_type |-> "PAYLOAD", rcs_size |-> "LARGE",
            decay_date |-> Absent, site |-> "TTMTR", object_id |-> "1998-067A"]
Renamed == [Listed EXCEPT !.object_name = "ISS (ZARYA)"]
TooLong == [Listed EXCEPT !.object_name = "A NAME OF MORE THAN 25 CHARACTERS"]

MCEntries  == {Listed, Renamed, TooLong}
MCRejected == {TooLong}
=============================================================================
