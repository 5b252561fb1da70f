------------------------------ MODULE MCGpPoller ------------------------------
(* Small instances of the GP poller for TLC. *)
EXTENDS GpPollerRefinement, ReadRoutes, TLC

CONSTANTS p1, p2, garbled

MCOneProcess   == {p1}
MCTwoProcesses == {p1, p2}

(* The two processes are alike. *)
MCSymmetry == Permutations({p1, p2})

MCOneObject    == {5}
MCTwoObjects   == {5, 9}
MCThreeObjects == {3, 5, 7}
MCFourObjects  == {3, 5, 7, 9}

(* A quiet orbit, and one a burn away: the two differ by enough for two rules. *)
MCQuiet == [inclination |-> 516000, semimajor_axis |-> 68000, ra_of_asc_node |-> 1200000,
            eccentricity |-> 10, bstar |-> 1000]
MCMoved == [MCQuiet EXCEPT !.inclination = @ + 200, !.eccentricity = @ + 20]

MCOrbits == {MCQuiet, MCMoved}

MCQuietOrbit == {MCQuiet}
MCGarbled == {garbled}
MCNone == {}
MCNewer == {1}
MCNewerOrEqual == {0, 1}
MCFeaturedFirst == {5}
=============================================================================
