------------------------- MODULE MCCreatorLiveShot -------------------------
(***************************************************************************)
(* Two plans of one project that admits two tasks, one after the other.    *)
(***************************************************************************)
EXTENDS CreatorLiveShot, TLC
CONSTANTS p1, p2, k1

MCPlans  == {p1, p2}
MCKeys   == {k1}
Symmetry == Permutations(MCPlans)
=============================================================================
