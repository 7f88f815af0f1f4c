--------------------------- MODULE MCShotWorkflow ---------------------------
(***************************************************************************)
(* One run, two activity attempts at a time: the one Temporal listens to   *)
(* and one it has given up.  The provider bills 1 (within the hold of 2)   *)
(* or 3 (an overrun).  The cfgs choose which commands an operator gives    *)
(* and how many faults happen.                                             *)
(***************************************************************************)
EXTENDS ShotWorkflow, TLC

Symmetry == Permutations(Slots)
=============================================================================
