---------------------------- MODULE MCRunLedger ----------------------------
(***************************************************************************)
(* Two runs compete for one approval of 4 micros with estimates of 2 and   *)
(* 3: the second fits only after the first was settled below its estimate  *)
(* or released, and not after the first overran.                           *)
(***************************************************************************)
EXTENDS RunLedger, TLC

CONSTANTS r1, r2

MCEstimate == (r1 :> 2) @@ (r2 :> 3)
=============================================================================
