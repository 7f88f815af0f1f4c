---------------------------- MODULE MCLiveBatch ----------------------------
(***************************************************************************)
(* Three shots: A01, the first shot of the continuation and one that must  *)
(* wait for it, with the one controlled retry.                             *)
(***************************************************************************)
EXTENDS LiveBatch
=============================================================================
