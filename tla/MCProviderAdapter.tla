------------------------- MODULE MCProviderAdapter -------------------------
(***************************************************************************)
(* Two adapter processes over one directory.  Callers reach both for job   *)
(* shared and one of them only for job sole, with two different inputs; or *)
(* they reach both for the speech job cue, or one for it and for the next  *)
(* cue of its batch.  A third task would let a job be paid for too often.  *)
(***************************************************************************)
EXTENDS ProviderAdapter, TLC

CONSTANTS shared, sole, cue, next, p1, p2

Symmetry == Permutations(Inputs) \cup Permutations(Tasks)

MCBefore == (cue :> {}) @@ (next :> {cue})

MCDeployments == {(p1 :> {shared, sole}) @@ (p2 :> {shared}),
                  (p1 :> {cue})          @@ (p2 :> {cue}),
                  (p1 :> {cue, next})    @@ (p2 :> {})}
=============================================================================
