------------------------ MODULE MCEpisodeProduction ------------------------
(***************************************************************************)
(* Two productions of one episode with two revisions.                      *)
(***************************************************************************)
EXTENDS EpisodeProduction, TLC

CONSTANTS r1, r2, s1, s2, one, other, both, source, scene

MCOneRevision  == [l \in Plans |-> r1]
MCRevisionOf   == [l \in Plans |-> IF l = other THEN r2 ELSE r1]
MCShotsOf      == [l \in Plans |-> CASE l = one   -> <<s1>>
                                   [] l = other -> <<s2>>
                                   [] l = both  -> <<s1, s2>>]
MCDependencies == {<<source, scene>>, <<scene, s1>>}

----------------------------------------------------------------------------
(***************************************************************************)
(* The part of the instance that a run explores.                           *)
(***************************************************************************)
Unready(r) == status[r] \in {"DRAFT", "G1_APPROVED"}

\* The revisions pass G1 and G2 together, and before the first plan.
GatesFirst ==
    \A r \in Revisions : Unready(r) =>
        /\ \A q \in Revisions : status[q] = status[r]
        /\ \A l \in Plans : plan[l] = "NONE"

\* A G3 decision comes after the first manifest.
Gate3Late == \A d \in decisions : d.gate = "G3" => manifests # {}

\* A workflow past its last review reads no Q1 decision any more: what it still
\* holds changes nothing.
Unread ==
    \A p \in Productions :
        wf[p].step \in {"PREPARE", "AUTHORIZE", "COMMIT_POST", "BUILD", "COMMIT_MANIFEST", "WAIT_G3"}
            => \A d \in inbox[p] : d.gate = "G3"

Upsets ==
    \/ ~Rights
    \/ withdrawn # {}
    \/ \E s \in Shots : freshness[s] = "STALE"

\* Two productions of the plan of two shots, the first with post-production.
\* An upset happens to the only production there is.
TwoShots ==
    /\ plan[one] = "NONE" /\ plan[other] = "NONE"
    /\ status[r2] # "G3_LOCKED"
    /\ Accepted(1) => production[1].post
    /\ ~production[2].post
    /\ Upsets => ~Accepted(2)

\* A production of one shot for each revision, without upsets and
\* post-production, so that one approval may decide both revisions; the second
\* starts when the first has a manifest.  No run is rejected and no workflow
\* ends in an error.
TwoRevisions ==
    /\ plan[both] = "NONE"
    /\ plan[other] # "NONE" => manifests # {}
    /\ production[1].plan # other /\ production[2].plan # one
    /\ \A p \in Productions : ~production[p].post /\ wf[p].result # "ERROR"
    /\ \A d \in decisions : d.gate = "Q1" => d.verdict = "APPROVED"
    /\ ~Upsets

Focus == GatesFirst /\ Gate3Late /\ Unread /\ (TwoShots \/ TwoRevisions)
=============================================================================
