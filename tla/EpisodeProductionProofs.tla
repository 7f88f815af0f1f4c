---------------------- MODULE EpisodeProductionProofs ----------------------
(***************************************************************************)
(* Theorems about the productions of an episode, for every set of plans,   *)
(* shots, revisions and productions, and every bound on the decisions.     *)
(*                                                                         *)
(* The inductive invariant says what each workflow may claim: the runs it  *)
(* collected are approved, one for each shot it has passed; the manifest   *)
(* it is about to commit holds exactly those; and the manifests, the       *)
(* locked ones and the publication locks say what the decisions say.       *)
(***************************************************************************)
EXTENDS EpisodeProduction, FiniteSetTheorems, TLAPS

\* The states of a workflow and of its inbox.
Steps == Activities \cup {"IDLE", "WAIT_Q1", "WAIT_G3", "CLOSED"}

WorkflowStates ==
    [step : Steps, shot : Nat, attempt : 1..2, runs : SUBSET RunIds,
     built : Manifests \cup {NoManifest}, result : Results]

WorkTyped ==
    /\ wf \in [Productions -> WorkflowStates]
    /\ inbox \in [Productions -> SUBSET decisions]

\* The decisions of the episode can be counted.
Counted == IsFiniteSet(decisions) /\ Cardinality(decisions) <= MaxDecisions

\* Productions are accepted in their order.
AcceptedInOrder ==
    \A p, q \in Productions : q <= p /\ Accepted(p) => Accepted(q)

\* The runs are approved and are one for each of the first n shots of the plan.
Holds(runs, l, n) ==
    /\ \A k \in runs : ApprovedRun(k) /\ \E i \in 1..n : k.shot = ShotsOf[l][i]
    /\ \A i \in 1..n : \E k \in runs : k.shot = ShotsOf[l][i]
    /\ \A j, k \in runs : j.shot = k.shot => j = k

Finishing == {"PREPARE", "AUTHORIZE", "COMMIT_POST", "BUILD", "COMMIT_MANIFEST", "WAIT_G3"}

\* How many shots the workflow has an approved run of.
Passed(p) == IF wf[p].step \in Finishing THEN Len(ShotsOf[PlanOf(p)]) ELSE wf[p].shot - 1

\* What an open workflow holds.
WorkTrue(p) ==
    Open(p) =>
        /\ Accepted(p)
        /\ wf[p].shot \in 1..Len(ShotsOf[PlanOf(p)])
        /\ Holds(wf[p].runs, PlanOf(p), Passed(p))
        /\ wf[p].step \in {"PREPARE", "AUTHORIZE", "COMMIT_POST"} => production[p].post
        /\ wf[p].step = "COMMIT_MANIFEST" =>
              /\ wf[p].built \in Manifests
              /\ wf[p].built.by = p
              /\ wf[p].built.runs = wf[p].runs

\* A workflow that has not started is at the beginning.
IdleTrue(p) == wf[p].step = "IDLE" => wf[p].shot = 1 /\ wf[p].runs = {}

\* A manifest is that of a production and holds a run of each of its shots.
ManifestTrue(m) ==
    /\ Accepted(m.by)
    /\ Holds(m.runs, PlanOf(m.by), Len(ShotsOf[PlanOf(m.by)]))

\* Only a production that asks for post-production has a delivery.
DeliveryAsked == \A p \in delivered : Accepted(p) /\ production[p].post

\* The approved decisions of Gate 3, and the revision a manifest is for.
Final == {d \in decisions : d.gate = "G3" /\ d.verdict = "APPROVED"}

For(m) == RevisionOf[PlanOf(m.by)]

\* A final decision names manifests of the episode and locks their revision,
\* which has no other final decision.
FinalTrue ==
    /\ \A d \in Final : d.manifests \subseteq manifests
    /\ \A d \in Final : \A m \in d.manifests : status[For(m)] = "G3_LOCKED"
    /\ \A c, d \in Final : \A m \in c.manifests, n \in d.manifests :
           For(m) = For(n) => c = d

\* What is locked, a final decision names; what is published is locked.
LockedByDecision == \A m \in locked : \E d \in Final : m \in d.manifests

PublishedTrue ==
    \A k \in RunIds : publication[k] # NoManifest =>
        publication[k] \in locked /\ k \in publication[k].runs

----------------------------------------------------------------------------
(***************************************************************************)
(* Which operations write which table.                                     *)
(***************************************************************************)
\* What a workflow writes of the tables: never a plan, a gate, a decision or a
\* publication lock; a manifest and a delivery by their commits alone.
WorkflowWrites(p) ==
    /\ UNCHANGED <<inputs, status, locked, decisions, publication, withdrawn>>
    /\ \/ manifests' = manifests /\ g3Open' = g3Open
       \/ CommitEpisodeManifest(p)
    /\ delivered' = delivered \/ CommitEpisodePostProduction(p)
    /\ \/ UNCHANGED <<lifecycle, run>>
       \/ CreateWorkflowRun(p) \/ ExecuteProviderJob(p) \/ ProviderJobFails(p)
       \/ RecordAutomaticQC(p) \/ OpenShotReview(p) \/ RecordShotIntervention(p)

\* Each step of a workflow writes what it should.
LEMMA WorkflowFootprint ==
    ASSUME NEW p \in Productions, Workflow(p)
    PROVE  WorkflowWrites(p)
<1>1. ASSUME CompilePromptSnapshot(p) PROVE WorkflowWrites(p)
    BY <1>1 DEF CompilePromptSnapshot, WorkflowWrites, inputs, gates, outputs
<1>2. ASSUME CreateWorkflowRun(p) PROVE WorkflowWrites(p)
    BY <1>2 DEF CreateWorkflowRun, WorkflowWrites, inputs, gates, outputs
<1>3. ASSUME ExecuteProviderJob(p) PROVE WorkflowWrites(p)
    BY <1>3 DEF ExecuteProviderJob, WorkflowWrites, inputs, gates, outputs
<1>4. ASSUME ProviderJobFails(p) PROVE WorkflowWrites(p)
    BY <1>4 DEF ProviderJobFails, WorkflowWrites, inputs, gates, outputs
<1>5. ASSUME RecordAutomaticQC(p) PROVE WorkflowWrites(p)
    BY <1>5 DEF RecordAutomaticQC, WorkflowWrites, inputs, gates, outputs
<1>6. ASSUME OpenShotReview(p) PROVE WorkflowWrites(p)
    BY <1>6 DEF OpenShotReview, WorkflowWrites, inputs, gates, outputs
<1>7. ASSUME WaitForShotDecision(p) PROVE WorkflowWrites(p)
    BY <1>7 DEF WaitForShotDecision, WorkflowWrites, inputs, gates, outputs
<1>8. ASSUME RecordShotIntervention(p) PROVE WorkflowWrites(p)
    BY <1>8 DEF RecordShotIntervention, WorkflowWrites, inputs, gates, outputs
<1>9. ASSUME PrepareEpisodePostProduction(p) PROVE WorkflowWrites(p)
    BY <1>9 DEF PrepareEpisodePostProduction, WorkflowWrites, inputs, gates, outputs, Pure
<1>10. ASSUME AuthorizeEpisodePostProduction(p) PROVE WorkflowWrites(p)
    BY <1>10 DEF AuthorizeEpisodePostProduction, WorkflowWrites, inputs, gates, outputs, Pure
<1>11. ASSUME CommitEpisodePostProduction(p) PROVE WorkflowWrites(p)
    BY <1>11 DEF CommitEpisodePostProduction, WorkflowWrites, inputs, gates, outputs
<1>12. ASSUME BuildEpisodeManifest(p) PROVE WorkflowWrites(p)
    BY <1>12 DEF BuildEpisodeManifest, WorkflowWrites, inputs, gates, outputs
<1>13. ASSUME CommitEpisodeManifest(p) PROVE WorkflowWrites(p)
    BY <1>13 DEF CommitEpisodeManifest, WorkflowWrites, inputs, gates, outputs
<1>14. ASSUME WaitForGate3Decision(p) PROVE WorkflowWrites(p)
    BY <1>14 DEF WaitForGate3Decision, WorkflowWrites, inputs, gates, outputs
<1>15. ASSUME ActivityFails(p) PROVE WorkflowWrites(p)
    BY <1>15 DEF ActivityFails, WorkflowWrites, inputs, gates, outputs
<1>16. ASSUME RetryActivity(p) PROVE WorkflowWrites(p)
    BY <1>16 DEF RetryActivity, WorkflowWrites, inputs, gates, outputs, Pure
<1> QED
    BY <1>1, <1>2, <1>3, <1>4, <1>5, <1>6, <1>7, <1>8, <1>9, <1>10, <1>11, <1>12, <1>13, <1>14, <1>15, <1>16, Zenon DEF Workflow

\* What a command writes: a workflow only to start it, never a manifest or a
\* delivery.
CommandWrites ==
    /\ UNCHANGED <<delivered, manifests>>
    /\ \/ wf' = wf /\ inbox' = inbox
       \/ \E p \in Productions : StartEpisode(p)
       \/ \E d \in decisions : RecordApproval(d)
    /\ \/ production' = production
       \/ \E p \in Productions, l \in Plans, post \in Options : PrepareProduction(p, l, post)
    /\ \/ UNCHANGED <<status, locked, decisions>>
       \/ \E rs \in SUBSET Revisions : ApproveG1(rs) \/ ApproveG2(rs)
       \/ \E k \in RunIds, verdict \in Verdicts, others \in SUBSET OpenReviews :
              DecideQ1(k, verdict, others)
       \/ \E rs \in SUBSET Revisions, ms \in SUBSET manifests : ApproveG3(rs, ms)
       \/ RejectG3
    /\ \/ publication' = publication
       \/ \E m \in manifests : \E k \in m.runs : LockPublication(k, m)
    /\ withdrawn' = withdrawn \/ \E p \in delivered : WithdrawDelivery(p)

\* Each command writes what it should.
LEMMA CommandFootprint ==
    ASSUME Commands
    PROVE  CommandWrites
<1>1. ASSUME CreateSourceRevision
      PROVE  CommandWrites
    BY <1>1 DEF CreateSourceRevision, CommandWrites, inputs, gates, outputs
<1>2. ASSUME \E a \in Assets : RevokeRights(a)
      PROVE  CommandWrites
    BY <1>2 DEF RevokeRights, CommandWrites, inputs, gates, outputs
<1>3. ASSUME \E p \in delivered : WithdrawDelivery(p)
      PROVE  CommandWrites
    BY <1>3 DEF WithdrawDelivery, CommandWrites, inputs, gates, outputs
<1>4. ASSUME \E l \in Plans : CreateGenerationPlan(l)
      PROVE  CommandWrites
    BY <1>4 DEF CreateGenerationPlan, CommandWrites, inputs, gates, outputs
<1>5. ASSUME \E p \in Productions, l \in Plans, post \in Options : PrepareProduction(p, l, post)
      PROVE  CommandWrites
    BY <1>5 DEF PrepareProduction, CommandWrites, inputs, gates, outputs
<1>6. ASSUME \E p \in Productions : StartEpisode(p)
      PROVE  CommandWrites
    BY <1>6 DEF StartEpisode, CommandWrites, inputs, gates, outputs
<1>7. ASSUME \E rs \in SUBSET Revisions : ApproveG1(rs) \/ ApproveG2(rs)
      PROVE  CommandWrites
    BY <1>7 DEF ApproveG1, ApproveG2, Advance, CommandWrites, inputs, gates, outputs
<1>8. ASSUME \E k \in RunIds, verdict \in Verdicts, others \in SUBSET OpenReviews :
                 DecideQ1(k, verdict, others)
      PROVE  CommandWrites
    BY <1>8 DEF DecideQ1, CommandWrites, inputs, gates, outputs
<1>9. ASSUME \E rs \in SUBSET Revisions, ms \in SUBSET manifests : ApproveG3(rs, ms)
      PROVE  CommandWrites
    BY <1>9 DEF ApproveG3, CommandWrites, inputs, gates, outputs
<1>10. ASSUME RejectG3
      PROVE  CommandWrites
    BY <1>10 DEF RejectG3, CommandWrites, inputs, gates, outputs
<1>11. ASSUME \E d \in decisions : RecordApproval(d)
      PROVE  CommandWrites
    BY <1>11 DEF RecordApproval, CommandWrites, inputs, gates, outputs
<1>12. ASSUME \E m \in manifests : \E k \in m.runs : LockPublication(k, m)
      PROVE  CommandWrites
    BY <1>12 DEF LockPublication, CommandWrites, inputs, gates, outputs
<1> QED
    BY <1>1, <1>2, <1>3, <1>4, <1>5, <1>6, <1>7, <1>8, <1>9, <1>10, <1>11, <1>12, Zenon DEF Commands

----------------------------------------------------------------------------
(***************************************************************************)
(* The productions of the episode, in their order.                         *)
(***************************************************************************)
LEMMA MaxIsNat == MaxProductions \in Nat /\ MaxDecisions \in Nat
BY BoundsAssumption

\* The next production is the first that is not accepted.
LEMMA NextProduction ==
    ASSUME AcceptedInOrder,
           NEW p \in Productions,
           p = Cardinality({q \in Productions : Accepted(q)}) + 1
    PROVE  /\ ~Accepted(p)
           /\ \A q \in Productions : q < p => Accepted(q)
<1> DEFINE A == {q \in Productions : Accepted(q)}
<1>1. IsFiniteSet(Productions) /\ IsFiniteSet(A)
    <2>1. IsFiniteSet(1..MaxProductions)
        BY MaxIsNat, FS_Interval
    <2>2. A \subseteq Productions
        OBVIOUS
    <2> QED
        BY <2>1, <2>2, FS_Subset DEF Productions
<1>2. Cardinality(A) \in Nat /\ p = Cardinality(A) + 1
    BY <1>1, FS_CardinalityType
<1>3. \A n \in Productions : /\ IsFiniteSet(1..n) /\ Cardinality(1..n) = n
                             /\ IsFiniteSet(1..(n - 1)) /\ Cardinality(1..(n - 1)) = n - 1
    <2> TAKE n \in Productions
    <2>1. n \in Nat /\ n >= 1
        BY MaxIsNat DEF Productions
    <2>2. /\ IsFiniteSet(1..n)
          /\ Cardinality(1..n) = IF 1 > n THEN 0 ELSE n - 1 + 1
        BY <2>1, FS_Interval
    <2>3. /\ IsFiniteSet(1..(n - 1))
          /\ Cardinality(1..(n - 1)) = IF 1 > n - 1 THEN 0 ELSE (n - 1) - 1 + 1
        BY <2>1, FS_Interval
    <2> QED
        BY <2>1, <2>2, <2>3
<1>4. ~Accepted(p)
    <2> SUFFICES ASSUME Accepted(p) PROVE FALSE
        OBVIOUS
    <2>1. 1..p \subseteq A
        BY MaxIsNat DEF AcceptedInOrder, Productions
    <2>2. Cardinality(1..p) <= Cardinality(A)
        BY <1>1, <2>1, FS_Subset
    <2> QED
        BY <1>2, <1>3, <2>2
<1>5. ASSUME NEW q \in Productions, q < p PROVE Accepted(q)
    <2> SUFFICES ASSUME ~Accepted(q) PROVE FALSE
        OBVIOUS
    <2>1. A \subseteq 1..(q - 1)
        BY <1>5, MaxIsNat DEF AcceptedInOrder, Productions
    <2>2. Cardinality(A) <= Cardinality(1..(q - 1))
        BY <1>3, <2>1, FS_Subset
    <2>3. q \in Nat /\ Cardinality(1..(q - 1)) = q - 1
        BY <1>3, MaxIsNat DEF Productions
    <2> HIDE DEF A
    <2> QED
        BY <1>2, <1>5, <2>2, <2>3
<1> QED
    BY <1>4, <1>5

ProductionTyped == production \in [Productions -> [plan : Plans \cup {NoPlan}, post : BOOLEAN]]

\* Only the next production gets a plan, and keeps it.
ProductionKept == \A p \in Productions : Accepted(p) => production'[p] = production[p]

\* Productions keep their type, their order and their plans.
LEMMA ProductionStep ==
    ASSUME ProductionTyped, AcceptedInOrder, [Next]_vars
    PROVE  ProductionTyped' /\ AcceptedInOrder' /\ ProductionKept
<1>1. ASSUME production' = production
      PROVE  ProductionTyped' /\ AcceptedInOrder' /\ ProductionKept
    BY <1>1 DEF ProductionTyped, AcceptedInOrder, ProductionKept, Accepted, PlanOf
<1>2. ASSUME NEW p \in Productions, NEW l \in Plans, NEW post \in Options,
             PrepareProduction(p, l, post)
      PROVE  ProductionTyped' /\ AcceptedInOrder' /\ ProductionKept
    <2>1. /\ p = Cardinality({q \in Productions : Accepted(q)}) + 1
          /\ production' = [production EXCEPT ![p] = [plan |-> l, post |-> post]]
        BY <1>2, Zenon DEF PrepareProduction
    <2>2. ~Accepted(p) /\ \A q \in Productions : q < p => Accepted(q)
        BY <2>1, NextProduction
    <2>3. \A q \in Productions : production'[q] = IF q = p THEN [plan |-> l, post |-> post]
                                                           ELSE production[q]
        BY <2>1 DEF ProductionTyped
    <2>4. ProductionTyped'
        BY <2>1, OptionsAssumption DEF ProductionTyped
    <2>5. ProductionKept
        BY <2>2, <2>3 DEF ProductionKept
    <2>6. \A q \in Productions : Accepted(q)' <=> Accepted(q) \/ q = p
        BY <2>3, NoPlanAssumption DEF Accepted, PlanOf
    <2>7. AcceptedInOrder'
        <3> SUFFICES ASSUME NEW a \in Productions, NEW b \in Productions,
                            b <= a, Accepted(a)'
                     PROVE  Accepted(b)'
            BY DEF AcceptedInOrder
        <3>1. CASE Accepted(a)
            BY <3>1, <2>6 DEF AcceptedInOrder
        <3>2. CASE a = p
            <4>1. b = p \/ b < p
                BY <3>2, MaxIsNat DEF Productions
            <4> QED
                BY <4>1, <2>2, <2>6
        <3> QED
            BY <3>1, <3>2, <2>6
    <2> QED
        BY <2>4, <2>5, <2>7
<1>3. CASE UNCHANGED vars
    BY <1>1, <1>3 DEF vars, inputs
<1>4. CASE Commands
    BY <1>1, <1>2, <1>4, CommandFootprint, Zenon DEF CommandWrites
<1>5. ASSUME NEW p \in Productions, Workflow(p) PROVE production' = production
    BY <1>5, WorkflowFootprint DEF WorkflowWrites, inputs
<1> QED
    BY <1>1, <1>3, <1>4, <1>5, Zenon DEF Next

----------------------------------------------------------------------------
(***************************************************************************)
(* What a workflow holds.                                                  *)
(***************************************************************************)
\* A decision of Gate Q1 names its run and nothing else.
ShotDecisionsBare == \A d \in decisions : d.gate = "Q1" => d.manifests = {}

DecisionsTyped == decisions \subseteq Decisions

Sound(p) ==
    /\ wf[p] \in WorkflowStates
    /\ inbox[p] \subseteq decisions
    /\ WorkTrue(p)
    /\ IdleTrue(p)

\* What a workflow relies on is never taken back.
Grown == ProductionKept /\ decisions \subseteq decisions'

\* The run a workflow is at is a run of its plan.
LEMMA AtRun ==
    ASSUME ProductionTyped, NEW p \in Productions, Sound(p), Open(p)
    PROVE  /\ PlanOf(p) \in Plans
           /\ ShotAt(p) \in Shots
           /\ RunOf(p) \in RunIds
           /\ RunOf(p).plan = PlanOf(p) /\ RunOf(p).shot = ShotAt(p)
<1>1. PlanOf(p) \in Plans
    BY DEF Sound, WorkTrue, Accepted, PlanOf, ProductionTyped
<1>2. ShotsOf[PlanOf(p)] \in Seq(Shots)
    BY <1>1, ShotsOfAssumption
<1>3. ShotAt(p) \in Shots
    BY <1>2 DEF Sound, WorkTrue, ShotAt
<1>4. wf[p].attempt \in 1..2
    BY DEF Sound, WorkflowStates
<1> QED
    BY <1>1, <1>3, <1>4 DEF RunOf, RunIds

\* A workflow that a step leaves alone keeps what it holds.
LEMMA SoundKept ==
    ASSUME NEW p \in Productions, Sound(p), Grown,
           wf'[p] = wf[p], inbox'[p] \subseteq decisions'
    PROVE  Sound(p)'
<1>1. \A k : ApprovedRun(k) => ApprovedRun(k)'
    BY DEF ApprovedRun, Grown
<1>2. wf'[p] \in WorkflowStates /\ IdleTrue(p)'
    BY DEF Sound, IdleTrue
<1>3. WorkTrue(p)'
    <2> SUFFICES ASSUME Open(p) PROVE WorkTrue(p)'
        BY DEF WorkTrue, Open
    <2>1. production'[p] = production[p]
        BY DEF Sound, WorkTrue, Grown, ProductionKept
    <2>2. Holds(wf[p].runs, PlanOf(p), Passed(p))'
        BY <1>1, <2>1 DEF Sound, WorkTrue, Holds, Passed, PlanOf
    <2> QED
        BY <2>1, <2>2 DEF Sound, WorkTrue, Accepted, PlanOf
<1> QED
    BY <1>2, <1>3 DEF Sound

\* A workflow goes to another step without touching its runs.
LEMMA SoundMove ==
    ASSUME NEW p \in Productions, Sound(p), Open(p), Grown,
           NEW step \in Steps \ {"IDLE", "CLOSED", "COMMIT_MANIFEST"},
           wf'[p] = [wf[p] EXCEPT !.step = step], inbox'[p] \subseteq decisions',
           step \in Finishing <=> wf[p].step \in Finishing,
           step \in {"PREPARE", "AUTHORIZE", "COMMIT_POST"} => production[p].post
    PROVE  Sound(p)'
<1>1. \A k : ApprovedRun(k) => ApprovedRun(k)'
    BY DEF ApprovedRun, Grown
<1>2. wf[p] \in WorkflowStates
    BY DEF Sound
<1>3. /\ wf'[p] \in WorkflowStates
      /\ wf'[p].step = step /\ wf'[p].shot = wf[p].shot /\ wf'[p].runs = wf[p].runs
    BY <1>2 DEF WorkflowStates
<1>4. production'[p] = production[p]
    BY DEF Sound, WorkTrue, Grown, ProductionKept
<1>5. Passed(p)' = Passed(p)
    BY <1>3, <1>4 DEF Passed, PlanOf
<1>6. Holds(wf[p].runs, PlanOf(p), Passed(p))'
    BY <1>1, <1>3, <1>4, <1>5 DEF Sound, WorkTrue, Holds, PlanOf
<1>7. WorkTrue(p)'
    BY <1>3, <1>4, <1>6 DEF Sound, WorkTrue, Accepted, PlanOf
<1> QED
    BY <1>3, <1>7 DEF Sound, IdleTrue

\* A closed workflow holds nothing.
LEMMA SoundClose ==
    ASSUME NEW p \in Productions, WorkTyped, NEW result \in Results, Close(p, result)
    PROVE  Sound(p)'
<1>1. /\ wf'[p] = [NotStarted EXCEPT !.step = "CLOSED", !.result = result]
      /\ inbox'[p] = {}
    BY DEF Close, WorkTyped
<1>2. wf'[p] = [step |-> "CLOSED", shot |-> 1, attempt |-> 1, runs |-> {},
                built |-> NoManifest, result |-> result]
    BY <1>1 DEF NotStarted
<1>3. wf'[p] \in WorkflowStates
    BY <1>2 DEF WorkflowStates, Steps
<1>4. WorkTrue(p)' /\ IdleTrue(p)'
    BY <1>2 DEF WorkTrue, IdleTrue, Open
<1> QED
    BY <1>1, <1>3, <1>4 DEF Sound

\* Every workflow holds what it should.
WorkSound == WorkTyped /\ \A p \in Productions : WorkTrue(p) /\ IdleTrue(p)

\* The invariant of all workflows is that of each.
LEMMA EachSound ==
    ASSUME WorkSound, NEW p \in Productions
    PROVE  Sound(p)
BY DEF WorkSound, WorkTyped, Sound

\* Workflows stay sound when only the decisions grow.
LEMMA NoneMoves ==
    ASSUME WorkSound, Grown, wf' = wf, inbox' \in [Productions -> SUBSET decisions']
    PROVE  WorkSound'
<1>1. \A p \in Productions : Sound(p)'
    BY EachSound, SoundKept
<1> QED
    BY <1>1 DEF WorkSound, WorkTyped, Sound

\* A step of one workflow leaves the others sound.
LEMMA OneMoves ==
    ASSUME WorkSound, Grown, NEW p \in Productions,
           wf' = [wf EXCEPT ![p] = wf'[p]],
           inbox' = [inbox EXCEPT ![p] = inbox'[p]],
           Sound(p)'
    PROVE  WorkSound'
<1>1. ASSUME NEW q \in Productions PROVE Sound(q)'
    <2>1. CASE q = p
        BY <2>1
    <2>2. CASE q # p
        <3>1. wf'[q] = wf[q] /\ inbox'[q] = inbox[q]
            BY <2>2 DEF WorkSound, WorkTyped
        <3>2. inbox'[q] \subseteq decisions'
            BY <3>1 DEF WorkSound, WorkTyped, Grown
        <3> QED
            BY <3>1, <3>2, EachSound, SoundKept
    <2> QED
        BY <2>1, <2>2
<1>2. \A q \in Productions : wf'[q] \in WorkflowStates /\ inbox'[q] \subseteq decisions'
    BY <1>1 DEF Sound
<1>3. WorkTyped'
    BY <1>2 DEF WorkSound, WorkTyped
<1> QED
    BY <1>1, <1>3 DEF WorkSound, Sound

\* A step that goes to another step and keeps the runs is sound.
LEMMA GotoSound ==
    ASSUME WorkSound, Grown, NEW p \in Productions, Open(p),
           NEW step \in Steps \ {"IDLE", "CLOSED", "COMMIT_MANIFEST"},
           Goto(p, step), inbox' = inbox,
           step \in Finishing <=> wf[p].step \in Finishing,
           step \in {"PREPARE", "AUTHORIZE", "COMMIT_POST"} => production[p].post
    PROVE  WorkSound'
<1>1. /\ wf' = [wf EXCEPT ![p] = wf'[p]]
      /\ wf'[p] = [wf[p] EXCEPT !.step = step]
    BY DEF Goto, WorkSound, WorkTyped, WorkflowStates
<1>2. Sound(p) /\ inbox'[p] \subseteq decisions'
    BY EachSound DEF Sound, Grown
<1>3. Sound(p)'
    BY <1>1, <1>2, SoundMove
<1>4. inbox' = [inbox EXCEPT ![p] = inbox'[p]]
    BY DEF WorkSound, WorkTyped
<1> QED
    BY <1>1, <1>3, <1>4, OneMoves

\* The answer of the activity may be lost.
LEMMA CompleteSound ==
    ASSUME WorkSound, Grown, NEW p \in Productions, Open(p),
           NEW step \in Steps \ {"IDLE", "CLOSED", "COMMIT_MANIFEST"},
           Complete(p, step), inbox' = inbox,
           step \in Finishing <=> wf[p].step \in Finishing,
           step \in {"PREPARE", "AUTHORIZE", "COMMIT_POST"} => production[p].post
    PROVE  WorkSound'
<1>1. CASE Goto(p, step)
    BY <1>1, GotoSound
<1>2. CASE wf' = wf
    <2>1. inbox' \in [Productions -> SUBSET decisions']
        BY DEF WorkSound, WorkTyped, Grown
    <2> QED
        BY <1>2, <2>1, NoneMoves
<1> QED
    BY <1>1, <1>2 DEF Complete, Goto

\* A step that closes its workflow is sound.
LEMMA CloseSound ==
    ASSUME WorkSound, Grown, NEW p \in Productions, NEW result \in Results, Close(p, result)
    PROVE  WorkSound'
<1>1. /\ wf' = [wf EXCEPT ![p] = wf'[p]]
      /\ inbox' = [inbox EXCEPT ![p] = inbox'[p]]
    BY DEF Close, WorkSound, WorkTyped
<1>2. Sound(p)'
    BY SoundClose DEF WorkSound
<1> QED
    BY <1>1, <1>2, OneMoves

\* A workflow that starts is before its first shot and has no run.
LEMMA StartSound ==
    ASSUME WorkSound, ProductionTyped, Grown, NEW p \in Productions, StartEpisode(p)
    PROVE  WorkSound'
<1>1. /\ Accepted(p) /\ wf[p].step = "IDLE"
      /\ wf' = [wf EXCEPT ![p].step = "COMPILE"]
      /\ inbox' = inbox
    BY DEF StartEpisode
<1>2. Sound(p) /\ wf[p].shot = 1 /\ wf[p].runs = {}
    BY <1>1, EachSound DEF Sound, IdleTrue
<1>3. /\ wf' = [wf EXCEPT ![p] = wf'[p]]
      /\ wf'[p] = [wf[p] EXCEPT !.step = "COMPILE"]
    BY <1>1 DEF WorkSound, WorkTyped, WorkflowStates
<1>4. /\ wf'[p] \in WorkflowStates
      /\ wf'[p].step = "COMPILE" /\ wf'[p].shot = 1 /\ wf'[p].runs = {}
    BY <1>2, <1>3 DEF Sound, WorkflowStates, Steps, Activities
<1>5. /\ PlanOf(p) \in Plans
      /\ production'[p] = production[p]
    BY <1>1 DEF ProductionTyped, PlanOf, Accepted, Grown, ProductionKept
<1>6. Len(ShotsOf[PlanOf(p)]) \in Nat /\ Len(ShotsOf[PlanOf(p)]) > 0
    BY <1>5, ShotsOfAssumption, DistinctShotsAssumption
<1>7. Holds({}, PlanOf(p), 0)'
    BY DEF Holds
<1>8. Passed(p)' = 0
    BY <1>4 DEF Passed, Finishing
<1>9. Holds(wf[p].runs, PlanOf(p), Passed(p))'
    BY <1>4, <1>7, <1>8, Zenon
<1>10. WorkTrue(p)'
    BY <1>1, <1>4, <1>5, <1>6, <1>9 DEF WorkTrue, Accepted, PlanOf
<1>11. Sound(p)'
    BY <1>1, <1>2, <1>4, <1>10 DEF Sound, IdleTrue, Grown
<1>12. inbox' = [inbox EXCEPT ![p] = inbox'[p]]
    BY <1>1 DEF WorkSound, WorkTyped
<1> QED
    BY <1>3, <1>11, <1>12, OneMoves

\* The approval of the run it waits for completes a shot.
LEMMA NextShotTrue ==
    ASSUME ProductionTyped, ShotDecisionsBare, DecisionsTyped, Grown,
           NEW p \in Productions, Sound(p), wf[p].step = "WAIT_Q1",
           ApprovedRun(RunOf(p)), wf'[p] = NextShot(p)
    PROVE  wf'[p] \in WorkflowStates /\ WorkTrue(p)' /\ IdleTrue(p)'
<1> DEFINE l    == PlanOf(p)
           last == Len(ShotsOf[PlanOf(p)])
           n    == wf[p].shot
           k    == RunOf(p)
<1>1. /\ Open(p) /\ Accepted(p) /\ n \in 1..last
      /\ Holds(wf[p].runs, l, n - 1)
      /\ wf[p] \in WorkflowStates
    BY DEF Sound, WorkTrue, Open, Passed, Finishing
<1>2. l \in Plans /\ k \in RunIds /\ k.shot = ShotsOf[l][n]
    BY <1>1, AtRun DEF ShotAt
<1>3. last \in Nat /\ \A i, j \in 1..last : ShotsOf[l][i] = ShotsOf[l][j] => i = j
    BY <1>2, ShotsOfAssumption, DistinctShotsAssumption
<1>4. n \in 1..last /\ n - 1 \in Nat /\ 1..n = (1..(n - 1)) \cup {n}
    BY <1>1, <1>3
<1>5. \A c : ApprovedRun(c) => ApprovedRun(c)'
    BY DEF ApprovedRun, Grown
<1>6. production'[p] = production[p]
    BY <1>1 DEF Grown, ProductionKept
<1>7. /\ wf'[p] \in WorkflowStates
      /\ wf'[p].runs = wf[p].runs \cup {k}
      /\ n < last => wf'[p].step = "COMPILE" /\ wf'[p].shot = n + 1
      /\ ~(n < last) => /\ wf'[p].step = IF production[p].post THEN "PREPARE" ELSE "BUILD"
                        /\ wf'[p].shot = n
    <2>1. wf[p].runs \cup {k} \in SUBSET RunIds /\ n + 1 \in Nat
        BY <1>1, <1>2, <1>4 DEF WorkflowStates
    <2>2. {"COMPILE", "PREPARE", "BUILD"} \subseteq Steps
        BY DEF Steps, Activities
    <2>3. CASE n < last
        <3>1. wf'[p] = [wf[p] EXCEPT !.step = "COMPILE", !.shot = n + 1, !.attempt = 1,
                                     !.runs = wf[p].runs \cup {k}]
            BY <2>3 DEF NextShot
        <3> HIDE DEF n, k, last
        <3>2. wf[p] \in WorkflowStates /\ "COMPILE" \in Steps /\ 1 \in 1..2
            BY <1>1, <2>2
        <3>3. wf'[p] \in WorkflowStates
            BY <2>1, <3>1, <3>2 DEF WorkflowStates
        <3>4. /\ wf'[p].step = "COMPILE" /\ wf'[p].shot = n + 1
              /\ wf'[p].runs = wf[p].runs \cup {k}
            BY <3>1, <3>2 DEF WorkflowStates
        <3> QED
            BY <2>3, <3>3, <3>4
    <2>4. CASE ~(n < last)
        <3>1. PICK step \in {"PREPARE", "BUILD"} :
                  /\ step = IF production[p].post THEN "PREPARE" ELSE "BUILD"
                  /\ wf'[p] = [wf[p] EXCEPT !.step = step, !.runs = wf[p].runs \cup {k}]
            BY <2>4 DEF NextShot
        <3>2. n = wf[p].shot
            OBVIOUS
        <3> HIDE DEF n, k, last
        <3> QED
            BY <2>1, <2>2, <2>4, <3>1, <3>2, <1>1 DEF WorkflowStates
    <2> QED
        BY <2>3, <2>4
<1>8. Passed(p)' = n
    <2>1. CASE n < last
        BY <2>1, <1>7, <1>4 DEF Passed, Finishing
    <2>2. CASE ~(n < last)
        BY <2>2, <1>7, <1>6, <1>1, <1>3 DEF Passed, Finishing, PlanOf
    <2> QED
        BY <2>1, <2>2
<1>9. Holds(wf[p].runs, PlanOf(p), Passed(p))'
    <2>1. PlanOf(p)' = l
        BY <1>6 DEF PlanOf
    <2>2. \A c \in wf[p].runs : /\ ApprovedRun(c)'
                                /\ \E i \in 1..(n - 1) : c.shot = ShotsOf[l][i]
                                /\ c.shot # k.shot
        <3>1. \A c \in wf[p].runs : ApprovedRun(c) /\ \E i \in 1..(n - 1) : c.shot = ShotsOf[l][i]
            BY <1>1 DEF Holds
        <3>2. \A i \in 1..(n - 1) : ShotsOf[l][i] # ShotsOf[l][n]
            <4> HIDE DEF l, last
            <4> QED
                BY <1>1, <1>3, <1>4
        <3> HIDE DEF n, l, k
        <3> QED
            BY <1>2, <1>5, <3>1, <3>2
    <2>3. \A i \in 1..(n - 1) : \E c \in wf[p].runs : c.shot = ShotsOf[l][i]
        BY <1>1 DEF Holds
    <2>4. \A b, c \in wf[p].runs : b.shot = c.shot => b = c
        BY <1>1 DEF Holds
    <2>5. \A c \in wf'[p].runs : ApprovedRun(c)' /\ \E i \in 1..n : c.shot = ShotsOf[l][i]
        BY <1>2, <1>4, <1>5, <1>7, <2>2
    <2>6. \A i \in 1..n : \E c \in wf'[p].runs : c.shot = ShotsOf[l][i]
        BY <1>2, <1>4, <1>7, <2>3
    <2>7. \A b, c \in wf'[p].runs : b.shot = c.shot => b = c
        BY <1>7, <2>2, <2>4
    <2> HIDE DEF l, n, k
    <2> QED
        BY <1>8, <2>1, <2>5, <2>6, <2>7 DEF Holds
<1>10. /\ wf'[p].step \in {"PREPARE", "AUTHORIZE", "COMMIT_POST"} => production'[p].post
       /\ wf'[p].step # "COMMIT_MANIFEST" /\ wf'[p].step # "IDLE"
    BY <1>6, <1>7
<1>11. wf'[p].shot \in 1..last /\ Accepted(p)' /\ PlanOf(p)' = l
    BY <1>1, <1>3, <1>6, <1>7 DEF Accepted, PlanOf
<1> QED
    BY <1>7, <1>9, <1>10, <1>11 DEF WorkTrue, IdleTrue

\* Whatever decision comes, the workflow only counts the approval of its run.
LEMMA ShotDecisionSound ==
    ASSUME WorkSound, ProductionTyped, ShotDecisionsBare, DecisionsTyped, Grown,
           NEW p \in Productions, WaitForShotDecision(p)
    PROVE  WorkSound'
<1>1. PICK d \in inbox[p] :
          /\ wf[p].step = "WAIT_Q1"
          /\ d.gate = "Q1"
          /\ inbox' = [inbox EXCEPT ![p] = @ \ {d}]
          /\ wf' = [wf EXCEPT ![p] = IF d.runs # {RunOf(p)} THEN @
                                     ELSE IF d.verdict = "APPROVED" THEN NextShot(p)
                                     ELSE NextAttempt(p)]
    BY Zenon DEF WaitForShotDecision, At
<1>2. Sound(p) /\ Open(p) /\ p \in DOMAIN wf /\ p \in DOMAIN inbox
    BY <1>1, EachSound DEF Open, WorkSound, WorkTyped
<1>3. /\ wf'[p] = IF d.runs # {RunOf(p)} THEN wf[p]
                  ELSE IF d.verdict = "APPROVED" THEN NextShot(p)
                  ELSE NextAttempt(p)
      /\ inbox'[p] = inbox[p] \ {d}
    BY <1>1, <1>2
<1>4. /\ wf' = [wf EXCEPT ![p] = wf'[p]]
      /\ inbox' = [inbox EXCEPT ![p] = inbox'[p]]
    BY <1>1, <1>3, Zenon
<1>5. inbox'[p] \subseteq decisions'
    BY <1>2, <1>3 DEF Sound, Grown
<1>6. CASE d.runs # {RunOf(p)}
    BY <1>2, <1>3, <1>4, <1>5, <1>6, SoundKept, OneMoves
<1>7. CASE d.runs = {RunOf(p)} /\ d.verdict = "APPROVED"
    <2>1. d \in decisions /\ d \in Decisions
        BY <1>2 DEF Sound, DecisionsTyped
    <2>2. d.manifests = {}
        BY <1>1, <2>1 DEF ShotDecisionsBare
    <2>3. ApprovedRun(RunOf(p))
        BY <1>1, <1>7, <2>1, <2>2 DEF ApprovedRun, Decision, Decisions
    <2>4. wf'[p] = NextShot(p)
        BY <1>3, <1>7
    <2>5. wf'[p] \in WorkflowStates /\ WorkTrue(p)' /\ IdleTrue(p)'
        BY <1>1, <1>2, <2>3, <2>4, NextShotTrue
    <2>6. Sound(p)'
        BY <1>5, <2>5 DEF Sound
    <2> QED
        BY <1>4, <2>6, OneMoves
<1>8. CASE d.runs = {RunOf(p)} /\ d.verdict # "APPROVED"
    <2>1. wf'[p] = NextAttempt(p)
        BY <1>3, <1>8
    <2>2. CASE wf[p].attempt = 1
        <3>1. wf'[p] = [wf[p] EXCEPT !.step = "CREATE", !.attempt = 2]
            BY <2>1, <2>2 DEF NextAttempt
        <3>2. wf[p] \in WorkflowStates /\ "CREATE" \in Steps /\ 2 \in 1..2
            BY <1>2 DEF Sound, Steps, Activities
        <3>3. wf'[p] \in WorkflowStates
            BY <3>1, <3>2 DEF WorkflowStates
        <3>4. /\ wf'[p].step = "CREATE" /\ wf'[p].shot = wf[p].shot
              /\ wf'[p].runs = wf[p].runs
            BY <3>1, <3>2 DEF WorkflowStates
        <3>5. production'[p] = production[p]
            BY <1>2 DEF Sound, WorkTrue, Grown, ProductionKept
        <3>6. Passed(p)' = Passed(p)
            BY <1>1, <3>4 DEF Passed, Finishing
        <3>7. \A c : ApprovedRun(c) => ApprovedRun(c)'
            BY DEF ApprovedRun, Grown
        <3>8. Holds(wf[p].runs, PlanOf(p), Passed(p))'
            BY <1>2, <3>4, <3>5, <3>6, <3>7 DEF Sound, WorkTrue, Holds, PlanOf
        <3>9. WorkTrue(p)'
            BY <1>2, <3>4, <3>5, <3>8 DEF Sound, WorkTrue, Accepted, PlanOf
        <3>10. Sound(p)'
            BY <1>5, <3>3, <3>4, <3>9 DEF Sound, IdleTrue
        <3> QED
            BY <1>4, <3>10, OneMoves
    <2>3. CASE wf[p].attempt # 1
        <3>1. wf'[p] = [wf[p] EXCEPT !.step = "ESCALATE"]
            BY <2>1, <2>3 DEF NextAttempt
        <3>2. "ESCALATE" \in Steps \ {"IDLE", "CLOSED", "COMMIT_MANIFEST"}
            BY DEF Steps, Activities
        <3>3. Sound(p)'
            BY <1>1, <1>2, <1>5, <3>1, <3>2, SoundMove DEF Finishing
        <3> QED
            BY <1>4, <3>3, OneMoves
    <2> QED
        BY <2>2, <2>3
<1> QED
    BY <1>6, <1>7, <1>8

\* The manifest is built from the runs of the workflow.
LEMMA BuildSound ==
    ASSUME WorkSound, Counted, Grown, NEW p \in Productions, BuildEpisodeManifest(p)
    PROVE  WorkSound'
<1> DEFINE m == [by |-> p, runs |-> wf[p].runs, history |-> Cardinality(decisions)]
<1>1. /\ wf[p].step = "BUILD" /\ inbox' = inbox
      /\ wf' = [wf EXCEPT ![p].step = "COMMIT_MANIFEST", ![p].built = m]
    BY Zenon DEF BuildEpisodeManifest, At
<1>2. Sound(p) /\ Open(p) /\ wf[p] \in WorkflowStates
    BY <1>1, EachSound DEF Open, Sound
<1>3. m \in Manifests
    <2>1. Cardinality(decisions) \in 0..MaxDecisions
        BY FS_CardinalityType, MaxIsNat DEF Counted
    <2>2. wf[p].runs \in SUBSET RunIds
        BY <1>2 DEF WorkflowStates
    <2> QED
        BY <2>1, <2>2 DEF Manifests
<1>4. m.by = p /\ m.runs = wf[p].runs
    OBVIOUS
<1> HIDE DEF m
<1>5. wf' = [wf EXCEPT ![p] = [wf[p] EXCEPT !.step = "COMMIT_MANIFEST", !.built = m]]
    BY <1>1, <1>2 DEF WorkSound, WorkTyped, WorkflowStates
<1>6. wf'[p] = [wf[p] EXCEPT !.step = "COMMIT_MANIFEST", !.built = m]
    BY <1>5 DEF WorkSound, WorkTyped
<1>7. wf' = [wf EXCEPT ![p] = wf'[p]]
    BY <1>5, <1>6, Zenon
<1>8. "COMMIT_MANIFEST" \in Steps
    BY DEF Steps, Activities
<1>9. /\ wf'[p] \in WorkflowStates
      /\ wf'[p].step = "COMMIT_MANIFEST" /\ wf'[p].built = m
      /\ wf'[p].shot = wf[p].shot /\ wf'[p].runs = wf[p].runs
    BY <1>2, <1>3, <1>6, <1>8 DEF WorkflowStates
<1>10. production'[p] = production[p]
    BY <1>2 DEF Sound, WorkTrue, Grown, ProductionKept
<1>11. Passed(p)' = Passed(p)
    BY <1>1, <1>9, <1>10 DEF Passed, Finishing, PlanOf
<1>12. \A c : ApprovedRun(c) => ApprovedRun(c)'
    BY DEF ApprovedRun, Grown
<1>13. Holds(wf[p].runs, PlanOf(p), Passed(p))'
    BY <1>2, <1>9, <1>10, <1>11, <1>12 DEF Sound, WorkTrue, Holds, PlanOf
<1>14. WorkTrue(p)'
    BY <1>2, <1>3, <1>4, <1>9, <1>10, <1>13 DEF Sound, WorkTrue, Accepted, PlanOf
<1>15. Sound(p)'
    BY <1>1, <1>2, <1>9, <1>14 DEF Sound, IdleTrue, Grown
<1>16. inbox' = [inbox EXCEPT ![p] = inbox'[p]]
    BY <1>1 DEF WorkSound, WorkTyped
<1> QED
    BY <1>7, <1>15, <1>16, OneMoves

\* Every step of a workflow is sound.
LEMMA WorkflowSound ==
    ASSUME WorkSound, ProductionTyped, ShotDecisionsBare, DecisionsTyped, Counted, Grown,
           NEW p \in Productions, Workflow(p)
    PROVE  WorkSound'
<1>1. /\ {"CREATE", "EXECUTE", "QC", "REVIEW", "WAIT_Q1", "PREPARE", "AUTHORIZE",
          "COMMIT_POST", "BUILD", "WAIT_G3"} \subseteq Steps \ {"IDLE", "CLOSED", "COMMIT_MANIFEST"}
      /\ {"ERROR", "NEEDS_INTERVENTION", "LOCKED", "G3_REJECTED"} \subseteq Results
    BY DEF Steps, Activities, Results
<1>2. Sound(p)
    BY EachSound
<1>3. ASSUME CompilePromptSnapshot(p) PROVE WorkSound'
    <2>1. wf[p].step = "COMPILE" /\ Complete(p, "CREATE") /\ inbox' = inbox
        BY <1>3 DEF CompilePromptSnapshot, At
    <2> QED
        BY <1>1, <2>1, CompleteSound DEF Open, Finishing
<1>4. ASSUME CreateWorkflowRun(p) PROVE WorkSound'
    <2>1. wf[p].step = "CREATE" /\ Complete(p, "EXECUTE") /\ inbox' = inbox
        BY <1>4 DEF CreateWorkflowRun, At
    <2> QED
        BY <1>1, <2>1, CompleteSound DEF Open, Finishing
<1>5. ASSUME ExecuteProviderJob(p) PROVE WorkSound'
    <2>1. wf[p].step = "EXECUTE" /\ Complete(p, "QC") /\ inbox' = inbox
        BY <1>5 DEF ExecuteProviderJob, At
    <2> QED
        BY <1>1, <2>1, CompleteSound DEF Open, Finishing
<1>6. ASSUME ProviderJobFails(p) PROVE WorkSound'
    <2>1. Close(p, "ERROR")
        BY <1>6 DEF ProviderJobFails
    <2> QED
        BY <1>1, <2>1, CloseSound
<1>7. ASSUME RecordAutomaticQC(p) PROVE WorkSound'
    <2>1. wf[p].step = "QC" /\ Complete(p, "REVIEW") /\ inbox' = inbox
        BY <1>7 DEF RecordAutomaticQC, At
    <2> QED
        BY <1>1, <2>1, CompleteSound DEF Open, Finishing
<1>8. ASSUME OpenShotReview(p) PROVE WorkSound'
    <2>1. wf[p].step = "REVIEW" /\ Complete(p, "WAIT_Q1") /\ inbox' = inbox
        BY <1>8 DEF OpenShotReview, At
    <2> QED
        BY <1>1, <2>1, CompleteSound DEF Open, Finishing
<1>9. ASSUME WaitForShotDecision(p) PROVE WorkSound'
    BY <1>9, ShotDecisionSound
<1>10. ASSUME RecordShotIntervention(p) PROVE WorkSound'
    <2>1. Close(p, "NEEDS_INTERVENTION")
        BY <1>10 DEF RecordShotIntervention
    <2> QED
        BY <1>1, <2>1, CloseSound
<1>11. ASSUME PrepareEpisodePostProduction(p) PROVE WorkSound'
    <2>1. wf[p].step = "PREPARE" /\ Goto(p, "AUTHORIZE") /\ inbox' = inbox
        BY <1>11 DEF PrepareEpisodePostProduction, Pure, At
    <2>2. Open(p) /\ production[p].post
        BY <1>2, <2>1 DEF Sound, WorkTrue, Open
    <2> QED
        BY <1>1, <2>1, <2>2, GotoSound DEF Finishing
<1>12. ASSUME AuthorizeEpisodePostProduction(p) PROVE WorkSound'
    <2>1. /\ wf[p].step = "AUTHORIZE" /\ inbox' = inbox
          /\ Goto(p, "AUTHORIZE") \/ Goto(p, "COMMIT_POST")
        BY <1>12, Zenon DEF AuthorizeEpisodePostProduction, Pure, At
    <2>2. Open(p) /\ production[p].post
        BY <1>2, <2>1 DEF Sound, WorkTrue, Open
    <2>3. CASE Goto(p, "AUTHORIZE")
        BY <1>1, <2>1, <2>2, <2>3, GotoSound DEF Finishing
    <2>4. CASE Goto(p, "COMMIT_POST")
        BY <1>1, <2>1, <2>2, <2>4, GotoSound DEF Finishing
    <2> QED
        BY <2>1, <2>3, <2>4
<1>13. ASSUME CommitEpisodePostProduction(p) PROVE WorkSound'
    <2>1. wf[p].step = "COMMIT_POST" /\ Complete(p, "BUILD") /\ inbox' = inbox
        BY <1>13 DEF CommitEpisodePostProduction, At
    <2> QED
        BY <1>1, <2>1, CompleteSound DEF Open, Finishing
<1>14. ASSUME BuildEpisodeManifest(p) PROVE WorkSound'
    BY <1>14, BuildSound
<1>15. ASSUME CommitEpisodeManifest(p) PROVE WorkSound'
    <2>1. /\ wf[p].step = "COMMIT_MANIFEST" /\ inbox' = inbox
          /\ Goto(p, "WAIT_G3") \/ Goto(p, "BUILD")
        BY <1>15, Zenon DEF CommitEpisodeManifest, At
    <2>2. CASE Goto(p, "WAIT_G3")
        BY <1>1, <2>1, <2>2, GotoSound DEF Open, Finishing
    <2>3. CASE Goto(p, "BUILD")
        BY <1>1, <2>1, <2>3, GotoSound DEF Open, Finishing
    <2> QED
        BY <2>1, <2>2, <2>3
<1>16. ASSUME WaitForGate3Decision(p) PROVE WorkSound'
    <2>1. Close(p, "LOCKED") \/ Close(p, "G3_REJECTED")
        BY <1>16 DEF WaitForGate3Decision
    <2> QED
        BY <1>1, <2>1, CloseSound
<1>17. ASSUME ActivityFails(p) PROVE WorkSound'
    <2>1. Close(p, "ERROR")
        BY <1>17 DEF ActivityFails
    <2> QED
        BY <1>1, <2>1, CloseSound
<1>18. ASSUME RetryActivity(p) PROVE WorkSound'
    <2>1. /\ inbox' = inbox
          /\ \/ wf[p].step \in {"AUTHORIZE", "COMMIT_POST"} /\ Goto(p, "PREPARE")
             \/ wf[p].step = "COMMIT_MANIFEST" /\ Goto(p, "BUILD")
        BY <1>18 DEF RetryActivity, Pure, At
    <2>2. CASE wf[p].step \in {"AUTHORIZE", "COMMIT_POST"} /\ Goto(p, "PREPARE")
        <3>1. Open(p) /\ production[p].post
            BY <1>2, <2>2 DEF Sound, WorkTrue, Open
        <3> QED
            BY <1>1, <2>1, <2>2, <3>1, GotoSound DEF Finishing
    <2>3. CASE wf[p].step = "COMMIT_MANIFEST" /\ Goto(p, "BUILD")
        BY <1>1, <2>1, <2>3, GotoSound DEF Open, Finishing
    <2> QED
        BY <2>1, <2>2, <2>3
<1> QED
    BY <1>3, <1>4, <1>5, <1>6, <1>7, <1>8, <1>9, <1>10, <1>11, <1>12, <1>13, <1>14,
       <1>15, <1>16, <1>17, <1>18, Zenon DEF Workflow

\* A command starts a workflow or puts a decision into an inbox.
LEMMA CommandSound ==
    ASSUME WorkSound, ProductionTyped, Grown, Commands
    PROVE  WorkSound'
<1>1. ASSUME wf' = wf, inbox' = inbox PROVE WorkSound'
    <2>1. inbox' \in [Productions -> SUBSET decisions']
        BY <1>1 DEF WorkSound, WorkTyped, Grown
    <2> QED
        BY <1>1, <2>1, NoneMoves
<1>2. ASSUME NEW d \in decisions, RecordApproval(d) PROVE WorkSound'
    <2>1. wf' = wf /\ inbox' = [inbox EXCEPT ![Recipient(d)] = @ \cup {d}]
        BY <1>2, Zenon DEF RecordApproval
    <2>2. inbox' \in [Productions -> SUBSET decisions']
        BY <2>1 DEF WorkSound, WorkTyped, Grown
    <2> QED
        BY <2>1, <2>2, NoneMoves
<1> QED
    BY <1>1, <1>2, StartSound, CommandFootprint, Zenon DEF CommandWrites

----------------------------------------------------------------------------
(***************************************************************************)
(* The decisions, the manifests and the gates of their revisions.          *)
(***************************************************************************)
ManifestsTrue == manifests \subseteq Manifests /\ \A m \in manifests : ManifestTrue(m)

\* A decision is never taken back.
LEMMA DecisionsGrow ==
    ASSUME [Next]_vars
    PROVE  decisions \subseteq decisions'
<1>1. CASE UNCHANGED vars
    BY <1>1 DEF vars, gates
<1>2. CASE Commands
    <2>1. ASSUME NEW d, Record(d) PROVE decisions \subseteq decisions'
        BY <2>1 DEF Record
    <2>2. ASSUME NEW rs \in SUBSET Revisions, ApproveG1(rs) \/ ApproveG2(rs)
          PROVE  decisions \subseteq decisions'
        BY <2>2 DEF ApproveG1, ApproveG2, Advance
    <2>3. ASSUME NEW k \in RunIds, NEW verdict \in Verdicts, NEW others \in SUBSET OpenReviews,
                 DecideQ1(k, verdict, others)
          PROVE  decisions \subseteq decisions'
        BY <2>1, <2>3, Zenon DEF DecideQ1
    <2>4. ASSUME NEW rs, NEW ms, ApproveG3(rs, ms) \/ RejectG3
          PROVE  decisions \subseteq decisions'
        BY <2>1, <2>4, Zenon DEF ApproveG3, RejectG3
    <2>5. \/ decisions' = decisions
          \/ \E rs \in SUBSET Revisions : ApproveG1(rs) \/ ApproveG2(rs)
          \/ \E k \in RunIds, verdict \in Verdicts, others \in SUBSET OpenReviews :
                 DecideQ1(k, verdict, others)
          \/ \E rs \in SUBSET Revisions, ms \in SUBSET manifests : ApproveG3(rs, ms)
          \/ RejectG3
        BY <1>2, CommandFootprint, Zenon DEF CommandWrites
    <2> QED
        BY <2>2, <2>3, <2>4, <2>5
<1>3. ASSUME NEW p \in Productions, Workflow(p) PROVE decisions \subseteq decisions'
    BY <1>3, WorkflowFootprint DEF WorkflowWrites
<1> QED
    BY <1>1, <1>2, <1>3, Zenon DEF Next

\* The manifest that is committed is the one that was built, with the runs of
\* its workflow.
LEMMA ManifestsStep ==
    ASSUME ProductionTyped, WorkSound, ManifestsTrue, Grown, [Next]_vars
    PROVE  manifests \subseteq manifests' /\ ManifestsTrue'
<1>1. \A k : ApprovedRun(k) => ApprovedRun(k)'
    BY DEF ApprovedRun, Grown
<1>2. ASSUME NEW m \in Manifests, ManifestTrue(m) PROVE ManifestTrue(m)'
    <2>1. m.by \in Productions
        BY DEF Manifests
    <2>2. production'[m.by] = production[m.by]
        BY <1>2, <2>1 DEF ManifestTrue, Grown, ProductionKept
    <2> QED
        BY <1>1, <1>2, <2>2 DEF ManifestTrue, Holds, Accepted, PlanOf
<1>3. ASSUME manifests' = manifests PROVE manifests \subseteq manifests' /\ ManifestsTrue'
    BY <1>2, <1>3 DEF ManifestsTrue
<1>4. ASSUME NEW p \in Productions, CommitEpisodeManifest(p)
      PROVE  manifests \subseteq manifests' /\ ManifestsTrue'
    <2>1. wf[p].step = "COMMIT_MANIFEST" /\ manifests' = manifests \cup {wf[p].built}
        BY <1>4 DEF CommitEpisodeManifest, At
    <2>2. PICK m \in Manifests : m = wf[p].built
        BY <2>1, EachSound DEF Sound, WorkTrue, Open
    <2>3. /\ m.by = p /\ m.runs = wf[p].runs /\ Accepted(p)
          /\ Holds(wf[p].runs, PlanOf(p), Len(ShotsOf[PlanOf(p)]))
        BY <2>1, <2>2, EachSound DEF Sound, WorkTrue, Open, Passed, Finishing
    <2>4. ManifestTrue(m)
        BY <2>3 DEF ManifestTrue
    <2>5. ManifestTrue(m)'
        BY <2>4, <1>2
    <2> QED
        BY <2>1, <2>2, <2>5, <1>2 DEF ManifestsTrue
<1>5. CASE UNCHANGED vars
    BY <1>3, <1>5 DEF vars, outputs
<1>6. CASE Commands
    BY <1>3, <1>6, CommandFootprint DEF CommandWrites
<1>7. ASSUME NEW p \in Productions, Workflow(p)
      PROVE  manifests \subseteq manifests' /\ ManifestsTrue'
    BY <1>3, <1>4, <1>7, WorkflowFootprint DEF WorkflowWrites
<1> QED
    BY <1>5, <1>6, <1>7, Zenon DEF Next

\* The episode revision of a manifest does not change.
LEMMA ForKept ==
    ASSUME ManifestsTrue, ProductionKept
    PROVE  \A m \in manifests : For(m)' = For(m)
<1> TAKE m \in manifests
<1>1. m.by \in Productions /\ Accepted(m.by)
    BY DEF ManifestsTrue, Manifests, ManifestTrue
<1> QED
    BY <1>1 DEF ProductionKept, For, PlanOf

\* A manifest is for an episode revision.
LEMMA ForIsRevision ==
    ASSUME ProductionTyped, ManifestsTrue
    PROVE  \A m \in manifests : For(m) \in Revisions
BY RevisionOfAssumption
   DEF ManifestsTrue, Manifests, ManifestTrue, ProductionTyped, Accepted, PlanOf, For

GatesTyped == /\ status \in [Revisions -> Gates]
              /\ locked \subseteq manifests
              /\ DecisionsTyped

GatesTrue == GatesTyped /\ Counted /\ ShotDecisionsBare /\ FinalTrue /\ LockedByDecision

\* A new manifest is in no decision: the gates stay true.
LEMMA GatesUntouched ==
    ASSUME GatesTrue, ManifestsTrue, ProductionKept, manifests \subseteq manifests',
           UNCHANGED <<status, locked, decisions>>
    PROVE  GatesTrue'
<1>1. Final' = Final
    BY DEF Final
<1>2. \A m \in manifests : For(m)' = For(m)
    BY ForKept
<1>3. FinalTrue'
    BY <1>1, <1>2 DEF GatesTrue, FinalTrue
<1>4. LockedByDecision'
    BY <1>1 DEF GatesTrue, LockedByDecision
<1> QED
    BY <1>3, <1>4 DEF GatesTrue, GatesTyped, DecisionsTyped, Counted, ShotDecisionsBare

\* Another decision can be counted when the bound allows it.
LEMMA RecordCounted ==
    ASSUME Counted, NEW d, Record(d)
    PROVE  Counted'
BY FS_AddElement DEF Counted, Record

\* The gates G1 and G2 move revisions that are not locked.
LEMMA AdvanceGates ==
    ASSUME ProductionTyped, GatesTrue, ManifestsTrue, ProductionKept,
           manifests' = manifests, NEW rs \in SUBSET Revisions, ApproveG1(rs) \/ ApproveG2(rs)
    PROVE  GatesTrue'
<1>1. PICK to \in {"G1_APPROVED", "G2_APPROVED"} :
          /\ \A r \in rs : status[r] # "G3_LOCKED"
          /\ status' = With(rs, to)
          /\ locked' = locked /\ decisions' = decisions
    BY DEF ApproveG1, ApproveG2, Advance
<1>2. Final' = Final
    BY <1>1 DEF Final
<1>3. \A m \in manifests : For(m)' = For(m)
    BY ForKept
<1>4. status' \in [Revisions -> Gates]
    BY <1>1 DEF GatesTrue, GatesTyped, Gates, With
<1>5. \A s \in Revisions : status[s] = "G3_LOCKED" => status'[s] = "G3_LOCKED"
    BY <1>1 DEF With
<1>6. FinalTrue'
    BY <1>2, <1>3, <1>5, ForIsRevision DEF GatesTrue, FinalTrue
<1>7. LockedByDecision'
    BY <1>1, <1>2 DEF GatesTrue, LockedByDecision
<1> QED
    BY <1>1, <1>4, <1>6, <1>7 DEF GatesTrue, GatesTyped, DecisionsTyped, Counted, ShotDecisionsBare

\* A decision of Gate Q1 is no final decision.
LEMMA ShotDecisionGates ==
    ASSUME GatesTrue, ManifestsTrue, ProductionKept, manifests' = manifests,
           NEW k \in RunIds, NEW verdict \in Verdicts, NEW others, DecideQ1(k, verdict, others)
    PROVE  GatesTrue'
<1> DEFINE d == Decision("Q1", verdict, {k}, {})
<1>1. Record(d) /\ status' = status /\ locked' = locked
    BY Zenon DEF DecideQ1
<1>2. /\ d.gate = "Q1" /\ d.manifests = {} /\ d \in Decisions
      /\ decisions' = decisions \cup {d}
    BY <1>1 DEF Decision, Decisions, Record
<1>3. Counted'
    BY <1>1, RecordCounted DEF GatesTrue
<1> HIDE DEF d
<1>4. Final' = Final
    BY <1>2 DEF Final
<1>5. \A m \in manifests : For(m)' = For(m)
    BY ForKept
<1>6. FinalTrue'
    BY <1>1, <1>4, <1>5 DEF GatesTrue, FinalTrue
<1>7. LockedByDecision'
    BY <1>1, <1>4 DEF GatesTrue, LockedByDecision
<1>8. GatesTyped' /\ ShotDecisionsBare'
    BY <1>1, <1>2 DEF GatesTrue, GatesTyped, DecisionsTyped, ShotDecisionsBare
<1> QED
    BY <1>3, <1>6, <1>7, <1>8 DEF GatesTrue

\* A rejection of Gate 3 is no final decision.
LEMMA RejectionGates ==
    ASSUME GatesTrue, ManifestsTrue, ProductionKept, manifests' = manifests, RejectG3
    PROVE  GatesTrue'
<1> DEFINE d == Decision("G3", "REJECTED", {}, {})
<1>1. Record(d) /\ status' = status /\ locked' = locked
    BY Zenon DEF RejectG3
<1>2. /\ d.gate = "G3" /\ d.verdict = "REJECTED" /\ d \in Decisions
      /\ decisions' = decisions \cup {d}
    BY <1>1 DEF Decision, Decisions, Record, ManifestsTrue, Verdicts
<1>3. Counted'
    BY <1>1, RecordCounted DEF GatesTrue
<1> HIDE DEF d
<1>4. Final' = Final
    BY <1>2 DEF Final
<1>5. \A m \in manifests : For(m)' = For(m)
    BY ForKept
<1>6. FinalTrue'
    BY <1>1, <1>4, <1>5 DEF GatesTrue, FinalTrue
<1>7. LockedByDecision'
    BY <1>1, <1>4 DEF GatesTrue, LockedByDecision
<1>8. GatesTyped' /\ ShotDecisionsBare'
    BY <1>1, <1>2 DEF GatesTrue, GatesTyped, DecisionsTyped, ShotDecisionsBare
<1> QED
    BY <1>3, <1>6, <1>7, <1>8 DEF GatesTrue

\* An approval of Gate 3 finds its revisions unlocked, hence without another
\* final decision, and locks them all; its manifests are theirs.
LEMMA ApprovalGates ==
    ASSUME ProductionTyped, GatesTrue, ManifestsTrue, ProductionKept, manifests' = manifests,
           NEW rs \in SUBSET Revisions, NEW set \in SUBSET manifests, ApproveG3(rs, set)
    PROVE  GatesTrue'
<1> DEFINE d == Decision("G3", "APPROVED", {}, set)
<1>1. /\ Record(d)
      /\ \A r \in rs : status[r] = "G2_APPROVED"
      /\ status' = With(rs, "G3_LOCKED")
      /\ locked' = locked \cup set
    BY Zenon DEF ApproveG3
<1>2. \A m \in set : m \in manifests /\ For(m) \in rs
    BY DEF ApproveG3, ManifestsOf, For
<1>3. /\ d.gate = "G3" /\ d.verdict = "APPROVED" /\ d.manifests = set /\ d \in Decisions
      /\ decisions' = decisions \cup {d}
    BY <1>1 DEF Decision, Decisions, Record, ManifestsTrue, Verdicts
<1>4. Counted'
    BY <1>1, RecordCounted DEF GatesTrue
<1> HIDE DEF d
<1>5. \A m \in manifests : For(m)' = For(m) /\ For(m) \in Revisions
    BY ForKept, ForIsRevision
<1>6. ShotDecisionsBare' /\ DecisionsTyped'
    BY <1>3 DEF GatesTrue, GatesTyped, DecisionsTyped, ShotDecisionsBare
<1>7. Final' = Final \cup {d}
    BY <1>3 DEF Final
<1>8. /\ status' \in [Revisions -> Gates]
      /\ \A s \in Revisions : status'[s] = IF s \in rs THEN "G3_LOCKED" ELSE status[s]
    BY <1>1 DEF GatesTrue, GatesTyped, Gates, With
<1>9. \A c \in Final : \A m \in c.manifests : m \in manifests /\ For(m) \notin rs
    BY <1>1 DEF GatesTrue, FinalTrue
<1>10. \A c \in Final' : c.manifests \subseteq manifests'
    BY <1>2, <1>3, <1>7, <1>9
<1>11. \A c \in Final' : \A m \in c.manifests : status'[For(m)'] = "G3_LOCKED"
    <2>1. ASSUME NEW c \in Final, NEW m \in c.manifests
          PROVE  status'[For(m)'] = "G3_LOCKED"
        BY <2>1, <1>5, <1>8, <1>9 DEF GatesTrue, FinalTrue
    <2>2. ASSUME NEW m \in set PROVE status'[For(m)'] = "G3_LOCKED"
        BY <2>2, <1>2, <1>5, <1>8
    <2> QED
        BY <2>1, <2>2, <1>3, <1>7
<1>12. ASSUME NEW b \in Final', NEW c \in Final',
              NEW m \in b.manifests, NEW n \in c.manifests, For(m)' = For(n)'
       PROVE  b = c
    <2>1. CASE b \in Final /\ c \in Final
        <3>1. For(m)' = For(m) /\ For(n)' = For(n)
            BY <2>1, <1>5, <1>9
        <3> QED
            BY <3>1, <2>1, <1>12 DEF GatesTrue, FinalTrue
    <2>2. CASE b \in Final /\ c = d
        BY <2>2, <1>2, <1>3, <1>5, <1>9, <1>12
    <2>3. CASE b = d /\ c \in Final
        BY <2>3, <1>2, <1>3, <1>5, <1>9, <1>12
    <2> QED
        BY <2>1, <2>2, <2>3, <1>7
<1>13. FinalTrue'
    BY <1>10, <1>11, <1>12 DEF FinalTrue
<1>14. LockedByDecision'
    BY <1>1, <1>3, <1>7 DEF GatesTrue, LockedByDecision
<1>15. locked' \subseteq manifests'
    BY <1>1, <1>2 DEF GatesTrue, GatesTyped
<1> QED
    BY <1>4, <1>6, <1>8, <1>13, <1>14, <1>15 DEF GatesTrue, GatesTyped

\* Every step keeps what the gates say.
LEMMA GatesStep ==
    ASSUME ProductionTyped, WorkSound, ManifestsTrue, GatesTrue, Grown, [Next]_vars
    PROVE  GatesTrue'
<1>1. manifests \subseteq manifests' /\ ProductionKept
    BY ManifestsStep DEF Grown
<1>2. ASSUME UNCHANGED <<status, locked, decisions>> PROVE GatesTrue'
    BY <1>1, <1>2, GatesUntouched
<1>3. CASE UNCHANGED vars
    BY <1>2, <1>3 DEF vars, gates
<1>4. CASE Commands
    <2>1. manifests' = manifests
        BY <1>4, CommandFootprint DEF CommandWrites
    <2>2. ASSUME NEW rs \in SUBSET Revisions, ApproveG1(rs) \/ ApproveG2(rs) PROVE GatesTrue'
        BY <1>1, <2>1, <2>2, AdvanceGates
    <2>3. ASSUME NEW k \in RunIds, NEW verdict \in Verdicts, NEW others \in SUBSET OpenReviews,
                 DecideQ1(k, verdict, others)
          PROVE  GatesTrue'
        BY <1>1, <2>1, <2>3, ShotDecisionGates
    <2>4. ASSUME NEW rs \in SUBSET Revisions, NEW ms \in SUBSET manifests, ApproveG3(rs, ms)
          PROVE  GatesTrue'
        BY <1>1, <2>1, <2>4, ApprovalGates
    <2>5. ASSUME RejectG3 PROVE GatesTrue'
        BY <1>1, <2>1, <2>5, RejectionGates
    <2> QED
        BY <1>2, <1>4, <2>2, <2>3, <2>4, <2>5, CommandFootprint, Zenon DEF CommandWrites
<1>5. ASSUME NEW p \in Productions, Workflow(p) PROVE GatesTrue'
    BY <1>2, <1>5, WorkflowFootprint DEF WorkflowWrites
<1> QED
    BY <1>3, <1>4, <1>5, Zenon DEF Next

----------------------------------------------------------------------------
(***************************************************************************)
(* The outputs and the other tables.                                       *)
(***************************************************************************)
OutputsTyped ==
    /\ delivered \subseteq Productions /\ withdrawn \subseteq delivered
    /\ publication \in [RunIds -> manifests \cup {NoManifest}]

OutputsTrue == OutputsTyped /\ DeliveryAsked /\ PublishedTrue

\* A publication lock is taken for a locked manifest that holds the run; a
\* delivery is committed by a production that asked for one.
LEMMA OutputsStep ==
    ASSUME ProductionTyped, WorkSound, OutputsTrue, ProductionKept, GatesTyped,
           manifests \subseteq manifests', locked \subseteq locked',
           manifests \subseteq Manifests, [Next]_vars
    PROVE  OutputsTrue'
<1>1. ASSUME UNCHANGED <<delivered, withdrawn, publication>> PROVE OutputsTrue'
    BY <1>1 DEF OutputsTrue, OutputsTyped, DeliveryAsked, PublishedTrue, ProductionKept,
                Accepted, PlanOf
<1>2. DeliveryAsked /\ delivered' = delivered => DeliveryAsked'
    BY DEF OutputsTrue, OutputsTyped, DeliveryAsked, ProductionKept, Accepted, PlanOf
<1>3. PublishedTrue /\ publication' = publication => PublishedTrue'
    BY DEF PublishedTrue
<1>4. ASSUME NEW p \in delivered, WithdrawDelivery(p) PROVE OutputsTrue'
    <2>1. /\ withdrawn' = withdrawn \cup {p}
          /\ delivered' = delivered /\ publication' = publication
        BY <1>4 DEF WithdrawDelivery
    <2> QED
        BY <1>2, <1>3, <2>1 DEF OutputsTrue, OutputsTyped
<1>5. ASSUME NEW p \in Productions, CommitEpisodePostProduction(p) PROVE OutputsTrue'
    <2>1. /\ wf[p].step = "COMMIT_POST"
          /\ delivered' = delivered \cup {p}
          /\ withdrawn' = withdrawn /\ publication' = publication
        BY <1>5, Zenon DEF CommitEpisodePostProduction, At
    <2>2. Accepted(p) /\ production[p].post
        BY <2>1, EachSound DEF Sound, WorkTrue, Open
    <2>3. DeliveryAsked'
        BY <2>1, <2>2 DEF OutputsTrue, OutputsTyped, DeliveryAsked, ProductionKept,
                          Accepted, PlanOf
    <2> QED
        BY <1>3, <2>1, <2>3 DEF OutputsTrue, OutputsTyped
<1>6. ASSUME NEW m \in manifests, NEW k \in m.runs, LockPublication(k, m)
      PROVE  OutputsTrue'
    <2>1. /\ m \in locked
          /\ publication' = [publication EXCEPT ![k] = m]
          /\ delivered' = delivered /\ withdrawn' = withdrawn
        BY <1>6 DEF LockPublication
    <2>2. k \in RunIds
        BY DEF Manifests
    <2>3. \A j \in RunIds : publication'[j] = IF j = k THEN m ELSE publication[j]
        BY <2>1 DEF OutputsTrue, OutputsTyped
    <2>4. PublishedTrue'
        BY <2>1, <2>3 DEF OutputsTrue, PublishedTrue
    <2>5. publication' \in [RunIds -> manifests' \cup {NoManifest}]
        BY <2>1 DEF OutputsTrue, OutputsTyped
    <2> QED
        BY <1>2, <2>1, <2>4, <2>5 DEF OutputsTrue, OutputsTyped
<1>7. CASE UNCHANGED vars
    BY <1>1, <1>7 DEF vars, outputs
<1>8. CASE Commands
    <2>1. delivered' = delivered
        BY <1>8, CommandFootprint DEF CommandWrites
    <2>2. CASE publication' = publication /\ withdrawn' = withdrawn
        BY <1>1, <2>1, <2>2
    <2> QED
        BY <1>4, <1>6, <1>8, <2>2, CommandFootprint, Zenon DEF CommandWrites
<1>9. ASSUME NEW p \in Productions, Workflow(p) PROVE OutputsTrue'
    <2>1. withdrawn' = withdrawn /\ publication' = publication
        BY <1>9, WorkflowFootprint DEF WorkflowWrites
    <2>2. CASE delivered' = delivered
        BY <1>1, <2>1, <2>2
    <2> QED
        BY <1>5, <1>9, <2>2, WorkflowFootprint DEF WorkflowWrites
<1> QED
    BY <1>7, <1>8, <1>9, Zenon DEF Next

\* No decision unlocks a manifest.
LEMMA LockedGrows ==
    ASSUME [Next]_vars
    PROVE  locked \subseteq locked'
<1>1. CASE UNCHANGED vars
    BY <1>1 DEF vars, gates
<1>2. CASE Commands
    <2>1. ASSUME NEW rs \in SUBSET Revisions, ApproveG1(rs) \/ ApproveG2(rs)
          PROVE  locked \subseteq locked'
        BY <2>1 DEF ApproveG1, ApproveG2, Advance
    <2>2. ASSUME NEW k \in RunIds, NEW verdict \in Verdicts, NEW others \in SUBSET OpenReviews,
                 DecideQ1(k, verdict, others)
          PROVE  locked \subseteq locked'
        BY <2>2, Zenon DEF DecideQ1
    <2>3. ASSUME NEW rs, NEW ms, ApproveG3(rs, ms) \/ RejectG3
          PROVE  locked \subseteq locked'
        BY <2>3 DEF ApproveG3, RejectG3
    <2>4. \/ locked' = locked
          \/ \E rs \in SUBSET Revisions : ApproveG1(rs) \/ ApproveG2(rs)
          \/ \E k \in RunIds, verdict \in Verdicts, others \in SUBSET OpenReviews :
                 DecideQ1(k, verdict, others)
          \/ \E rs \in SUBSET Revisions, ms \in SUBSET manifests : ApproveG3(rs, ms)
          \/ RejectG3
        BY <1>2, CommandFootprint, Zenon DEF CommandWrites
    <2> QED
        BY <2>1, <2>2, <2>3, <2>4
<1>3. ASSUME NEW p \in Productions, Workflow(p) PROVE locked \subseteq locked'
    BY <1>3, WorkflowFootprint DEF WorkflowWrites
<1> QED
    BY <1>1, <1>2, <1>3, Zenon DEF Next

RunRecords == [state : RunStates, owner : 0..MaxProductions, qc : BOOLEAN,
               review : {"NONE", "OPEN"} \cup Verdicts]

RunsTyped ==
    /\ lifecycle \in [Shots -> Lifecycle]
    /\ run \in [RunIds -> RunRecords]

TablesTyped ==
    /\ licensed \subseteq Assets
    /\ freshness \in [Shots -> {"FRESH", "STALE"}]
    /\ plan \in [Plans -> {"NONE", "READY_FOR_CONFIRMATION", "BLOCKED"}]
    /\ RunsTyped
    /\ g3Open \subseteq manifests

\* A step of a workflow keeps the tables typed.
LEMMA WorkflowTables ==
    ASSUME ProductionTyped, WorkSound, TablesTyped, NEW p \in Productions, Workflow(p),
           manifests \subseteq manifests'
    PROVE  TablesTyped'
<1>1. Open(p) => PlanOf(p) \in Plans /\ ShotAt(p) \in Shots /\ RunOf(p) \in RunIds
                 /\ RunOf(p).shot = ShotAt(p)
    BY EachSound, AtRun
<1>2. p \in 0..MaxProductions
    BY MaxIsNat DEF Productions
<1>3. ASSUME UNCHANGED <<lifecycle, run>> PROVE RunsTyped'
    BY <1>3 DEF TablesTyped, RunsTyped
<1>4. ASSUME CreateWorkflowRun(p) PROVE RunsTyped'
    <2>1. /\ lifecycle' = [lifecycle EXCEPT ![RunOf(p).shot] = "RUNNING"]
          /\ \/ run' = [run EXCEPT ![RunOf(p)].state = "VALIDATED", ![RunOf(p)].owner = p]
             \/ run' = run
        BY <1>4 DEF CreateWorkflowRun
    <2>2. lifecycle' \in [Shots -> Lifecycle]
        BY <2>1 DEF TablesTyped, RunsTyped, Lifecycle
    <2>3. run' \in [RunIds -> RunRecords]
        BY <1>2, <2>1 DEF TablesTyped, RunsTyped, RunRecords, RunStates
    <2> QED
        BY <2>2, <2>3 DEF RunsTyped
<1>5. ASSUME ExecuteProviderJob(p) PROVE RunsTyped'
    <2>1. \/ /\ lifecycle' = [lifecycle EXCEPT ![RunOf(p).shot] = "QC_PENDING"]
             /\ run' = [run EXCEPT ![RunOf(p)].state = "SUCCEEDED"]
          \/ UNCHANGED <<lifecycle, run>>
        BY <1>5, Zenon DEF ExecuteProviderJob
    <2> QED
        BY <1>3, <2>1 DEF TablesTyped, RunsTyped, RunRecords, RunStates, Lifecycle
<1>6. ASSUME ProviderJobFails(p) PROVE RunsTyped'
    <2>1. lifecycle' = lifecycle /\ run' = [run EXCEPT ![RunOf(p)].state = "FAILED"]
        BY <1>6 DEF ProviderJobFails
    <2> QED
        BY <2>1 DEF TablesTyped, RunsTyped, RunRecords, RunStates
<1>7. ASSUME RecordAutomaticQC(p) PROVE RunsTyped'
    <2>1. \/ /\ lifecycle' = [lifecycle EXCEPT ![RunOf(p).shot] = "REVIEW"]
             /\ run' = [run EXCEPT ![RunOf(p)].qc = TRUE]
          \/ UNCHANGED <<lifecycle, run>>
        BY <1>7, Zenon DEF RecordAutomaticQC
    <2>2. ASSUME lifecycle' = [lifecycle EXCEPT ![RunOf(p).shot] = "REVIEW"]
          PROVE  lifecycle' \in [Shots -> Lifecycle]
        BY <2>2 DEF TablesTyped, RunsTyped, Lifecycle
    <2>3. ASSUME run' = [run EXCEPT ![RunOf(p)].qc = TRUE]
          PROVE  run' \in [RunIds -> RunRecords]
        BY <2>3 DEF TablesTyped, RunsTyped, RunRecords
    <2> QED
        BY <1>3, <2>1, <2>2, <2>3 DEF RunsTyped
<1>8. ASSUME OpenShotReview(p) PROVE RunsTyped'
    <2>1. /\ lifecycle' = lifecycle
          /\ run' = run \/ run' = [run EXCEPT ![RunOf(p)].review = "OPEN"]
        BY <1>8 DEF OpenShotReview
    <2> QED
        BY <1>3, <2>1 DEF TablesTyped, RunsTyped, RunRecords
<1>9. ASSUME RecordShotIntervention(p) PROVE RunsTyped'
    <2>1. lifecycle' = [lifecycle EXCEPT ![ShotAt(p)] = "AUTO_QC_FAILED"] /\ run' = run
        BY <1>9 DEF RecordShotIntervention
    <2> QED
        BY <2>1 DEF TablesTyped, RunsTyped, Lifecycle
<1>10. RunsTyped'
    BY <1>3, <1>4, <1>5, <1>6, <1>7, <1>8, <1>9, WorkflowFootprint DEF WorkflowWrites
<1>11. g3Open' \subseteq manifests'
    <2>1. CASE CommitEpisodeManifest(p)
        BY <2>1 DEF CommitEpisodeManifest, TablesTyped
    <2> QED
        BY <2>1, WorkflowFootprint DEF WorkflowWrites, TablesTyped
<1> QED
    BY <1>10, <1>11, WorkflowFootprint DEF WorkflowWrites, TablesTyped, inputs

\* A command keeps the tables typed.
LEMMA CommandTables ==
    ASSUME TablesTyped, Commands
    PROVE  TablesTyped'
<1>1. ASSUME CreateSourceRevision PROVE TablesTyped'
    BY <1>1 DEF CreateSourceRevision, TablesTyped, RunsTyped, gates, outputs
<1>2. ASSUME NEW a \in Assets, RevokeRights(a) PROVE TablesTyped'
    BY <1>2 DEF RevokeRights, TablesTyped, RunsTyped, gates, outputs
<1>3. ASSUME NEW p \in delivered, WithdrawDelivery(p) PROVE TablesTyped'
    BY <1>3 DEF WithdrawDelivery, TablesTyped, RunsTyped, inputs, gates
<1>4. ASSUME NEW l \in Plans, CreateGenerationPlan(l) PROVE TablesTyped'
    <2>1. PICK state \in {"READY_FOR_CONFIRMATION", "BLOCKED"} :
              plan' = [plan EXCEPT ![l] = state]
        BY <1>4 DEF CreateGenerationPlan
    <2> QED
        BY <1>4, <2>1 DEF CreateGenerationPlan, TablesTyped, RunsTyped, gates, outputs
<1>5. ASSUME NEW p \in Productions, NEW l \in Plans, NEW post \in Options,
             PrepareProduction(p, l, post)
      PROVE  TablesTyped'
    BY <1>5 DEF PrepareProduction, TablesTyped, RunsTyped, gates, outputs
<1>6. ASSUME NEW p \in Productions, StartEpisode(p) PROVE TablesTyped'
    BY <1>6 DEF StartEpisode, TablesTyped, RunsTyped, inputs, gates, outputs
<1>7. ASSUME NEW rs \in SUBSET Revisions, ApproveG1(rs) \/ ApproveG2(rs) PROVE TablesTyped'
    BY <1>7 DEF ApproveG1, ApproveG2, Advance, TablesTyped, RunsTyped, inputs, outputs
<1>8. ASSUME NEW k \in RunIds, NEW verdict \in Verdicts, NEW others \in SUBSET OpenReviews,
             DecideQ1(k, verdict, others)
      PROVE  TablesTyped'
    <2>1. /\ lifecycle' = [lifecycle EXCEPT ![k.shot] = "APPROVED"] \/ lifecycle' = lifecycle
          /\ run' = [j \in RunIds |-> IF j \in OpenReviews \cap (others \cup {k})
                                       THEN [run[j] EXCEPT !.review = verdict] ELSE run[j]]
          /\ UNCHANGED <<inputs, g3Open, outputs>>
        BY <1>8, Zenon DEF DecideQ1
    <2>2. \A j \in RunIds : [run[j] EXCEPT !.review = verdict] \in RunRecords
        BY DEF TablesTyped, RunsTyped, RunRecords
    <2>3. run' \in [RunIds -> RunRecords]
        BY <2>1, <2>2 DEF TablesTyped, RunsTyped
    <2>4. RunsTyped'
        BY <2>1, <2>3 DEF TablesTyped, RunsTyped, Lifecycle
    <2> QED
        BY <2>1, <2>4 DEF TablesTyped, inputs, outputs
<1>9. ASSUME NEW rs \in SUBSET Revisions, NEW ms \in SUBSET manifests, ApproveG3(rs, ms)
      PROVE  TablesTyped'
    BY <1>9 DEF ApproveG3, TablesTyped, RunsTyped, inputs, outputs
<1>10. ASSUME RejectG3 PROVE TablesTyped'
    BY <1>10 DEF RejectG3, TablesTyped, RunsTyped, inputs, outputs
<1>11. ASSUME NEW d \in decisions, RecordApproval(d) PROVE TablesTyped'
    BY <1>11 DEF RecordApproval, TablesTyped, RunsTyped, inputs, gates, outputs
<1>12. ASSUME NEW m \in manifests, NEW k \in m.runs, LockPublication(k, m) PROVE TablesTyped'
    BY <1>12 DEF LockPublication, TablesTyped, RunsTyped, inputs, gates
<1> QED
    BY <1>1, <1>2, <1>3, <1>4, <1>5, <1>6, <1>7, <1>8, <1>9, <1>10, <1>11, <1>12 DEF Commands

----------------------------------------------------------------------------
(***************************************************************************)
(* The invariant, and what it implies.                                     *)
(***************************************************************************)
IInv ==
    /\ TablesTyped /\ ProductionTyped
    /\ AcceptedInOrder
    /\ WorkSound
    /\ ManifestsTrue
    /\ GatesTrue
    /\ OutputsTrue

\* The invariant holds at first.
LEMMA InitTrue ==
    ASSUME Init
    PROVE  IInv
<1>1. \A p \in Productions :
          /\ ~Accepted(p) /\ inbox[p] = {}
          /\ wf[p] = [step |-> "IDLE", shot |-> 1, attempt |-> 1, runs |-> {},
                      built |-> NoManifest, result |-> "NONE"]
    BY DEF Init, Accepted, PlanOf, NotStarted
<1>2. TablesTyped
    <2>1. run \in [RunIds -> RunRecords]
        BY MaxIsNat DEF Init, RunRecords, RunStates
    <2> QED
        BY <2>1 DEF Init, TablesTyped, RunsTyped, Lifecycle
<1>3. ProductionTyped /\ AcceptedInOrder
    BY <1>1 DEF Init, ProductionTyped, AcceptedInOrder
<1>4. WorkSound
    <2>1. wf \in [Productions -> WorkflowStates]
        <3>1. NotStarted \in WorkflowStates
            BY DEF NotStarted, WorkflowStates, Steps, Results
        <3> QED
            BY <3>1 DEF Init
    <2>2. inbox \in [Productions -> SUBSET decisions]
        BY DEF Init
    <2> QED
        BY <1>1, <2>1, <2>2 DEF WorkSound, WorkTyped, WorkTrue, IdleTrue, Open
<1>5. ManifestsTrue
    BY DEF Init, ManifestsTrue
<1>6. GatesTrue
    <2>1. Counted
        BY FS_EmptySet, MaxIsNat DEF Init, Counted
    <2> QED
        BY <2>1 DEF Init, GatesTrue, GatesTyped, DecisionsTyped, Gates, ShotDecisionsBare,
                    FinalTrue, Final, LockedByDecision
<1>7. OutputsTrue
    BY DEF Init, OutputsTrue, OutputsTyped, DeliveryAsked, PublishedTrue
<1> QED
    BY <1>2, <1>3, <1>4, <1>5, <1>6, <1>7 DEF IInv

\* What a step keeps and what it only adds to.
LEMMA StepGrows ==
    ASSUME IInv, [Next]_vars
    PROVE  /\ Grown
           /\ manifests \subseteq manifests' /\ ManifestsTrue'
           /\ locked \subseteq locked'
<1>1. Grown
    BY ProductionStep, DecisionsGrow DEF IInv, Grown
<1> QED
    BY <1>1, ManifestsStep, LockedGrows DEF IInv

\* Every step keeps the invariant.
LEMMA StepTrue ==
    ASSUME IInv, [Next]_vars
    PROVE  IInv'
<1>1. Grown /\ manifests \subseteq manifests' /\ ManifestsTrue' /\ locked \subseteq locked'
    BY StepGrows
<1>2. ProductionTyped' /\ AcceptedInOrder'
    BY ProductionStep DEF IInv
<1>3. TablesTyped'
    <2>1. CASE UNCHANGED vars
        BY <2>1 DEF IInv, TablesTyped, RunsTyped, vars, inputs, gates, outputs
    <2>2. CASE Commands
        BY <2>2, CommandTables DEF IInv
    <2>3. ASSUME NEW p \in Productions, Workflow(p) PROVE TablesTyped'
        BY <1>1, <2>3, WorkflowTables DEF IInv
    <2> QED
        BY <2>1, <2>2, <2>3, Zenon DEF Next
<1>4. WorkSound'
    <2>1. CASE UNCHANGED vars
        BY <2>1, <1>1, NoneMoves DEF IInv, WorkSound, WorkTyped, vars, gates
    <2>2. CASE Commands
        BY <2>2, <1>1, CommandSound DEF IInv
    <2>3. ASSUME NEW p \in Productions, Workflow(p) PROVE WorkSound'
        BY <1>1, <2>3, WorkflowSound DEF IInv, GatesTrue, GatesTyped
    <2> QED
        BY <2>1, <2>2, <2>3, Zenon DEF Next
<1>5. GatesTrue'
    BY <1>1, GatesStep DEF IInv
<1>6. OutputsTrue'
    BY <1>1, OutputsStep DEF IInv, Grown, GatesTrue, ManifestsTrue
<1> QED
    BY <1>1, <1>2, <1>3, <1>4, <1>5, <1>6 DEF IInv

\* The invariant holds in every reachable state, for every set of plans, shots
\* and revisions and every number of productions and decisions.
THEOREM Invariance == Spec => []IInv
BY InitTrue, StepTrue, PTL DEF Spec

\* Every table and every workflow has the values its schema or its code allows
\* (repository/workflow_ledger.go, orchestration/workflow.go).
THEOREM TypeCorrect == Spec => []TypeOK
<1>1. ASSUME IInv PROVE TypeOK
    <2>1. \A p \in Productions :
              /\ wf[p].step \in Steps
              /\ wf[p].shot \in Nat /\ wf[p].attempt \in 1..2
              /\ wf[p].runs \subseteq RunIds
              /\ wf[p].built \in Manifests \cup {NoManifest}
              /\ wf[p].result \in Results
              /\ inbox[p] \subseteq decisions
        BY <1>1 DEF IInv, WorkSound, WorkTyped, WorkflowStates
    <2>2. run \in [RunIds -> [state : RunStates, owner : 0..MaxProductions, qc : BOOLEAN,
                              review : {"NONE", "OPEN"} \cup Verdicts]]
        BY <1>1 DEF IInv, TablesTyped, RunsTyped, RunRecords
    <2>3. /\ decisions \subseteq Decisions
          /\ publication \in [RunIds -> manifests \cup {NoManifest}]
        BY <1>1 DEF IInv, GatesTrue, GatesTyped, DecisionsTyped, OutputsTrue, OutputsTyped
    <2> QED
        BY <1>1, <2>1, <2>2, <2>3, Zenon
           DEF IInv, TypeOK, TablesTyped, RunsTyped, ProductionTyped, ManifestsTrue,
               GatesTrue, GatesTyped, OutputsTrue, OutputsTyped, Steps
<1> QED
    BY <1>1, Invariance, PTL

\* A manifest that reaches Gate 3 holds exactly one run of every shot of its
\* plan, each approved by a reviewer, in whatever order, how often and how late
\* the decisions were delivered (waitForShotDecision, CommitEpisodeManifest).
THEOREM OnlyReviewedReachGate3 == Spec => []ManifestIsReviewed
<1>1. ASSUME IInv PROVE ManifestIsReviewed
    <2> SUFFICES ASSUME NEW m \in manifests
                 PROVE  /\ \A k \in m.runs : ApprovedRun(k)
                        /\ \A i \in 1..Len(ShotsOf[PlanOf(m.by)]) :
                              Cardinality({k \in m.runs :
                                               k.shot = ShotsOf[PlanOf(m.by)][i]}) = 1
        BY DEF ManifestIsReviewed
    <2>1. Holds(m.runs, PlanOf(m.by), Len(ShotsOf[PlanOf(m.by)]))
        BY <1>1 DEF IInv, ManifestsTrue, ManifestTrue
    <2>2. ASSUME NEW i \in 1..Len(ShotsOf[PlanOf(m.by)])
          PROVE  Cardinality({k \in m.runs : k.shot = ShotsOf[PlanOf(m.by)][i]}) = 1
        <3>1. PICK k \in m.runs : k.shot = ShotsOf[PlanOf(m.by)][i]
            BY <2>1 DEF Holds
        <3>2. {j \in m.runs : j.shot = ShotsOf[PlanOf(m.by)][i]} = {k}
            BY <2>1, <3>1 DEF Holds
        <3> QED
            BY <3>2, FS_Singleton
    <2> QED
        BY <2>1, <2>2 DEF Holds
<1> QED
    BY <1>1, Invariance, PTL

\* A run is published only in a manifest that the one final Gate 3 decision of
\* its episode revision names, and the revision is then locked
\* (LockPublication, applyApprovedGate).
THEOREM PublishedAfterGate3 == Spec => []PublicationFollowsGate3
<1>1. ASSUME IInv PROVE PublicationFollowsGate3
    <2> SUFFICES ASSUME NEW r \in Revisions
                 PROVE  LET mine  == ManifestsOf(r)
                            final == {d \in decisions :
                                         /\ d.gate = "G3" /\ d.verdict = "APPROVED"
                                         /\ d.manifests \cap mine # {}}
                        IN /\ Cardinality(final) <= 1
                           /\ \A k \in RunIds :
                                 publication[k] \in mine =>
                                     /\ status[r] = "G3_LOCKED"
                                     /\ k \in publication[k].runs
                                     /\ \E d \in final : publication[k] \in d.manifests
        BY DEF PublicationFollowsGate3
    <2> DEFINE final == {d \in decisions : /\ d.gate = "G3" /\ d.verdict = "APPROVED"
                                           /\ d.manifests \cap ManifestsOf(r) # {}}
    <2>1. \A d \in final : d \in Final /\ \E m \in d.manifests : For(m) = r
        BY DEF Final, ManifestsOf, For
    <2>2. \A c, d \in final : c = d
        BY <1>1, <2>1 DEF IInv, GatesTrue, FinalTrue
    <2>3. Cardinality(final) <= 1
        <3>1. CASE final = {}
            <4>1. Cardinality(final) = 0
                BY <3>1, FS_EmptySet
            <4> QED
                BY <4>1
        <3>2. ASSUME NEW d \in final PROVE Cardinality(final) <= 1
            <4>1. final = {d}
                BY <2>2
            <4>2. Cardinality(final) = 1
                BY <4>1, FS_Singleton
            <4> QED
                BY <4>2
        <3> QED
            BY <3>1, <3>2
    <2>4. ASSUME NEW k \in RunIds, publication[k] \in ManifestsOf(r)
          PROVE  /\ status[r] = "G3_LOCKED"
                 /\ k \in publication[k].runs
                 /\ \E d \in final : publication[k] \in d.manifests
        <3>1. publication[k] \in manifests /\ For(publication[k]) = r
            BY <2>4 DEF ManifestsOf, For
        <3>2. publication[k] # NoManifest
            BY <1>1, <3>1, NoManifestAssumption DEF IInv, ManifestsTrue
        <3>3. publication[k] \in locked /\ k \in publication[k].runs
            BY <1>1, <3>2 DEF IInv, OutputsTrue, PublishedTrue
        <3>4. PICK d \in Final : publication[k] \in d.manifests
            BY <1>1, <3>3 DEF IInv, GatesTrue, LockedByDecision
        <3>5. status[r] = "G3_LOCKED"
            BY <1>1, <3>1, <3>4 DEF IInv, GatesTrue, FinalTrue
        <3>6. d \in final
            BY <2>4, <3>4 DEF Final
        <3> QED
            BY <3>3, <3>4, <3>5, <3>6
    <2> QED
        BY <2>3, <2>4
<1> QED
    BY <1>1, Invariance, PTL

----------------------------------------------------------------------------
(***************************************************************************)
(* What no step does.                                                      *)
(***************************************************************************)
\* A revision that is locked stays locked.
LEMMA LockedStays ==
    ASSUME GatesTyped, NEW r \in Revisions, status[r] = "G3_LOCKED", [Next]_vars
    PROVE  status'[r] = "G3_LOCKED"
<1>1. CASE UNCHANGED vars
    BY <1>1 DEF vars, gates
<1>2. CASE Commands
    <2>1. ASSUME NEW rs \in SUBSET Revisions, ApproveG1(rs) \/ ApproveG2(rs)
          PROVE  status'[r] = "G3_LOCKED"
        BY <2>1 DEF ApproveG1, ApproveG2, Advance, With
    <2>2. ASSUME NEW k \in RunIds, NEW verdict \in Verdicts, NEW others \in SUBSET OpenReviews,
                 DecideQ1(k, verdict, others)
          PROVE  status'[r] = "G3_LOCKED"
        BY <2>2, Zenon DEF DecideQ1
    <2>3. ASSUME NEW rs, NEW ms, ApproveG3(rs, ms) \/ RejectG3
          PROVE  status'[r] = "G3_LOCKED"
        BY <2>3 DEF ApproveG3, RejectG3, With
    <2>4. \/ status' = status
          \/ \E rs \in SUBSET Revisions : ApproveG1(rs) \/ ApproveG2(rs)
          \/ \E k \in RunIds, verdict \in Verdicts, others \in SUBSET OpenReviews :
                 DecideQ1(k, verdict, others)
          \/ \E rs \in SUBSET Revisions, ms \in SUBSET manifests : ApproveG3(rs, ms)
          \/ RejectG3
        BY <1>2, CommandFootprint, Zenon DEF CommandWrites
    <2> QED
        BY <2>1, <2>2, <2>3, <2>4
<1>3. ASSUME NEW p \in Productions, Workflow(p) PROVE status' = status
    BY <1>3, WorkflowFootprint DEF WorkflowWrites
<1> QED
    BY <1>1, <1>2, <1>3, Zenon DEF Next

\* What an activity commits to the outputs of the episode, and under what.
LEMMA Committed ==
    ASSUME IInv, [Next]_vars
    PROVE  /\ manifests' = manifests \/ \E p \in Productions :
                  /\ Accepted(p) /\ Rights /\ InProduction(p) /\ ActiveDelivery(p)
                  /\ \E m \in Manifests : /\ m.by = p
                                          /\ manifests' = manifests \cup {m}
           /\ delivered' = delivered \/ \E p \in Productions :
                  /\ Accepted(p) /\ Rights /\ InProduction(p)
                  /\ delivered' = delivered \cup {p}
<1> DEFINE MANIFEST == \E p \in Productions :
                           /\ Accepted(p) /\ Rights /\ InProduction(p) /\ ActiveDelivery(p)
                           /\ \E m \in Manifests : /\ m.by = p
                                                   /\ manifests' = manifests \cup {m}
           DELIVERY == \E p \in Productions :
                           /\ Accepted(p) /\ Rights /\ InProduction(p)
                           /\ delivered' = delivered \cup {p}
<1>1. ASSUME NEW p \in Productions, CommitEpisodeManifest(p) PROVE MANIFEST
    <2>1. /\ wf[p].step = "COMMIT_MANIFEST" /\ manifests' = manifests \cup {wf[p].built}
          /\ Rights /\ InProduction(p) /\ ActiveDelivery(p)
        BY <1>1 DEF CommitEpisodeManifest, At
    <2>2. Accepted(p) /\ wf[p].built \in Manifests /\ wf[p].built.by = p
        BY <2>1, EachSound DEF IInv, Sound, WorkTrue, Open
    <2> QED
        BY <2>1, <2>2
<1>2. ASSUME NEW p \in Productions, CommitEpisodePostProduction(p) PROVE DELIVERY
    <2>1. /\ wf[p].step = "COMMIT_POST" /\ delivered' = delivered \cup {p}
          /\ Rights /\ InProduction(p)
        BY <1>2, Zenon DEF CommitEpisodePostProduction, At
    <2>2. Accepted(p)
        BY <2>1, EachSound DEF IInv, Sound, WorkTrue, Open
    <2> QED
        BY <2>1, <2>2
<1> HIDE DEF MANIFEST, DELIVERY
<1>3. ASSUME UNCHANGED vars PROVE UNCHANGED <<manifests, delivered>>
    BY <1>3 DEF vars, outputs
<1>4. ASSUME Commands PROVE UNCHANGED <<manifests, delivered>>
    BY <1>4, CommandFootprint DEF CommandWrites
<1>5. ASSUME NEW p \in Productions, Workflow(p)
      PROVE  (manifests' = manifests \/ MANIFEST) /\ (delivered' = delivered \/ DELIVERY)
    BY <1>1, <1>2, <1>5, WorkflowFootprint, Zenon DEF WorkflowWrites
<1>6. (manifests' = manifests \/ MANIFEST) /\ (delivered' = delivered \/ DELIVERY)
    <2>1. CASE UNCHANGED <<manifests, delivered>>
        BY <2>1
    <2> QED
        BY <2>1, <1>3, <1>4, <1>5, Zenon DEF Next
<1> QED
    BY <1>6 DEF MANIFEST, DELIVERY

\* A revision locked at Gate 3 stays locked, and no activity that was under way
\* adds a manifest or a delivery to it (CommitEpisodeManifest,
\* CommitEpisodePostProduction).
THEOREM LockIsFinal == Spec => LockedRevisionFrozen
<1>1. ASSUME IInv, [Next]_vars, NEW r \in Revisions, status[r] = "G3_LOCKED"
      PROVE  /\ status'[r] = "G3_LOCKED"
             /\ ManifestsOf(r)' = ManifestsOf(r)
             /\ \A p \in delivered' \ delivered : RevisionOf[PlanOf(p)] # r
    <2>1. status'[r] = "G3_LOCKED"
        BY <1>1, LockedStays DEF IInv, GatesTrue
    <2>2. \A m \in manifests : For(m)' = For(m)
        BY <1>1, ForKept, StepGrows DEF IInv, Grown
    <2>3. ManifestsOf(r)' = ManifestsOf(r)
        <3>1. CASE manifests' = manifests
            BY <3>1, <2>2 DEF ManifestsOf, For
        <3>2. ASSUME NEW p \in Productions, Accepted(p), InProduction(p),
                     NEW m \in Manifests, m.by = p, manifests' = manifests \cup {m}
              PROVE  ManifestsOf(r)' = ManifestsOf(r)
            <4>1. production'[p] = production[p]
                BY <1>1, <3>2, StepGrows DEF Grown, ProductionKept
            <4>2. For(m)' = For(m) /\ For(m) # r
                BY <1>1, <3>2, <4>1 DEF For, PlanOf, InProduction
            <4> QED
                BY <2>2, <3>2, <4>2 DEF ManifestsOf, For
        <3> QED
            BY <1>1, <3>1, <3>2, Committed
    <2>4. \A p \in delivered' \ delivered : RevisionOf[PlanOf(p)] # r
        BY <1>1, Committed DEF InProduction
    <2> QED
        BY <2>1, <2>3, <2>4
<1>2. ASSUME IInv, [Next]_vars
      PROVE  [\A r \in Revisions :
                  status[r] = "G3_LOCKED" =>
                      /\ status'[r] = "G3_LOCKED"
                      /\ ManifestsOf(r)' = ManifestsOf(r)
                      /\ \A p \in delivered' \ delivered : RevisionOf[PlanOf(p)] # r]_vars
    BY <1>1, <1>2
<1> QED
    BY <1>2, Invariance, PTL DEF Spec, LockedRevisionFrozen

\* A licence, a consent or an artifact withdrawn while an activity runs stops
\* its commit: nothing more reaches the outputs of the episode
\* (requireCurrentEpisodeAssetRights, requireActivePostProductionArtifacts).
THEOREM RightsHoldAtCommit == Spec => NothingCommittedWithoutRights
<1>1. ASSUME IInv, [Next]_vars
      PROVE  /\ ~Rights => UNCHANGED <<delivered, manifests>>
             /\ \A m \in manifests' \ manifests : m.by \notin withdrawn
    <2>1. ~Rights => UNCHANGED <<delivered, manifests>>
        BY <1>1, Committed
    <2>2. ASSUME NEW m \in manifests' \ manifests PROVE m.by \notin withdrawn
        <3>1. PICK p \in Productions : m.by = p /\ ActiveDelivery(p)
            BY <1>1, <2>2, Committed
        <3>2. p \in withdrawn => production[p].post
            BY <1>1 DEF IInv, OutputsTrue, OutputsTyped, DeliveryAsked
        <3> QED
            BY <3>1, <3>2 DEF ActiveDelivery
    <2> QED
        BY <2>1, <2>2
<1>2. ASSUME IInv, [Next]_vars
      PROVE  [/\ ~Rights => UNCHANGED <<delivered, manifests>>
              /\ \A m \in manifests' \ manifests : m.by \notin withdrawn]_vars
    BY <1>1, <1>2
<1> QED
    BY <1>2, Invariance, PTL DEF Spec, NothingCommittedWithoutRights

----------------------------------------------------------------------------
(***************************************************************************)
(* The gate of the episode, step by step: a commit of a manifest offers    *)
(* it, an approved Gate 3 decision decides its revisions and chooses among *)
(* their manifests, a publication lock publishes, and every other step     *)
(* leaves what its readers see alone.                                      *)
(***************************************************************************)
Decided == {r \in Revisions : status[r] = "G3_LOCKED"}

\* What a manifest is offered for does not change.
LEMMA OfferedKept ==
    ASSUME IInv, ProductionKept, NEW r \in Revisions
    PROVE  {m \in manifests : RevisionOf[PlanOf(m.by)]' = r} = ManifestsOf(r)
<1>1. \A m \in manifests : For(m)' = For(m)
    BY ForKept DEF IInv
<1> QED
    BY <1>1 DEF ManifestsOf, For

\* A step that commits no manifest, decision or publication changes nothing of
\* the gate.
LEMMA GateUnchanged ==
    ASSUME IInv, ProductionKept, UNCHANGED <<manifests, locked, publication>>, Decided' = Decided
    PROVE  UNCHANGED Gate!gate
<1>1. \A r \in Revisions : ManifestsOf(r)' = ManifestsOf(r)
    BY OfferedKept DEF ManifestsOf
<1> QED
    BY <1>1 DEF Gate!gate, Decided

\* A manifest that is new to the episode is offered for the revision it is for.
LEMMA GateOfferNew ==
    ASSUME IInv, Grown, NEW r \in Revisions, NEW m \in Manifests, m \notin manifests,
           Accepted(m.by), RevisionOf[PlanOf(m.by)] = r, status[r] = "G2_APPROVED",
           manifests' = manifests \cup {m}, UNCHANGED <<status, locked, publication>>
    PROVE  Gate!Next
<1>1. RevisionOf[PlanOf(m.by)]' = r
    BY DEF Grown, ProductionKept, PlanOf, Manifests
<1>2. ASSUME NEW s \in Revisions
      PROVE  ManifestsOf(s)' = IF s = r THEN ManifestsOf(s) \cup {m} ELSE ManifestsOf(s)
    <2>1. {n \in manifests : RevisionOf[PlanOf(n.by)]' = s} = ManifestsOf(s)
        BY OfferedKept DEF Grown
    <2>2. ManifestsOf(s)' = {n \in manifests \cup {m} : RevisionOf[PlanOf(n.by)]' = s}
        BY DEF ManifestsOf
    <2> QED
        BY <1>1, <2>1, <2>2
<1>3. r \notin Decided /\ Decided' = Decided
    BY DEF Decided
<1>4. \A s \in Revisions : m \notin ManifestsOf(s)
    BY DEF ManifestsOf
<1>5. [s \in Revisions |-> ManifestsOf(s)]'
          = [[s \in Revisions |-> ManifestsOf(s)] EXCEPT
                ![r] = [s \in Revisions |-> ManifestsOf(s)][r] \cup {m}]
    BY <1>2
<1>6. Gate!Offer(r, m)
    BY <1>3, <1>4, <1>5 DEF Gate!Offer, Decided
<1>7. m \in ManifestsOf(r)'
    BY <1>2
<1>8. m \in [s \in Revisions |-> ManifestsOf(s)]'[r]
    BY <1>7
<1> QED
    BY <1>6, <1>8 DEF Gate!Next

\* The commit of a manifest offers it, unless it is there already.
LEMMA GateOffer ==
    ASSUME IInv, Grown, NEW p \in Productions, CommitEpisodeManifest(p)
    PROVE  [Gate!Next]_(Gate!gate)
<1>1. PICK m, r :
          /\ wf[p].step = "COMMIT_MANIFEST" /\ m = wf[p].built
          /\ r = RevisionOf[PlanOf(p)] /\ status[r] = "G2_APPROVED"
          /\ manifests' = manifests \cup {m}
          /\ UNCHANGED <<status, locked, publication>>
    BY DEF CommitEpisodeManifest, At, InProduction
<1>2. Accepted(p) /\ m \in Manifests /\ m.by = p
    BY <1>1, EachSound DEF IInv, Sound, WorkTrue, Open
<1>3. r \in Revisions
    BY <1>1, <1>2, RevisionOfAssumption DEF IInv, ProductionTyped, Accepted, PlanOf
<1>4. CASE m \in manifests
    <2>1. manifests' = manifests /\ Decided' = Decided
        BY <1>1, <1>4 DEF Decided
    <2> QED
        BY <1>1, <2>1, GateUnchanged DEF Grown
<1>5. CASE m \notin manifests
    BY <1>1, <1>2, <1>3, <1>5, GateOfferNew
<1> QED
    BY <1>4, <1>5

\* An approval of Gate 3 decides every revision it binds, none of which was
\* decided, and chooses among the manifests offered for them.
LEMMA GateDecide ==
    ASSUME IInv, ProductionKept, NEW rs \in SUBSET Revisions, NEW set \in SUBSET manifests,
           ApproveG3(rs, set)
    PROVE  Gate!Next
<1>1. /\ rs # {} /\ set # {}
      /\ \A r \in rs : status[r] = "G2_APPROVED"
      /\ set \subseteq UNION {ManifestsOf(r) : r \in rs}
      /\ status' = With(rs, "G3_LOCKED")
      /\ locked' = locked \cup set
      /\ manifests' = manifests /\ publication' = publication
    BY DEF ApproveG3, outputs
<1>2. rs \cap Decided = {} /\ Decided' = Decided \cup rs
    BY <1>1 DEF Decided, With
<1>3. \A r \in Revisions : ManifestsOf(r)' = ManifestsOf(r)
    BY <1>1, OfferedKept DEF ManifestsOf
<1>4. [r \in Revisions |-> ManifestsOf(r)]' = [r \in Revisions |-> ManifestsOf(r)]
    BY <1>3
<1>5. set \in SUBSET UNION {[r \in Revisions |-> ManifestsOf(r)][q] : q \in rs}
    <2>1. \A q \in rs : [r \in Revisions |-> ManifestsOf(r)][q] = ManifestsOf(q)
        OBVIOUS
    <2> QED
        BY <1>1, <2>1
<1>6. Gate!Decide(rs)
    BY <1>1, <1>2, <1>4, <1>5 DEF Gate!Decide, Decided
<1> QED
    BY <1>6 DEF Gate!Next

\* A publication lock publishes its run, or repeats what it did.
LEMMA GatePublish ==
    ASSUME IInv, ProductionKept, NEW m \in manifests, NEW k \in m.runs, LockPublication(k, m)
    PROVE  [Gate!Next]_(Gate!gate)
<1>1. /\ m \in locked /\ manifests' = manifests /\ locked' = locked /\ status' = status
      /\ publication[k] \in {NoManifest, m}
      /\ publication' = [publication EXCEPT ![k] = m]
    BY DEF LockPublication, gates
<1>2. m \in Manifests /\ k \in RunIds
    BY DEF IInv, ManifestsTrue, Manifests
<1>3. Decided' = Decided
    BY <1>1 DEF Decided
<1>4. CASE publication[k] = m
    <2>1. publication' = publication
        BY <1>1, <1>2, <1>4 DEF IInv, OutputsTrue, OutputsTyped
    <2> QED
        BY <1>1, <1>3, <2>1, GateUnchanged
<1>5. CASE publication[k] = NoManifest
    <2>1. \A s \in Revisions : ManifestsOf(s)' = ManifestsOf(s)
        BY <1>1, OfferedKept DEF ManifestsOf
    <2>2. [s \in Revisions |-> ManifestsOf(s)]' = [s \in Revisions |-> ManifestsOf(s)]
        BY <2>1
    <2>3. Gate!Publish(k, m)
        BY <1>1, <1>3, <1>5, <2>2 DEF Gate!Publish, Decided
    <2> QED
        BY <1>1, <2>3 DEF Gate!Next
<1> QED
    BY <1>1, <1>4, <1>5

\* Every step is one of the gate or changes nothing of it.
LEMMA GateStep ==
    ASSUME IInv, [Next]_vars
    PROVE  [Gate!Next]_(Gate!gate)
<1>1. Grown /\ ProductionKept
    BY StepGrows DEF Grown
<1>2. status' = status => Decided' = Decided
    BY DEF Decided
<1>3. CASE UNCHANGED vars
    BY <1>1, <1>2, <1>3, GateUnchanged DEF vars, gates, outputs
<1>4. CASE Commands
    <2>1. ASSUME NEW rs \in SUBSET Revisions, NEW ms \in SUBSET manifests, ApproveG3(rs, ms)
          PROVE  [Gate!Next]_(Gate!gate)
        BY <1>1, <2>1, GateDecide
    <2>2. ASSUME NEW m \in manifests, NEW k \in m.runs, LockPublication(k, m)
          PROVE  [Gate!Next]_(Gate!gate)
        BY <1>1, <2>2, GatePublish
    <2>3. CASE UNCHANGED <<locked, publication>> /\ Decided' = Decided
        <3>1. manifests' = manifests
            BY <1>4, CommandFootprint DEF CommandWrites
        <3> QED
            BY <1>1, <2>3, <3>1, GateUnchanged
    <2>4. \/ locked' = locked /\ Decided' = Decided
          \/ \E rs \in SUBSET Revisions, ms \in SUBSET manifests : ApproveG3(rs, ms)
        <3>1. ASSUME NEW rs \in SUBSET Revisions, ApproveG1(rs) \/ ApproveG2(rs)
              PROVE  locked' = locked /\ Decided' = Decided
            BY <3>1 DEF ApproveG1, ApproveG2, Advance, With, Decided
        <3>2. ASSUME NEW k \in RunIds, NEW verdict \in Verdicts, NEW others \in SUBSET OpenReviews,
                     DecideQ1(k, verdict, others)
              PROVE  locked' = locked /\ Decided' = Decided
            BY <1>2, <3>2, Zenon DEF DecideQ1
        <3>3. ASSUME RejectG3
              PROVE  locked' = locked /\ Decided' = Decided
            BY <1>2, <3>3, Zenon DEF RejectG3
        <3> QED
            BY <1>2, <1>4, <3>1, <3>2, <3>3, CommandFootprint, Zenon DEF CommandWrites
    <2>5. \/ publication' = publication
          \/ \E m \in manifests : \E k \in m.runs : LockPublication(k, m)
        BY <1>4, CommandFootprint, Zenon DEF CommandWrites
    <2> QED
        BY <2>1, <2>2, <2>3, <2>4, <2>5, Zenon
<1>5. ASSUME NEW p \in Productions, Workflow(p) PROVE [Gate!Next]_(Gate!gate)
    <2>1. UNCHANGED <<locked, publication>> /\ Decided' = Decided
        BY <1>2, <1>5, WorkflowFootprint DEF WorkflowWrites
    <2>2. CASE manifests' = manifests
        BY <1>1, <2>1, <2>2, GateUnchanged
    <2>3. CASE CommitEpisodeManifest(p)
        BY <1>1, <2>3, GateOffer
    <2> QED
        BY <1>5, <2>2, <2>3, WorkflowFootprint, Zenon DEF WorkflowWrites
<1> QED
    BY <1>3, <1>4, <1>5, Zenon DEF Next

\* The productions of an episode, however many compete, fail or are decided more
\* than once, implement its gate: a revision is decided once, alone or in one
\* decision with others, about manifests offered before it for the revisions it
\* binds, and each run is published once, in one that was chosen
\* (CommitEpisodeManifest, applyApprovedGate, LockPublication).
THEOREM Refinement == Spec => ImplementsEpisodeGate
<1>1. Init => Gate!Init
    BY DEF Init, Gate!Init, ManifestsOf
<1> QED
    BY <1>1, GateStep, Invariance, PTL DEF Spec, ImplementsEpisodeGate, Gate!Spec
=============================================================================
