------------------------- MODULE EpisodeProduction -------------------------
(***************************************************************************)
(* The productions of one episode, from the gates of its revisions to the  *)
(* publication lock: orchestration/workflow.go and the ledger              *)
(* transactions its activities call (repository/workflow_ledger.go), the   *)
(* commands of the control plane (repository/postgres.go), and the         *)
(* delivery of human decisions to the workflows                            *)
(* (temporalcontrol/controller.go).                                        *)
(*                                                                         *)
(* Each activity is journalled: its effect commits, and only then its      *)
(* answer; when the answer is lost the activity runs again (Complete).     *)
(* Pause, resume and cancellation are those of ShotWorkflow and left out.  *)
(***************************************************************************)
EXTENDS Naturals, FiniteSets, Sequences

CONSTANTS
    Revisions,     \* revisions of the episode
    Shots,         \* shot specification revisions
    Plans,         \* generation plans
    RevisionOf,    \* RevisionOf[plan]: the episode revision a plan is for
    ShotsOf,       \* ShotsOf[plan]: its shots, in order
    Dependencies,  \* revision_dependencies: <<producer, consumer>>
    Source,        \* the source whose new revision makes its consumers stale
    Assets,        \* assets the episode uses
    Options,       \* whether a production asks for post-production: subset of BOOLEAN
    Faulty,        \* productions whose activities may fail or lose their answers
    NoPlan, NoManifest,
    MaxProductions,  \* bound: START_EPISODE_PRODUCTION commands
    MaxDecisions,    \* bound: Q1 and G3 decisions
    MaxUpsets        \* bound: changes from outside: stale shots, lost rights, lost artifacts

ASSUME ShotsOfAssumption     == ShotsOf \in [Plans -> Seq(Shots)]
\* Validate refuses an episode without shots and one that names a shot twice.
ASSUME DistinctShotsAssumption ==
    \A l \in Plans :
        /\ Len(ShotsOf[l]) > 0
        /\ \A i, j \in 1..Len(ShotsOf[l]) : ShotsOf[l][i] = ShotsOf[l][j] => i = j
ASSUME RevisionOfAssumption  == RevisionOf \in [Plans -> Revisions]
ASSUME NoPlanAssumption      == NoPlan \notin Plans
ASSUME OptionsAssumption     == Options \subseteq BOOLEAN
ASSUME BoundsAssumption      == {MaxProductions, MaxDecisions, MaxUpsets} \subseteq Nat

Productions == 1..MaxProductions

\* The identity of a run is the digest of its specification: two productions
\* of one plan share their runs.
RunIds == [plan : Plans, shot : Shots, attempt : 1..2]

Manifests == [by : Productions, runs : SUBSET RunIds, history : 0..MaxDecisions]

ASSUME NoManifestAssumption == NoManifest \notin Manifests

VARIABLES
    status,      \* episode_revisions.status
    licensed,    \* the assets whose licence and consent are current
    freshness,   \* shot_spec_revisions.freshness
    lifecycle,   \* shot_spec_revisions.lifecycle_state
    plan,        \* generation_plans.state
    production,  \* the operation of each production: its plan and its options
    wf,          \* EpisodeProductionWorkflow of each production
    inbox,       \* decisions signalled to a workflow and not consumed
    run,         \* generation_runs with their QC report and Q1 review
    delivered,   \* productions whose post-production result is committed
    withdrawn,   \* those of which an artifact is no longer ACTIVE
    manifests,   \* generation_manifests of the episode
    locked,      \* those with a gate decision
    g3Open,      \* those with an OPEN G3 review
    decisions,   \* approval_decisions of the gates Q1 and G3
    publication  \* publication_locks

inputs  == <<licensed, freshness, plan, production>>
gates   == <<status, locked, g3Open, decisions>>
outputs == <<delivered, withdrawn, manifests, publication>>
vars    == <<inputs, lifecycle, run, gates, outputs, wf, inbox>>

\* The transitive consumers of the source: every closed set that holds the
\* source holds them.
Impacted ==
    LET Nodes     == UNION {{e[1], e[2]} : e \in Dependencies}
        Closed(S) == \A e \in Dependencies : e[1] \in S => e[2] \in S
    IN {n \in Nodes \ {Source} :
            \A S \in SUBSET Nodes : (Source \in S /\ Closed(S)) => n \in S}

NotStarted == [step |-> "IDLE", shot |-> 1, attempt |-> 1, runs |-> {},
               built |-> NoManifest, result |-> "NONE"]

Init ==
    /\ status      = [r \in Revisions |-> "DRAFT"]
    /\ licensed    = Assets
    /\ freshness   = [s \in Shots |-> "FRESH"]
    /\ lifecycle   = [s \in Shots |-> "READY"]
    /\ plan        = [p \in Plans |-> "NONE"]
    /\ production  = [p \in Productions |-> [plan |-> NoPlan, post |-> FALSE]]
    /\ wf          = [p \in Productions |-> NotStarted]
    /\ inbox       = [p \in Productions |-> {}]
    /\ run         = [k \in RunIds |->
                         [state |-> "NONE", owner |-> 0, qc |-> FALSE, review |-> "NONE"]]
    /\ delivered   = {}
    /\ withdrawn   = {}
    /\ manifests   = {}
    /\ locked      = {}
    /\ g3Open      = {}
    /\ decisions   = {}
    /\ publication = [k \in RunIds |-> NoManifest]

Rights          == licensed = Assets
PlanOf(p)       == production[p].plan
Accepted(p)     == PlanOf(p) # NoPlan
ShotAt(p)       == ShotsOf[PlanOf(p)][wf[p].shot]
RunOf(p)        == [plan |-> PlanOf(p), shot |-> ShotAt(p), attempt |-> wf[p].attempt]
ManifestsOf(r)  == {m \in manifests : RevisionOf[PlanOf(m.by)] = r}
Open(p)         == wf[p].step \notin {"IDLE", "CLOSED"}
OpenReviews     == {k \in RunIds : run[k].review = "OPEN"}
Reviewable(k)   == run[k].state = "SUCCEEDED" /\ run[k].qc

----------------------------------------------------------------------------
(***************************************************************************)
(* Commands of the control plane.                                          *)
(***************************************************************************)
Upset ==
    Cardinality({s \in Shots : freshness[s] = "STALE"}) + Cardinality(Assets \ licensed)
        + Cardinality(withdrawn) < MaxUpsets

\* A new source revision makes every transitive consumer of the old one stale.
CreateSourceRevision ==
    /\ Upset
    /\ freshness' = [s \in Shots |-> IF s \in Impacted THEN "STALE"
                                                               ELSE freshness[s]]
    /\ UNCHANGED <<licensed, plan, production, lifecycle, run, gates, outputs, wf, inbox>>

\* A licence expires or a consent is withdrawn, outside of this program.
RevokeRights(a) ==
    /\ Upset
    /\ licensed' = licensed \ {a}
    /\ UNCHANGED <<freshness, plan, production, lifecycle, run, gates, outputs, wf, inbox>>

\* The artifact of a delivery is quarantined, outside of this program.
WithdrawDelivery(p) ==
    /\ Upset
    /\ p \in delivered
    /\ withdrawn' = withdrawn \cup {p}
    /\ UNCHANGED <<inputs, lifecycle, run, gates, delivered, manifests, publication, wf, inbox>>

GenerationReady(s) ==
    freshness[s] # "STALE" /\ lifecycle[s] \in {"READY", "REVIEW", "APPROVED"}

PlanReady(l) == \A i \in 1..Len(ShotsOf[l]) : GenerationReady(ShotsOf[l][i])

\* A plan whose price exceeds its budget is stored as BLOCKED.
CreateGenerationPlan(l) ==
    /\ plan[l] = "NONE"
    /\ PlanReady(l)
    /\ \E state \in {"READY_FOR_CONFIRMATION", "BLOCKED"} :
           plan' = [plan EXCEPT ![l] = state]
    /\ UNCHANGED <<licensed, freshness, production, lifecycle, run, gates, outputs, wf, inbox>>

\* Nothing excludes a second production of the episode.
PrepareProduction(p, l, post) ==
    /\ p = Cardinality({q \in Productions : Accepted(q)}) + 1
    /\ status[RevisionOf[l]] = "G2_APPROVED"
    /\ plan[l] = "READY_FOR_CONFIRMATION"
    /\ Rights
    /\ PlanReady(l)
    /\ production' = [production EXCEPT ![p] = [plan |-> l, post |-> post]]
    /\ UNCHANGED <<licensed, freshness, plan, lifecycle, run, gates, outputs, wf, inbox>>

\* The workflow identity is that of the operation: a repeated call starts
\* nothing.  Its first activity only checks the input.
StartEpisode(p) ==
    /\ Accepted(p)
    /\ wf[p].step = "IDLE"
    /\ wf' = [wf EXCEPT ![p].step = "COMPILE"]
    /\ UNCHANGED <<inputs, lifecycle, run, gates, outputs, inbox>>

\* Mutant: the lock does not ask which decision the manifest has.
LockPublicationUngated(k, m) ==
    /\ k \in m.runs
    /\ Reviewable(k)
    /\ publication' = [publication EXCEPT ![k] = m]
    /\ UNCHANGED <<inputs, lifecycle, run, gates, delivered, withdrawn, manifests, wf, inbox>>

\* The publication lock of a run, for the manifest its G3 decision locked.
LockPublication(k, m) ==
    /\ k \in m.runs
    /\ Reviewable(k)
    /\ m \in locked
    /\ publication[k] \in {NoManifest, m}
    /\ publication' = [publication EXCEPT ![k] = m]
    /\ UNCHANGED <<inputs, lifecycle, run, gates, delivered, withdrawn, manifests, wf, inbox>>

----------------------------------------------------------------------------
(***************************************************************************)
(* CreateApprovalDecision.  A rejection is recorded whatever the state of  *)
(* what it names; an approval has the conditions of its gate.              *)
(***************************************************************************)
With(rs, state) == [r \in Revisions |-> IF r \in rs THEN state ELSE status[r]]

\* An approval of revisions that all have it already changes nothing.
Advance(rs, from, to) ==
    /\ \E r \in rs : status[r] = from
    /\ \A r \in rs : status[r] \in {from, to}
    /\ status' = With(rs, to)
    /\ UNCHANGED <<inputs, lifecycle, run, locked, g3Open, decisions, outputs, wf, inbox>>

ApproveG1(rs) == Advance(rs, "DRAFT", "G1_APPROVED")
ApproveG2(rs) == Advance(rs, "G1_APPROVED", "G2_APPROVED")

Verdicts == {"APPROVED", "REJECTED"}

\* runs: of a Q1 decision, the run that its signal names; manifests: those that
\* an approval of G3 locks.
Decision(gate, verdict, runs, ms) ==
    [gate |-> gate, verdict |-> verdict, runs |-> runs, manifests |-> ms]

Record(d) ==
    /\ Cardinality(decisions \cup {d}) <= MaxDecisions
    /\ decisions' = decisions \cup {d}

\* A rejection may bind several runs: their open reviews are closed with that of
\* k, the last of them, which is the one that is signalled.
DecideQ1(k, verdict, others) ==
    /\ run[k].state # "NONE" /\ k \notin others
    /\ verdict = "APPROVED" => others = {} /\ freshness[k.shot] # "STALE" /\ Reviewable(k)
    /\ Record(Decision("Q1", verdict, {k}, {}))
    /\ lifecycle' = IF verdict = "APPROVED"
                    THEN [lifecycle EXCEPT ![k.shot] = "APPROVED"] ELSE lifecycle
    /\ run' = [j \in RunIds |-> IF j \in OpenReviews \cap (others \cup {k})
                                 THEN [run[j] EXCEPT !.review = verdict] ELSE run[j]]
    /\ UNCHANGED <<inputs, status, locked, g3Open, outputs, wf, inbox>>

\* Mutant: a bound manifest is not compared with the bound revisions.
ApproveG3AnyRevision(rs, ms) ==
    /\ rs # {} /\ ms # {}
    /\ \A r \in rs : status[r] = "G2_APPROVED"
    /\ ms \cap locked = {}
    /\ Record(Decision("G3", "APPROVED", {}, ms))
    /\ status' = With(rs, "G3_LOCKED")
    /\ locked' = locked \cup ms
    /\ g3Open' = {}
    /\ UNCHANGED <<inputs, lifecycle, run, outputs, wf, inbox>>

\* One approval locks every revision and every manifest it binds, each manifest
\* of one of those revisions; a revision may have none.  Every OPEN G3 review of
\* the episode is closed, whichever manifest it is for.
ApproveG3(rs, ms) ==
    /\ rs # {} /\ ms # {}
    /\ \A r \in rs : status[r] = "G2_APPROVED"
    /\ ms \subseteq UNION {ManifestsOf(r) : r \in rs}
    /\ ms \cap locked = {}
    /\ Record(Decision("G3", "APPROVED", {}, ms))
    /\ status' = With(rs, "G3_LOCKED")
    /\ locked' = locked \cup ms
    /\ g3Open' = {}
    /\ UNCHANGED <<inputs, lifecycle, run, outputs, wf, inbox>>

\* A rejection changes the same, whatever it binds, and has no conditions.
RejectG3 ==
    /\ Record(Decision("G3", "REJECTED", {}, {}))
    /\ g3Open' = {}
    /\ UNCHANGED <<inputs, lifecycle, run, status, locked, outputs, wf, inbox>>

(***************************************************************************)
(* RecordApproval: after the commit, and again on every replay of the      *)
(* command, a Q1 decision goes to the workflow that created the run, a G3  *)
(* decision to the latest production of the episode.  No transaction ends  *)
(* the operation of a production, so the latest one counts as active even  *)
(* after its workflow closed; a signal to it is then refused, as is one     *)
(* before the first production.                                            *)
(***************************************************************************)
LatestProduction == Cardinality({p \in Productions : Accepted(p)})

Recipient(d) ==
    IF d.gate = "G3" THEN LatestProduction ELSE run[CHOOSE k \in d.runs : TRUE].owner

RecordApproval(d) ==
    LET p == Recipient(d)
    IN /\ p \in Productions /\ Open(p) /\ d \notin inbox[p]
       /\ inbox' = [inbox EXCEPT ![p] = @ \cup {d}]
       /\ UNCHANGED <<inputs, lifecycle, run, gates, outputs, wf>>

----------------------------------------------------------------------------
(***************************************************************************)
(* EpisodeProductionWorkflow.                                              *)
(***************************************************************************)
At(p, step) == wf[p].step = step

\* The answer of the activity is journalled and the workflow goes on, or it is
\* lost and the activity will run again.
Complete(p, step) ==
    \/ wf' = [wf EXCEPT ![p].step = step]
    \/ p \in Faulty /\ UNCHANGED wf

Goto(p, step) == wf' = [wf EXCEPT ![p].step = step]

\* What a closed workflow held, its signals included, is gone.
Close(p, result) ==
    /\ wf'    = [wf EXCEPT ![p] = [NotStarted EXCEPT !.step = "CLOSED", !.result = result]]
    /\ inbox' = [inbox EXCEPT ![p] = {}]

\* An activity without effect on the ledger.
Pure(p, from, to) ==
    /\ At(p, from)
    /\ Goto(p, to)
    /\ UNCHANGED <<inputs, lifecycle, run, gates, outputs, inbox>>

\* The snapshot is addressed by its content: compiling again gives the same.
CompilePromptSnapshot(p) ==
    /\ At(p, "COMPILE")
    /\ freshness[ShotAt(p)] # "STALE"
    /\ Complete(p, "CREATE")
    /\ UNCHANGED <<inputs, lifecycle, run, gates, outputs, inbox>>

CreateWorkflowRun(p) ==
    LET k == RunOf(p)
    IN /\ At(p, "CREATE")
       /\ freshness[k.shot] # "STALE"
       /\ lifecycle[k.shot] \in {"READY", "REVIEW", "APPROVED", "RUNNING"}
       /\ run' = IF run[k].state = "NONE"
                 THEN [run EXCEPT ![k].state = "VALIDATED", ![k].owner = p] ELSE run
       /\ lifecycle' = [lifecycle EXCEPT ![k.shot] = "RUNNING"]
       /\ Complete(p, "EXECUTE")
       /\ UNCHANGED <<inputs, gates, outputs, inbox>>

\* The whole provider activity: its success commits the artifact and sends the
\* shot to QC whatever its state, and is replayed without effect.
ExecuteProviderJob(p) ==
    LET k == RunOf(p)
    IN /\ At(p, "EXECUTE")
       /\ \/ /\ run[k].state = "VALIDATED"
             /\ run' = [run EXCEPT ![k].state = "SUCCEEDED"]
             /\ lifecycle' = [lifecycle EXCEPT ![k.shot] = "QC_PENDING"]
          \/ run[k].state = "SUCCEEDED" /\ UNCHANGED <<run, lifecycle>>
       /\ Complete(p, "QC")
       /\ UNCHANGED <<inputs, gates, outputs, inbox>>

ProviderJobFails(p) ==
    /\ At(p, "EXECUTE")
    /\ run[RunOf(p)].state = "VALIDATED"
    /\ run' = [run EXCEPT ![RunOf(p)].state = "FAILED"]
    /\ Close(p, "ERROR")
    /\ UNCHANGED <<inputs, lifecycle, gates, outputs>>

\* A report of a run whose shot has meanwhile left QC is a conflict.
RecordAutomaticQC(p) ==
    LET k == RunOf(p)
    IN /\ At(p, "QC")
       /\ run[k].state = "SUCCEEDED"
       /\ \/ run[k].qc /\ UNCHANGED <<run, lifecycle>>
          \/ /\ ~run[k].qc /\ lifecycle[k.shot] = "QC_PENDING"
             /\ run' = [run EXCEPT ![k].qc = TRUE]
             /\ lifecycle' = [lifecycle EXCEPT ![k.shot] = "REVIEW"]
       /\ Complete(p, "REVIEW")
       /\ UNCHANGED <<inputs, gates, outputs, inbox>>

OpenShotReview(p) ==
    LET k == RunOf(p)
    IN /\ At(p, "REVIEW")
       /\ Reviewable(k)
       /\ run' = IF run[k].review = "NONE" THEN [run EXCEPT ![k].review = "OPEN"] ELSE run
       /\ Complete(p, "WAIT_Q1")
       /\ UNCHANGED <<inputs, lifecycle, gates, outputs, inbox>>

\* After the last shot: post-production when the production asks for it.
NextShot(p) ==
    IF wf[p].shot < Len(ShotsOf[PlanOf(p)])
    THEN [wf[p] EXCEPT !.step = "COMPILE", !.shot = @ + 1, !.attempt = 1,
                       !.runs = @ \cup {RunOf(p)}]
    ELSE [wf[p] EXCEPT !.step = IF production[p].post THEN "PREPARE" ELSE "BUILD",
                       !.runs = @ \cup {RunOf(p)}]

\* Mutant: a rejected shot is tried for ever.
NextAttemptUnbounded(p) == [wf[p] EXCEPT !.step = "CREATE", !.attempt = @ + 1]

NextAttempt(p) ==
    IF wf[p].attempt = 1 THEN [wf[p] EXCEPT !.step = "CREATE", !.attempt = 2]
                         ELSE [wf[p] EXCEPT !.step = "ESCALATE"]

\* Mutant: any Q1 decision answers the review that is open.
WaitForShotDecisionAnyRun(p) ==
    \E d \in inbox[p] :
        /\ At(p, "WAIT_Q1")
        /\ d.gate = "Q1"
        /\ inbox' = [inbox EXCEPT ![p] = @ \ {d}]
        /\ wf' = [wf EXCEPT ![p] = IF d.verdict = "APPROVED" THEN NextShot(p) ELSE NextAttempt(p)]
        /\ UNCHANGED <<inputs, lifecycle, run, gates, outputs>>

\* A decision about another run is consumed and forgotten.
WaitForShotDecision(p) ==
    \E d \in inbox[p] :
        /\ At(p, "WAIT_Q1")
        /\ d.gate = "Q1"
        /\ inbox' = [inbox EXCEPT ![p] = @ \ {d}]
        /\ wf' = [wf EXCEPT ![p] = IF d.runs # {RunOf(p)} THEN @
                                   ELSE IF d.verdict = "APPROVED" THEN NextShot(p)
                                   ELSE NextAttempt(p)]
        /\ UNCHANGED <<inputs, lifecycle, run, gates, outputs>>

RecordShotIntervention(p) ==
    /\ At(p, "ESCALATE")
    /\ lifecycle' = [lifecycle EXCEPT ![ShotAt(p)] = "AUTO_QC_FAILED"]
    /\ Close(p, "NEEDS_INTERVENTION")
    /\ UNCHANGED <<inputs, run, gates, outputs>>

----------------------------------------------------------------------------
(***************************************************************************)
(* FinalizeEpisode: prepare, authorize before every paid call, commit.     *)
(***************************************************************************)
\* The five artifacts of the delivery, linked to every run of the production.
ActiveDelivery(p) == production[p].post => p \in delivered \ withdrawn

InProduction(p) == status[RevisionOf[PlanOf(p)]] = "G2_APPROVED"

PrepareEpisodePostProduction(p) ==
    /\ Pure(p, "PREPARE", "AUTHORIZE")
    /\ InProduction(p)
    /\ \A k \in wf[p].runs : Reviewable(k)

\* The rights are asked for before every paid call, one for each cue.
AuthorizeEpisodePostProduction(p) ==
    /\ Pure(p, "AUTHORIZE", "AUTHORIZE") \/ Pure(p, "AUTHORIZE", "COMMIT_POST")
    /\ Rights

\* Mutant: the authorization of the last cue is taken for the commit's own.
CommitEpisodePostProductionOnTrust(p) ==
    /\ At(p, "COMMIT_POST")
    /\ p \notin withdrawn
    /\ delivered' = delivered \cup {p}
    /\ Complete(p, "BUILD")
    /\ UNCHANGED <<inputs, lifecycle, run, gates, withdrawn, manifests, publication, inbox>>

CommitEpisodePostProduction(p) ==
    /\ At(p, "COMMIT_POST")
    /\ Rights
    /\ InProduction(p)
    /\ \A k \in wf[p].runs : Reviewable(k)
    /\ p \notin withdrawn
    /\ delivered' = delivered \cup {p}
    /\ Complete(p, "BUILD")
    /\ UNCHANGED <<inputs, lifecycle, run, gates, withdrawn, manifests, publication, inbox>>

(***************************************************************************)
(* CreateGate3: the manifest is built from several reads, stored by its    *)
(* content, and committed.  The history of the episode's decisions is part *)
(* of the content, so a rebuild after another decision is another          *)
(* manifest, with a review of its own.                                     *)
(***************************************************************************)
BuildEpisodeManifest(p) ==
    /\ At(p, "BUILD")
    /\ Rights
    /\ \A k \in wf[p].runs : Reviewable(k)
    /\ ActiveDelivery(p)
    /\ wf' = [wf EXCEPT ![p].step = "COMMIT_MANIFEST", ![p].built =
                 [by |-> p, runs |-> wf[p].runs, history |-> Cardinality(decisions)]]
    /\ UNCHANGED <<inputs, lifecycle, run, gates, outputs, inbox>>

\* Mutant: the gate of the episode is not read again when the manifest commits.
CommitEpisodeManifestLate(p) ==
    /\ At(p, "COMMIT_MANIFEST")
    /\ Rights
    /\ ActiveDelivery(p)
    /\ manifests' = manifests \cup {wf[p].built}
    /\ g3Open' = g3Open \cup ({wf[p].built} \ manifests)
    /\ Goto(p, "WAIT_G3") \/ (p \in Faulty /\ Goto(p, "BUILD"))
    /\ UNCHANGED <<inputs, lifecycle, run, status, locked, decisions, delivered,
                   withdrawn, publication, inbox>>

CommitEpisodeManifest(p) ==
    /\ At(p, "COMMIT_MANIFEST")
    /\ Rights
    /\ InProduction(p)
    /\ ActiveDelivery(p)
    /\ manifests' = manifests \cup {wf[p].built}
    /\ g3Open' = g3Open \cup ({wf[p].built} \ manifests)
    /\ Goto(p, "WAIT_G3") \/ (p \in Faulty /\ Goto(p, "BUILD"))
    /\ UNCHANGED <<inputs, lifecycle, run, status, locked, decisions, delivered,
                   withdrawn, publication, inbox>>

\* The signal names no manifest: any G3 decision is the answer.
WaitForGate3Decision(p) ==
    \E d \in inbox[p] :
        /\ At(p, "WAIT_G3")
        /\ d.gate = "G3"
        /\ Close(p, IF d.verdict = "APPROVED" THEN "LOCKED" ELSE "G3_REJECTED")
        /\ UNCHANGED <<inputs, lifecycle, run, gates, outputs>>

----------------------------------------------------------------------------
Activities == {"COMPILE", "CREATE", "EXECUTE", "QC", "REVIEW", "ESCALATE",
               "PREPARE", "AUTHORIZE", "COMMIT_POST", "BUILD", "COMMIT_MANIFEST"}

\* An activity is refused, or out of attempts: the workflow ends with its error.
ActivityFails(p) ==
    /\ p \in Faulty
    /\ wf[p].step \in Activities
    /\ Close(p, "ERROR")
    /\ UNCHANGED <<inputs, lifecycle, run, gates, outputs>>

\* FinalizeEpisode and CreateGate3 start over.
RetryActivity(p) ==
    /\ p \in Faulty
    /\ \/ \E step \in {"AUTHORIZE", "COMMIT_POST"} : Pure(p, step, "PREPARE")
       \/ Pure(p, "COMMIT_MANIFEST", "BUILD")

Workflow(p) ==
    \/ CompilePromptSnapshot(p) \/ CreateWorkflowRun(p)
    \/ ExecuteProviderJob(p) \/ ProviderJobFails(p) \/ RecordAutomaticQC(p) \/ OpenShotReview(p)
    \/ WaitForShotDecision(p) \/ RecordShotIntervention(p)
    \/ PrepareEpisodePostProduction(p) \/ AuthorizeEpisodePostProduction(p)
    \/ CommitEpisodePostProduction(p)
    \/ BuildEpisodeManifest(p) \/ CommitEpisodeManifest(p) \/ WaitForGate3Decision(p)
    \/ ActivityFails(p) \/ RetryActivity(p)

Commands ==
    \/ CreateSourceRevision
    \/ \E a \in Assets : RevokeRights(a)
    \/ \E p \in delivered : WithdrawDelivery(p)
    \/ \E l \in Plans : CreateGenerationPlan(l)
    \/ \E p \in Productions, l \in Plans, post \in Options : PrepareProduction(p, l, post)
    \/ \E p \in Productions : StartEpisode(p)
    \/ \E rs \in SUBSET Revisions : ApproveG1(rs) \/ ApproveG2(rs)
    \/ \E k \in RunIds, verdict \in Verdicts, others \in SUBSET OpenReviews :
           DecideQ1(k, verdict, others)
    \/ \E rs \in SUBSET Revisions, ms \in SUBSET manifests : ApproveG3(rs, ms)
    \/ RejectG3
    \/ \E d \in decisions : RecordApproval(d)
    \/ \E m \in manifests : \E k \in m.runs : LockPublication(k, m)

Next == Commands \/ \E p \in Productions : Workflow(p)

Spec == Init /\ [][Next]_vars

----------------------------------------------------------------------------
RunStates == {"NONE", "VALIDATED", "SUCCEEDED", "FAILED"}
Lifecycle == {"READY", "RUNNING", "QC_PENDING", "REVIEW", "APPROVED", "AUTO_QC_FAILED"}
Gates     == {"DRAFT", "G1_APPROVED", "G2_APPROVED", "G3_LOCKED"}
Results   == {"NONE", "ERROR", "NEEDS_INTERVENTION", "G3_REJECTED", "LOCKED"}
Decisions == [gate : {"Q1", "G3"}, verdict : Verdicts,
              runs : SUBSET RunIds, manifests : SUBSET Manifests]

\* Every variable has the values its table or its workflow may hold.
TypeOK ==
    /\ status \in [Revisions -> Gates]
    /\ licensed \subseteq Assets
    /\ freshness \in [Shots -> {"FRESH", "STALE"}]
    /\ lifecycle \in [Shots -> Lifecycle]
    /\ plan \in [Plans -> {"NONE", "READY_FOR_CONFIRMATION", "BLOCKED"}]
    /\ production \in [Productions -> [plan : Plans \cup {NoPlan}, post : BOOLEAN]]
    /\ \A p \in Productions :
          /\ wf[p].step \in Activities \cup {"IDLE", "WAIT_Q1", "WAIT_G3", "CLOSED"}
          /\ wf[p].shot \in Nat /\ wf[p].attempt \in 1..2
          /\ wf[p].runs \subseteq RunIds
          /\ wf[p].built \in Manifests \cup {NoManifest}
          /\ wf[p].result \in Results
          /\ inbox[p] \subseteq decisions
    /\ run \in [RunIds -> [state : RunStates, owner : 0..MaxProductions, qc : BOOLEAN,
                            review : {"NONE", "OPEN"} \cup Verdicts]]
    /\ delivered \subseteq Productions
    /\ withdrawn \subseteq delivered
    /\ manifests \subseteq Manifests
    /\ locked \subseteq manifests
    /\ g3Open \subseteq manifests
    /\ decisions \subseteq Decisions
    /\ publication \in [RunIds -> manifests \cup {NoManifest}]

\* The gate of the episode as its readers see it: what is offered for each
\* revision, which are decided, and what is chosen and published.
Gate == INSTANCE EpisodeGate WITH
    Runs      <- RunIds,
    offered   <- [r \in Revisions |-> ManifestsOf(r)],
    decided   <- {r \in Revisions : status[r] = "G3_LOCKED"},
    chosen    <- locked,
    published <- publication

\* Whatever productions compete, fail or are decided more than once, a revision
\* is decided once, alone or together with others, by a decision that names only
\* manifests offered before it for the revisions it decides; nothing is offered
\* for it afterwards; and a run is published once, in a chosen manifest that holds
\* it (CommitEpisodeManifest, applyApprovedGate, LockPublication).
ImplementsEpisodeGate == Gate!Spec

ApprovedRun(k) == Decision("Q1", "APPROVED", {k}, {}) \in decisions

\* A manifest that is put before Gate 3 holds one run of every shot of its plan,
\* and a reviewer approved each of them: decisions that arrive early, late or
\* twice never let another run in (waitForShotDecision, CommitEpisodeManifest).
ManifestIsReviewed ==
    \A m \in manifests :
        /\ \A k \in m.runs : ApprovedRun(k)
        /\ \A i \in 1..Len(ShotsOf[PlanOf(m.by)]) :
              Cardinality({k \in m.runs : k.shot = ShotsOf[PlanOf(m.by)][i]}) = 1

\* A published run is in a manifest that the one approved G3 decision of its
\* episode revision names, and that revision is locked (LockPublication,
\* applyApprovedGate); two reviewers never give a revision two final decisions.
PublicationFollowsGate3 ==
    \A r \in Revisions :
        LET mine  == ManifestsOf(r)
            final == {d \in decisions : /\ d.gate = "G3" /\ d.verdict = "APPROVED"
                                        /\ d.manifests \cap mine # {}}
        IN /\ Cardinality(final) <= 1
           /\ \A k \in RunIds :
                 publication[k] \in mine =>
                     /\ status[r] = "G3_LOCKED"
                     /\ k \in publication[k].runs
                     /\ \E d \in final : publication[k] \in d.manifests

\* Once a revision is locked at Gate 3 it stays so, and no activity that was
\* under way adds a manifest or a delivery to it (CommitEpisodeManifest,
\* CommitEpisodePostProduction).
LockedRevisionFrozen ==
    [][\A r \in Revisions :
          status[r] = "G3_LOCKED" =>
              /\ status'[r] = "G3_LOCKED"
              /\ ManifestsOf(r)' = ManifestsOf(r)
              /\ \A p \in delivered' \ delivered : RevisionOf[PlanOf(p)] # r]_vars

\* A licence, a consent or an artifact that is withdrawn while an activity runs
\* stops it: nothing is committed to the episode's outputs afterwards, although
\* the work began under valid rights (requireCurrentEpisodeAssetRights and
\* requireActivePostProductionArtifacts at each commit).
NothingCommittedWithoutRights ==
    [][/\ ~Rights => UNCHANGED <<delivered, manifests>>
       /\ \A m \in manifests' \ manifests : m.by \notin withdrawn]_vars

\* data-model.md:133 "G1/G2/Q1/G3 都绑定具体 revision/hash", handlers.go:564 "Temporal
\* signals are safe to duplicate".  A production that ends as LOCKED took for its
\* answer an approval of its own manifest.
Gate3AnswersOwnManifest ==
    \A p \in Productions :
        wf[p].result = "LOCKED" =>
            \E d \in decisions : /\ d.gate = "G3" /\ d.verdict = "APPROVED"
                                  /\ \E m \in d.manifests : m.by = p
=============================================================================
