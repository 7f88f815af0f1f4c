----------------------- MODULE CreatorLiveShotProofs -----------------------
(***************************************************************************)
(* Proofs about CreatorLiveShot, for every set of plans and keys, every    *)
(* allowance and any number of attempts and faults.                        *)
(*                                                                         *)
(* A step of a run, its workflow or its provider job writes the rows of    *)
(* one plan (OnlyRow) and never starts or reopens a run, so that it is     *)
(* enough to look at these rows (RowSuffices).  Only a confirmation adds a *)
(* run, and it does so under the count of all of them.                     *)
(***************************************************************************)
EXTENDS CreatorLiveShot, FiniteSetTheorems, TLAPS

Operations == {"NONE", "ACCEPTED", "RUNNING"} \cup TerminalStates
TaskStates == {"NONE", "WORKING", "SUCCEEDED", "OVERDRAWN", "FAILED", "STOPPED"}
FlowType   == [step : WorkflowSteps, tries : 0..MaxAttempts]

\* A run exists for a confirmed plan, and only then a key, a start or a workflow;
\* its outcome is that of its job, and its operation follows it.
RunOK(p) ==
    /\ run[p].state = "NONE" <=> plan[p].state # "CONFIRMED"
    /\ run[p].state = "NONE" => idem[p] = {} /\ p \notin starting /\ wf[p].step = "IDLE"
    /\ run[p].state = "SUCCEEDED" =>
           /\ registry[p] = "SUCCEEDED"
           /\ run[p].evidence # "NONE" /\ run[p].known /\ run[p].submits = 1
    /\ run[p].state = "FAILED" => registry[p] = "FAILED"
    /\ run[p].state = "CANCELLED" => run[p].absent \/ registry[p] = "CANCELLED"
    /\ run[p].state \in TerminalStates \/ operation[p] \in TerminalStates
           => operation[p] = run[p].state
    /\ "EXECUTE" \in journal[p] => run[p].state = "SUCCEEDED"

\* What the adapter has recorded as ended is no task that works.
TaskOK(p) ==
    /\ wf[p].step = "IDLE" => registry[p] = "NONE"
    /\ registry[p] = "NONE" => task[p] = "NONE"
    /\ registry[p] = "ACTIVE" => task[p] \in {"WORKING", "SUCCEEDED", "OVERDRAWN", "FAILED"}
    /\ registry[p] \in TerminalStates \cup {"OVERDRAWN", "BARE"} => task[p] # "WORKING"

\* What an attempt was told of an ended job is still so; there is one only under a
\* workflow that runs, or that ran when it was abandoned.
AttemptOK(p, a) ==
    /\ attempt[p][a].at # "NONE" => wf[p].step # "IDLE"
    /\ attempt[p]["CURRENT"].at # "NONE" => wf[p].step # "CLOSED"
    /\ attempt[p][a].answer \in TerminalStates => registry[p] = attempt[p][a].answer
    /\ attempt[p][a].at = "JOURNAL" => run[p].state = "SUCCEEDED"

RowTyped(p) ==
    /\ run[p] \in RunType
    /\ operation[p] \in Operations
    /\ journal[p] \subseteq {"EXECUTE", "RECONCILE"}
    /\ wf[p] \in FlowType
    /\ attempt[p] \in [Attempts -> AttemptType]
    /\ registry[p] \in RegistryStates
    /\ task[p] \in TaskStates

RowOK(p) == RunOK(p) /\ TaskOK(p) /\ \A a \in Attempts : AttemptOK(p, a)

\* The runs are numbered by the allowance used before them, and one is active.
Counted ==
    /\ IsFiniteSet(Runs)
    /\ {plan[p].used : p \in Runs} = 0..(Cardinality(Runs) - 1)
    /\ Cardinality(Runs) <= ProjectTasks
    /\ \A p, q \in ActiveRuns : p = q

\* The inductive invariant.
IInv == TypeOK /\ (\A p \in Plans : RowOK(p)) /\ Counted

----------------------------------------------------------------------------
OnlyRow(p) ==
    /\ UNCHANGED <<plan, idem>>
    /\ run'       = [run EXCEPT ![p] = run'[p]]
    /\ operation' = [operation EXCEPT ![p] = operation'[p]]
    /\ journal'   = [journal EXCEPT ![p] = journal'[p]]
    /\ wf'        = [wf EXCEPT ![p] = wf'[p]]
    /\ attempt'   = [attempt EXCEPT ![p] = attempt'[p]]
    /\ registry'  = [registry EXCEPT ![p] = registry'[p]]
    /\ task'      = [task EXCEPT ![p] = task'[p]]
    /\ starting' \subseteq starting \cup {p} /\ starting \subseteq starting' \cup {p}
    /\ faults' \in 0..MaxFaults

\* No run appears, disappears or leaves its end.
NotReopened(p) ==
    /\ run'[p].state = "NONE" <=> run[p].state = "NONE"
    /\ run[p].state \in TerminalStates => UNCHANGED <<run[p], operation[p]>>

RowStep(p) == OnlyRow(p) /\ RowTyped(p)' /\ RowOK(p)' /\ NotReopened(p)

FinalKept ==
    \A p \in Plans : run[p].state \in TerminalStates => UNCHANGED <<run[p], operation[p]>>

LEMMA RowsTyped ==
    ASSUME TypeOK, NEW p \in Plans
    PROVE  RowTyped(p)
BY DEF TypeOK, RowTyped, FlowType, Operations, TaskStates

\* A state that is neither terminal nor NONE is active, so that the active runs can
\* only become fewer.
LEMMA FewerActive ==
    ASSUME IInv, NEW p \in Plans, OnlyRow(p), RowTyped(p)', NotReopened(p)
    PROVE  Runs' = Runs /\ ActiveRuns' \subseteq ActiveRuns
<1>1. \A q \in Plans : run'[q].state = "NONE" <=> run[q].state = "NONE"
    BY DEF OnlyRow, NotReopened, IInv, TypeOK
<1>2. \A q \in Plans : run'[q].state \in ActiveStates => run[q].state \in ActiveStates
  <2> SUFFICES ASSUME NEW q \in Plans, run'[q].state \in ActiveStates
               PROVE  run[q].state \in ActiveStates
    OBVIOUS
  <2>1. CASE q # p
    BY <2>1 DEF OnlyRow, IInv, TypeOK
  <2>2. CASE q = p
    <3>1. run[p].state # "NONE" /\ run[p].state \notin TerminalStates
        BY <2>2, <1>1 DEF NotReopened, ActiveStates, TerminalStates
    <3>2. run[p] \in RunType
        BY DEF IInv, TypeOK
    <3> QED BY <3>1, <3>2, <2>2 DEF RunType
  <2> QED BY <2>1, <2>2
<1> QED BY <1>1, <1>2 DEF Runs, ActiveRuns

LEMMA RowSuffices ==
    ASSUME IInv, NEW p \in Plans, RowStep(p)
    PROVE  IInv' /\ FinalKept
<1> USE DEF RowStep
<1>1. TypeOK'
  <2>1. /\ plan' \in [Plans -> PlanType] /\ idem' \in [Plans -> SUBSET Keys]
        /\ starting' \subseteq Plans /\ faults' \in 0..MaxFaults
    BY DEF OnlyRow, IInv, TypeOK
  <2>2. run' \in [Plans -> RunType] /\ operation' \in [Plans -> Operations]
    BY DEF OnlyRow, RowTyped, IInv, TypeOK, Operations
  <2>3. journal' \in [Plans -> SUBSET {"EXECUTE", "RECONCILE"}] /\ wf' \in [Plans -> FlowType]
    BY DEF OnlyRow, RowTyped, IInv, TypeOK, FlowType
  <2>4. attempt' \in [Plans -> [Attempts -> AttemptType]]
    BY DEF OnlyRow, RowTyped, IInv, TypeOK
  <2>5. registry' \in [Plans -> RegistryStates] /\ task' \in [Plans -> TaskStates]
    BY DEF OnlyRow, RowTyped, IInv, TypeOK, TaskStates
  <2> QED BY <2>1, <2>2, <2>3, <2>4, <2>5 DEF TypeOK, Operations, FlowType, TaskStates
<1>2. ASSUME NEW q \in Plans PROVE RowOK(q)'
  <2>1. CASE q = p
    BY <2>1
  <2>2. CASE q # p
    <3>1. /\ run'[q] = run[q] /\ operation'[q] = operation[q] /\ journal'[q] = journal[q]
          /\ wf'[q] = wf[q] /\ attempt'[q] = attempt[q] /\ registry'[q] = registry[q]
          /\ task'[q] = task[q] /\ plan' = plan /\ idem' = idem
          /\ q \in starting' <=> q \in starting
        BY <2>2 DEF OnlyRow, IInv, TypeOK
    <3>2. RowOK(q)
        BY DEF IInv
    <3> QED BY <3>1, <3>2 DEF RowOK, RunOK, TaskOK, AttemptOK
  <2> QED BY <2>1, <2>2
<1>3. Counted'
  <2>1. Runs' = Runs /\ ActiveRuns' \subseteq ActiveRuns
    BY FewerActive
  <2>2. {plan'[q].used : q \in Runs'} = {plan[q].used : q \in Runs}
    BY <2>1 DEF OnlyRow
  <2> QED BY <2>1, <2>2 DEF IInv, Counted
<1>4. FinalKept
    BY DEF FinalKept, OnlyRow, NotReopened, IInv, TypeOK
<1> QED BY <1>1, <1>2, <1>3, <1>4 DEF IInv

----------------------------------------------------------------------------
(***************************************************************************)
(* How an attempt and its workflow go on.                                  *)
(***************************************************************************)
\* A step of the workflow or of an attempt of p that adds no knowledge.
Flow(p) ==
    /\ wf'      = [wf EXCEPT ![p] = wf'[p]]
    /\ attempt' = [attempt EXCEPT ![p] = attempt'[p]]
    /\ wf'[p] \in FlowType /\ wf'[p].step # "IDLE"
    /\ attempt'[p] \in [Attempts -> AttemptType]
    /\ attempt'[p]["CURRENT"].at # "NONE" => wf'[p].step # "CLOSED"
    /\ \A b \in Attempts :
          /\ attempt'[p][b].answer \in TerminalStates => registry[p] = attempt'[p][b].answer
          /\ attempt'[p][b].at = "JOURNAL" =>
                 attempt[p][b].at = "JOURNAL" \/ run'[p].state = "SUCCEEDED"

\* What is known of an attempt that is at work.
LEMMA AtWork ==
    ASSUME IInv, NEW p \in Plans, NEW a \in Attempts, ~At(p, a, "NONE")
    PROVE  /\ wf[p] \in FlowType /\ wf[p].step # "IDLE"
           /\ a = "CURRENT" => wf[p].step # "CLOSED"
           /\ attempt[p] \in [Attempts -> AttemptType]
           /\ run[p] \in RunType /\ run[p].state # "NONE" /\ plan[p].state = "CONFIRMED"
BY DEF IInv, TypeOK, FlowType, RowOK, RunOK, AttemptOK, At, Attempts

LEMMA FirstTyped ==
    \A s \in WorkflowSteps \ {"IDLE"} :
        /\ First[s] \in Steps \ {"JOURNAL"}
        /\ First[s] # "NONE" => s # "CLOSED"
BY DEF WorkflowSteps, First, Steps

LEMMA OnErrorTyped ==
    \A s \in WorkflowSteps \ {"IDLE", "CLOSED"} : OnError[s] \in WorkflowSteps \ {"IDLE"}
BY DEF WorkflowSteps, OnError

LEMMA IdleTyped ==
    ASSUME NEW s \in Steps
    PROVE  /\ [Idle EXCEPT !.at = s] \in AttemptType
           /\ [Idle EXCEPT !.at = s].at = s /\ [Idle EXCEPT !.at = s].answer = "NONE"
BY DEF Idle, AttemptType, RegistryStates

LEMMA EnterFlow ==
    ASSUME IInv, NEW p \in Plans, NEW s \in WorkflowSteps \ {"IDLE"}, Enter(p, s)
    PROVE  Flow(p)
<1> DEFINE new == [Idle EXCEPT !.at = First[s]]
<1>1. new \in AttemptType /\ new.at # "JOURNAL" /\ (new.at # "NONE" => s # "CLOSED")
    BY FirstTyped, IdleTyped
<1>7. new.answer = "NONE"
    BY FirstTyped, IdleTyped
<1>2. attempt' = [attempt EXCEPT ![p]["CURRENT"] = new]
    BY DEF Enter
<1>3. /\ attempt \in [Plans -> [Attempts -> AttemptType]] /\ wf \in [Plans -> FlowType]
      /\ \A b \in Attempts : AttemptOK(p, b)
    BY DEF IInv, TypeOK, FlowType, RowOK
<1>4. wf'[p] = [step |-> s, tries |-> 1] /\ wf'[p] \in FlowType
    BY <1>3, BoundsAssumption DEF Enter, FlowType
<1>5. attempt'[p] = [attempt[p] EXCEPT !["CURRENT"] = new]
    BY <1>2, <1>3
<1> HIDE DEF new
<1>6. attempt'[p] \in [Attempts -> AttemptType] /\ attempt'[p]["CURRENT"] = new
      /\ attempt'[p]["ABANDONED"] = attempt[p]["ABANDONED"]
    BY <1>5, <1>3, <1>1 DEF Attempts
<1>8. ASSUME NEW b \in Attempts
      PROVE  /\ attempt'[p][b].answer \in TerminalStates => registry[p] = attempt'[p][b].answer
             /\ attempt'[p][b].at = "JOURNAL" => attempt[p][b].at = "JOURNAL"
    BY <1>6, <1>7, <1>1, <1>3 DEF Attempts, AttemptOK, TerminalStates
<1>9. wf' = [wf EXCEPT ![p] = wf'[p]] /\ attempt' = [attempt EXCEPT ![p] = attempt'[p]]
    BY <1>2, <1>3, <1>5 DEF Enter
<1> QED BY <1>4, <1>6, <1>1, <1>8, <1>9 DEF Flow

LEMMA LeaveFlow ==
    ASSUME IInv, NEW p \in Plans, Leave(p), wf[p].step # "IDLE"
    PROVE  Flow(p)
<1>1. /\ attempt \in [Plans -> [Attempts -> AttemptType]] /\ wf \in [Plans -> FlowType]
      /\ \A b \in Attempts : AttemptOK(p, b)
    BY DEF IInv, TypeOK, FlowType, RowOK
<1>2. Idle \in AttemptType /\ Idle.answer = "NONE" /\ Idle.at = "NONE"
    BY DEF Idle, AttemptType, Steps, RegistryStates
<1>3. attempt'[p] = [attempt[p] EXCEPT !["ABANDONED"] = Idle]
    BY <1>1 DEF Leave
<1>4. /\ attempt'[p] \in [Attempts -> AttemptType] /\ attempt'[p]["ABANDONED"] = Idle
      /\ attempt'[p]["CURRENT"] = attempt[p]["CURRENT"]
    BY <1>1, <1>2, <1>3 DEF Attempts
<1>5. ASSUME NEW b \in Attempts
      PROVE  /\ attempt'[p][b].answer \in TerminalStates => registry[p] = attempt'[p][b].answer
             /\ attempt'[p][b].at = "JOURNAL" => attempt[p][b].at = "JOURNAL"
    BY <1>1, <1>2, <1>4 DEF Attempts, AttemptOK, TerminalStates
<1>6. attempt'[p]["CURRENT"].at # "NONE" => wf'[p].step # "CLOSED"
    BY <1>1, <1>4 DEF AttemptOK, Attempts, Leave
<1> QED BY <1>1, <1>3, <1>4, <1>5, <1>6 DEF Flow, Leave

LEMMA ReturnFlow ==
    ASSUME IInv, NEW p \in Plans, NEW a \in Attempts, ~At(p, a, "NONE"),
           NEW s \in WorkflowSteps \ {"IDLE"}, Return(p, a, s)
    PROVE  Flow(p)
BY AtWork, EnterFlow, LeaveFlow DEF Return

LEMMA AbortFlow ==
    ASSUME IInv, NEW p \in Plans, NEW a \in Attempts, ~At(p, a, "NONE"), Abort(p, a)
    PROVE  Flow(p)
<1>1. CASE a = "CURRENT"
  <2>1. wf[p].step \in WorkflowSteps \ {"IDLE", "CLOSED"}
    BY <1>1, AtWork DEF FlowType
  <2>2. OnError[wf[p].step] \in WorkflowSteps \ {"IDLE"} /\ Enter(p, OnError[wf[p].step])
    BY <2>1, <1>1, OnErrorTyped DEF Abort
  <2> QED BY <2>1, <2>2, EnterFlow
<1>2. CASE a # "CURRENT"
    BY <1>2, AtWork, LeaveFlow DEF Abort
<1> QED BY <1>1, <1>2

LEMMA AgainFlow ==
    ASSUME IInv, NEW p \in Plans, Again(p), wf[p].step \notin {"IDLE", "CLOSED"},
           wf[p].tries < MaxAttempts \/ wf[p].step = "RECONCILE"
    PROVE  Flow(p)
<1> DEFINE s   == wf[p].step
           new == [Idle EXCEPT !.at = First[s]]
<1>3. /\ attempt \in [Plans -> [Attempts -> AttemptType]] /\ wf \in [Plans -> FlowType]
      /\ \A b \in Attempts : AttemptOK(p, b)
    BY DEF IInv, TypeOK, FlowType, RowOK
<1>0. wf[p] \in FlowType /\ s \in WorkflowSteps \ {"IDLE", "CLOSED"}
    BY <1>3 DEF FlowType
<1>1. new \in AttemptType /\ new.at # "JOURNAL"
    BY <1>0, FirstTyped, IdleTyped
<1>7. new.answer = "NONE"
    BY <1>0, FirstTyped, IdleTyped
<1>2. attempt' = [attempt EXCEPT ![p]["CURRENT"] = new]
    BY DEF Again
<1>4. wf'[p].step = s /\ wf'[p] \in FlowType
    BY <1>3, <1>0, BoundsAssumption DEF Again, FlowType
<1>5. attempt'[p] = [attempt[p] EXCEPT !["CURRENT"] = new]
    BY <1>2, <1>3
<1> HIDE DEF new
<1>6. attempt'[p] \in [Attempts -> AttemptType] /\ attempt'[p]["CURRENT"] = new
      /\ attempt'[p]["ABANDONED"] = attempt[p]["ABANDONED"]
    BY <1>5, <1>3, <1>1 DEF Attempts
<1>8. ASSUME NEW b \in Attempts
      PROVE  /\ attempt'[p][b].answer \in TerminalStates => registry[p] = attempt'[p][b].answer
             /\ attempt'[p][b].at = "JOURNAL" => attempt[p][b].at = "JOURNAL"
    BY <1>6, <1>7, <1>1, <1>3 DEF Attempts, AttemptOK, TerminalStates
<1>9. wf' = [wf EXCEPT ![p] = wf'[p]] /\ attempt' = [attempt EXCEPT ![p] = attempt'[p]]
    BY <1>2, <1>3, <1>5 DEF Again
<1> QED BY <1>0, <1>4, <1>6, <1>1, <1>8, <1>9 DEF Flow

LEMMA FailFlow ==
    ASSUME IInv, NEW p \in Plans, NEW a \in Attempts, ~At(p, a, "NONE"), Fail(p, a)
    PROVE  Flow(p)
<1>0. wf[p] \in FlowType /\ wf[p].step # "IDLE"
    BY AtWork
<1>1. CASE a = "ABANDONED"
  <2>1. Leave(p)
    BY <1>1 DEF Fail
  <2> QED BY <1>0, <2>1, LeaveFlow
<1>2. CASE a = "CURRENT"
  <2>1. wf[p].step \in WorkflowSteps \ {"IDLE", "CLOSED"}
    BY <1>2, AtWork DEF FlowType
  <2>2. CASE wf[p].tries < MaxAttempts \/ wf[p].step = "RECONCILE"
    <3>1. Again(p)
        BY <1>2, <2>2 DEF Fail
    <3> QED BY <2>1, <2>2, <3>1, AgainFlow
  <2>3. CASE ~(wf[p].tries < MaxAttempts \/ wf[p].step = "RECONCILE")
    <3>1. OnError[wf[p].step] \in WorkflowSteps \ {"IDLE"} /\ Enter(p, OnError[wf[p].step])
        BY <1>2, <2>1, <2>3, OnErrorTyped DEF Fail
    <3> QED BY <1>0, <3>1, EnterFlow
  <2> QED BY <2>2, <2>3
<1> QED BY <1>1, <1>2 DEF Attempts

LEMMA GotoFlow ==
    ASSUME IInv, NEW p \in Plans, NEW a \in Attempts, ~At(p, a, "NONE"),
           NEW s \in Steps, s = "JOURNAL" => run'[p].state = "SUCCEEDED",
           Goto(p, a, s), UNCHANGED wf
    PROVE  Flow(p)
<1>1. /\ attempt \in [Plans -> [Attempts -> AttemptType]] /\ wf \in [Plans -> FlowType]
      /\ \A b \in Attempts : AttemptOK(p, b)
    BY DEF IInv, TypeOK, FlowType, RowOK
<1>2. attempt'[p] = [attempt[p] EXCEPT ![a] = [attempt[p][a] EXCEPT !.at = s]]
    BY <1>1 DEF Goto
<1>0. [attempt[p][a] EXCEPT !.at = s] \in AttemptType
    BY <1>1 DEF AttemptType
<1>3. attempt'[p] \in [Attempts -> AttemptType]
    BY <1>0, <1>1, <1>2
<1>4. ASSUME NEW b \in Attempts
      PROVE  /\ attempt'[p][b].answer \in TerminalStates => registry[p] = attempt'[p][b].answer
             /\ attempt'[p][b].at = "JOURNAL" =>
                    attempt[p][b].at = "JOURNAL" \/ run'[p].state = "SUCCEEDED"
  <2>1. attempt'[p][b].answer = attempt[p][b].answer
    BY <1>1, <1>2 DEF AttemptType
  <2>2. attempt'[p][b].at = "JOURNAL" =>
            attempt[p][b].at = "JOURNAL" \/ run'[p].state = "SUCCEEDED"
    BY <1>1, <1>2 DEF AttemptType
  <2> QED BY <2>1, <2>2, <1>1 DEF AttemptOK
<1>5. attempt'[p]["CURRENT"].at # "NONE" => wf'[p].step # "CLOSED"
    BY <1>1, <1>2, AtWork DEF AttemptOK, Attempts
<1> QED BY <1>1, <1>2, <1>3, <1>4, <1>5, AtWork DEF Flow, Goto

----------------------------------------------------------------------------
(***************************************************************************)
(* How the rows of a run are written: the run itself with its operation    *)
(* and journal, or the provider's job and task.                            *)
(***************************************************************************)
RunWrite(p) ==
    /\ run'       = [run EXCEPT ![p] = run'[p]]
    /\ operation' = [operation EXCEPT ![p] = operation'[p]]
    /\ journal'   = [journal EXCEPT ![p] = journal'[p]]
    /\ run'[p] \in RunType /\ run'[p].state # "NONE"
    /\ operation'[p] \in Operations
    /\ journal'[p] \subseteq {"EXECUTE", "RECONCILE"}
    /\ run'[p].state = "SUCCEEDED" =>
           /\ registry[p] = "SUCCEEDED"
           /\ run'[p].evidence # "NONE" /\ run'[p].known /\ run'[p].submits = 1
    /\ run'[p].state = "FAILED" => registry[p] = "FAILED"
    /\ run'[p].state = "CANCELLED" => run'[p].absent \/ registry[p] = "CANCELLED"
    /\ run'[p].state \in TerminalStates \/ operation'[p] \in TerminalStates
           => operation'[p] = run'[p].state
    /\ "EXECUTE" \in journal'[p] => run'[p].state = "SUCCEEDED"
    /\ run[p].state \in TerminalStates => UNCHANGED <<run[p], operation[p]>>

TaskWrite(p) ==
    /\ registry' = [registry EXCEPT ![p] = registry'[p]]
    /\ task'     = [task EXCEPT ![p] = task'[p]]
    /\ registry'[p] \in RegistryStates /\ task'[p] \in TaskStates
    /\ registry'[p] = "NONE" => task'[p] = "NONE"
    /\ registry'[p] = "ACTIVE" => task'[p] \in {"WORKING", "SUCCEEDED", "OVERDRAWN", "FAILED"}
    /\ registry'[p] \in TerminalStates \cup {"OVERDRAWN", "BARE"} => task'[p] # "WORKING"
    /\ registry[p] \in TerminalStates => registry'[p] = registry[p]

\* An attempt was told how the job stands now.
Told(p, a) ==
    /\ attempt' = [attempt EXCEPT ![p][a] = attempt'[p][a]]
    /\ attempt'[p][a] \in AttemptType /\ attempt'[p][a].at # "JOURNAL"
    /\ attempt'[p][a].answer \in TerminalStates => registry'[p] = attempt'[p][a].answer

LEMMA RunUnwritten ==
    ASSUME IInv, NEW p \in Plans, run[p].state # "NONE", UNCHANGED <<run, operation, journal>>
    PROVE  RunWrite(p)
<1>1. run \in [Plans -> RunType] /\ operation \in [Plans -> Operations]
      /\ journal \in [Plans -> SUBSET {"EXECUTE", "RECONCILE"}] /\ RunOK(p)
    BY DEF IInv, TypeOK, RowOK, Operations
<1> QED BY <1>1 DEF RunWrite, RunOK

LEMMA StartedFlowStep ==
    ASSUME IInv, NEW p \in Plans, run[p].state # "NONE", Flow(p), RunWrite(p),
           UNCHANGED <<plan, idem, provider>>,
           starting' \ {p} = starting \ {p}, faults' \in 0..MaxFaults
    PROVE  RowStep(p)
<1>1. /\ RunOK(p) /\ TaskOK(p) /\ \A b \in Attempts : AttemptOK(p, b)
      /\ registry \in [Plans -> RegistryStates] /\ task \in [Plans -> TaskStates]
    BY DEF IInv, TypeOK, RowOK, TaskStates
<1>2. OnlyRow(p)
    BY <1>1 DEF OnlyRow, Flow, RunWrite, provider
<1>3. RowTyped(p)'
    BY <1>1 DEF RowTyped, Flow, RunWrite, provider
<1>4. RunOK(p)'
    BY <1>1 DEF RunOK, RunWrite, provider
<1>5. TaskOK(p)'
    BY <1>1 DEF TaskOK, Flow, provider
<1>6. ASSUME NEW b \in Attempts PROVE AttemptOK(p, b)'
  <2>1. attempt'[p][b].at = "JOURNAL" => run'[p].state = "SUCCEEDED"
    BY <1>1 DEF Flow, AttemptOK, RunWrite, TerminalStates
  <2> QED BY <2>1 DEF AttemptOK, Flow, provider
<1>7. NotReopened(p)
    BY DEF NotReopened, RunWrite
<1> QED BY <1>2, <1>3, <1>4, <1>5, <1>6, <1>7 DEF RowStep, RowOK

LEMMA FlowStep ==
    ASSUME IInv, NEW p \in Plans, run[p].state # "NONE", Flow(p), RunWrite(p),
           UNCHANGED <<plan, idem, provider, starting>>, faults' \in 0..MaxFaults
    PROVE  RowStep(p)
BY StartedFlowStep

LEMMA ToldStep ==
    ASSUME IInv, NEW p \in Plans, NEW a \in Attempts, ~At(p, a, "NONE"), Told(p, a),
           TaskWrite(p), UNCHANGED <<ledger, workflow, starting>>, faults' \in 0..MaxFaults
    PROVE  RowStep(p)
<1>1. /\ RunOK(p) /\ TaskOK(p) /\ \A b \in Attempts : AttemptOK(p, b)
      /\ run \in [Plans -> RunType] /\ operation \in [Plans -> Operations]
      /\ journal \in [Plans -> SUBSET {"EXECUTE", "RECONCILE"}]
      /\ wf \in [Plans -> FlowType] /\ attempt \in [Plans -> [Attempts -> AttemptType]]
    BY DEF IInv, TypeOK, RowOK, Operations, FlowType
<1>2. attempt'[p] = [attempt[p] EXCEPT ![a] = attempt'[p][a]]
    BY <1>1 DEF Told
<1>3. attempt'[p] \in [Attempts -> AttemptType] /\ attempt' = [attempt EXCEPT ![p] = attempt'[p]]
      /\ \A b \in Attempts \ {a} : attempt'[p][b] = attempt[p][b]
    BY <1>1, <1>2 DEF Told
<1>4. /\ plan' = plan /\ idem' = idem /\ run' = run /\ operation' = operation
      /\ journal' = journal /\ wf' = wf /\ starting' = starting
    BY DEF ledger, workflow
<1>5. OnlyRow(p)
    BY <1>1, <1>3, <1>4 DEF OnlyRow, TaskWrite
<1>6. RowTyped(p)'
    BY <1>1, <1>3, <1>4 DEF RowTyped, TaskWrite
<1>7. RunOK(p)'
    BY <1>1, <1>4 DEF RunOK, TaskWrite, TerminalStates
<1>8. TaskOK(p)'
    BY <1>1, <1>4, AtWork DEF TaskOK, TaskWrite
<1>9. ASSUME NEW b \in Attempts PROVE AttemptOK(p, b)'
  <2>1. wf'[p].step # "IDLE" /\ (attempt'[p]["CURRENT"].at # "NONE" => wf'[p].step # "CLOSED")
    BY <1>1, <1>3, <1>4, AtWork DEF AttemptOK, Attempts
  <2>2. attempt'[p][b].answer \in TerminalStates => registry'[p] = attempt'[p][b].answer
    BY <1>1, <1>3 DEF AttemptOK, Told, TaskWrite
  <2>3. attempt'[p][b].at = "JOURNAL" => run'[p].state = "SUCCEEDED"
    BY <1>1, <1>3, <1>4 DEF AttemptOK, Told
  <2> QED BY <2>1, <2>2, <2>3 DEF AttemptOK
<1>10. NotReopened(p)
    BY <1>4 DEF NotReopened
<1> QED BY <1>5, <1>6, <1>7, <1>8, <1>9, <1>10 DEF RowStep, RowOK

\* A step of an attempt that only moves the workflow or the attempt.
LEMMA QuietStep ==
    ASSUME IInv, NEW p \in Plans, NEW a \in Attempts, ~At(p, a, "NONE"), Flow(p),
           UNCHANGED <<ledger, journal, provider, starting>>, faults' \in 0..MaxFaults
    PROVE  RowStep(p)
<1>1. run[p].state # "NONE" /\ UNCHANGED <<run, operation, journal>>
    BY AtWork DEF ledger
<1> QED BY <1>1, RunUnwritten, FlowStep DEF ledger

----------------------------------------------------------------------------
(***************************************************************************)
(* One lemma for each step of an attempt.                                  *)
(***************************************************************************)
LEMMA FaultsTyped ==
    ASSUME IInv
    PROVE  /\ UNCHANGED faults => faults' \in 0..MaxFaults
           /\ Fault => faults' \in 0..MaxFaults
BY BoundsAssumption DEF IInv, TypeOK, Fault

LEMMA AttemptFailsStep ==
    ASSUME IInv, NEW p \in Plans, NEW a \in Attempts, AttemptFails(p, a)
    PROVE  RowStep(p)
BY FailFlow, QuietStep, FaultsTyped DEF AttemptFails

\* The attempt that is given up keeps what it knows.
LEMMA HeartbeatTimeoutStep ==
    ASSUME IInv, NEW p \in Plans, HeartbeatTimeout(p)
    PROVE  RowStep(p)
<1> DEFINE old == attempt[p]["CURRENT"]
           new == [Idle EXCEPT !.at = First[wf[p].step]]
<1>1. /\ attempt \in [Plans -> [Attempts -> AttemptType]] /\ wf \in [Plans -> FlowType]
      /\ RowOK(p) /\ run \in [Plans -> RunType] /\ wf[p].step \in {"EXECUTE", "RECONCILE"}
    BY DEF IInv, TypeOK, FlowType, HeartbeatTimeout
<1>2. /\ new \in AttemptType /\ new.at # "JOURNAL" /\ new.answer = "NONE"
      /\ old \in AttemptType
  <2>1. wf[p].step \in WorkflowSteps \ {"IDLE"}
    BY <1>1 DEF WorkflowSteps
  <2>2. First[wf[p].step] \in Steps \ {"JOURNAL"}
    BY <2>1, FirstTyped
  <2>3. new \in AttemptType /\ new.at # "JOURNAL" /\ new.answer = "NONE"
    BY <2>2, IdleTyped
  <2> QED BY <1>1, <2>3 DEF Attempts
<1>3. attempt' = [attempt EXCEPT ![p] = [CURRENT |-> new, ABANDONED |-> old]]
    BY DEF HeartbeatTimeout
<1>4. wf'[p] \in FlowType /\ wf'[p].step = wf[p].step /\ wf' = [wf EXCEPT ![p] = wf'[p]]
  <2>1. wf' = [wf EXCEPT ![p].tries = IF wf[p].step = "RECONCILE" THEN 1 ELSE @ + 1]
        /\ (wf[p].tries < MaxAttempts \/ wf[p].step = "RECONCILE")
    BY DEF HeartbeatTimeout
  <2> QED BY <2>1, <1>1, BoundsAssumption DEF FlowType
<1> HIDE DEF old, new
<1>5. attempt'[p] = [CURRENT |-> new, ABANDONED |-> old]
    BY <1>1, <1>3
<1>6. /\ attempt'[p] \in [Attempts -> AttemptType] /\ attempt' = [attempt EXCEPT ![p] = attempt'[p]]
      /\ attempt'[p]["CURRENT"] = new /\ attempt'[p]["ABANDONED"] = old
    BY <1>1, <1>2, <1>3, <1>5 DEF Attempts
<1>7. old.answer \in TerminalStates => registry[p] = old.answer
    BY <1>1 DEF old, RowOK, AttemptOK, Attempts
<1>8. old.at = "JOURNAL" => run[p].state = "SUCCEEDED"
    BY <1>1 DEF old, RowOK, AttemptOK, Attempts
<1>9. /\ UNCHANGED <<ledger, journal, provider, starting>> /\ faults' \in 0..MaxFaults
    BY FaultsTyped DEF HeartbeatTimeout
<1>10. ASSUME NEW b \in Attempts
       PROVE  /\ attempt'[p][b].answer \in TerminalStates => registry[p] = attempt'[p][b].answer
              /\ attempt'[p][b].at = "JOURNAL" => run'[p].state = "SUCCEEDED"
    BY <1>2, <1>6, <1>7, <1>8, <1>9 DEF Attempts, TerminalStates, ledger
<1>11. Flow(p)
    BY <1>1, <1>4, <1>6, <1>10 DEF Flow
<1>12. run[p].state # "NONE"
    BY <1>1 DEF RowOK, RunOK
<1> QED BY <1>9, <1>11, <1>12, RunUnwritten, FlowStep DEF ledger

LEMMA ReplayedStep ==
    ASSUME IInv, NEW p \in Plans, NEW a \in Attempts, ~At(p, a, "NONE"),
           NEW n, NEW s \in WorkflowSteps \ {"IDLE"}, Replayed(p, a, n, s)
    PROVE  RowStep(p)
BY ReturnFlow, QuietStep, FaultsTyped DEF Replayed

LEMMA JournalStep ==
    ASSUME IInv, NEW p \in Plans, NEW a \in Attempts, ~At(p, a, "NONE"),
           NEW n \in {"EXECUTE", "RECONCILE"}, n = "EXECUTE" => run[p].state = "SUCCEEDED",
           NEW s \in WorkflowSteps \ {"IDLE"}, Journal(p, a, n, s)
    PROVE  RowStep(p)
<1>1. Flow(p) /\ run[p].state # "NONE" /\ faults' \in 0..MaxFaults
    BY ReturnFlow, AtWork, FaultsTyped DEF Journal
<1>2. /\ run \in [Plans -> RunType] /\ operation \in [Plans -> Operations] /\ RunOK(p)
      /\ journal \in [Plans -> SUBSET {"EXECUTE", "RECONCILE"}]
    BY DEF IInv, TypeOK, RowOK, Operations
<1>3. /\ run' = run /\ operation' = operation /\ plan' = plan /\ idem' = idem
      /\ journal' = [journal EXCEPT ![p] = @ \cup {n}]
    BY DEF Journal, ledger
<1>4. RunWrite(p)
    BY <1>1, <1>2, <1>3 DEF RunWrite, RunOK
<1> QED BY <1>1, <1>3, <1>4, FlowStep DEF Journal

LEMMA PrepareStep ==
    ASSUME IInv, NEW p \in Plans, NEW a \in Attempts, PrepareCreatorProviderJob(p, a)
    PROVE  RowStep(p)
<1>1. /\ run \in [Plans -> RunType] /\ operation \in [Plans -> Operations] /\ RunOK(p)
      /\ journal \in [Plans -> SUBSET {"EXECUTE", "RECONCILE"}]
      /\ attempt \in [Plans -> [Attempts -> AttemptType]] /\ wf \in [Plans -> FlowType]
      /\ \A b \in Attempts : AttemptOK(p, b)
    BY DEF IInv, TypeOK, RowOK, Operations, FlowType
<1>2. ~At(p, a, "NONE")
    BY DEF PrepareCreatorProviderJob, At
<1>3. run[p].state # "NONE" /\ wf[p].step # "IDLE"
    BY <1>2, AtWork
<1>4. RunWrite(p)
  <2>1. /\ run[p].state \notin TerminalStates
        /\ run' = IF run[p].state \in {"RUNNING", "UNKNOWN"}
                  THEN [run EXCEPT ![p].state = "RECONCILING"] ELSE run
        /\ operation' = operation /\ journal' = journal
    BY DEF PrepareCreatorProviderJob, workflow
  <2>2. run'[p] \in RunType /\ run' = [run EXCEPT ![p] = run'[p]]
        /\ run'[p].state \notin TerminalStates \cup {"NONE"}
    BY <1>1, <1>3, <2>1 DEF RunType, ActiveStates, TerminalStates
  <2> QED BY <1>1, <2>1, <2>2 DEF RunWrite, RunOK, TerminalStates
<1>5. Flow(p)
  <2>1. PICK at \in {"POLL", "FREEZE"}, r \in BOOLEAN :
            attempt' = [attempt EXCEPT ![p][a] = [at |-> at, reconcile |-> r, answer |-> "NONE"]]
    BY <1>1 DEF PrepareCreatorProviderJob, RunType
  <2> DEFINE new == [at |-> at, reconcile |-> r, answer |-> "NONE"]
  <2>2. new \in AttemptType /\ new.at # "JOURNAL" /\ new.answer \notin TerminalStates
    BY DEF AttemptType, Steps, RegistryStates, TerminalStates
  <2> HIDE DEF new
  <2>3. attempt'[p] = [attempt[p] EXCEPT ![a] = new]
        /\ attempt' = [attempt EXCEPT ![p] = attempt'[p]] /\ wf' = wf
    BY <1>1, <2>1 DEF new, PrepareCreatorProviderJob, workflow
  <2>4. attempt'[p] \in [Attempts -> AttemptType] /\ attempt'[p][a] = new
        /\ \A b \in Attempts \ {a} : attempt'[p][b] = attempt[p][b]
    BY <1>1, <2>2, <2>3
  <2>5. ASSUME NEW b \in Attempts
        PROVE  /\ attempt'[p][b].answer \in TerminalStates => registry[p] = attempt'[p][b].answer
               /\ attempt'[p][b].at = "JOURNAL" => attempt[p][b].at = "JOURNAL"
    BY <1>1, <2>2, <2>4 DEF AttemptOK
  <2>6. attempt'[p]["CURRENT"].at # "NONE" => wf'[p].step # "CLOSED"
    BY <1>1, <1>2, <2>3, <2>4, AtWork DEF AttemptOK, Attempts
  <2> QED BY <1>1, <1>3, <2>3, <2>4, <2>5, <2>6 DEF Flow
<1> QED BY <1>3, <1>4, <1>5, FlowStep, FaultsTyped DEF PrepareCreatorProviderJob

LEMMA PrepareRefusedStep ==
    ASSUME IInv, NEW p \in Plans, NEW a \in Attempts, PrepareRefused(p, a)
    PROVE  RowStep(p)
<1>1. ~At(p, a, "NONE")
    BY DEF PrepareRefused, At
<1> QED BY <1>1, FailFlow, QuietStep, FaultsTyped DEF PrepareRefused

LEMMA ObserveWrites ==
    ASSUME IInv, NEW p \in Plans, run[p].state # "NONE",
           NEW state \in ActiveStates, NEW known, NEW submitted,
           Observe(p, state, known, submitted), UNCHANGED journal
    PROVE  RunWrite(p)
<1>1. /\ run \in [Plans -> RunType] /\ operation \in [Plans -> Operations] /\ RunOK(p)
      /\ journal \in [Plans -> SUBSET {"EXECUTE", "RECONCILE"}]
    BY DEF IInv, TypeOK, RowOK, Operations
<1>6. run[p] \in RunType /\ state \in ActiveStates \cup TerminalStates
    BY <1>1
<1>2. CASE run[p].state \in TerminalStates
    BY <1>1, <1>2, RunUnwritten DEF Observe
<1>3. CASE run[p].state \notin TerminalStates
  <2>5. PICK k \in BOOLEAN : k = (run[p].known \/ known)
    OBVIOUS
  <2>6. PICK n \in 0..1 : n = IF submitted \/ known THEN 1 ELSE run[p].submits
    BY <1>1 DEF RunType
  <2>7. run' = [run EXCEPT ![p].state = state, ![p].known = k, ![p].submits = n]
    BY <1>3, <2>5, <2>6 DEF Observe
  <2>8. run'[p] = [run[p] EXCEPT !.state = state, !.known = k, !.submits = n]
    BY <1>1, <2>7
  <2>2. run'[p] \in RunType /\ run'[p].state = state
    BY <1>6, <2>5, <2>6, <2>8 DEF RunType
  <2>1. run' = [run EXCEPT ![p] = run'[p]]
    BY <1>1, <2>7, <2>8
  <2>3. operation' = [operation EXCEPT ![p] = operation'[p]]
        /\ operation'[p] \in Operations \ TerminalStates
    BY <1>1, <1>3 DEF Observe, RunOK, Operations, TerminalStates
  <2>4. state \notin TerminalStates \cup {"NONE"}
    BY DEF ActiveStates, TerminalStates
  <2> QED BY <1>1, <1>3, <2>1, <2>2, <2>3, <2>4 DEF RunWrite, RunOK, TerminalStates
<1> QED BY <1>2, <1>3

LEMMA FreezeIntentStep ==
    ASSUME IInv, NEW p \in Plans, NEW a \in Attempts, FreezeIntent(p, a)
    PROVE  RowStep(p)
<1>1. ~At(p, a, "NONE") /\ "UNKNOWN" \in ActiveStates /\ "SUBMIT" \in Steps
    BY DEF FreezeIntent, At, ActiveStates, Steps
<1>2. RunWrite(p)
    BY <1>1, AtWork, ObserveWrites DEF FreezeIntent, workflow
<1>3. Flow(p)
    BY <1>1, GotoFlow DEF FreezeIntent, workflow
<1> QED BY <1>1, <1>2, <1>3, AtWork, FlowStep, FaultsTyped DEF FreezeIntent

LEMMA RecordLostAnswerStep ==
    ASSUME IInv, NEW p \in Plans, NEW a \in Attempts, RecordLostAnswer(p, a)
    PROVE  RowStep(p)
<1>1. ~At(p, a, "NONE") /\ "UNKNOWN" \in ActiveStates
    BY DEF RecordLostAnswer, At, ActiveStates
<1>2. RunWrite(p)
    BY <1>1, AtWork, ObserveWrites DEF RecordLostAnswer
<1>3. Flow(p)
    BY <1>1, FailFlow DEF RecordLostAnswer
<1> QED BY <1>1, <1>2, <1>3, AtWork, FlowStep, FaultsTyped DEF RecordLostAnswer

LEMMA RecordObservationStep ==
    ASSUME IInv, NEW p \in Plans, NEW a \in Attempts, RecordObservation(p, a)
    PROVE  RowStep(p)
<1> DEFINE answer == attempt[p][a].answer
<1>1. ~At(p, a, "NONE") /\ {"POLL", "COMPLETE"} \subseteq Steps
    BY DEF RecordObservation, At, Steps
<1>2. ObservedState(answer) \in ActiveStates
    BY DEF ObservedState, ActiveStates
<1>3. RunWrite(p)
    BY <1>1, <1>2, AtWork, ObserveWrites DEF RecordObservation
<1>4. CASE answer = "ACTIVE"
  <2>1. Goto(p, a, "POLL") /\ UNCHANGED wf
    BY <1>4 DEF RecordObservation
  <2> QED BY <2>1, <1>1, <1>3, GotoFlow, AtWork, FlowStep, FaultsTyped DEF RecordObservation
<1>5. CASE answer \in {"SUCCEEDED", "OVERDRAWN"}
  <2>1. Goto(p, a, "COMPLETE") /\ UNCHANGED wf
    BY <1>5 DEF RecordObservation
  <2> QED BY <2>1, <1>1, <1>3, GotoFlow, AtWork, FlowStep, FaultsTyped DEF RecordObservation
<1>6. CASE answer = "BARE"
  <2>1. Fail(p, a)
    BY <1>6 DEF RecordObservation
  <2> QED BY <2>1, <1>1, <1>3, FailFlow, AtWork, FlowStep, FaultsTyped DEF RecordObservation
<1>7. CASE answer \notin {"ACTIVE", "SUCCEEDED", "OVERDRAWN", "BARE"}
  <2>1. Abort(p, a) \/ Fail(p, a)
    BY <1>7 DEF RecordObservation
  <2> QED BY <2>1, <1>1, <1>3, FailFlow, AbortFlow, AtWork, FlowStep, FaultsTyped
          DEF RecordObservation
<1> QED BY <1>4, <1>5, <1>6, <1>7

LEMMA CompleteWrites ==
    ASSUME IInv, NEW p \in Plans, run[p].state # "NONE", registry[p] = "SUCCEEDED",
           NEW path \in {"EXECUTE", "RECONCILE"}, Complete(p, path), UNCHANGED journal
    PROVE  RunWrite(p) /\ run'[p].state = "SUCCEEDED"
<1>1. /\ run \in [Plans -> RunType] /\ operation \in [Plans -> Operations] /\ RunOK(p)
      /\ journal \in [Plans -> SUBSET {"EXECUTE", "RECONCILE"}]
    BY DEF IInv, TypeOK, RowOK, Operations
<1>2. /\ run' = [run EXCEPT ![p].state = "SUCCEEDED", ![p].known = TRUE, ![p].submits = 1,
                            ![p].evidence = path]
      /\ operation' = [operation EXCEPT ![p] = "SUCCEEDED"]
      /\ CompletionAccepted(p, path)
    BY DEF Complete, Settle
<1>7. run'[p] = [run[p] EXCEPT !.state = "SUCCEEDED", !.known = TRUE, !.submits = 1,
                               !.evidence = path]
    BY <1>1, <1>2
<1>8. run' = [run EXCEPT ![p] = run'[p]]
    BY <1>1, <1>2, <1>7
<1>6. run[p] \in RunType
    BY <1>1
<1>3. /\ run'[p] \in RunType /\ run'[p].state = "SUCCEEDED" /\ run'[p].evidence = path
      /\ run'[p].known = TRUE /\ run'[p].submits = 1
  <2>5. PICK k \in BOOLEAN : k = TRUE
    OBVIOUS
  <2>6. PICK n \in 0..1 : n = 1
    OBVIOUS
  <2>7. PICK state \in TerminalStates : state = "SUCCEEDED"
    BY DEF TerminalStates
  <2>1. k \in BOOLEAN /\ n \in 0..1 /\ state \in ActiveStates \cup TerminalStates
    BY <2>5, <2>6, <2>7
  <2>2. run'[p] = [run[p] EXCEPT !.state = state, !.known = k, !.submits = n, !.evidence = path]
    BY <1>7, <2>5, <2>6, <2>7
  <2>3. run'[p] \in RunType
    BY <1>6, <2>1, <2>2 DEF RunType
  <2>4. run'[p].state = state /\ run'[p].evidence = path /\ run'[p].known = k /\ run'[p].submits = n
    BY <1>6, <2>2 DEF RunType
  <2> QED BY <2>5, <2>6, <2>7, <2>3, <2>4
<1>4. operation'[p] = "SUCCEEDED" /\ operation' = [operation EXCEPT ![p] = operation'[p]]
    BY <1>1, <1>2
<1>5. ASSUME run[p].state \in TerminalStates
      PROVE  run'[p] = run[p] /\ operation'[p] = operation[p]
  <2>1. run[p].state = "SUCCEEDED" /\ run[p].evidence = path
    BY <1>2, <1>5 DEF CompletionAccepted
  <2>2. run[p].known = TRUE /\ run[p].submits = 1 /\ operation[p] = "SUCCEEDED"
    BY <1>1, <2>1 DEF RunOK, RunType, TerminalStates
  <2>3. run[p] = [run[p] EXCEPT !.state = "SUCCEEDED", !.known = TRUE, !.submits = 1,
                                !.evidence = path]
    BY <1>1, <2>1, <2>2 DEF RunType
  <2> QED BY <1>7, <1>4, <2>2, <2>3
<1> QED BY <1>1, <1>8, <1>3, <1>4, <1>5 DEF RunWrite, Operations, TerminalStates

LEMMA CompleteStep ==
    ASSUME IInv, NEW p \in Plans, NEW a \in Attempts, CompleteProviderJob(p, a)
    PROVE  RowStep(p)
<1>1. ~At(p, a, "NONE") /\ "JOURNAL" \in Steps
    BY DEF CompleteProviderJob, At, Steps
<1>2. registry[p] = "SUCCEEDED"
    BY DEF CompleteProviderJob, IInv, RowOK, AttemptOK, TerminalStates
<1>3. RunWrite(p) /\ run'[p].state = "SUCCEEDED"
    BY <1>1, <1>2, AtWork, CompleteWrites DEF CompleteProviderJob, workflow
<1>4. Flow(p)
    BY <1>1, <1>3, GotoFlow DEF CompleteProviderJob, workflow
<1> QED BY <1>1, <1>3, <1>4, AtWork, FlowStep, FaultsTyped DEF CompleteProviderJob

LEMMA CompleteRefusedStep ==
    ASSUME IInv, NEW p \in Plans, NEW a \in Attempts, CompleteRefused(p, a)
    PROVE  RowStep(p)
<1>1. ~At(p, a, "NONE")
    BY DEF CompleteRefused, At
<1> QED BY <1>1, FailFlow, QuietStep, FaultsTyped DEF CompleteRefused

----------------------------------------------------------------------------
(***************************************************************************)
(* The calls of the adapter.                                               *)
(***************************************************************************)
LEMMA TaskUnwritten ==
    ASSUME IInv, NEW p \in Plans, UNCHANGED provider
    PROVE  TaskWrite(p)
<1>1. /\ TaskOK(p) /\ registry \in [Plans -> RegistryStates] /\ task \in [Plans -> TaskStates]
    BY DEF IInv, TypeOK, RowOK, TaskStates
<1> QED BY <1>1 DEF TaskWrite, TaskOK, provider

LEMMA SubmitWrites ==
    ASSUME IInv, NEW p \in Plans, RegistrySubmit(p)
    PROVE  TaskWrite(p)
<1>1. /\ TaskOK(p) /\ registry \in [Plans -> RegistryStates] /\ task \in [Plans -> TaskStates]
    BY DEF IInv, TypeOK, RowOK, TaskStates
<1>2. CASE registry[p] # "NONE"
    BY <1>2, TaskUnwritten DEF RegistrySubmit
<1>3. CASE registry[p] = "NONE"
  <2>1. task[p] = "NONE"
    BY <1>1, <1>3 DEF TaskOK
  <2>2. PICK r \in {"ACTIVE", "FAILED", "UNCLEAR"}, t \in {"NONE", "WORKING"} :
            /\ registry' = [registry EXCEPT ![p] = r] /\ task' = [task EXCEPT ![p] = t]
            /\ r = "ACTIVE" => t = "WORKING"
            /\ r = "FAILED" => t = "NONE"
    <3>1. task = [task EXCEPT ![p] = "NONE"]
        BY <1>1, <2>1
    <3>2. CASE registry' = [registry EXCEPT ![p] = "ACTIVE"] /\ task' = [task EXCEPT ![p] = "WORKING"]
        BY <3>2
    <3>3. CASE registry' = [registry EXCEPT ![p] = "FAILED"] /\ UNCHANGED task
        BY <3>1, <3>3
    <3>4. CASE /\ registry' = [registry EXCEPT ![p] = "UNCLEAR"]
               /\ task' \in {task, [task EXCEPT ![p] = "WORKING"]}
        BY <3>1, <3>4
    <3> QED BY <1>3, <3>2, <3>3, <3>4 DEF RegistrySubmit
  <2>3. registry'[p] = r /\ task'[p] = t
    BY <1>1, <2>2
  <2> QED BY <1>1, <1>3, <2>2, <2>3 DEF TaskWrite, RegistryStates, TaskStates, TerminalStates
<1> QED BY <1>2, <1>3

LEMMA GetWrites ==
    ASSUME IInv, NEW p \in Plans, RegistryGet(p)
    PROVE  TaskWrite(p)
<1>1. /\ TaskOK(p) /\ registry \in [Plans -> RegistryStates] /\ task \in [Plans -> TaskStates]
    BY DEF IInv, TypeOK, RowOK, TaskStates
<1>2. CASE registry[p] = "ACTIVE" /\ task[p] # "WORKING"
  <2>1. registry' = [registry EXCEPT ![p] = task[p]] /\ task' = task
    BY <1>2 DEF RegistryGet
  <2>2. task[p] \in {"SUCCEEDED", "OVERDRAWN", "FAILED"}
    BY <1>1, <1>2 DEF TaskOK
  <2> QED BY <1>1, <1>2, <2>1, <2>2 DEF TaskWrite, RegistryStates, TerminalStates
<1>3. CASE ~(registry[p] = "ACTIVE" /\ task[p] # "WORKING")
  <2>1. UNCHANGED provider
    BY <1>1, <1>3 DEF RegistryGet, provider
  <2> QED BY <2>1, TaskUnwritten
<1> QED BY <1>2, <1>3

LEMMA CancelWrites ==
    ASSUME IInv, NEW p \in Plans, RegistryCancel(p)
    PROVE  TaskWrite(p)
<1>1. /\ TaskOK(p) /\ registry \in [Plans -> RegistryStates] /\ task \in [Plans -> TaskStates]
    BY DEF IInv, TypeOK, RowOK, TaskStates
<1>2. CASE UNCHANGED provider
    BY <1>2, TaskUnwritten
<1>3. CASE ~UNCHANGED provider
  <2>1. registry[p] = "ACTIVE" /\ task[p] \in {"WORKING", "SUCCEEDED", "OVERDRAWN", "FAILED"}
    BY <1>1, <1>3 DEF RegistryCancel, TaskOK
  <2>2. CASE task[p] = "WORKING"
    <3>1. registry' = [registry EXCEPT ![p] = "CANCELLED"] /\ task' = [task EXCEPT ![p] = "STOPPED"]
        BY <1>3, <2>1, <2>2 DEF RegistryCancel
    <3> QED BY <1>1, <2>1, <3>1 DEF TaskWrite, RegistryStates, TaskStates, TerminalStates
  <2>3. CASE task[p] = "FAILED"
    <3>1. registry' = [registry EXCEPT ![p] = "FAILED"] /\ task' = task
        BY <1>3, <2>1, <2>3 DEF RegistryCancel
    <3> QED BY <1>1, <2>1, <2>3, <3>1 DEF TaskWrite, RegistryStates, TaskStates, TerminalStates
  <2>4. CASE task[p] \notin {"WORKING", "FAILED"}
    <3>1. registry' = [registry EXCEPT ![p] = "BARE"] /\ task' = task
        BY <1>3, <2>1, <2>4 DEF RegistryCancel
    <3> QED BY <1>1, <2>1, <2>4, <3>1 DEF TaskWrite, RegistryStates, TaskStates, TerminalStates
  <2> QED BY <2>2, <2>3, <2>4
<1> QED BY <1>2, <1>3

LEMMA AnsweredTold ==
    ASSUME IInv, NEW p \in Plans, NEW a \in Attempts, TaskWrite(p), Answered(p, a)
    PROVE  Told(p, a)
<1>1. attempt \in [Plans -> [Attempts -> AttemptType]]
    BY DEF IInv, TypeOK
<1> DEFINE new == [attempt[p][a] EXCEPT !.at = "OBSERVE", !.answer = registry'[p]]
<1>2. attempt'[p][a] = new /\ attempt' = [attempt EXCEPT ![p][a] = new]
    BY <1>1 DEF Answered
<1>3. attempt[p][a] \in AttemptType /\ registry'[p] \in RegistryStates /\ "OBSERVE" \in Steps
    BY <1>1 DEF TaskWrite, Steps
<1>4. new \in AttemptType /\ new.at = "OBSERVE" /\ new.answer = registry'[p]
    BY <1>3 DEF AttemptType
<1> HIDE DEF new
<1> QED BY <1>2, <1>4 DEF Told

LEMMA LostTold ==
    ASSUME IInv, NEW p \in Plans, NEW a \in Attempts, TaskWrite(p), Goto(p, a, "LOST")
    PROVE  Told(p, a)
<1>1. attempt \in [Plans -> [Attempts -> AttemptType]] /\ AttemptOK(p, a)
    BY DEF IInv, TypeOK, RowOK
<1> DEFINE new == [attempt[p][a] EXCEPT !.at = "LOST"]
<1>2. attempt'[p][a] = new /\ attempt' = [attempt EXCEPT ![p][a] = new]
    BY <1>1 DEF Goto
<1>3. attempt[p][a] \in AttemptType /\ "LOST" \in Steps
    BY <1>1 DEF Steps
<1>4. new \in AttemptType /\ new.at = "LOST" /\ new.answer = attempt[p][a].answer
    BY <1>3 DEF AttemptType
<1> HIDE DEF new
<1>5. new.answer \in TerminalStates => registry'[p] = new.answer
    BY <1>1, <1>4 DEF AttemptOK, TaskWrite
<1> QED BY <1>2, <1>4, <1>5 DEF Told

LEMMA SubmitStep ==
    ASSUME IInv, NEW p \in Plans, NEW a \in Attempts, Submit(p, a)
    PROVE  RowStep(p)
<1>1. ~At(p, a, "NONE") /\ UNCHANGED <<ledger, workflow, starting>> /\ faults' \in 0..MaxFaults
    BY FaultsTyped DEF Submit, At, AnswerLost
<1>2. TaskWrite(p)
    BY SubmitWrites DEF Submit
<1>3. Told(p, a)
    BY <1>2, AnsweredTold, LostTold DEF Submit, AnswerLost
<1> QED BY <1>1, <1>2, <1>3, ToldStep

LEMMA PollStep ==
    ASSUME IInv, NEW p \in Plans, NEW a \in Attempts, Poll(p, a)
    PROVE  RowStep(p)
<1>1. ~At(p, a, "NONE") /\ UNCHANGED <<ledger, workflow, starting>> /\ faults' \in 0..MaxFaults
    BY FaultsTyped DEF Poll, At, AnswerLost
<1>2. TaskWrite(p)
    BY GetWrites DEF Poll
<1>3. Told(p, a)
    BY <1>2, AnsweredTold, LostTold DEF Poll, AnswerLost
<1> QED BY <1>1, <1>2, <1>3, ToldStep

LEMMA TaskEndsStep ==
    ASSUME IInv, NEW p \in Plans, TaskEnds(p)
    PROVE  RowStep(p)
<1>1. /\ RunOK(p) /\ TaskOK(p) /\ \A b \in Attempts : AttemptOK(p, b)
      /\ RowTyped(p)
    BY RowsTyped DEF IInv, RowOK
<1>2. task \in [Plans -> TaskStates] /\ task[p] = "WORKING"
    BY DEF IInv, TypeOK, TaskStates, TaskEnds
<1>3. PICK end \in {"SUCCEEDED", "OVERDRAWN", "FAILED"} : task' = [task EXCEPT ![p] = end]
    BY DEF TaskEnds
<1>4. /\ UNCHANGED <<plan, idem, run, operation, journal, wf, attempt, registry, starting>>
      /\ faults' \in 0..MaxFaults
    BY FaultsTyped DEF TaskEnds, ledger, workflow
<1>5. task'[p] = end
    BY <1>2, <1>3
<1>6. OnlyRow(p)
    BY <1>2, <1>3, <1>4, <1>5 DEF OnlyRow, IInv, TypeOK
<1>7. RowTyped(p)' /\ RunOK(p)' /\ NotReopened(p)
    BY <1>1, <1>3, <1>4, <1>5 DEF RowTyped, RunOK, NotReopened, TaskStates
<1>8. TaskOK(p)' /\ \A b \in Attempts : AttemptOK(p, b)'
    BY <1>1, <1>2, <1>3, <1>4, <1>5 DEF TaskOK, AttemptOK
<1> QED BY <1>6, <1>7, <1>8 DEF RowStep, RowOK

LEMMA CancelRemoteStep ==
    ASSUME IInv, NEW p \in Plans, NEW a \in Attempts, CancelRemote(p, a)
    PROVE  RowStep(p)
<1>1. ~At(p, a, "NONE") /\ UNCHANGED <<ledger, workflow, starting>> /\ faults' \in 0..MaxFaults
    BY FaultsTyped DEF CancelRemote, At
<1>2. TaskWrite(p)
    BY CancelWrites DEF CancelRemote
<1>3. PICK at \in {"RACED", "RECORD"}, answer \in RegistryStates \cup {"ABSENT", "UNKNOWN"} :
          /\ attempt' = [attempt EXCEPT ![p][a] = [at |-> at, reconcile |-> TRUE, answer |-> answer]]
          /\ answer \in TerminalStates => registry'[p] = answer
  <2>1. /\ CancelResult(registry'[p]) \in RegistryStates \cup {"ABSENT", "UNKNOWN"}
        /\ CancelResult(registry'[p]) \in TerminalStates => registry'[p] = CancelResult(registry'[p])
    BY <1>2 DEF TaskWrite, CancelResult, RegistryStates, TerminalStates
  <2>2. "UNKNOWN" \notin TerminalStates
    BY DEF TerminalStates
  <2> QED BY <2>1, <2>2 DEF CancelRemote
<1> DEFINE new == [at |-> at, reconcile |-> TRUE, answer |-> answer]
<1>4. new \in AttemptType /\ new.at # "JOURNAL" /\ new.answer = answer
    BY DEF AttemptType, Steps
<1>5. attempt'[p][a] = new /\ attempt' = [attempt EXCEPT ![p][a] = new]
    BY <1>3 DEF IInv, TypeOK
<1> HIDE DEF new
<1>6. Told(p, a)
    BY <1>3, <1>4, <1>5 DEF Told
<1> QED BY <1>1, <1>2, <1>6, ToldStep

LEMMA CompleteRacedStep ==
    ASSUME IInv, NEW p \in Plans, NEW a \in Attempts, CompleteRaced(p, a)
    PROVE  RowStep(p)
<1>1. ~At(p, a, "NONE") /\ "RECORD" \in Steps
    BY DEF CompleteRaced, At, Steps
<1>2. /\ UNCHANGED <<plan, idem, provider, starting, journal>> /\ faults' \in 0..MaxFaults
      /\ run[p].state # "NONE"
    BY <1>1, AtWork, FaultsTyped DEF CompleteRaced
<1>3. CASE attempt[p][a].answer = "SUCCEEDED" /\ CompletionAccepted(p, "RECONCILE")
  <2>1. Complete(p, "RECONCILE") /\ Goto(p, a, "RECORD") /\ UNCHANGED wf
    BY <1>3 DEF CompleteRaced
  <2>2. registry[p] = "SUCCEEDED"
    BY <1>3 DEF IInv, RowOK, AttemptOK, TerminalStates
  <2>3. RunWrite(p)
    BY <1>2, <2>1, <2>2, CompleteWrites
  <2> QED BY <1>1, <1>2, <2>1, <2>3, GotoFlow, FlowStep
<1>4. CASE ~(attempt[p][a].answer = "SUCCEEDED" /\ CompletionAccepted(p, "RECONCILE"))
  <2>1. Fail(p, a) /\ UNCHANGED <<run, operation>>
    BY <1>4 DEF CompleteRaced
  <2> QED BY <1>1, <1>2, <2>1, FailFlow, RunUnwritten, FlowStep
<1> QED BY <1>3, <1>4

\* The outcome a cancellation settles is that of the job, or its absence.
LEMMA CancellationWrites ==
    ASSUME IInv, NEW p \in Plans, NEW a \in Attempts, run[p].state \notin TerminalStates \cup {"NONE"},
           Outcome(p, a) \in {"CANCELLED", "FAILED"}, UNCHANGED journal,
           run' = [run EXCEPT ![p].state = Outcome(p, a),
                              ![p].known = @ \/ attempt[p][a].answer = "CANCELLED",
                              ![p].absent = attempt[p][a].answer = "ABSENT"],
           Settle(p, Outcome(p, a))
    PROVE  RunWrite(p)
<1>1. /\ run \in [Plans -> RunType] /\ operation \in [Plans -> Operations] /\ RunOK(p)
      /\ journal \in [Plans -> SUBSET {"EXECUTE", "RECONCILE"}] /\ AttemptOK(p, a)
    BY DEF IInv, TypeOK, RowOK, Operations
<1>2. PICK k \in BOOLEAN : k = (run[p].known \/ attempt[p][a].answer = "CANCELLED")
    OBVIOUS
<1>3. PICK n \in BOOLEAN : n = (attempt[p][a].answer = "ABSENT")
    OBVIOUS
<1>4. PICK state \in {"CANCELLED", "FAILED"} : state = Outcome(p, a)
    OBVIOUS
<1>5. run' = [run EXCEPT ![p].state = state, ![p].known = k, ![p].absent = n]
    BY <1>2, <1>3, <1>4
<1>6. run'[p] = [run[p] EXCEPT !.state = state, !.known = k, !.absent = n] /\ run[p] \in RunType
    BY <1>1, <1>5
<1>7. run'[p] \in RunType /\ run'[p].state = state /\ run'[p].absent = n
  <2>1. k \in BOOLEAN /\ n \in BOOLEAN /\ state \in ActiveStates \cup TerminalStates
    BY <1>2, <1>3, <1>4 DEF TerminalStates
  <2> DEFINE r == run[p]  new == run'[p]
  <2>2. r \in RunType /\ new = [r EXCEPT !.state = state, !.known = k, !.absent = n]
    BY <1>6
  <2> HIDE DEF r, new
  <2>3. new \in RunType /\ new.state = state /\ new.absent = n
    BY <2>1, <2>2 DEF RunType
  <2> QED BY <2>3 DEF new
<1>8. run' = [run EXCEPT ![p] = run'[p]]
    BY <1>1, <1>5, <1>6
<1>9. operation' = [operation EXCEPT ![p] = operation'[p]] /\ operation'[p] = state
    BY <1>1, <1>4 DEF Settle
<1>10. /\ state = "FAILED" => registry[p] = "FAILED"
       /\ state = "CANCELLED" => n \/ registry[p] = "CANCELLED"
    BY <1>1, <1>3, <1>4 DEF Outcome, AttemptOK, TerminalStates
<1>11. "EXECUTE" \notin journal[p] /\ journal' = [journal EXCEPT ![p] = journal'[p]]
       /\ journal'[p] = journal[p] /\ state \in TerminalStates
    BY <1>1, <1>4 DEF RunOK, TerminalStates
<1> QED BY <1>1, <1>4, <1>7, <1>8, <1>9, <1>10, <1>11 DEF RunWrite, Operations

\* Anything else leaves the run to a later attempt of the reconciliation.
LEMMA ReconcilingWrites ==
    ASSUME IInv, NEW p \in Plans, run[p].state \notin TerminalStates \cup {"NONE"},
           UNCHANGED journal, run' = [run EXCEPT ![p].state = "RECONCILING"],
           Settle(p, "RUNNING")
    PROVE  RunWrite(p)
<1>1. /\ run \in [Plans -> RunType] /\ operation \in [Plans -> Operations] /\ RunOK(p)
      /\ journal \in [Plans -> SUBSET {"EXECUTE", "RECONCILE"}]
    BY DEF IInv, TypeOK, RowOK, Operations
<1>2. run'[p] \in RunType /\ run'[p].state = "RECONCILING" /\ run' = [run EXCEPT ![p] = run'[p]]
    BY <1>1 DEF RunType, ActiveStates
<1>3. operation' = [operation EXCEPT ![p] = operation'[p]] /\ operation'[p] = "RUNNING"
    BY <1>1 DEF Settle
<1> QED BY <1>1, <1>2, <1>3 DEF RunWrite, RunOK, Operations, TerminalStates

LEMMA RecordCancellationStep ==
    ASSUME IInv, NEW p \in Plans, NEW a \in Attempts, RecordCancellation(p, a)
    PROVE  RowStep(p)
<1>1. ~At(p, a, "NONE") /\ "CANCEL_JOURNAL" \in Steps
    BY DEF RecordCancellation, At, Steps
<1>2. /\ UNCHANGED <<plan, idem, provider, starting, journal>> /\ faults' \in 0..MaxFaults
      /\ run[p].state # "NONE"
    BY <1>1, AtWork, FaultsTyped DEF RecordCancellation
<1>3. CASE run[p].state \in TerminalStates
  <2>1. UNCHANGED <<run, operation>>
        /\ ((Goto(p, a, "CANCEL_JOURNAL") /\ UNCHANGED wf) \/ Abort(p, a) \/ Fail(p, a))
    BY <1>3 DEF RecordCancellation, TerminalStates
  <2> QED BY <1>1, <1>2, <2>1, RunUnwritten, GotoFlow, AbortFlow, FailFlow, FlowStep
<1>4. CASE run[p].state \notin TerminalStates /\ Outcome(p, a) \in {"CANCELLED", "FAILED"}
  <2>1. /\ run' = [run EXCEPT ![p].state = Outcome(p, a),
                              ![p].known = @ \/ attempt[p][a].answer = "CANCELLED",
                              ![p].absent = attempt[p][a].answer = "ABSENT"]
        /\ Settle(p, Outcome(p, a)) /\ Goto(p, a, "CANCEL_JOURNAL") /\ UNCHANGED wf
    BY <1>4 DEF RecordCancellation, TerminalStates
  <2>2. RunWrite(p)
    BY <1>2, <1>4, <2>1, CancellationWrites
  <2> QED BY <1>1, <1>2, <2>1, <2>2, GotoFlow, FlowStep
<1>5. CASE run[p].state \notin TerminalStates /\ Outcome(p, a) \notin {"CANCELLED", "FAILED"}
  <2>1. /\ run' = [run EXCEPT ![p].state = "RECONCILING"]
        /\ Settle(p, "RUNNING") /\ Fail(p, a)
    BY <1>5 DEF RecordCancellation, TerminalStates
  <2>2. RunWrite(p)
    BY <1>2, <1>5, <2>1, ReconcilingWrites
  <2> QED BY <1>1, <1>2, <2>1, <2>2, FailFlow, FlowStep
<1> QED BY <1>3, <1>4, <1>5

LEMMA ExecuteProviderJobStep ==
    ASSUME IInv, NEW p \in Plans, NEW a \in Attempts, ExecuteProviderJob(p, a)
    PROVE  RowStep(p)
<1>1. "QC" \in WorkflowSteps \ {"IDLE"}
    BY DEF WorkflowSteps
<1>2. ASSUME At(p, a, "PREPARE"), Replayed(p, a, "EXECUTE", "QC") PROVE RowStep(p)
  <2>1. ~At(p, a, "NONE")
    BY <1>2 DEF At
  <2> QED BY <2>1, <1>1, <1>2, ReplayedStep
<1>3. ASSUME At(p, a, "JOURNAL"), Journal(p, a, "EXECUTE", "QC") PROVE RowStep(p)
  <2>1. ~At(p, a, "NONE") /\ run[p].state = "SUCCEEDED"
    BY <1>3 DEF At, IInv, RowOK, AttemptOK
  <2> QED BY <2>1, <1>1, <1>3, JournalStep
<1> QED BY <1>2, <1>3, PrepareStep, PrepareRefusedStep, FreezeIntentStep, SubmitStep, PollStep,
           RecordLostAnswerStep, RecordObservationStep, CompleteStep, CompleteRefusedStep
        DEF ExecuteProviderJob

LEMMA CancelProviderJobStep ==
    ASSUME IInv, NEW p \in Plans, NEW a \in Attempts, CancelProviderJob(p, a)
    PROVE  RowStep(p)
<1>1. "CLOSED" \in WorkflowSteps \ {"IDLE"}
    BY DEF WorkflowSteps
<1>2. ASSUME At(p, a, "ASK"), Replayed(p, a, "RECONCILE", "CLOSED") PROVE RowStep(p)
  <2>1. ~At(p, a, "NONE")
    BY <1>2 DEF At
  <2> QED BY <2>1, <1>1, <1>2, ReplayedStep
<1>3. ASSUME At(p, a, "CANCEL_JOURNAL"), Journal(p, a, "RECONCILE", "CLOSED") PROVE RowStep(p)
  <2>1. ~At(p, a, "NONE")
    BY <1>3 DEF At
  <2> QED BY <2>1, <1>1, <1>3, JournalStep
<1> QED BY <1>2, <1>3, CancelRemoteStep, CompleteRacedStep, RecordCancellationStep
        DEF CancelProviderJob

LEMMA RecordCreatorQCStep ==
    ASSUME IInv, NEW p \in Plans, RecordCreatorQC(p)
    PROVE  RowStep(p)
<1>1. "CURRENT" \in Attempts /\ ~At(p, "CURRENT", "NONE") /\ "FINALIZE" \in WorkflowSteps \ {"IDLE"}
    BY DEF RecordCreatorQC, At, Attempts, WorkflowSteps
<1>2. Flow(p)
    BY <1>1, AtWork, EnterFlow DEF RecordCreatorQC
<1> QED BY <1>1, <1>2, QuietStep, FaultsTyped DEF RecordCreatorQC

LEMMA FinalizeCreatorRunStep ==
    ASSUME IInv, NEW p \in Plans, FinalizeCreatorRun(p)
    PROVE  RowStep(p)
<1>1. "CURRENT" \in Attempts /\ ~At(p, "CURRENT", "NONE") /\ "CLOSED" \in WorkflowSteps \ {"IDLE"}
    BY DEF FinalizeCreatorRun, At, Attempts, WorkflowSteps
<1>2. UNCHANGED <<run, operation>>
  <2>1. ASSUME run[p].state = "SUCCEEDED",
               operation' = [operation EXCEPT ![p] = IF @ \in {"ACCEPTED", "RUNNING"}
                                                     THEN "SUCCEEDED" ELSE @]
        PROVE  operation' = operation
    <3>1. operation \in [Plans -> Operations] /\ operation[p] = "SUCCEEDED"
        BY <2>1 DEF IInv, TypeOK, RowOK, RunOK, TerminalStates, Operations
    <3> QED BY <2>1, <3>1
  <2> QED BY <2>1 DEF FinalizeCreatorRun
<1>3. Flow(p)
    BY <1>1, AtWork, EnterFlow, FailFlow DEF FinalizeCreatorRun
<1> QED BY <1>1, <1>2, <1>3, QuietStep, FaultsTyped DEF FinalizeCreatorRun, ledger

----------------------------------------------------------------------------
(***************************************************************************)
(* The start of a workflow, and the commands of the project.               *)
(***************************************************************************)
\* Only a confirmed run waits for its start or has a key.
LEMMA StartingStep ==
    ASSUME IInv, NEW p \in Plans, run[p].state # "NONE",
           UNCHANGED <<ledger, workflow, provider, attempt>>,
           starting' \ {p} = starting \ {p}, faults' \in 0..MaxFaults
    PROVE  RowStep(p)
<1>1. RunOK(p) /\ TaskOK(p) /\ (\A b \in Attempts : AttemptOK(p, b)) /\ RowTyped(p)
    BY RowsTyped DEF IInv, RowOK
<1>2. UNCHANGED <<plan, idem, run, operation, journal, wf, attempt, registry, task>>
    BY DEF ledger, workflow, provider
<1>3. OnlyRow(p)
    BY <1>2 DEF OnlyRow, IInv, TypeOK
<1>4. RowTyped(p)' /\ RunOK(p)' /\ TaskOK(p)' /\ NotReopened(p)
    BY <1>1, <1>2 DEF RowTyped, RunOK, TaskOK, NotReopened
<1>5. \A b \in Attempts : AttemptOK(p, b)'
    BY <1>1, <1>2 DEF AttemptOK
<1> QED BY <1>3, <1>4, <1>5 DEF RowStep, RowOK

LEMMA StartLostStep ==
    ASSUME IInv, NEW p \in Plans, StartLost(p)
    PROVE  RowStep(p)
<1>1. run[p].state # "NONE" /\ starting' \ {p} = starting \ {p} /\ faults' \in 0..MaxFaults
    BY FaultsTyped DEF StartLost, IInv, RowOK, RunOK
<1> QED BY <1>1, StartingStep DEF StartLost

LEMMA ReplayConfirmationStep ==
    ASSUME IInv, NEW p \in Plans, NEW k \in Keys, ReplayConfirmation(p, k)
    PROVE  RowStep(p)
<1>1. run[p].state # "NONE" /\ starting' \ {p} = starting \ {p} /\ faults' \in 0..MaxFaults
    BY FaultsTyped DEF ReplayConfirmation, IInv, RowOK, RunOK
<1> QED BY <1>1, StartingStep DEF ReplayConfirmation

LEMMA StartShotStep ==
    ASSUME IInv, NEW p \in Plans, StartShot(p)
    PROVE  RowStep(p)
<1>1. run[p].state # "NONE" /\ starting' \ {p} = starting \ {p} /\ faults' \in 0..MaxFaults
    BY FaultsTyped DEF StartShot, IInv, RowOK, RunOK
<1>2. CASE wf[p].step = "IDLE"
  <2>1. Enter(p, "EXECUTE") /\ "EXECUTE" \in WorkflowSteps \ {"IDLE"}
    BY <1>2 DEF StartShot, Enter, First, WorkflowSteps
  <2>2. RunWrite(p) /\ UNCHANGED <<plan, idem, provider>>
    BY <1>1, RunUnwritten DEF StartShot, ledger
  <2> QED BY <1>1, <2>1, <2>2, EnterFlow, StartedFlowStep
<1>3. CASE wf[p].step # "IDLE"
  <2>1. UNCHANGED <<ledger, workflow, provider, attempt>>
    BY <1>3 DEF StartShot, workflow
  <2> QED BY <1>1, <2>1, StartingStep
<1> QED BY <1>2, <1>3

\* A plan that is not confirmed touches no run.
LEMMA PlanStep ==
    ASSUME IInv, NEW p \in Plans, plan[p].state # "CONFIRMED",
           NEW new \in PlanType, new.state # "CONFIRMED", plan' = [plan EXCEPT ![p] = new],
           UNCHANGED <<idem, run, operation, workflow, provider, starting, attempt, faults>>
    PROVE  IInv' /\ FinalKept
<1>1. /\ UNCHANGED <<idem, run, operation, journal, wf, attempt, registry, task, starting, faults>>
      /\ plan \in [Plans -> PlanType]
    BY DEF workflow, provider, IInv, TypeOK
<1>2. TypeOK'
    BY <1>1 DEF IInv, TypeOK
<1>3. ASSUME NEW q \in Plans PROVE RowOK(q)'
  <2>1. RowOK(q) /\ (plan'[q].state = "CONFIRMED" <=> plan[q].state = "CONFIRMED")
    BY <1>1 DEF IInv
  <2> QED BY <1>1, <2>1 DEF RowOK, RunOK, TaskOK, AttemptOK
<1>4. Counted'
  <2>1. Runs' = Runs /\ ActiveRuns' = ActiveRuns
    BY <1>1 DEF Runs, ActiveRuns
  <2>2. \A q \in Runs : plan'[q] = plan[q]
    BY <1>1 DEF Runs, IInv, RowOK, RunOK
  <2>3. {plan'[q].used : q \in Runs} = {plan[q].used : q \in Runs}
    BY <2>2
  <2> QED BY <2>1, <2>3 DEF IInv, Counted
<1> QED BY <1>1, <1>2, <1>3, <1>4 DEF IInv, FinalKept

LEMMA AtMostOne ==
    ASSUME NEW S, \A x, y \in S : x = y
    PROVE  IsFiniteSet(S) /\ Cardinality(S) \in 0..1
<1>1. CASE S = {}
    BY <1>1, FS_EmptySet
<1>2. CASE S # {}
  <2>1. PICK x : S = {x}
    BY <1>2
  <2> QED BY <2>1, FS_Singleton
<1> QED BY <1>1, <1>2

LEMMA CreatePlanStep ==
    ASSUME IInv, NEW p \in Plans, CreateCreatorLiveShotPlan(p)
    PROVE  IInv' /\ FinalKept
<1>1. Cardinality(Runs) \in 0..ProjectTasks
    BY FS_CardinalityType, BoundsAssumption DEF IInv, Counted
<1>2. Cardinality(ActiveRuns) \in 0..1
    BY AtMostOne DEF IInv, Counted
<1>3. MaterializedPlan \in PlanType /\ MaterializedPlan.state = "READY"
    BY <1>1, <1>2 DEF MaterializedPlan, PlanType
<1> QED BY <1>3, PlanStep DEF CreateCreatorLiveShotPlan

LEMMA ExpirePlanStep ==
    ASSUME IInv, NEW p \in Plans, ExpirePlan(p)
    PROVE  IInv' /\ FinalKept
<1> DEFINE new == [plan[p] EXCEPT !.state = "EXPIRED"]
<1>1. plan \in [Plans -> PlanType] /\ plan[p] \in PlanType
    BY DEF IInv, TypeOK
<1>2. new \in PlanType /\ new.state = "EXPIRED"
    BY <1>1 DEF PlanType
<1>3. plan' = [plan EXCEPT ![p] = new]
    BY <1>1 DEF ExpirePlan
<1> HIDE DEF new
<1> QED BY <1>2, <1>3, PlanStep DEF ExpirePlan

LEMMA BindingWithdrawnStep ==
    ASSUME IInv, NEW p \in Plans, BindingWithdrawn(p)
    PROVE  IInv' /\ FinalKept
<1> DEFINE new == [plan[p] EXCEPT !.bound = FALSE]
<1>1. plan \in [Plans -> PlanType] /\ plan[p] \in PlanType
    BY DEF IInv, TypeOK
<1>2. new \in PlanType /\ new.state = "READY"
    BY <1>1 DEF PlanType, BindingWithdrawn
<1>3. plan' = [plan EXCEPT ![p] = new]
    BY <1>1 DEF BindingWithdrawn
<1> HIDE DEF new
<1> QED BY <1>2, <1>3, PlanStep DEF BindingWithdrawn

\* The confirmed run takes the next number and is the only active one.
LEMMA ConfirmStep ==
    ASSUME IInv, NEW p \in Plans, NEW k \in Keys, ConfirmCreatorLiveShotPlan(p, k)
    PROVE  IInv' /\ FinalKept
<1>1. /\ plan \in [Plans -> PlanType] /\ idem \in [Plans -> SUBSET Keys]
      /\ run \in [Plans -> RunType] /\ operation \in [Plans -> Operations]
      /\ starting \subseteq Plans /\ RowOK(p)
    BY DEF IInv, TypeOK, Operations
<1>2. run[p].state = "NONE" /\ wf[p].step = "IDLE" /\ p \notin Runs
    BY <1>1 DEF ConfirmCreatorLiveShotPlan, RowOK, RunOK, Runs
<1>3. /\ plan' = [plan EXCEPT ![p].state = "CONFIRMED"]
      /\ idem' = [idem EXCEPT ![p] = @ \cup {k}]
      /\ run' = [run EXCEPT ![p].state = "QUEUED"]
      /\ operation' = [operation EXCEPT ![p] = "ACCEPTED"]
      /\ starting' = starting \cup {p}
      /\ UNCHANGED <<journal, wf, registry, task, attempt, faults>>
    BY DEF ConfirmCreatorLiveShotPlan, workflow, provider
<1>4. /\ plan'[p] = [plan[p] EXCEPT !.state = "CONFIRMED"]
      /\ run'[p] = [run[p] EXCEPT !.state = "QUEUED"]
      /\ plan[p] \in PlanType /\ run[p] \in RunType
      /\ operation'[p] = "ACCEPTED"
    BY <1>1, <1>3
<1>5. plan'[p] \in PlanType /\ plan'[p].state = "CONFIRMED" /\ plan'[p].used = plan[p].used
    BY <1>4 DEF PlanType
<1>6. run'[p] \in RunType /\ run'[p].state = "QUEUED" /\ "QUEUED" \in ActiveStates
    BY <1>4 DEF RunType, ActiveStates
<1>7. \A q \in Plans \ {p} : /\ plan'[q] = plan[q] /\ run'[q] = run[q]
                             /\ operation'[q] = operation[q] /\ idem'[q] = idem[q]
                             /\ q \in starting' <=> q \in starting
    BY <1>1, <1>3
<1>8. TypeOK'
  <2>1. plan' \in [Plans -> PlanType] /\ run' \in [Plans -> RunType]
    BY <1>1, <1>3, <1>5, <1>6, <1>7
  <2>2. idem' \in [Plans -> SUBSET Keys] /\ operation' \in [Plans -> Operations]
        /\ starting' \subseteq Plans
    BY <1>1, <1>3 DEF Operations
  <2> QED BY <1>3, <2>1, <2>2 DEF IInv, TypeOK, Operations
<1>9. ASSUME NEW q \in Plans PROVE RowOK(q)'
  <2>1. CASE q = p
    <3>1. RunOK(p)'
        BY <1>1, <1>2, <1>3, <1>4, <1>5, <1>6 DEF RowOK, RunOK, TerminalStates
    <3>2. TaskOK(p)'
        BY <1>1, <1>3 DEF RowOK, TaskOK
    <3>3. \A a \in Attempts : AttemptOK(p, a)'
        BY <1>1, <1>2, <1>3 DEF RowOK, AttemptOK
    <3> QED BY <2>1, <3>1, <3>2, <3>3 DEF RowOK
  <2>2. CASE q # p
    <3>1. RowOK(q)
        BY DEF IInv
    <3> QED BY <2>2, <3>1, <1>3, <1>7 DEF RowOK, RunOK, TaskOK, AttemptOK
  <2> QED BY <2>1, <2>2
<1>10. Counted'
  <2> DEFINE n == Cardinality(Runs)
  <2>1. ActiveRuns = {} /\ n + 1 <= ProjectTasks /\ plan[p].used = n
    BY DEF ConfirmCreatorLiveShotPlan, ProjectAdmits, ProjectUnchanged
  <2>2. IsFiniteSet(Runs) /\ n \in Nat /\ {plan[q].used : q \in Runs} = 0..(n - 1)
    BY FS_CardinalityType DEF IInv, Counted
  <2>3. Runs' = Runs \cup {p}
    BY <1>6, <1>7 DEF Runs
  <2>4. \A q \in ActiveRuns' : q = p
    BY <1>7, <2>1 DEF ActiveRuns
  <2>5. IsFiniteSet(Runs') /\ Cardinality(Runs') = n + 1
    BY <1>2, <2>2, <2>3, FS_AddElement
  <2>6. {plan'[q].used : q \in Runs'} = {plan[q].used : q \in Runs} \cup {n}
    <3>1. \A q \in Runs : plan'[q].used = plan[q].used
        BY <1>2, <1>7 DEF Runs
    <3>2. plan'[p].used = n
        BY <1>5, <2>1
    <3> HIDE DEF n
    <3> QED BY <2>3, <3>1, <3>2
  <2>7. 0..(n - 1) \cup {n} = 0..(Cardinality(Runs') - 1)
    <3>1. Cardinality(Runs') = n + 1 /\ n \in Nat
        BY <2>2, <2>5
    <3> HIDE DEF n
    <3> QED BY <3>1
  <2> HIDE DEF n
  <2>8. {plan'[q].used : q \in Runs'} = 0..(Cardinality(Runs') - 1)
    <3>1. {plan'[q].used : q \in Runs'} = 0..(n - 1) \cup {n}
        BY <2>2, <2>6, Zenon
    <3> QED BY <3>1, <2>7, Zenon
  <2>9. Cardinality(Runs') <= ProjectTasks
    BY <2>1, <2>5
  <2> QED BY <2>4, <2>5, <2>8, <2>9 DEF Counted
<1>11. FinalKept
    BY <1>2, <1>7 DEF FinalKept, TerminalStates
<1> QED BY <1>8, <1>9, <1>10, <1>11 DEF IInv

----------------------------------------------------------------------------
(***************************************************************************)
(* The invariant, and what follows from it.                                *)
(***************************************************************************)
LEMMA InitIInv ==
    ASSUME Init
    PROVE  IInv
<1>1. TypeOK
  <2>1. /\ [state |-> "NONE", used |-> 0, active |-> 0, bound |-> FALSE] \in PlanType
        /\ [state |-> "NONE", known |-> FALSE, submits |-> 0, evidence |-> "NONE",
            absent |-> FALSE] \in RunType
    BY BoundsAssumption DEF PlanType, RunType
  <2>2. Idle \in AttemptType
    BY DEF Idle, AttemptType, Steps, RegistryStates
  <2>3. [step |-> "IDLE", tries |-> 0] \in [step : WorkflowSteps, tries : 0..MaxAttempts]
    BY BoundsAssumption DEF WorkflowSteps
  <2>4. plan \in [Plans -> PlanType] /\ run \in [Plans -> RunType]
    BY <2>1 DEF Init
  <2>5. attempt \in [Plans -> [Attempts -> AttemptType]]
    BY <2>2 DEF Init
  <2>6. wf \in [Plans -> [step : WorkflowSteps, tries : 0..MaxAttempts]]
    BY <2>3 DEF Init
  <2>7. registry \in [Plans -> RegistryStates] /\ faults \in 0..MaxFaults
    BY BoundsAssumption DEF Init, RegistryStates
  <2>8. /\ idem \in [Plans -> SUBSET Keys] /\ starting \subseteq Plans
        /\ operation \in [Plans -> {"NONE", "ACCEPTED", "RUNNING"} \cup TerminalStates]
        /\ journal \in [Plans -> SUBSET {"EXECUTE", "RECONCILE"}]
        /\ task \in [Plans -> {"NONE", "WORKING", "SUCCEEDED", "OVERDRAWN", "FAILED", "STOPPED"}]
    BY DEF Init
  <2> QED BY <2>4, <2>5, <2>6, <2>7, <2>8 DEF TypeOK
<1>2. ASSUME NEW p \in Plans PROVE RowOK(p)
  <2>1. /\ run[p].state = "NONE" /\ plan[p].state = "NONE" /\ operation[p] = "NONE"
        /\ idem[p] = {} /\ journal[p] = {} /\ starting = {} /\ wf[p].step = "IDLE"
        /\ registry[p] = "NONE" /\ task[p] = "NONE"
    BY DEF Init
  <2>2. \A a \in Attempts : attempt[p][a].at = "NONE" /\ attempt[p][a].answer = "NONE"
    BY DEF Init, Idle, Attempts
  <2>3. RunOK(p) /\ TaskOK(p)
    BY <2>1 DEF RunOK, TaskOK, TerminalStates
  <2>4. \A a \in Attempts : AttemptOK(p, a)
    BY <2>2 DEF AttemptOK, Attempts, TerminalStates
  <2> QED BY <2>3, <2>4 DEF RowOK
<1>3. Counted
  <2>1. Runs = {} /\ ActiveRuns = {}
    BY DEF Runs, ActiveRuns, ActiveStates, Init
  <2>2. IsFiniteSet(Runs) /\ Cardinality(Runs) = 0
    BY <2>1, FS_EmptySet
  <2> QED BY <2>1, <2>2, BoundsAssumption DEF Counted
<1> QED BY <1>1, <1>2, <1>3 DEF IInv

LEMMA StutterIInv ==
    ASSUME IInv, UNCHANGED vars
    PROVE  IInv' /\ FinalKept
<1>1. /\ plan' = plan /\ idem' = idem /\ run' = run /\ operation' = operation /\ journal' = journal
      /\ wf' = wf /\ attempt' = attempt /\ registry' = registry /\ task' = task
      /\ starting' = starting /\ faults' = faults
    BY DEF vars, ledger, workflow, provider
<1>2. TypeOK'
    BY <1>1 DEF IInv, TypeOK
<1>3. ASSUME NEW p \in Plans PROVE RowOK(p)'
  <2>1. RowOK(p)
    BY DEF IInv
  <2> QED BY <1>1, <2>1 DEF RowOK, RunOK, TaskOK, AttemptOK
<1>4. Runs' = Runs /\ ActiveRuns' = ActiveRuns
    BY <1>1 DEF Runs, ActiveRuns
<1>5. Counted'
    BY <1>1, <1>4 DEF IInv, Counted
<1> QED BY <1>1, <1>2, <1>3, <1>5 DEF IInv, FinalKept

LEMMA NextIInv ==
    ASSUME IInv, [Next]_vars
    PROVE  IInv' /\ FinalKept
<1>1. CASE UNCHANGED vars
    BY <1>1, StutterIInv
<1>2. CASE Next
  <2> SUFFICES ASSUME NEW p \in Plans,
                      \/ CreateCreatorLiveShotPlan(p) \/ ExpirePlan(p) \/ BindingWithdrawn(p)
                      \/ StartShot(p) \/ StartLost(p)
                      \/ \E k \in Keys : ConfirmCreatorLiveShotPlan(p, k) \/ ReplayConfirmation(p, k)
                      \/ HeartbeatTimeout(p) \/ TaskEnds(p) \/ RecordCreatorQC(p)
                      \/ FinalizeCreatorRun(p)
                      \/ \E a \in Attempts : ExecuteProviderJob(p, a) \/ CancelProviderJob(p, a)
                                             \/ AttemptFails(p, a)
               PROVE  IInv' /\ FinalKept
    BY <1>2 DEF Next
  <2>1. CASE CreateCreatorLiveShotPlan(p) \/ ExpirePlan(p) \/ BindingWithdrawn(p)
    BY <2>1, CreatePlanStep, ExpirePlanStep, BindingWithdrawnStep
  <2>2. CASE StartShot(p) \/ StartLost(p)
    BY <2>2, StartShotStep, StartLostStep, RowSuffices
  <2>3. ASSUME NEW k \in Keys, ConfirmCreatorLiveShotPlan(p, k) \/ ReplayConfirmation(p, k)
        PROVE  IInv' /\ FinalKept
    BY <2>3, ConfirmStep, ReplayConfirmationStep, RowSuffices
  <2>4. CASE HeartbeatTimeout(p) \/ TaskEnds(p) \/ RecordCreatorQC(p) \/ FinalizeCreatorRun(p)
    BY <2>4, HeartbeatTimeoutStep, TaskEndsStep, RecordCreatorQCStep, FinalizeCreatorRunStep,
       RowSuffices
  <2>5. ASSUME NEW a \in Attempts,
               ExecuteProviderJob(p, a) \/ CancelProviderJob(p, a) \/ AttemptFails(p, a)
        PROVE  IInv' /\ FinalKept
    BY <2>5, ExecuteProviderJobStep, CancelProviderJobStep, AttemptFailsStep, RowSuffices
  <2> QED BY <2>1, <2>2, <2>3, <2>4, <2>5
<1> QED BY <1>1, <1>2

\* Every reachable state satisfies the inductive invariant: no order of commands,
\* attempts and answers leads out of it.
THEOREM Invariance == Spec => []IInv
<1>1. Init => IInv
    BY InitIInv
<1>2. IInv /\ [Next]_vars => IInv'
    BY NextIInv
<1> QED BY <1>1, <1>2, PTL DEF Spec

\* The tables, the workflows and their attempts hold values of their types, whatever
\* the allowance, the attempts and the faults.
THEOREM TypeCorrect == Spec => []TypeOK
<1>1. IInv => TypeOK
    BY DEF IInv
<1> QED BY <1>1, Invariance, PTL

\* Confirmations of one project are counted 0, 1, 2, ... within its limit, however many
\* plans were made from the same count (ConfirmCreatorLiveShotPlan).
THEOREM CountedOnce == Spec => []EveryTaskCountedOnce
<1>1. IInv => EveryTaskCountedOnce
  <2> SUFFICES ASSUME IInv PROVE EveryTaskCountedOnce
    OBVIOUS
  <2>1. {p \in Plans : plan[p].state = "CONFIRMED"} = Runs
    BY DEF IInv, RowOK, RunOK, Runs
  <2> QED BY <2>1 DEF EveryTaskCountedOnce, IInv, Counted
<1> QED BY <1>1, Invariance, PTL

\* The concurrency of a project is one at the provider as well: a task that works and
\* was not declared absent belongs to the one active run.
THEOREM OneTask == Spec => []OneLiveTaskPerProject
<1>1. IInv => OneLiveTaskPerProject
  <2> SUFFICES ASSUME IInv PROVE OneLiveTaskPerProject
    OBVIOUS
  <2> DEFINE Live == {p \in Plans : task[p] = "WORKING" /\ ~run[p].absent}
  <2>1. ASSUME NEW p \in Live PROVE p \in ActiveRuns
    <3>1. RunOK(p) /\ TaskOK(p) /\ run[p] \in RunType /\ registry[p] \in RegistryStates
        BY DEF IInv, RowOK, TypeOK
    <3>2. run[p].state # "NONE"
        BY <3>1 DEF RunOK, TaskOK
    <3>3. run[p].state \notin TerminalStates
        BY <3>1 DEF RunOK, TaskOK, TerminalStates
    <3> QED BY <3>1, <3>2, <3>3 DEF RunType, ActiveRuns
  <2>2. \A x, y \in Live : x = y
    BY <2>1 DEF IInv, Counted
  <2>3. Cardinality(Live) \in 0..1
    BY <2>2, AtMostOne
  <2> QED BY <2>3 DEF OneLiveTaskPerProject
<1> QED BY <1>1, Invariance, PTL

\* A terminal run has the outcome of its job, its operation is settled to the same state,
\* and an execution is journalled only for a run that succeeded (RecordCancellation,
\* completeCreatorProviderJob).
THEOREM RealOutcome == Spec => []OutcomeIsReal
<1>1. IInv => OutcomeIsReal
    BY DEF IInv, RowOK, RunOK, OutcomeIsReal
<1> QED BY <1>1, Invariance, PTL

\* No late attempt, observation or finalization changes a terminal run, its evidence or
\* its operation.
THEOREM FinalEvidence == Spec => TerminalEvidenceIsFinal
<1>1. IInv /\ [Next]_vars => [FinalKept]_vars
    BY NextIInv
<1> QED BY <1>1, Invariance, PTL DEF Spec, FinalKept, TerminalEvidenceIsFinal
=============================================================================
