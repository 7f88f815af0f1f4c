--------------------------- MODULE LiveBatchProofs ---------------------------
(***************************************************************************)
(* Proofs about LiveBatch, for a batch of any size and any number of       *)
(* snapshots, open jobs and faults.                                        *)
(*                                                                         *)
(* Submission and completion write the rows of one job in the two ledgers  *)
(* and never undo what is closed (RowStep): so the rows of the batch       *)
(* (BoundOK, PricedOK, QuotaOK, FinalOK) have to be looked at only when a  *)
(* job is queued or delivered, or when the authority over them changes.    *)
(***************************************************************************)
EXTENDS LiveBatch, FiniteSetTheorems, TLAPS

JobType     == [state : {"NONE", "QUEUED"} \cup Closed, pricing : Pricings,
                snapshot : 0 .. MaxSnapshots]
RecordType  == [state : {"NONE", "PREPARED", "AMBIGUOUS"} \cup Closed, complete : BOOLEAN,
                afp : Measures, pricing : Pricings]
ClosingType == [state : {"NONE"} \cup Closed, afp : Measures]
SubmitSteps == {"IDLE", "COMMITTED", "SAVED", "LOST"}
TaskStates  == {"NONE", "PENDING", "REJECTED"} \cup Closed

RowTyped(j) ==
    /\ job[j] \in JobType /\ record[j] \in RecordType /\ closing[j] \in ClosingType
    /\ submit[j] \in SubmitSteps /\ task[j] \in TaskStates /\ posts[j] \in 0 .. 1

\* PostgreSQL commits before the gate's file is saved, both before the request is
\* sent; and what either of them closes is the outcome of the task.
RowOK(j) ==
    /\ job[j].state = "NONE" => job[j].pricing = "V2"
    /\ record[j].state # "NONE" \/ submit[j] # "IDLE" => job[j].state # "NONE"
    /\ record[j].state = "NONE" => posts[j] = 0
    /\ posts[j] = 0 => task[j] = "NONE"
    /\ submit[j] = "COMMITTED" => record[j].state = "NONE"
    /\ submit[j] = "SAVED" => record[j].state = "PREPARED" /\ posts[j] = 0
    /\ submit[j] = "LOST" => record[j].state # "NONE"
    /\ job[j].state \in Closed => job[j].state = task[j]
    /\ closing[j] # NotClosed => closing[j].state \in Closed /\ closing[j].state = job[j].state
    /\ record[j].state \in Closed =>
           task[j] \in Closed \cup {"REJECTED"} /\ record[j].state = Outcome(j)
    /\ record[j].complete => record[j].state \in Closed /\ record[j].state = job[j].state

\* The retry replaces a primary that failed, and only a projection that may be paid
\* for has jobs.
BoundOK ==
    /\ retryBound.shot # 0 => projection.activated /\ job[retryBound.shot].state = "FAILED"
    /\ job[RetryJob].state # "NONE" => retryBound.shot # 0
    /\ projection \in {NotMaterialized, OfflineBatch} => \A j \in Jobs : job[j].state = "NONE"

\* The continuation follows the delivery of A01, shot by shot; a terminal row is
\* the one delivery of its shot.
PricedOK ==
    /\ supersession # "NONE" => projection.activated /\ job[1].state = "SUCCEEDED"
    /\ \A j \in Jobs : job[j].pricing = "V3" =>
          /\ supersession = "SUBMITTED" /\ ShotOf(j) # 1
          /\ \A m \in 2 .. ShotOf(j) - 1 : terminal[m] # 0
          /\ job[j].state = "SUCCEEDED" => terminal[ShotOf(j)] = j
    /\ \A m \in Shots : terminal[m] # 0 =>
          /\ job[terminal[m]].state = "SUCCEEDED" /\ job[terminal[m]].pricing = "V3"
          /\ ShotOf(terminal[m]) = m

QuotaOK ==
    /\ supersession # "SUBMITTED" => reservation["V3"] = "NONE"
    /\ reservation["V3"] = "RESERVED" => reservation["V2"] # "RESERVED"
    /\ projection.activated =>
          \A j \in Jobs : job[j].state # "NONE" => reservation[job[j].pricing] # "NONE"

\* The runs of a finalization are delivered with their evidence, and the one that
\* the retry stands in for is its primary.
FinalOK ==
    /\ package \in {"VOICE", "BATCH"} => \A s \in Shots : job[s].state = "SUCCEEDED"
    /\ finalization.state # "NONE" =>
          /\ \A j \in finalization.runs : record[j].complete /\ record[j].state = "SUCCEEDED"
          /\ \/ finalization.runs = Shots
             \/ \E f \in Shots : finalization.runs = (Shots \ {f}) \cup {RetryJob}
    /\ finalization.state = "COMMITTED" /\ RetryJob \in finalization.runs =>
          retryBound.shot \notin finalization.runs

\* The inductive invariant.
IInv == TypeOK /\ (\A j \in Jobs : RowOK(j)) /\ BoundOK /\ PricedOK /\ QuotaOK /\ FinalOK

----------------------------------------------------------------------------
LEMMA Numbers ==
    /\ Jobs = Shots \cup {RetryJob} /\ RetryJob \notin Shots /\ 1 \in Shots /\ 0 \notin Jobs
    /\ Shots \subseteq Nat /\ RetryJob \in Nat /\ N \in Nat
BY BoundsAssumption DEF Jobs, Shots, RetryJob

LEMMA ShotOfType ==
    ASSUME IInv, NEW j \in Jobs, job[j].state # "NONE"
    PROVE  /\ ShotOf(j) \in Shots
           /\ j # RetryJob => ShotOf(j) = j
           /\ j = RetryJob => ShotOf(j) = retryBound.shot /\ retryBound.shot # 0
<1>1. retryBound.shot \in 0 .. N
    BY DEF IInv, TypeOK, Retries
<1>2. CASE j = RetryJob
    BY <1>1, <1>2, BoundsAssumption DEF ShotOf, Shots, IInv, BoundOK
<1>3. CASE j # RetryJob
    BY <1>3, Numbers DEF ShotOf
<1> QED BY <1>2, <1>3

----------------------------------------------------------------------------
(***************************************************************************)
(* Steps that write the rows of one job.                                   *)
(***************************************************************************)
OneRow(j) ==
    /\ job'     = [job EXCEPT ![j] = job'[j]]
    /\ record'  = [record EXCEPT ![j] = record'[j]]
    /\ submit'  = [submit EXCEPT ![j] = submit'[j]]
    /\ closing' = [closing EXCEPT ![j] = closing'[j]]
    /\ task'    = [task EXCEPT ![j] = task'[j]]
    /\ posts'   = [posts EXCEPT ![j] = posts'[j]]

\* What is queued keeps its price, what is closed its outcome and its evidence.
Grows(j) ==
    /\ job[j].state # "NONE" => job'[j].state # "NONE" /\ job'[j].pricing = job[j].pricing
    /\ job[j].state \in Closed => job'[j].state = job[j].state
    /\ record[j].complete => record'[j].complete /\ record'[j].state = record[j].state

RowStep(j) ==
    OneRow(j) /\ RowTyped(j)' /\ RowOK(j)' /\ Grows(j) /\ safety' \in 0 .. 2 /\ faults' \in 0 .. MaxFaults

RowsTyped ==
    /\ job \in [Jobs -> JobType] /\ record \in [Jobs -> RecordType]
    /\ closing \in [Jobs -> ClosingType] /\ submit \in [Jobs -> SubmitSteps]
    /\ task \in [Jobs -> TaskStates] /\ posts \in [Jobs -> 0 .. 1]

LEMMA RowsTypedNow ==
    ASSUME TypeOK
    PROVE  RowsTyped /\ \A j \in Jobs : RowTyped(j)
BY DEF TypeOK, RowsTyped, RowTyped, JobType, RecordType, ClosingType, SubmitSteps, TaskStates

LEMMA RowsKept ==
    ASSUME IInv, NEW j \in Jobs, RowStep(j)
    PROVE  /\ RowsTyped' /\ (\A i \in Jobs : RowOK(i)') /\ (\A i \in Jobs : Grows(i))
           /\ \A i \in Jobs \ {j} : job'[i] = job[i] /\ record'[i] = record[i]
<1>1. RowsTyped
    BY RowsTypedNow DEF IInv
<1>2. RowsTyped'
    BY <1>1 DEF RowsTyped, RowStep, OneRow, RowTyped
<1>3. ASSUME NEW i \in Jobs, i # j
      PROVE  /\ job'[i] = job[i] /\ record'[i] = record[i] /\ submit'[i] = submit[i]
             /\ closing'[i] = closing[i] /\ task'[i] = task[i] /\ posts'[i] = posts[i]
    BY <1>1, <1>3 DEF RowsTyped, RowStep, OneRow
<1>4. ASSUME NEW i \in Jobs, i # j PROVE RowOK(i)' /\ Grows(i)
  <2>1. RowOK(i)
    BY DEF IInv
  <2> QED BY <1>3, <1>4, <2>1 DEF RowOK, Outcome, Grows
<1> QED BY <1>2, <1>3, <1>4 DEF RowStep

\* What is not about rows, for a step that leaves it alone.
Frame == <<projection, drift, submitAuth, v3Auth, retryBound, revisions, package, localRetry,
           quota, finalization>>

LEMMA TypedStep ==
    ASSUME IInv, NEW j \in Jobs, RowStep(j), UNCHANGED Frame,
           supersession' \in {"NONE", "PENDING", "AUTHORIZED", "SUBMITTED"},
           reservation' \in [Pricings -> {"NONE", "RESERVED", "RELEASED"}],
           terminal' \in [Shots -> 0 .. N + 1]
    PROVE  TypeOK'
<1>1. RowsTyped'
    BY RowsKept
<1>2. /\ projection' = projection /\ drift' = drift /\ submitAuth' = submitAuth /\ v3Auth' = v3Auth
      /\ retryBound' = retryBound /\ revisions' = revisions /\ package' = package
      /\ localRetry' = localRetry /\ quota' = quota /\ finalization' = finalization
    BY DEF Frame
<1> QED BY <1>1, <1>2 DEF IInv, TypeOK, RowsTyped, JobType, RecordType, ClosingType, SubmitSteps,
                          TaskStates, RowStep

LEMMA GrownFinal ==
    ASSUME IInv, \A i \in Jobs : Grows(i), UNCHANGED <<package, finalization, retryBound>>
    PROVE  FinalOK'
<1>1. finalization.runs \subseteq Jobs /\ Shots \subseteq Jobs
    BY Numbers DEF IInv, TypeOK
<1> QED BY <1>1 DEF IInv, FinalOK, Grows, Closed

LEMMA GrownBound ==
    ASSUME IInv, NEW j \in Jobs, RowStep(j), UNCHANGED <<projection, retryBound>>,
           job'[j].state = "NONE" <=> job[j].state = "NONE"
    PROVE  BoundOK'
<1>1. /\ \A i \in Jobs : Grows(i) /\ (job'[i].state = "NONE" <=> job[i].state = "NONE")
      /\ RetryJob \in Jobs
    BY RowsKept, Numbers
<1>2. retryBound.shot # 0 => retryBound.shot \in Jobs
    BY BoundsAssumption DEF IInv, TypeOK, Retries, Jobs
<1> QED BY <1>1, <1>2 DEF IInv, BoundOK, Grows, Closed

\* A step that neither queues nor delivers a job.
LEMMA RowSuffices ==
    ASSUME IInv, NEW j \in Jobs, RowStep(j), UNCHANGED <<authority, reservation, terminal,
                                                         retryBound,
           revisions, package, localRetry, quota, finalization>>,
           job'[j].state = "NONE" <=> job[j].state = "NONE", job'[j].pricing = job[j].pricing,
           job'[j].state = "SUCCEEDED" => job[j].state = "SUCCEEDED"
    PROVE  IInv'
<1>1. /\ UNCHANGED Frame /\ supersession' = supersession /\ reservation' = reservation
      /\ terminal' = terminal /\ retryBound' = retryBound /\ projection' = projection
    BY DEF Frame, authority
<1>2. /\ \A i \in Jobs : RowOK(i)' /\ Grows(i)
      /\ \A i \in Jobs : /\ job'[i].state = "NONE" <=> job[i].state = "NONE"
                         /\ job'[i].state = "SUCCEEDED" <=> job[i].state = "SUCCEEDED"
                         /\ job'[i].pricing = job[i].pricing
    BY RowsKept DEF Grows, Closed
<1>3. TypeOK'
    BY <1>1, TypedStep DEF IInv, TypeOK
<1>4. BoundOK'
    BY <1>1, GrownBound
<1>5. PricedOK'
  <2>1. \A m \in Shots : terminal[m] # 0 => terminal[m] \in Jobs
    BY BoundsAssumption DEF IInv, TypeOK, Jobs
  <2>2. 1 \in Jobs
    BY Numbers
  <2> QED BY <1>1, <1>2, <2>1, <2>2 DEF IInv, PricedOK, ShotOf
<1>6. QuotaOK'
    BY <1>1, <1>2 DEF IInv, QuotaOK
<1>7. FinalOK'
    BY <1>1, <1>2, GrownFinal DEF Frame
<1> QED BY <1>2, <1>3, <1>4, <1>5, <1>6, <1>7 DEF IInv

----------------------------------------------------------------------------
(***************************************************************************)
(* One lemma for each step of a submission.                                *)
(***************************************************************************)
LEMMA FaultsTyped ==
    ASSUME IInv
    PROVE  /\ UNCHANGED faults => faults' \in 0 .. MaxFaults
           /\ Fault => faults' \in 0 .. MaxFaults
           /\ \A mishap \in BOOLEAN : FaultIf(mishap) => faults' \in 0 .. MaxFaults
BY BoundsAssumption DEF IInv, TypeOK, Fault, FaultIf

LEMMA SavePreparedStep ==
    ASSUME IInv, NEW j \in Jobs, SavePrepared(j)
    PROVE  IInv'
<1> DEFINE new == [NoRecord EXCEPT !.state = "PREPARED", !.pricing = job[j].pricing]
<1>1. RowsTyped /\ RowTyped(j) /\ RowOK(j)
    BY RowsTypedNow DEF IInv
<1>2. /\ submit[j] = "COMMITTED" /\ record' = [record EXCEPT ![j] = new]
      /\ submit' = [submit EXCEPT ![j] = "SAVED"]
      /\ UNCHANGED <<job, closing, task, posts, safety, faults>>
    BY DEF SavePrepared, database, provider
<1>3. new \in RecordType /\ new.state = "PREPARED" /\ new.complete = FALSE
    BY <1>1 DEF NoRecord, Unmeasured, Measures, RecordType, RowTyped, JobType
<1> HIDE DEF new
<1>4. record'[j] = new /\ submit'[j] = "SAVED"
    BY <1>1, <1>2 DEF RowsTyped
<1>5. OneRow(j)
    BY <1>1, <1>2, <1>4 DEF OneRow, RowsTyped
<1>6. RowTyped(j)'
    BY <1>1, <1>2, <1>3, <1>4 DEF RowTyped, SubmitSteps
<1>7. RowOK(j)' /\ Grows(j)
    BY <1>1, <1>2, <1>3, <1>4 DEF RowOK, Grows, Outcome, Closed
<1>8. safety' \in 0 .. 2 /\ faults' \in 0 .. MaxFaults
    BY <1>2 DEF IInv, TypeOK
<1> QED BY <1>2, <1>5, <1>6, <1>7, <1>8, RowSuffices DEF RowStep, SavePrepared, database

LEMMA SubmitStep ==
    ASSUME IInv, NEW j \in Jobs, Submit(j)
    PROVE  IInv'
<1>1. RowsTyped /\ RowTyped(j) /\ RowOK(j)
    BY RowsTypedNow DEF IInv
<1>2. PICK outcome \in {"NONE", "PENDING", "REJECTED"}, answer \in {"IDLE", "LOST"} :
          /\ task' = [task EXCEPT ![j] = IF @ = "NONE" THEN outcome ELSE @]
          /\ submit' = [submit EXCEPT ![j] = answer]
          /\ FaultIf(answer = "LOST")
    BY DEF Submit
<1>3. /\ submit[j] = "SAVED" /\ posts' = [posts EXCEPT ![j] = posts[j] + 1]
      /\ UNCHANGED <<job, record, closing, safety>>
    BY DEF Submit, database, gate
<1>4. posts[j] = 0 /\ task[j] = "NONE" /\ record[j].state = "PREPARED"
    BY <1>1, <1>3 DEF RowOK
<1>5. posts'[j] = 1 /\ task'[j] = outcome /\ submit'[j] = answer
    BY <1>1, <1>2, <1>3, <1>4 DEF RowsTyped
<1>6. OneRow(j)
    BY <1>1, <1>2, <1>3, <1>4, <1>5 DEF OneRow, RowsTyped
<1>7. RowTyped(j)'
    BY <1>1, <1>3, <1>5 DEF RowTyped, SubmitSteps, TaskStates
<1>8. RowOK(j)' /\ Grows(j)
    BY <1>1, <1>3, <1>4, <1>5 DEF RowOK, Grows, Outcome, Closed
<1>9. safety' \in 0 .. 2 /\ faults' \in 0 .. MaxFaults
    BY <1>2, <1>3, FaultsTyped DEF IInv, TypeOK
<1> QED BY <1>3, <1>6, <1>7, <1>8, <1>9, RowSuffices DEF RowStep, Submit, database, gate

LEMMA MarkAmbiguousStep ==
    ASSUME IInv, NEW j \in Jobs, MarkAmbiguous(j)
    PROVE  IInv'
<1>1. RowsTyped /\ RowTyped(j) /\ RowOK(j)
    BY RowsTypedNow DEF IInv
<1>2. /\ submit[j] = "LOST" /\ record' = [record EXCEPT ![j] = Ambiguous(j)]
      /\ submit' = [submit EXCEPT ![j] = "IDLE"]
      /\ UNCHANGED <<job, closing, task, posts, safety, faults>>
    BY DEF MarkAmbiguous, database, provider
<1>3. /\ Ambiguous(j) \in RecordType /\ Ambiguous(j).complete = record[j].complete
      /\ \/ Ambiguous(j).state = record[j].state
         \/ Ambiguous(j).state = "AMBIGUOUS" /\ record[j].state = "PREPARED"
    BY <1>1 DEF Ambiguous, RowTyped, RecordType
<1>4. record'[j] = Ambiguous(j) /\ submit'[j] = "IDLE"
    BY <1>1, <1>2 DEF RowsTyped
<1>5. OneRow(j)
    BY <1>1, <1>2, <1>4 DEF OneRow, RowsTyped
<1>6. RowTyped(j)'
    BY <1>1, <1>2, <1>3, <1>4 DEF RowTyped, SubmitSteps
<1>7. RowOK(j)' /\ Grows(j)
    BY <1>1, <1>2, <1>3, <1>4 DEF RowOK, Grows, Outcome, Closed
<1>8. safety' \in 0 .. 2 /\ faults' \in 0 .. MaxFaults
    BY <1>2 DEF IInv, TypeOK
<1> QED BY <1>2, <1>5, <1>6, <1>7, <1>8, RowSuffices DEF RowStep, MarkAmbiguous, database

LEMMA SubmitStopsStep ==
    ASSUME IInv, NEW j \in Jobs, SubmitStops(j)
    PROVE  IInv'
<1>1. RowsTyped /\ RowTyped(j) /\ RowOK(j)
    BY RowsTypedNow DEF IInv
<1>2. /\ submit' = [submit EXCEPT ![j] = "IDLE"]
      /\ UNCHANGED <<job, record, closing, task, posts, safety>>
    BY DEF SubmitStops, database, provider, gate
<1>3. submit'[j] = "IDLE"
    BY <1>1, <1>2 DEF RowsTyped
<1>4. OneRow(j)
    BY <1>1, <1>2, <1>3 DEF OneRow, RowsTyped
<1>5. RowTyped(j)' /\ RowOK(j)' /\ Grows(j)
    BY <1>1, <1>2, <1>3 DEF RowTyped, SubmitSteps, RowOK, Grows, Outcome
<1>6. safety' \in 0 .. 2 /\ faults' \in 0 .. MaxFaults
    BY <1>2, FaultsTyped DEF IInv, TypeOK, SubmitStops
<1> QED BY <1>2, <1>4, <1>5, <1>6, RowSuffices DEF RowStep, SubmitStops, database, gate

LEMMA ProviderFinishesStep ==
    ASSUME IInv, NEW j \in Jobs, ProviderFinishes(j)
    PROVE  IInv'
<1>1. RowsTyped /\ RowTyped(j) /\ RowOK(j)
    BY RowsTypedNow DEF IInv
<1>2. PICK outcome \in Closed : /\ task' = [task EXCEPT ![j] = outcome]
                                /\ FaultIf(outcome = "FAILED")
    BY DEF ProviderFinishes
<1>3. task[j] = "PENDING" /\ UNCHANGED <<job, record, submit, closing, posts, safety>>
    BY DEF ProviderFinishes, database, gate, process
<1>4. task'[j] = outcome
    BY <1>1, <1>2 DEF RowsTyped
<1>5. OneRow(j)
    BY <1>1, <1>2, <1>3, <1>4 DEF OneRow, RowsTyped
<1>6. RowTyped(j)' /\ RowOK(j)' /\ Grows(j)
    BY <1>1, <1>3, <1>4 DEF RowTyped, TaskStates, RowOK, Grows, Outcome, Closed
<1>7. safety' \in 0 .. 2 /\ faults' \in 0 .. MaxFaults
    BY <1>2, <1>3, FaultsTyped DEF IInv, TypeOK
<1> QED BY <1>3, <1>5, <1>6, <1>7, RowSuffices DEF RowStep, ProviderFinishes, database, gate

----------------------------------------------------------------------------
(***************************************************************************)
(* One lemma for each step of a completion that delivers nothing.          *)
(***************************************************************************)
LEMMA SafetyTyped ==
    ASSUME safety \in 0 .. 2, NEW blocked
    PROVE  SafetyAfter(blocked) \in 0 .. 2
BY DEF SafetyAfter

LEMMA FailStep ==
    ASSUME IInv, NEW j \in Jobs, NEW afp \in Measures, FailPreparedProviderJob(j, afp)
    PROVE  IInv'
<1> DEFINE new   == [job[j] EXCEPT !.state = "FAILED"]
           close == [state |-> "FAILED", afp |-> afp]
<1>1. RowsTyped /\ RowTyped(j) /\ RowOK(j)
    BY RowsTypedNow DEF IInv
<1>2. /\ task[j] = "FAILED" /\ job' = [job EXCEPT ![j] = new]
      /\ closing' = [closing EXCEPT ![j] = close]
      /\ UNCHANGED <<record, submit, task, posts, safety>>
    BY <1>1 DEF FailPreparedProviderJob, provider, gate, RowsTyped
<1>3. new \in JobType /\ new.state = "FAILED" /\ new.pricing = job[j].pricing
    BY <1>1 DEF RowTyped, JobType, Closed
<1>4. close \in ClosingType /\ close.state = "FAILED"
    BY DEF ClosingType, Closed
<1> HIDE DEF new, close
<1>5. job'[j] = new /\ closing'[j] = close
    BY <1>1, <1>2 DEF RowsTyped
<1>6. job[j].state # "NONE" /\ job[j].state # "SUCCEEDED"
    BY <1>1, <1>2 DEF RowOK, Closed
<1>7. OneRow(j)
    BY <1>1, <1>2, <1>5 DEF OneRow, RowsTyped
<1>8. RowTyped(j)'
    BY <1>1, <1>2, <1>3, <1>4, <1>5 DEF RowTyped
<1>9. RowOK(j)' /\ Grows(j)
    BY <1>1, <1>2, <1>3, <1>4, <1>5, <1>6 DEF RowOK, Grows, Outcome, Closed
<1>10. safety' \in 0 .. 2 /\ faults' \in 0 .. MaxFaults
    BY <1>2, FaultsTyped DEF IInv, TypeOK, FailPreparedProviderJob
<1> QED BY <1>2, <1>3, <1>5, <1>6, <1>7, <1>8, <1>9, <1>10, RowSuffices
        DEF RowStep, FailPreparedProviderJob, gate

LEMMA FreezeIncompleteStep ==
    ASSUME IInv, NEW j \in Jobs, NEW blocked \in BOOLEAN, FreezeIncomplete(j, blocked)
    PROVE  IInv'
<1>1. RowsTyped /\ RowTyped(j) /\ RowOK(j)
    BY RowsTypedNow DEF IInv
<1>2. /\ task[j] \in Closed \cup {"REJECTED"} /\ record[j].state \in {"PREPARED", "AMBIGUOUS"}
      /\ record' = [record EXCEPT ![j] = Frozen(j)]
      /\ UNCHANGED <<job, submit, closing, task, posts>>
    BY DEF FreezeIncomplete, database, process, provider
<1>3. /\ Frozen(j) \in RecordType /\ Frozen(j).state = Outcome(j) /\ Outcome(j) \in Closed
      /\ Frozen(j).complete = record[j].complete
    BY <1>1 DEF Frozen, Outcome, RowTyped, RecordType, Closed
<1>4. record'[j] = Frozen(j) /\ record[j].complete = FALSE
    BY <1>1, <1>2 DEF RowsTyped, RowOK, RowTyped, RecordType, Closed
<1>5. OneRow(j)
    BY <1>1, <1>2, <1>4 DEF OneRow, RowsTyped
<1>6. RowTyped(j)'
    BY <1>1, <1>2, <1>3, <1>4 DEF RowTyped
<1>7. RowOK(j)' /\ Grows(j)
  <2>1. submit[j] # "COMMITTED" /\ submit[j] # "SAVED"
    BY <1>1, <1>2 DEF RowOK, Closed
  <2>2. Outcome(j)' = Outcome(j)
    BY <1>2 DEF Outcome
  <2>3. Outcome(j) # "NONE"
    BY <1>3 DEF Closed
  <2> QED BY <1>1, <1>2, <1>3, <1>4, <2>1, <2>2, <2>3 DEF RowOK, Grows
<1>8. safety' \in 0 .. 2 /\ faults' \in 0 .. MaxFaults
    BY FaultsTyped, SafetyTyped DEF IInv, TypeOK, FreezeIncomplete
<1> QED BY <1>2, <1>5, <1>6, <1>7, <1>8, RowSuffices DEF RowStep, FreezeIncomplete, database

LEMMA SaveCompletionStep ==
    ASSUME IInv, NEW j \in Jobs, NEW blocked \in BOOLEAN, SaveCompletion(j, blocked)
    PROVE  IInv'
<1>1. RowsTyped /\ RowTyped(j) /\ RowOK(j)
    BY RowsTypedNow DEF IInv
<1>2. /\ closing[j] # NotClosed /\ closing' = [closing EXCEPT ![j] = NotClosed]
      /\ UNCHANGED <<job, submit, task, posts, faults>>
    BY DEF SaveCompletion, database, provider
<1>3. NotClosed \in ClosingType /\ closing'[j] = NotClosed
    BY <1>1, <1>2 DEF NotClosed, Unmeasured, Measures, ClosingType, RowsTyped
<1>4. safety' \in 0 .. 2 /\ faults' \in 0 .. MaxFaults
    BY SafetyTyped DEF IInv, TypeOK, SaveCompletion
<1>5. CASE record[j].state \in {"PREPARED", "AMBIGUOUS"}
  <2> DEFINE new == Completed(j)
  <2>1. record' = [record EXCEPT ![j] = new]
    BY <1>5 DEF SaveCompletion
  <2>2. new \in RecordType /\ new.state = closing[j].state /\ new.complete = TRUE
    BY <1>1, <1>2 DEF Completed, RowTyped, RowOK, RecordType, ClosingType, Closed
  <2> HIDE DEF new
  <2>3. record'[j] = new /\ record[j].complete = FALSE
    BY <1>1, <1>5, <2>1 DEF RowsTyped, RowOK, RowTyped, RecordType, Closed
  <2>4. closing[j].state \in Closed /\ closing[j].state = job[j].state /\ job[j].state = task[j]
    BY <1>1, <1>2 DEF RowOK
  <2>5. submit[j] # "COMMITTED" /\ submit[j] # "SAVED"
    BY <1>1, <1>5, <2>4 DEF RowOK, Closed
  <2>6. OneRow(j)
    BY <1>1, <1>2, <1>3, <2>1, <2>3 DEF OneRow, RowsTyped
  <2>7. RowTyped(j)'
    BY <1>1, <1>2, <1>3, <2>2, <2>3 DEF RowTyped
  <2>8. RowOK(j)' /\ Grows(j)
    BY <1>1, <1>2, <1>3, <2>2, <2>3, <2>4, <2>5 DEF RowOK, Grows, Outcome, Closed
  <2> QED BY <1>2, <1>4, <2>6, <2>7, <2>8, RowSuffices DEF RowStep, SaveCompletion, database
<1>6. CASE record[j].state \notin {"PREPARED", "AMBIGUOUS"}
  <2>1. record' = record
    BY <1>6 DEF SaveCompletion
  <2>2. OneRow(j)
    BY <1>1, <1>2, <1>3, <2>1 DEF OneRow, RowsTyped
  <2>3. RowTyped(j)' /\ RowOK(j)' /\ Grows(j)
    BY <1>1, <1>2, <1>3, <2>1 DEF RowTyped, RowOK, Grows, Outcome
  <2> QED BY <1>2, <1>4, <2>2, <2>3, RowSuffices DEF RowStep, SaveCompletion, database
<1> QED BY <1>5, <1>6

LEMMA CompleteStopsStep ==
    ASSUME IInv, NEW j \in Jobs, CompleteStops(j)
    PROVE  IInv'
<1>1. RowsTyped /\ RowTyped(j) /\ RowOK(j)
    BY RowsTypedNow DEF IInv
<1>2. /\ closing' = [closing EXCEPT ![j] = NotClosed]
      /\ UNCHANGED <<job, record, submit, task, posts, safety>>
    BY DEF CompleteStops, database, gate, provider
<1>3. NotClosed \in ClosingType /\ closing'[j] = NotClosed
    BY <1>1, <1>2 DEF NotClosed, Unmeasured, Measures, ClosingType, RowsTyped
<1>4. OneRow(j)
    BY <1>1, <1>2, <1>3 DEF OneRow, RowsTyped
<1>5. RowTyped(j)' /\ RowOK(j)' /\ Grows(j)
    BY <1>1, <1>2, <1>3 DEF RowTyped, RowOK, Grows, Outcome
<1>6. safety' \in 0 .. 2 /\ faults' \in 0 .. MaxFaults
    BY <1>2, FaultsTyped DEF IInv, TypeOK, CompleteStops
<1> QED BY <1>2, <1>4, <1>5, <1>6, RowSuffices DEF RowStep, CompleteStops, database, gate

----------------------------------------------------------------------------
(***************************************************************************)
(* A delivery, and the paid boundary.                                      *)
(***************************************************************************)
LEMMA TerminalTyped ==
    ASSUME IInv
    PROVE  /\ terminal \in [Shots -> 0 .. N + 1]
           /\ \A m \in Shots : terminal[m] # 0 => terminal[m] \in Jobs
           /\ \A j \in Jobs : j \in 0 .. N + 1
BY BoundsAssumption DEF IInv, TypeOK, Jobs

LEMMA CompleteStep ==
    ASSUME IInv, NEW j \in Jobs, NEW afp \in Measures, CompletePreparedProviderJob(j, afp)
    PROVE  IInv'
<1> DEFINE new   == [job[j] EXCEPT !.state = "SUCCEEDED"]
           close == [state |-> "SUCCEEDED", afp |-> afp]
<1>1. RowsTyped /\ RowTyped(j) /\ RowOK(j)
    BY RowsTypedNow DEF IInv
<1>2. /\ task[j] = "SUCCEEDED" /\ job' = [job EXCEPT ![j] = new]
      /\ closing' = [closing EXCEPT ![j] = close]
      /\ UNCHANGED <<record, submit, task, posts, safety>>
    BY <1>1 DEF CompletePreparedProviderJob, provider, gate, RowsTyped
<1>3. new \in JobType /\ new.state = "SUCCEEDED" /\ new.pricing = job[j].pricing
    BY <1>1 DEF RowTyped, JobType, Closed
<1>4. close \in ClosingType /\ close.state = "SUCCEEDED"
    BY DEF ClosingType, Closed
<1> HIDE DEF new, close
<1>5. job'[j] = new /\ closing'[j] = close
    BY <1>1, <1>2 DEF RowsTyped
<1>6. job[j].state # "NONE" /\ job[j].state # "FAILED"
    BY <1>1, <1>2 DEF RowOK, Closed
<1>7. RowStep(j)
  <2>1. OneRow(j)
    BY <1>1, <1>2, <1>5 DEF OneRow, RowsTyped
  <2>2. RowTyped(j)'
    BY <1>1, <1>2, <1>3, <1>4, <1>5 DEF RowTyped
  <2>3. RowOK(j)' /\ Grows(j)
    BY <1>1, <1>2, <1>3, <1>4, <1>5, <1>6 DEF RowOK, Grows, Outcome, Closed
  <2>4. safety' \in 0 .. 2 /\ faults' \in 0 .. MaxFaults
    BY <1>2, FaultsTyped DEF IInv, TypeOK, CompletePreparedProviderJob
  <2> QED BY <2>1, <2>2, <2>3, <2>4 DEF RowStep
<1>8. /\ UNCHANGED Frame /\ supersession' = supersession /\ reservation' = reservation
      /\ projection' = projection /\ retryBound' = retryBound
      /\ package' = package /\ finalization' = finalization
      /\ terminal' = IF job[j].pricing = "V3" THEN [terminal EXCEPT ![ShotOf(j)] = j] ELSE terminal
      /\ job[j].pricing = "V3" => terminal[ShotOf(j)] \in {0, j}
    BY DEF CompletePreparedProviderJob, TerminalWithinPrice, Frame, authority, gate
<1>9. /\ \A i \in Jobs : RowOK(i)' /\ Grows(i)
      /\ \A i \in Jobs : /\ job'[i].state = "NONE" <=> job[i].state = "NONE"
                         /\ job'[i].pricing = job[i].pricing
                         /\ i # j => job'[i] = job[i]
    BY <1>3, <1>5, <1>6, <1>7, RowsKept DEF RowStep
<1>10. ShotOf(j) \in Shots /\ \A i \in Jobs : ShotOf(i)' = ShotOf(i)
    BY <1>6, <1>8, ShotOfType DEF ShotOf
<1>11. terminal' \in [Shots -> 0 .. N + 1]
    BY <1>8, <1>10, TerminalTyped
<1>12. TypeOK'
    BY <1>7, <1>8, <1>11, TypedStep DEF IInv, TypeOK
<1>13. BoundOK'
    BY <1>7, <1>8, <1>9, GrownBound
<1>14. PricedOK'
  <2>2. supersession' # "NONE" => projection'.activated /\ job'[1].state = "SUCCEEDED"
    BY <1>3, <1>5, <1>8, <1>9, Numbers DEF IInv, PricedOK
  <2>3. CASE job[j].pricing = "V3"
    <3>1. terminal'[ShotOf(j)] = j
        BY <1>8, <1>10, <2>3, TerminalTyped
    <3>2. \A m \in Shots : m # ShotOf(j) => terminal'[m] = terminal[m]
        BY <1>8, <1>10, <2>3, TerminalTyped
    <3>3. \A m \in Shots : terminal[m] # 0 => terminal'[m] # 0
        BY <3>1, <3>2, Numbers
    <3>4. ASSUME NEW i \in Jobs, job'[i].pricing = "V3"
          PROVE  /\ supersession' = "SUBMITTED" /\ ShotOf(i)' # 1
                 /\ \A m \in 2 .. ShotOf(i)' - 1 : terminal'[m] # 0
                 /\ job'[i].state = "SUCCEEDED" => terminal'[ShotOf(i)'] = i
      <4>1. job[i].pricing = "V3" /\ job[i].state # "NONE" /\ ShotOf(i) \in Shots
        BY <1>9, <3>4, ShotOfType DEF IInv, RowOK
      <4>2. /\ supersession = "SUBMITTED" /\ ShotOf(i) # 1
            /\ \A m \in 2 .. ShotOf(i) - 1 : terminal[m] # 0
            /\ job[i].state = "SUCCEEDED" => terminal[ShotOf(i)] = i
        BY <4>1 DEF IInv, PricedOK
      <4>3. \A m \in 2 .. ShotOf(i) - 1 : m \in Shots
        BY <4>1, BoundsAssumption DEF Shots
      <4>4. CASE i = j
        BY <1>8, <1>10, <3>1, <3>3, <4>2, <4>3, <4>4
      <4>5. CASE i # j
        <5>1. job'[i].state = "SUCCEEDED" => terminal[ShotOf(i)] = i /\ ShotOf(i) # ShotOf(j)
            BY <1>8, <1>9, <2>3, <4>2, <4>5, Numbers
        <5> QED BY <1>8, <1>10, <3>2, <3>3, <4>1, <4>2, <4>3, <5>1
      <4> QED BY <4>4, <4>5
    <3>5. ASSUME NEW m \in Shots, terminal'[m] # 0
          PROVE  /\ job'[terminal'[m]].state = "SUCCEEDED" /\ job'[terminal'[m]].pricing = "V3"
                 /\ ShotOf(terminal[m])' = m
      <4>1. CASE m = ShotOf(j)
        BY <1>3, <1>5, <1>8, <1>10, <2>3, <3>1, <4>1 DEF ShotOf
      <4>2. CASE m # ShotOf(j)
        <5>1. terminal'[m] = terminal[m] /\ terminal[m] \in Jobs
            BY <3>2, <3>5, <4>2, TerminalTyped
        <5>2. /\ job[terminal[m]].state = "SUCCEEDED" /\ job[terminal[m]].pricing = "V3"
              /\ ShotOf(terminal[m]) = m
            BY <3>5, <5>1 DEF IInv, PricedOK
        <5> QED BY <1>8, <1>9, <5>1, <5>2 DEF Grows, Closed, ShotOf
      <4> QED BY <4>1, <4>2
    <3> QED BY <2>2, <3>4, <3>5 DEF PricedOK
  <2>4. CASE job[j].pricing # "V3"
    <3>1. terminal' = terminal
        BY <1>8, <2>4
    <3>2. \A i \in Jobs : job'[i].pricing = "V3" => job'[i] = job[i] /\ job[i].pricing = "V3"
        BY <1>9, <2>4
    <3>3. \A m \in Shots : terminal[m] # 0 => terminal[m] \in Jobs /\ job'[terminal[m]] = job[terminal[m]]
        BY <1>9, <2>4, TerminalTyped DEF IInv, PricedOK
    <3> QED BY <1>8, <1>10, <2>2, <3>1, <3>2, <3>3, TerminalTyped DEF IInv, PricedOK
  <2> QED BY <2>3, <2>4
<1>15. QuotaOK'
    BY <1>8, <1>9 DEF IInv, QuotaOK
<1>16. FinalOK'
    BY <1>8, <1>9, GrownFinal
<1> QED BY <1>9, <1>12, <1>13, <1>14, <1>15, <1>16 DEF IInv

LEMMA AuthorizePreparedStep ==
    ASSUME IInv, NEW j \in Jobs, NEW p \in Pricings, AuthorizePrepared(j, p)
    PROVE  IInv'
<1> DEFINE new == PreparedJob(p)
<1>1. RowsTyped /\ RowTyped(j) /\ RowOK(j)
    BY RowsTypedNow DEF IInv
<1>2. /\ PrepareProviderJob(j, p) /\ record[j].state = "NONE" /\ submit[j] = "IDLE"
      /\ submit' = [submit EXCEPT ![j] = "COMMITTED"]
      /\ UNCHANGED <<record, closing, task, posts, safety, faults>>
    BY DEF AuthorizePrepared, NewAttempt, gate, provider
<1>3. new \in JobType /\ new.state = "QUEUED" /\ new.pricing = p
    BY BoundsAssumption DEF IInv, TypeOK, PreparedJob, JobType
<1> HIDE DEF new
<1>4. /\ job' = [job EXCEPT ![j] = new] /\ (job[j].state = "NONE" \/ job[j] = new)
    BY <1>2 DEF PrepareProviderJob, new
<1>5. job'[j] = new /\ submit'[j] = "COMMITTED"
    BY <1>1, <1>2, <1>4 DEF RowsTyped
<1>6. job[j].state \in {"NONE", "QUEUED"}
    BY <1>3, <1>4
<1>7. RowStep(j)
  <2>1. OneRow(j)
    BY <1>1, <1>2, <1>4, <1>5 DEF OneRow, RowsTyped
  <2>2. RowTyped(j)'
    BY <1>1, <1>2, <1>3, <1>5 DEF RowTyped, SubmitSteps
  <2>3. RowOK(j)' /\ Grows(j)
    BY <1>1, <1>2, <1>3, <1>4, <1>5, <1>6 DEF RowOK, Grows, Outcome, Closed
  <2>4. safety' \in 0 .. 2 /\ faults' \in 0 .. MaxFaults
    BY <1>2 DEF IInv, TypeOK
  <2> QED BY <2>1, <2>2, <2>3, <2>4 DEF RowStep
<1>8. /\ UNCHANGED Frame /\ terminal' = terminal /\ projection' = projection
      /\ retryBound' = retryBound /\ package' = package /\ finalization' = finalization
      /\ reservation' = Reserved(p) /\ supersession' = NextSupersession(p)
    BY <1>2 DEF AuthorizePrepared, PrepareProviderJob, Frame, gate
<1>9. /\ \A i \in Jobs : RowOK(i)' /\ Grows(i)
      /\ \A i \in Jobs : i # j => job'[i] = job[i]
    BY <1>7, RowsKept
<1>10. \A i \in Jobs : ShotOf(i)' = ShotOf(i)
    BY <1>8 DEF ShotOf
<1>11. /\ projection.gates = "APPROVED"
       /\ p = "V2" /\ projection.activated => supersession = "NONE"
       /\ p = "V3" => projection.activated /\ SupersededBoundary(j)
       /\ j = RetryJob => retryBound.shot # 0
    BY <1>2 DEF PrepareProviderJob, LegacyBoundary, RetryAuthorized
<1>12. TypeOK'
  <2>1. supersession' \in {"NONE", "PENDING", "AUTHORIZED", "SUBMITTED"}
    BY <1>8 DEF NextSupersession, IInv, TypeOK
  <2>2. reservation' \in [Pricings -> {"NONE", "RESERVED", "RELEASED"}]
    BY <1>8 DEF Reserved, ReserveStage1LiveAFP, ReserveFLO167AFP, IInv, TypeOK, Pricings
  <2> QED BY <1>7, <1>8, <2>1, <2>2, TypedStep, TerminalTyped
<1>13. BoundOK'
  <2>1. retryBound.shot # 0 => retryBound.shot \in Jobs
    BY BoundsAssumption DEF IInv, TypeOK, Retries, Jobs
  <2>2. projection \notin {NotMaterialized, OfflineBatch}
    BY <1>11 DEF NotMaterialized, OfflineBatch
  <2>3. RetryJob # j => job'[RetryJob] = job[RetryJob]
    BY <1>9, Numbers
  <2> QED BY <1>8, <1>9, <1>11, <2>1, <2>2, <2>3 DEF IInv, BoundOK, Grows, Closed
<1>14. PricedOK'
  <2>1. supersession' # "NONE" => projection'.activated /\ job'[1].state = "SUCCEEDED"
    <3>1. supersession' # "NONE" => supersession # "NONE"
        BY <1>8 DEF NextSupersession
    <3> QED BY <1>8, <1>9, <3>1, Numbers DEF IInv, PricedOK, Grows, Closed
  <2>2. supersession = "SUBMITTED" => supersession' = "SUBMITTED"
    BY <1>8 DEF NextSupersession
  <2>3. ASSUME NEW i \in Jobs, job'[i].pricing = "V3"
        PROVE  /\ supersession' = "SUBMITTED" /\ ShotOf(i)' # 1
               /\ \A m \in 2 .. ShotOf(i)' - 1 : terminal'[m] # 0
               /\ job'[i].state = "SUCCEEDED" => terminal'[ShotOf(i)'] = i
    <3>1. CASE i = j
      <4>1. p = "V3" /\ SupersededBoundary(j) /\ job'[j].state = "QUEUED"
        BY <1>3, <1>5, <1>11, <2>3, <3>1
      <4>2. ShotOf(j) # 1 /\ (\A m \in 2 .. ShotOf(j) - 1 : terminal[m] # 0)
        BY <4>1 DEF SupersededBoundary, PriorShotsTerminal
      <4>3. supersession' = "SUBMITTED"
        BY <1>8, <4>1 DEF SupersededBoundary, NextSupersession
      <4> QED BY <1>8, <1>10, <3>1, <4>1, <4>2, <4>3
    <3>2. CASE i # j
      <4>1. job'[i] = job[i]
        BY <1>9, <3>2
      <4> QED BY <1>8, <1>10, <2>2, <2>3, <4>1 DEF IInv, PricedOK
    <3> QED BY <3>1, <3>2
  <2>4. \A m \in Shots : terminal[m] # 0 => terminal[m] \in Jobs /\ job'[terminal[m]] = job[terminal[m]]
    BY <1>6, <1>9, TerminalTyped DEF IInv, PricedOK
  <2>5. \A m \in Shots : terminal'[m] # 0 =>
            /\ job'[terminal'[m]].state = "SUCCEEDED" /\ job'[terminal'[m]].pricing = "V3"
            /\ ShotOf(terminal[m])' = m
    BY <1>8, <2>4 DEF IInv, PricedOK, ShotOf
  <2> QED BY <2>1, <2>3, <2>5 DEF PricedOK
<1>15. QuotaOK'
  <2>1. reservation \in [Pricings -> {"NONE", "RESERVED", "RELEASED"}] /\ Pricings = {"V2", "V3"}
    BY DEF IInv, TypeOK, Pricings
  <2>2. CASE ~projection.activated
    <3>1. reservation' = reservation /\ p = "V2" /\ supersession' = supersession
        BY <1>8, <1>11, <2>1, <2>2 DEF Reserved, NextSupersession
    <3> QED BY <1>8, <2>2, <3>1 DEF IInv, QuotaOK
  <2>3. CASE projection.activated /\ p = "V2"
    <3>1. /\ reservation' = [reservation EXCEPT !["V2"] = "RESERVED"]
          /\ supersession' = "NONE" /\ supersession = "NONE"
        BY <1>8, <1>11, <2>3 DEF Reserved, ReserveStage1LiveAFP, NextSupersession
    <3>2. reservation'["V2"] = "RESERVED" /\ reservation'["V3"] = "NONE"
        BY <2>1, <3>1 DEF IInv, QuotaOK
    <3>3. \A i \in Jobs : job'[i].state # "NONE" => job'[i].pricing = "V2"
      <4>1. ASSUME NEW i \in Jobs, i # j, job'[i].pricing = "V3" PROVE FALSE
        BY <1>9, <3>1, <4>1 DEF IInv, PricedOK
      <4>2. \A i \in Jobs : job'[i].pricing \in Pricings
        BY <1>7, RowsKept DEF RowsTyped, JobType
      <4> QED BY <1>3, <1>5, <2>1, <2>3, <4>1, <4>2
    <3> QED BY <3>1, <3>2, <3>3 DEF QuotaOK
  <2>4. CASE projection.activated /\ p = "V3"
    <3>1. supersession' = "SUBMITTED"
        BY <1>8, <1>11, <2>4 DEF SupersededBoundary, NextSupersession
    <3>2. reservation' = [reservation EXCEPT !["V3"] = "RESERVED",
                                  !["V2"] = IF @ = "RESERVED" THEN "RELEASED" ELSE @]
        BY <1>8, <2>4 DEF Reserved, ReserveFLO167AFP
    <3>3. /\ reservation'["V3"] = "RESERVED" /\ reservation'["V2"] # "RESERVED"
          /\ reservation["V2"] # "NONE" => reservation'["V2"] # "NONE"
        BY <2>1, <3>2
    <3>4. ASSUME NEW i \in Jobs, job'[i].state # "NONE"
          PROVE  reservation'[job'[i].pricing] # "NONE"
      <4>1. CASE i = j
        BY <1>3, <1>5, <2>4, <3>3, <4>1
      <4>2. CASE i # j
        <5>1. job'[i] = job[i] /\ job[i].pricing \in Pricings
            BY <1>1, <1>9, <4>2 DEF RowsTyped, JobType
        <5>2. reservation[job[i].pricing] # "NONE"
            BY <2>4, <3>4, <5>1 DEF IInv, QuotaOK
        <5> QED BY <2>1, <3>3, <5>1, <5>2
      <4> QED BY <4>1, <4>2
    <3> QED BY <3>1, <3>3, <3>4 DEF QuotaOK
  <2> QED BY <2>1, <2>2, <2>3, <2>4
<1>16. FinalOK'
    BY <1>8, <1>9, GrownFinal
<1> QED BY <1>9, <1>12, <1>13, <1>14, <1>15, <1>16 DEF IInv

----------------------------------------------------------------------------
(***************************************************************************)
(* Materialisation and authority.                                          *)
(***************************************************************************)
AuthorityTyped ==
    /\ projection \in {NotMaterialized, OfflineBatch, LiveProjection, SampleProjection}
    /\ drift \in {"NONE", "SEALED", "BINDING"}
    /\ submitAuth \in {"ABSENT", "VALID", "EXPIRED"} /\ v3Auth \in {"ABSENT", "VALID", "EXPIRED"}
    /\ supersession \in {"NONE", "PENDING", "AUTHORIZED", "SUBMITTED"}
    /\ quota \in 1 .. MaxSnapshots /\ faults \in 0 .. MaxFaults

LEMMA AuthorityStepTyped ==
    ASSUME IInv, AuthorityTyped', UNCHANGED <<database, gate, process, provider, finalization>>
    PROVE  TypeOK'
BY DEF IInv, TypeOK, AuthorityTyped, database, gate, process, provider

LEMMA AuthorityTypedNow ==
    ASSUME IInv
    PROVE  AuthorityTyped
BY DEF IInv, TypeOK, AuthorityTyped

\* A projection that may not be paid for has no job, so that it may become any other.
LEMMA ProjectedStep ==
    ASSUME IInv, AuthorityTyped', projection \in {NotMaterialized, OfflineBatch},
           UNCHANGED <<supersession, database, gate, process, provider, finalization>>,
           projection' # NotMaterialized
    PROVE  IInv'
<1>1. /\ \A j \in Jobs : job[j].state = "NONE"
      /\ Shots \subseteq Jobs /\ 1 \in Jobs
    BY Numbers DEF IInv, BoundOK
<1>2. retryBound.shot = 0 /\ supersession = "NONE"
  <2>1. retryBound.shot \in Shots \cup {0}
    BY BoundsAssumption DEF IInv, TypeOK, Retries, Shots
  <2> QED BY <1>1, <2>1 DEF IInv, BoundOK, PricedOK
<1>3. /\ supersession' = supersession /\ reservation' = reservation /\ job' = job
      /\ terminal' = terminal /\ retryBound' = retryBound /\ record' = record /\ package' = package
      /\ submit' = submit /\ closing' = closing /\ task' = task /\ posts' = posts
      /\ finalization' = finalization
    BY DEF database, gate, process, provider
<1>4. TypeOK'
    BY AuthorityStepTyped
<1>5. \A j \in Jobs : RowOK(j)'
    BY <1>3 DEF IInv, RowOK, Outcome
<1>6. BoundOK' /\ QuotaOK'
    BY <1>1, <1>2, <1>3, Numbers DEF IInv, BoundOK, QuotaOK
<1>7. PricedOK'
    BY <1>2, <1>3 DEF IInv, PricedOK, ShotOf
<1>8. FinalOK'
    BY <1>3 DEF IInv, FinalOK
<1> QED BY <1>4, <1>5, <1>6, <1>7, <1>8 DEF IInv

\* The supersession up to its first job.
LEMMA AuthorityStep ==
    ASSUME IInv, AuthorityTyped', UNCHANGED <<projection, database, gate, process, provider,
                                              finalization>>,
           \/ UNCHANGED supersession
           \/ /\ {supersession, supersession'} \subseteq {"NONE", "PENDING", "AUTHORIZED"}
              /\ projection.activated /\ job[1].state = "SUCCEEDED"
    PROVE  IInv'
<1>1. /\ projection' = projection /\ reservation' = reservation /\ job' = job
      /\ terminal' = terminal /\ retryBound' = retryBound /\ record' = record /\ package' = package
      /\ submit' = submit /\ closing' = closing /\ task' = task /\ posts' = posts
      /\ finalization' = finalization
    BY DEF database, gate, process, provider
<1>2. TypeOK'
    BY AuthorityStepTyped
<1>3. \A j \in Jobs : RowOK(j)'
    BY <1>1 DEF IInv, RowOK, Outcome
<1>4. BoundOK' /\ QuotaOK' /\ FinalOK'
    BY <1>1 DEF IInv, BoundOK, QuotaOK, FinalOK
<1>5. PricedOK'
    BY <1>1 DEF IInv, PricedOK, ShotOf
<1> QED BY <1>2, <1>3, <1>4, <1>5 DEF IInv

LEMMA MaterialisationStep ==
    ASSUME IInv, Materialisation
    PROVE  IInv'
<1>1. AuthorityTyped
    BY AuthorityTypedNow
<1>2. ASSUME Materialize \/ MaterializeFLO100 \/ \E issued \in BOOLEAN : MaterializeFLO100Live(issued)
      PROVE  IInv'
  <2>1. /\ projection \in {NotMaterialized, OfflineBatch}
        /\ UNCHANGED <<supersession, database, gate, process, provider, finalization>>
        /\ projection' \in {OfflineBatch, LiveProjection, SampleProjection}
        /\ UNCHANGED <<drift, v3Auth, quota, faults>> /\ submitAuth' \in {submitAuth, "VALID",
                       "ABSENT"}
    BY <1>2 DEF Materialize, MaterializeFLO100, MaterializeFLO100Live, IssuedAuthorization
  <2>2. AuthorityTyped' /\ projection' # NotMaterialized
    BY <1>1, <2>1 DEF AuthorityTyped, NotMaterialized, OfflineBatch, LiveProjection, SampleProjection
  <2> QED BY <2>1, <2>2, ProjectedStep
<1>3. ASSUME EnsureLiveSubmitAuthorization \/ SubmitAuthorizationExpires \/ V3AuthorizationExpires
      PROVE  IInv'
  <2>1. /\ UNCHANGED <<projection, supersession, database, gate, process, provider, finalization,
                       drift, quota>>
        /\ submitAuth' \in {submitAuth, "VALID", "EXPIRED"} /\ v3Auth' \in {v3Auth, "EXPIRED"}
        /\ faults' \in 0 .. MaxFaults
    BY <1>3, FaultsTyped DEF EnsureLiveSubmitAuthorization, SubmitAuthorizationExpires,
                             V3AuthorizationExpires, IssuedAuthorization
  <2>2. AuthorityTyped'
    BY <1>1, <2>1 DEF AuthorityTyped
  <2> QED BY <2>1, <2>2, AuthorityStep
<1>4. ASSUME MaterializeFLO167Supersession \/ AuthorizeFLO167Supersession
      PROVE  IInv'
  <2>1. /\ UNCHANGED <<projection, database, gate, process, provider, finalization, drift,
                       submitAuth, quota, faults>>
        /\ v3Auth' \in {v3Auth, "VALID"}
        /\ supersession \in {"NONE", "PENDING"} /\ supersession' \in {"PENDING", "AUTHORIZED"}
    BY <1>4 DEF MaterializeFLO167Supersession, AuthorizeFLO167Supersession
  <2>2. projection.activated /\ job[1].state = "SUCCEEDED"
    BY <1>4 DEF MaterializeFLO167Supersession, AuthorizeFLO167Supersession, LegacyTerminal, IInv, PricedOK
  <2>3. AuthorityTyped'
    BY <1>1, <2>1 DEF AuthorityTyped
  <2> QED BY <2>1, <2>2, <2>3, AuthorityStep
<1>5. ASSUME NEW rows \in {"SEALED", "BINDING"}, RowsDrift(rows) PROVE IInv'
  <2>1. /\ UNCHANGED <<projection, supersession, database, gate, process, provider, finalization,
                       submitAuth, v3Auth, quota>>
        /\ drift' = rows /\ faults' \in 0 .. MaxFaults
    BY <1>5, FaultsTyped DEF RowsDrift
  <2>2. AuthorityTyped'
    BY <1>1, <2>1 DEF AuthorityTyped
  <2> QED BY <2>1, <2>2, AuthorityStep
<1>6. ASSUME SnapshotGoesStale PROVE IInv'
  <2>1. /\ UNCHANGED <<projection, supersession, database, gate, process, provider, finalization,
                       submitAuth, v3Auth, drift, faults>>
        /\ quota < MaxSnapshots /\ quota' = quota + 1
    BY <1>6 DEF SnapshotGoesStale, authority
  <2>2. AuthorityTyped'
    BY <1>1, <2>1, BoundsAssumption DEF AuthorityTyped
  <2> QED BY <2>1, <2>2, AuthorityStep
<1> QED BY <1>2, <1>3, <1>4, <1>5, <1>6 DEF Materialisation

----------------------------------------------------------------------------
(***************************************************************************)
(* The controlled retry, the revision and the finalization.                *)
(***************************************************************************)
\* Nothing but the retry, the packages and the finalization is written.
LEMMA ClosureStep ==
    ASSUME IInv, UNCHANGED <<authority, reservation, job, terminal, retryBound, record, safety,
                             process, provider, quota, faults>>,
           revisions' \subseteq {"VOICE", "BATCH"}, localRetry' \in Retries,
           package' \in {"NONE", "ORIGINAL", "VOICE", "BATCH"},
           finalization' \in [state : {"NONE", "REQUESTED", "COMMITTED"}, runs : SUBSET Jobs],
           FinalOK'
    PROVE  IInv'
<1>1. /\ projection' = projection /\ supersession' = supersession /\ reservation' = reservation
      /\ job' = job /\ terminal' = terminal /\ retryBound' = retryBound /\ record' = record
      /\ submit' = submit /\ closing' = closing /\ task' = task /\ posts' = posts
      /\ drift' = drift /\ submitAuth' = submitAuth /\ v3Auth' = v3Auth
    BY DEF authority, process, provider
<1>2. TypeOK'
    BY <1>1 DEF IInv, TypeOK
<1>3. \A j \in Jobs : RowOK(j)'
    BY <1>1 DEF IInv, RowOK, Outcome
<1>4. BoundOK' /\ QuotaOK'
    BY <1>1 DEF IInv, BoundOK, QuotaOK
<1>5. PricedOK'
    BY <1>1 DEF IInv, PricedOK, ShotOf
<1> QED BY <1>2, <1>3, <1>4, <1>5 DEF IInv

\* Before the retry is bound it has no job, so that nothing refers to its shot.
LEMMA BindRetryStep ==
    ASSUME IInv, NEW s \in Shots, NEW p \in Pricings, BindFLO100LiveControlledRetry(s, p)
    PROVE  IInv'
<1>1. /\ projection.activated /\ job[s].state = "FAILED" /\ retryBound = NoRetry
      /\ retryBound' = [shot |-> s, pricing |-> p]
    BY DEF BindFLO100LiveControlledRetry, PrimaryFailureSettled
<1>2. /\ projection' = projection /\ supersession' = supersession /\ reservation' = reservation
      /\ job' = job /\ terminal' = terminal /\ record' = record /\ package' = package
      /\ submit' = submit /\ closing' = closing /\ task' = task /\ posts' = posts
      /\ drift' = drift /\ submitAuth' = submitAuth /\ v3Auth' = v3Auth /\ revisions' = revisions
      /\ localRetry' = localRetry /\ safety' = safety /\ quota' = quota
      /\ finalization' = finalization /\ faults' = faults
    BY DEF BindFLO100LiveControlledRetry, authority, gate, process, provider
<1>3. job[RetryJob].state = "NONE" /\ RetryJob \in Jobs
    BY <1>1, Numbers DEF NoRetry, IInv, BoundOK
<1>4. TypeOK'
  <2>1. retryBound' \in Retries
    BY <1>1, BoundsAssumption DEF Retries, Shots
  <2> QED BY <1>2, <2>1 DEF IInv, TypeOK
<1>5. \A j \in Jobs : RowOK(j)'
    BY <1>2 DEF IInv, RowOK, Outcome
<1>6. BoundOK'
    BY <1>1, <1>2, <1>3 DEF IInv, BoundOK
<1>7. PricedOK'
  <2>1. \A j \in Jobs : job[j].pricing = "V3" => j # RetryJob
    BY <1>3 DEF IInv, RowOK
  <2>2. \A m \in Shots : terminal[m] # 0 => terminal[m] # RetryJob
    BY <1>3 DEF IInv, PricedOK
  <2> QED BY <1>2, <2>1, <2>2 DEF IInv, PricedOK, ShotOf
<1>8. QuotaOK'
    BY <1>2 DEF IInv, QuotaOK
<1>9. FinalOK'
  <2>1. finalization.state # "NONE" => RetryJob \notin finalization.runs
    <3>1. record[RetryJob].state = "NONE"
        BY <1>3 DEF IInv, RowOK
    <3> QED BY <3>1 DEF IInv, FinalOK
  <2> QED BY <1>2, <2>1 DEF IInv, FinalOK
<1> QED BY <1>4, <1>5, <1>6, <1>7, <1>8, <1>9 DEF IInv

LEMMA BindExecutionPackageStep ==
    ASSUME IInv, BindExecutionPackage
    PROVE  IInv'
<1>1. FinalOK'
    BY DEF IInv, FinalOK, BindExecutionPackage, database, process
<1> QED BY <1>1, ClosureStep DEF BindExecutionPackage, IInv, TypeOK, database

LEMMA BindRetryPackageStep ==
    ASSUME IInv, NEW s \in Shots, NEW p \in Pricings, BindControlledRetryPackage(s, p)
    PROVE  IInv'
<1>1. localRetry' \in Retries
    BY BoundsAssumption DEF BindControlledRetryPackage, Retries, Shots
<1>2. FinalOK'
    BY DEF IInv, FinalOK, BindControlledRetryPackage, database
<1> QED BY <1>1, <1>2, ClosureStep DEF BindControlledRetryPackage, IInv, TypeOK, database

LEMMA RevisionStep ==
    ASSUME IInv, RevoiceStage1 \/ AuthorizeSpeechBatch
    PROVE  IInv'
<1>1. /\ UNCHANGED <<authority, reservation, job, terminal, retryBound, record, safety,
                     process, provider, quota, faults, localRetry, package, finalization>>
      /\ revisions' \in {revisions \cup {"VOICE"}, revisions \cup {"BATCH"}}
    BY DEF RevoiceStage1, AuthorizeSpeechBatch, gate
<1>2. FinalOK'
    BY <1>1 DEF IInv, FinalOK
<1> QED BY <1>1, <1>2, ClosureStep DEF IInv, TypeOK

LEMMA BindRevisionStep ==
    ASSUME IInv, NEW k \in {"VOICE", "BATCH"}, BindExecutionPackageRevision(k)
    PROVE  IInv'
<1>1. \A s \in Shots : job[s].state = "SUCCEEDED"
    BY Numbers DEF BindExecutionPackageRevision, Revisable, IInv, RowOK
<1>2. FinalOK'
    BY <1>1 DEF IInv, FinalOK, BindExecutionPackageRevision, database
<1> QED BY <1>2, ClosureStep DEF BindExecutionPackageRevision, IInv, TypeOK, database

LEMMA FinalizationInputStep ==
    ASSUME IInv, FinalizationInput
    PROVE  IInv'
<1>1. /\ \A s \in Shots : record[s].state \in Closed /\ record[s].complete
      /\ FailedPrimaries \subseteq {localRetry.shot}
      /\ FailedPrimaries # {} => record[RetryJob].state = "SUCCEEDED" /\ record[RetryJob].complete
      /\ finalization' = [state |-> "REQUESTED", runs |-> FinalizationRuns]
      /\ UNCHANGED <<authority, database, gate, process, provider, quota, faults>>
    BY DEF FinalizationInput, EvidenceComplete
<1>2. FinalizationRuns \subseteq Jobs
    BY Numbers DEF FinalizationRuns
<1>3. \A j \in FinalizationRuns : record[j].complete /\ record[j].state = "SUCCEEDED"
    BY <1>1 DEF FinalizationRuns, FailedPrimaries, Closed
<1>4. \/ FinalizationRuns = Shots
      \/ \E f \in Shots : FinalizationRuns = (Shots \ {f}) \cup {RetryJob}
  <2>1. CASE FailedPrimaries = {}
    BY <2>1 DEF FinalizationRuns
  <2>2. CASE FailedPrimaries # {}
    <3>1. PICK f \in Shots : FailedPrimaries = {f}
        BY <1>1, <2>2 DEF FailedPrimaries
    <3>2. FinalizationRuns = (Shots \ {f}) \cup {RetryJob}
        BY <2>2, <3>1 DEF FinalizationRuns
    <3> QED BY <3>2
  <2> QED BY <2>1, <2>2
<1>5. finalization'.state = "REQUESTED" /\ finalization'.runs = FinalizationRuns
    BY <1>1
<1>6. FinalOK'
    BY <1>1, <1>3, <1>4, <1>5 DEF IInv, FinalOK, database, gate
<1>7. finalization' \in [state : {"NONE", "REQUESTED", "COMMITTED"}, runs : SUBSET Jobs]
    BY <1>1, <1>2
<1> QED BY <1>1, <1>6, <1>7, ClosureStep DEF IInv, TypeOK, database, gate

\* The run set of the activation leaves only the primary that the retry replaces.
LEMMA CommitPostProductionStep ==
    ASSUME IInv, CommitPostProduction
    PROVE  IInv'
<1>1. /\ finalization.state = "REQUESTED"
      /\ projection.activated => FinalizationAuthority(finalization.runs)
      /\ finalization' = [finalization EXCEPT !.state = "COMMITTED"]
      /\ UNCHANGED <<authority, database, gate, process, provider, quota, faults>>
    BY DEF CommitPostProduction
<1>2. finalization \in [state : {"NONE", "REQUESTED", "COMMITTED"}, runs : SUBSET Jobs]
    BY DEF IInv, TypeOK
<1>3. /\ finalization' \in [state : {"NONE", "REQUESTED", "COMMITTED"}, runs : SUBSET Jobs]
      /\ finalization'.runs = finalization.runs /\ finalization'.state = "COMMITTED"
    BY <1>1, <1>2
<1>4. RetryJob \in finalization.runs => retryBound.shot \notin finalization.runs
  <2> SUFFICES ASSUME RetryJob \in finalization.runs
               PROVE  retryBound.shot \notin finalization.runs
    OBVIOUS
  <2>1. record[RetryJob].complete
    BY <1>1 DEF IInv, FinalOK
  <2>2. job[RetryJob].state # "NONE"
    BY <2>1, Numbers DEF IInv, RowOK, Closed
  <2>3. projection.activated
    BY <2>2 DEF IInv, BoundOK
  <2>4. ~(Shots \subseteq finalization.runs)
    BY <1>1, Numbers DEF IInv, FinalOK
  <2> QED BY <1>1, <2>3, <2>4 DEF FinalizationAuthority
<1>5. FinalOK'
    BY <1>1, <1>3, <1>4 DEF IInv, FinalOK, database, gate
<1> QED BY <1>1, <1>3, <1>5, ClosureStep DEF IInv, TypeOK, database, gate

----------------------------------------------------------------------------
(***************************************************************************)
(* The invariant, and what follows from it.                                *)
(***************************************************************************)
LEMMA InitIInv ==
    ASSUME Init
    PROVE  IInv
<1>1. /\ projection = NotMaterialized /\ supersession = "NONE" /\ retryBound = NoRetry
      /\ reservation = [p \in Pricings |-> "NONE"] /\ terminal = [s \in Shots |-> 0]
      /\ package = "NONE" /\ finalization = [state |-> "NONE", runs |-> {}]
    BY DEF Init
<1>2. TypeOK
  <2>1. NoRetry \in Retries
    BY BoundsAssumption DEF NoRetry, Retries, Pricings
  <2>2. [state |-> "NONE", pricing |-> "V2", snapshot |-> 0] \in
            [state : {"NONE", "QUEUED"} \cup Closed, pricing : Pricings, snapshot : 0 .. MaxSnapshots]
    BY BoundsAssumption DEF Pricings
  <2>3. /\ NoRecord \in [state : {"NONE", "PREPARED", "AMBIGUOUS"} \cup Closed, complete : BOOLEAN,
                         afp : Measures, pricing : Pricings]
        /\ NotClosed \in [state : {"NONE"} \cup Closed, afp : Measures]
    BY DEF NoRecord, NotClosed, Unmeasured, Measures, Pricings
  <2>4. job \in [Jobs -> [state : {"NONE", "QUEUED"} \cup Closed, pricing : Pricings,
                          snapshot : 0 .. MaxSnapshots]]
    BY <2>2 DEF Init
  <2>5. /\ record \in [Jobs -> [state : {"NONE", "PREPARED", "AMBIGUOUS"} \cup Closed,
                                complete : BOOLEAN, afp : Measures, pricing : Pricings]]
        /\ closing \in [Jobs -> [state : {"NONE"} \cup Closed, afp : Measures]]
    BY <2>3 DEF Init
  <2>6. /\ terminal \in [Shots -> 0 .. N + 1] /\ posts \in [Jobs -> 0 .. 1]
        /\ quota \in 1 .. MaxSnapshots /\ faults \in 0 .. MaxFaults /\ safety \in 0 .. 2
    BY BoundsAssumption DEF Init
  <2>7. /\ projection \in {NotMaterialized, OfflineBatch, LiveProjection, SampleProjection}
        /\ drift \in {"NONE", "SEALED", "BINDING"}
        /\ {submitAuth, v3Auth} \subseteq {"ABSENT", "VALID", "EXPIRED"}
        /\ supersession \in {"NONE", "PENDING", "AUTHORIZED", "SUBMITTED"}
        /\ reservation \in [Pricings -> {"NONE", "RESERVED", "RELEASED"}]
        /\ revisions \subseteq {"VOICE", "BATCH"}
        /\ package \in {"NONE", "ORIGINAL", "VOICE", "BATCH"}
        /\ submit \in [Jobs -> {"IDLE", "COMMITTED", "SAVED", "LOST"}]
        /\ task \in [Jobs -> {"NONE", "PENDING", "REJECTED"} \cup Closed]
        /\ finalization \in [state : {"NONE", "REQUESTED", "COMMITTED"}, runs : SUBSET Jobs]
    BY DEF Init
  <2>8. retryBound \in Retries /\ localRetry \in Retries
    BY <2>1 DEF Init
  <2> QED BY <2>4, <2>5, <2>6, <2>7, <2>8 DEF TypeOK
<1>3. ASSUME NEW j \in Jobs
      PROVE  /\ job[j].state = "NONE" /\ job[j].pricing = "V2"
             /\ record[j] = NoRecord /\ submit[j] = "IDLE" /\ closing[j] = NotClosed
             /\ task[j] = "NONE" /\ posts[j] = 0
    BY DEF Init
<1>4. \A j \in Jobs : RowOK(j)
    BY <1>3 DEF RowOK, NoRecord, Closed
<1>5. BoundOK
    BY <1>1, <1>3, Numbers DEF BoundOK, NoRetry
<1>6. PricedOK
    BY <1>1, <1>3 DEF PricedOK
<1>7. QuotaOK
    BY <1>1, <1>3 DEF QuotaOK, NotMaterialized, Pricings
<1>8. FinalOK
    BY <1>1 DEF FinalOK
<1> QED BY <1>2, <1>4, <1>5, <1>6, <1>7, <1>8 DEF IInv

LEMMA StutterIInv ==
    ASSUME IInv, UNCHANGED vars
    PROVE  IInv'
<1>1. UNCHANGED <<authority, reservation, job, terminal, retryBound, revisions, record, safety,
                  process, provider, quota, faults, localRetry, package, finalization>>
    BY DEF vars, database, gate
<1>2. FinalOK'
    BY <1>1 DEF IInv, FinalOK
<1> QED BY <1>1, <1>2, ClosureStep DEF IInv, TypeOK

LEMMA SubmissionStep ==
    ASSUME IInv, NEW j \in Jobs, Submission(j)
    PROVE  IInv'
BY AuthorizePreparedStep, SavePreparedStep, SubmitStep, MarkAmbiguousStep, SubmitStopsStep,
   ProviderFinishesStep DEF Submission

LEMMA CompletionStep ==
    ASSUME IInv, NEW j \in Jobs, Completion(j)
    PROVE  IInv'
BY CompleteStep, FailStep, FreezeIncompleteStep, SaveCompletionStep, CompleteStopsStep DEF Completion

LEMMA NextIInv ==
    ASSUME IInv, [Next]_vars
    PROVE  IInv'
<1>1. CASE UNCHANGED vars
    BY <1>1, StutterIInv
<1>2. CASE Materialisation
    BY <1>2, MaterialisationStep
<1>3. CASE \E j \in Jobs : Submission(j) \/ Completion(j)
    BY <1>3, SubmissionStep, CompletionStep
<1>4. CASE Closure
    BY <1>4, BindRetryStep, BindRetryPackageStep, BindExecutionPackageStep, RevisionStep,
       BindRevisionStep, FinalizationInputStep, CommitPostProductionStep DEF Closure
<1> QED BY <1>1, <1>2, <1>3, <1>4 DEF Next

\* Wherever a process stops, and in whatever order the commands run, the two ledgers stay
\* within the inductive invariant.
THEOREM Invariance == Spec => []IInv
<1>1. Init => IInv
    BY InitIInv
<1>2. IInv /\ [Next]_vars => IInv'
    BY NextIInv
<1> QED BY <1>1, <1>2, PTL DEF Spec

\* The projection, the ledgers and the commands under way hold values of their types,
\* whatever the size of the batch.
THEOREM TypeCorrect == Spec => []TypeOK
<1>1. IInv => TypeOK
    BY DEF IInv
<1> QED BY <1>1, Invariance, PTL

\* A job is sent once, known to both ledgers, and a retry only after the task of its
\* primary failed (readiness.go:543-581, flo100_live.go:590-656).
THEOREM OneResult == Spec => []OneResultPerShot
<1>1. IInv => OneResultPerShot
  <2> SUFFICES ASSUME IInv PROVE OneResultPerShot
    OBVIOUS
  <2>1. ASSUME NEW j \in Jobs
        PROVE  /\ posts[j] > 0 => record[j].state # "NONE" /\ job[j].state # "NONE"
               /\ posts[j] <= 1
    <3>1. posts[j] \in 0 .. 1 /\ RowOK(j)
        BY DEF IInv, TypeOK
    <3> QED BY <3>1 DEF RowOK
  <2>2. posts[RetryJob] > 0 => task[retryBound.shot] = "FAILED"
    <3> SUFFICES ASSUME posts[RetryJob] > 0 PROVE task[retryBound.shot] = "FAILED"
        OBVIOUS
    <3>1. job[RetryJob].state # "NONE" /\ RetryJob \in Jobs
        BY <2>1, Numbers
    <3>2. retryBound.shot \in Jobs /\ job[retryBound.shot].state = "FAILED"
        BY <3>1, ShotOfType, Numbers DEF IInv, BoundOK
    <3> QED BY <3>2 DEF IInv, RowOK, Closed
  <2> QED BY <2>1, <2>2 DEF OneResultPerShot
<1> QED BY <1>1, Invariance, PTL

\* Whatever expires, stops or is retried, a shot is queued at its V3 price only when A01
\* and every shot before it were delivered (flo167_supersession.go:190-216).
THEOREM InOrder == Spec => []ContinuationInOrder
<1>1. IInv => ContinuationInOrder
  <2> SUFFICES ASSUME IInv, NEW j \in Jobs, job[j].state # "NONE", job[j].pricing = "V3"
               PROVE  /\ task[1] = "SUCCEEDED" /\ job[1].pricing = "V2"
                      /\ \A m \in 2 .. ShotOf(j) - 1 :
                            /\ terminal[m] # 0
                            /\ task[terminal[m]] = "SUCCEEDED" /\ job[terminal[m]].pricing = "V3"
    BY DEF ContinuationInOrder
  <2>1. /\ supersession = "SUBMITTED" /\ \A m \in 2 .. ShotOf(j) - 1 : terminal[m] # 0
        /\ job[1].state = "SUCCEEDED"
    BY DEF IInv, PricedOK
  <2>2. 1 \in Jobs /\ ShotOf(1) = 1
    BY Numbers DEF ShotOf
  <2>3. job[1].pricing \in Pricings /\ job[1].pricing # "V3"
    BY <2>2 DEF IInv, TypeOK, PricedOK
  <2>4. \A i \in Jobs : job[i].state = "SUCCEEDED" => task[i] = "SUCCEEDED"
    BY DEF IInv, RowOK, Closed
  <2>5. ASSUME NEW m \in 2 .. ShotOf(j) - 1
        PROVE  task[terminal[m]] = "SUCCEEDED" /\ job[terminal[m]].pricing = "V3"
    <3>1. ShotOf(j) \in Shots
        BY ShotOfType
    <3>2. m \in Shots
        BY <3>1, BoundsAssumption DEF Shots
    <3>3. terminal[m] # 0 /\ terminal[m] \in Jobs
        BY <2>1, <3>2, TerminalTyped
    <3> QED BY <2>4, <3>2, <3>3 DEF IInv, PricedOK
  <2> QED BY <2>1, <2>2, <2>3, <2>4, <2>5 DEF Pricings
<1> QED BY <1>1, Invariance, PTL

\* The reservation of the supersession replaces that of the activation, and no job is
\* without the one of its price (flo167_supersession.go:240-348).
THEOREM QuotaOnce == Spec => []QuotaReservedOnce
<1>1. IInv => QuotaReservedOnce
  <2> SUFFICES ASSUME IInv PROVE QuotaReservedOnce
    OBVIOUS
  <2> DEFINE Held == {p \in Pricings : reservation[p] = "RESERVED"}
  <2>1. Held = {} \/ \E p : Held = {p}
    BY DEF IInv, QuotaOK, Pricings
  <2>2. Cardinality({}) = 0 /\ \A p : Cardinality({p}) = 1
    BY FS_EmptySet, FS_Singleton
  <2>3. Cardinality(Held) \in {0, 1}
    <3> HIDE DEF Held
    <3> QED BY <2>1, <2>2
  <2> QED BY <2>3 DEF QuotaReservedOnce, IInv, QuotaOK
<1> QED BY <1>1, Invariance, PTL

\* No crash between the two commits lets the ledgers tell different outcomes of a job
\* (runner.go:458-525, readiness.go:396-471).
THEOREM Agreement == Spec => []LedgersAgree
<1>1. IInv => LedgersAgree
  <2> SUFFICES ASSUME IInv PROVE LedgersAgree
    OBVIOUS
  <2>1. ASSUME NEW j \in Jobs, EvidenceComplete(j)
        PROVE  record[j].state = job[j].state /\ record[j].state = task[j]
    BY <2>1 DEF IInv, RowOK, EvidenceComplete
  <2>2. ASSUME NEW j \in Jobs, job[j].state \in Closed
        PROVE  record[j].state \in {"PREPARED", "AMBIGUOUS", job[j].state}
    <3>1. /\ record[j].state \in {"NONE", "PREPARED", "AMBIGUOUS"} \cup Closed
          /\ posts[j] \in 0 .. 1 /\ RowOK(j)
        BY DEF IInv, TypeOK
    <3>2. task[j] = job[j].state
        BY <2>2, <3>1 DEF RowOK
    <3>3. record[j].state # "NONE"
        BY <2>2, <3>1, <3>2 DEF RowOK, Closed
    <3>4. record[j].state \in Closed => record[j].state = job[j].state
        BY <2>2, <3>1, <3>2 DEF RowOK, Outcome, Closed
    <3> QED BY <3>1, <3>3, <3>4
  <2>3. package \in {"VOICE", "BATCH"} => \A s \in Shots : job[s].state = "SUCCEEDED"
    BY DEF IInv, FinalOK
  <2> QED BY <2>1, <2>2, <2>3 DEF LedgersAgree
<1> QED BY <1>1, Invariance, PTL

\* The episode is committed over one delivered run of every shot, whether or not one of
\* them is the controlled retry (runner.go:540-578, flo100_live.go:131-253).
THEOREM ExactSet == Spec => []FinalizedSetIsExact
<1>1. IInv => FinalizedSetIsExact
  <2> SUFFICES ASSUME IInv, finalization.state = "COMMITTED"
               PROVE  /\ {ShotOf(j) : j \in finalization.runs} = Shots
                      /\ \A j \in finalization.runs :
                            task[j] = "SUCCEEDED" /\ record[j].state = "SUCCEEDED" /\ record[j].complete
                      /\ \A j \in finalization.runs :
                            job[j].pricing = "V3" => terminal[ShotOf(j)] = j
    BY DEF FinalizedSetIsExact
  <2>1. finalization.runs \subseteq Jobs
    BY DEF IInv, TypeOK
  <2>2. \A j \in finalization.runs : record[j].complete /\ record[j].state = "SUCCEEDED"
    BY DEF IInv, FinalOK
  <2>3. \A j \in finalization.runs : job[j].state = "SUCCEEDED" /\ task[j] = "SUCCEEDED"
    BY <2>1, <2>2 DEF IInv, RowOK, Closed
  <2>4. \A j \in finalization.runs : job[j].pricing = "V3" => terminal[ShotOf(j)] = j
    BY <2>1, <2>3 DEF IInv, PricedOK
  <2>5. \A s \in Shots : ShotOf(s) = s
    BY Numbers DEF ShotOf
  <2>6. CASE finalization.runs = Shots
    <3>1. {ShotOf(j) : j \in Shots} = Shots
        BY <2>5
    <3> QED BY <2>2, <2>3, <2>4, <2>6, <3>1
  <2>7. CASE \E f \in Shots : finalization.runs = (Shots \ {f}) \cup {RetryJob}
    <3>1. PICK f \in Shots : finalization.runs = (Shots \ {f}) \cup {RetryJob}
        BY <2>7
    <3>2. RetryJob \in finalization.runs /\ RetryJob \in Jobs
        BY <2>1, <3>1
    <3>3. ShotOf(RetryJob) \in Shots /\ ShotOf(RetryJob) = retryBound.shot
        BY <2>3, <3>2, ShotOfType
    <3>4. retryBound.shot \notin finalization.runs
        BY <3>2 DEF IInv, FinalOK
    <3>5. ShotOf(RetryJob) = f
        BY <3>1, <3>3, <3>4
    <3>6. {ShotOf(j) : j \in (Shots \ {f}) \cup {RetryJob}} = Shots
        BY <2>5, <3>5
    <3> QED BY <2>2, <2>3, <2>4, <3>1, <3>6
  <2> QED BY <2>6, <2>7 DEF IInv, FinalOK
<1> QED BY <1>1, Invariance, PTL
=============================================================================
