--------------------------- MODULE SoleServerProofs ---------------------------
(***************************************************************************)
(* Proof that a job which one process serves is never forgotten by it      *)
(* (SoleServerNeverForgets), for any number of processes, jobs, tasks and  *)
(* retries.                                                                *)
(*                                                                         *)
(* Handlers overwrite the record with the copy they read, so that two      *)
(* processes may forget what the other saved.  A process that is alone     *)
(* with its job has a copy that is still fresh when it writes (Fresh).     *)
(***************************************************************************)
EXTENDS ProviderAdapterProofs

Alone(p, j) == {q \in Processes : j \in serves[q]} = {p}

\* A record names the call of the receipt, and a success has all its evidence.
RecordFresh(rec, call) ==
    /\ call # NoTask /\ rec.task # NoTask => call = rec.task
    /\ rec.state = "SUCCEEDED" => rec.artifacts = TRUE /\ rec.error = "NONE"

\* The steps whose copy may be a record that is settled.
Whole == {"SAVE", "RESTORE"}

\* A handler that is about to call the provider, under an intent that names no task.
Calls(h) == h.step \in {"SUBMIT", "SPEAK"} \/ (h.step = "RESTORE" /\ h.after = "FRESH")

\* Writing the copy of a handler over the record loses no task and no settled result.
CopyFresh(h, rec) ==
    /\ rec.task # NoTask => h.copy.task = rec.task
    /\ h.step \in Whole => (Settled(rec) => h.copy = rec)
    /\ h.step \notin Whole => ~Settled(rec) /\ ~Settled(h.copy)
    /\ Calls(h) => h.copy = rec
    /\ Calls(h) \/ h.step = "REOPEN" => h.copy.task = NoTask /\ h.copy.state = "UNKNOWN"
    /\ h.step = "RECEIPT" => rec.task = NoTask

\* What the copy says of a speech call agrees with the receipt.
SpeechFresh(h, call) ==
    /\ h.step \in {"SPEAK", "RECEIPT"} => call = NoTask
    /\ RecordFresh(h.copy, call)

StepFresh(h, rec, call) ==
    /\ h.step = "INTENT" => h.copy.task = NoTask /\ h.copy.state = "UNKNOWN"
    /\ h.step \notin {"IDLE", "INTENT"} \cup NoCopy =>
           CopyFresh(h, rec) /\ (h.job \in SpeechJobs => SpeechFresh(h, call))

HandlerFresh(p) == StepFresh(op[p], record[op[p].job], receipt[op[p].job])

Fresh ==
    /\ \A p \in Processes, j \in SpeechJobs : Alone(p, j) => RecordFresh(record[j], receipt[j])
    /\ \A p \in Processes : Alone(p, op[p].job) => HandlerFresh(p)

\* What the action property says of one step.
NothingForgotten == \A j \in Jobs, p \in Processes : Alone(p, j) => ~Forgets(j)

----------------------------------------------------------------------------
(***************************************************************************)
(* A step concerns the one job its handler is about.                       *)
(***************************************************************************)
Kept(j) == record'[j] = record[j] /\ (j \in SpeechJobs => receipt'[j] = receipt[j])

LEMMA Owner ==
    ASSUME IInv, NEW p \in Processes, op[p].step # "IDLE", NEW q, Alone(q, op[p].job)
    PROVE  q = p
<1>1. op[p].job \in serves[p]
  BY Running DEF PlaceOK
<1> QED
  BY <1>1 DEF Alone

LEMMA IdleFresh ==
    ASSUME NEW h, h.step = "IDLE", NEW rec, NEW call
    PROVE  StepFresh(h, rec, call)
BY DEF StepFresh

\* For a video job the receipt does not matter.
LEMMA ReceiptMatters ==
    ASSUME NEW h, NEW rec, NEW call, NEW other, h.job \in SpeechJobs => call = other,
           StepFresh(h, rec, call)
    PROVE  StepFresh(h, rec, other)
BY DEF StepFresh

\* A handler that does nothing, alone with its job.
LEMMA OthersFresh ==
    ASSUME IInv, Fresh, NEW q \in Processes, op'[q] = op[q], serves' = serves,
           op[q].step # "IDLE" => Kept(op[q].job), Alone(q, op[q].job)
    PROVE  HandlerFresh(q)'
<1>1. StepFresh(op[q], record[op[q].job], receipt[op[q].job])
  BY DEF Fresh, HandlerFresh
<1>2. CASE op[q].step = "IDLE"
  BY <1>2, IdleFresh DEF HandlerFresh
<1>3. CASE op[q].step # "IDLE"
  <2>1. StepFresh(op[q], record[op[q].job], receipt'[op[q].job])
    BY <1>1, <1>3, ReceiptMatters DEF Kept
  <2> QED
    BY <1>3, <2>1 DEF HandlerFresh, Kept
<1> QED
  BY <1>2, <1>3

LEMMA SameForgotten ==
    ASSUME NEW j, record'[j] = record[j]
    PROVE  ~Forgets(j)
BY DEF Forgets

\* A step of a running handler.
LEMMA OwnStep ==
    ASSUME IInv, Fresh, NEW p \in Processes, op[p].step # "IDLE", OnlyHandler(p), serves' = serves,
           \A j \in Jobs \ {op[p].job} : Kept(j),
           op'[p].step = "IDLE" \/ op'[p].job = op[p].job,
           Alone(p, op[p].job) =>
               /\ HandlerFresh(p)'
               /\ op[p].job \in SpeechJobs => RecordFresh(record'[op[p].job], receipt'[op[p].job])
               /\ ~Forgets(op[p].job)
    PROVE  Fresh' /\ NothingForgotten
<1> DEFINE Good(j) == /\ j \in SpeechJobs => RecordFresh(record'[j], receipt'[j])
                      /\ ~Forgets(j)
<1>1. ASSUME NEW q \in Processes, NEW j \in Jobs, Alone(q, j) PROVE Good(j)
  <2>1. CASE j # op[p].job
    BY <1>1, <2>1, SameForgotten DEF Kept, Fresh
  <2>2. CASE j = op[p].job
    <3>1. q = p
      BY <1>1, <2>2, Owner
    <3> QED
      BY <1>1, <2>2, <3>1
  <2> QED
    BY <2>1, <2>2
<1>2. ASSUME NEW q \in Processes, Alone(q, op[q].job)' PROVE HandlerFresh(q)'
  <2>1. CASE q = p
    <3>1. CASE op'[p].step = "IDLE"
      BY <2>1, <3>1, IdleFresh DEF HandlerFresh
    <3>2. CASE op'[p].job = op[p].job
      <4>1. Alone(p, op[p].job)
        BY <1>2, <2>1, <3>2 DEF Alone
      <4> QED
        BY <2>1, <4>1
    <3> QED
      BY <3>1, <3>2
  <2>2. CASE q # p
    <3>1. op'[q] = op[q]
      BY <2>2, OtherHolders
    <3>2. Alone(q, op[q].job)
      BY <1>2, <3>1 DEF Alone
    <3>3. op[q].step # "IDLE" => op[q].job \in Jobs
      BY Running
    <3>4. op[q].step # "IDLE" => op[q].job # op[p].job
      BY <2>2, <3>2, Owner
    <3> QED
      BY <3>1, <3>2, <3>3, <3>4, OthersFresh
  <2> QED
    BY <2>1, <2>2
<1>3. NothingForgotten
  BY <1>1 DEF NothingForgotten
<1>4. \A q \in Processes, j \in SpeechJobs : Alone(q, j) => RecordFresh(record'[j], receipt'[j])
  BY <1>1, SpeechAssumption
<1>5. \A q, j : Alone(q, j)' => Alone(q, j)
  BY DEF Alone
<1> QED
  BY <1>2, <1>3, <1>4, <1>5 DEF Fresh

\* A request arrives, and its handler reads the record.
LEMMA BeginStep ==
    ASSUME IInv, Fresh, NEW p \in Processes, OnlyHandler(p), UNCHANGED <<record, speech>>,
           Alone(p, op'[p].job) => StepFresh(op'[p], record[op'[p].job], receipt[op'[p].job])
    PROVE  Fresh' /\ NothingForgotten
<1>1. serves' = serves /\ record' = record /\ receipt' = receipt
  BY DEF speech, files
<1>2. ASSUME NEW q \in Processes, Alone(q, op[q].job)' PROVE HandlerFresh(q)'
  <2>1. CASE q = p
    <3>1. Alone(p, op'[p].job)
      BY <1>1, <1>2, <2>1 DEF Alone
    <3> QED
      BY <1>1, <2>1, <3>1 DEF HandlerFresh
  <2>2. CASE q # p
    <3>1. op'[q] = op[q]
      BY <2>2, OtherHolders
    <3>2. Alone(q, op[q].job)
      BY <1>1, <1>2, <3>1 DEF Alone
    <3> QED
      BY <1>1, <3>1, <3>2, OthersFresh DEF Kept
  <2> QED
    BY <2>1, <2>2
<1>3. \A q, j : Alone(q, j)' => Alone(q, j)
  BY <1>1 DEF Alone
<1>4. NothingForgotten
  BY <1>1, SameForgotten DEF NothingForgotten
<1> QED
  BY <1>1, <1>2, <1>3, <1>4 DEF Fresh

\* A step that no handler takes.
LEMMA NoHandlerStep ==
    ASSUME IInv, Fresh, UNCHANGED <<record, op, receipt, serves>>
    PROVE  Fresh' /\ NothingForgotten
<1>1. NothingForgotten
  BY SameForgotten DEF NothingForgotten
<1>2. Fresh'
  BY DEF Fresh, Alone, HandlerFresh
<1> QED
  BY <1>1, <1>2

LEMMA ContinuedTo ==
    ASSUME IInv, NEW p \in Processes, NEW step, NEW copy, Continue(p, step, copy)
    PROVE  /\ OnlyHandler(p)
           /\ op'[p] = [op[p] EXCEPT !.step = step, !.copy = copy, !.after = "NONE"]
           /\ op'[p].step = step /\ op'[p].job = op[p].job /\ op'[p].copy = copy
           /\ op'[p].after = "NONE"
<1>1. op \in [Processes -> HandlerType]
  BY DEF IInv
<1> QED
  BY <1>1 DEF Continue, OnlyHandler, HandlerType

LEMMA FinishedStep ==
    ASSUME IInv, NEW p \in Processes, Finish(p)
    PROVE  OnlyHandler(p) /\ op'[p].step = "IDLE"
<1>1. op \in [Processes -> HandlerType]
  BY DEF IInv
<1> QED
  BY <1>1 DEF Finish, OnlyHandler, NoRequest

\* The handler goes on, and writes neither the record nor the receipt.
LEMMA Moves ==
    ASSUME IInv, Fresh, NEW p \in Processes, op[p].step # "IDLE", OnlyHandler(p),
           UNCHANGED <<record, receipt, serves>>,
           op'[p].step = "IDLE" \/ op'[p].job = op[p].job,
           HandlerFresh(p)
               /\ (op[p].job \in SpeechJobs => RecordFresh(record[op[p].job], receipt[op[p].job]))
               => HandlerFresh(p)'
    PROVE  Fresh' /\ NothingForgotten
<1>1. \A j \in Jobs : Kept(j)
  BY DEF Kept
<1>2. Alone(p, op[p].job) =>
          /\ HandlerFresh(p)
          /\ op[p].job \in SpeechJobs => RecordFresh(record[op[p].job], receipt[op[p].job])
  BY DEF Fresh
<1>3. ~Forgets(op[p].job)
  BY SameForgotten
<1> QED
  BY <1>1, <1>2, <1>3, OwnStep

LEMMA Finishes ==
    ASSUME IInv, Fresh, NEW p \in Processes, op[p].step # "IDLE", Finish(p),
           UNCHANGED <<record, receipt, serves>>
    PROVE  Fresh' /\ NothingForgotten
<1>1. OnlyHandler(p) /\ op'[p].step = "IDLE"
  BY FinishedStep
<1>2. HandlerFresh(p)'
  BY <1>1, IdleFresh DEF HandlerFresh
<1> QED
  BY <1>1, <1>2, Moves

\* The copy is written: being fresh, it loses nothing.
LEMMA Writes ==
    ASSUME IInv, Fresh, NEW p \in Processes, op[p].step \notin {"IDLE", "INTENT"} \cup NoCopy,
           record' = [record EXCEPT ![op[p].job] = op[p].copy], UNCHANGED <<receipt, serves>>,
           OnlyHandler(p), op'[p].step = "IDLE" \/ op'[p].job = op[p].job,
           HandlerFresh(p) => HandlerFresh(p)'
    PROVE  Fresh' /\ NothingForgotten
<1>1. op[p].job \in Jobs /\ record \in [Jobs -> RecordType]
  BY Running DEF IInv, FilesTyped
<1>2. record'[op[p].job] = op[p].copy /\ \A j \in Jobs \ {op[p].job} : Kept(j)
  BY <1>1 DEF Kept
<1>3. ASSUME Alone(p, op[p].job)
      PROVE  /\ HandlerFresh(p)'
             /\ op[p].job \in SpeechJobs => RecordFresh(record'[op[p].job], receipt'[op[p].job])
             /\ ~Forgets(op[p].job)
  <2>1. HandlerFresh(p)
    BY <1>3 DEF Fresh
  <2>2. /\ CopyFresh(op[p], record[op[p].job])
        /\ op[p].job \in SpeechJobs => SpeechFresh(op[p], receipt[op[p].job])
    BY <2>1 DEF HandlerFresh, StepFresh
  <2>3. op[p].job \in SpeechJobs => RecordFresh(op[p].copy, receipt[op[p].job])
    BY <2>2 DEF SpeechFresh
  <2>4. ~Forgets(op[p].job)
    BY <1>2, <2>2 DEF CopyFresh, Forgets
  <2> QED
    BY <1>2, <2>1, <2>3, <2>4
<1> QED
  BY <1>2, <1>3, OwnStep

----------------------------------------------------------------------------
(***************************************************************************)
(* The ways a handler goes on.                                             *)
(***************************************************************************)
Bare == {"IDLE", "INTENT"} \cup NoCopy

LEMMA KnownFresh ==
    ASSUME NEW p, HandlerFresh(p), op[p].step \notin Bare
    PROVE  /\ CopyFresh(op[p], record[op[p].job])
           /\ op[p].job \in SpeechJobs => SpeechFresh(op[p], receipt[op[p].job])
BY DEF HandlerFresh, StepFresh, Bare

\* To the write of another copy, which is a record that was not settled before.
LEMMA SavesFresh ==
    ASSUME IInv, Fresh, NEW p \in Processes, op[p].step \notin Whole \cup Bare, NEW copy,
           Continue(p, "SAVE", copy), UNCHANGED <<record, receipt, serves>>,
           CopyFresh(op[p], record[op[p].job]) /\ record[op[p].job].task # NoTask
               => copy.task = record[op[p].job].task,
           op[p].job \in SpeechJobs /\ SpeechFresh(op[p], receipt[op[p].job])
               => RecordFresh(copy, receipt[op[p].job])
    PROVE  Fresh' /\ NothingForgotten
<1>1. /\ OnlyHandler(p) /\ op'[p].step = "SAVE" /\ op'[p].job = op[p].job /\ op'[p].copy = copy
      /\ op'[p].after = "NONE" /\ op[p].step # "IDLE"
  BY ContinuedTo DEF Bare
<1>2. ASSUME HandlerFresh(p) PROVE HandlerFresh(p)'
  <2>1. /\ CopyFresh(op[p], record[op[p].job])
        /\ op[p].job \in SpeechJobs => SpeechFresh(op[p], receipt[op[p].job])
    BY <1>2, KnownFresh DEF Bare
  <2>2. CopyFresh(op'[p], record[op[p].job])
    BY <1>1, <2>1 DEF CopyFresh, Whole, Calls
  <2>3. op[p].job \in SpeechJobs => SpeechFresh(op'[p], receipt[op[p].job])
    BY <1>1, <2>1 DEF SpeechFresh
  <2> QED
    BY <1>1, <2>2, <2>3 DEF HandlerFresh, StepFresh
<1> QED
  BY <1>1, <1>2, Moves

\* To another step with the same copy.
LEMMA AdvancesFresh ==
    ASSUME IInv, Fresh, NEW p \in Processes, op[p].step \notin Whole \cup Bare,
           NEW step \in {"PUBLISH", "REFUSE", "EXPOSE", "CHECKPOINT"},
           Continue(p, step, op[p].copy), UNCHANGED <<record, receipt, serves>>
    PROVE  Fresh' /\ NothingForgotten
<1>1. /\ OnlyHandler(p) /\ op'[p].step = step /\ op'[p].job = op[p].job
      /\ op'[p].copy = op[p].copy /\ op[p].step # "IDLE"
  <2>1. op \in [Processes -> HandlerType]
    BY DEF IInv
  <2> QED
    BY <2>1 DEF Continue, OnlyHandler, HandlerType, Bare
<1>2. ASSUME HandlerFresh(p) PROVE HandlerFresh(p)'
  <2>1. /\ CopyFresh(op[p], record[op[p].job])
        /\ op[p].job \in SpeechJobs => SpeechFresh(op[p], receipt[op[p].job])
    BY <1>2, KnownFresh DEF Bare
  <2>2. CopyFresh(op'[p], record[op[p].job])
    BY <1>1, <2>1 DEF CopyFresh, Whole, Calls
  <2>3. op[p].job \in SpeechJobs => SpeechFresh(op'[p], receipt[op[p].job])
    BY <1>1, <2>1 DEF SpeechFresh
  <2> QED
    BY <1>1, <2>2, <2>3 DEF HandlerFresh, StepFresh
<1> QED
  BY <1>1, <1>2, Moves

\* To the next step over the record that was written.
LEMMA WriteFresh ==
    ASSUME IInv, Fresh, NEW p \in Processes, NEW from \in {"REPAIR", "EXPOSE", "CHECKPOINT"},
           NEW to \in {"INSPECT", "CONFIRM", "RESTORE"}, Write(p, from, to)
    PROVE  Fresh' /\ NothingForgotten
<1>1. /\ op[p].step = from /\ record' = [record EXCEPT ![op[p].job] = op[p].copy]
      /\ UNCHANGED <<receipt, serves>> /\ Continue(p, to, op[p].copy)
  BY DEF Write, speech, files
<1>2. /\ OnlyHandler(p) /\ op'[p].step = to /\ op'[p].job = op[p].job
      /\ op'[p].copy = op[p].copy /\ op'[p].after = "NONE"
  <2>1. op \in [Processes -> HandlerType]
    BY DEF IInv
  <2> QED
    BY <1>1, <2>1 DEF Continue, OnlyHandler, HandlerType
<1>3. op[p].step \notin Whole \cup Bare
  BY <1>1 DEF Whole, Bare, NoCopy
<1>4. record'[op[p].job] = op[p].copy
  BY <1>1, <1>3, Running DEF IInv, FilesTyped, Bare
<1>5. ASSUME HandlerFresh(p) PROVE HandlerFresh(p)'
  <2>1. /\ CopyFresh(op[p], record[op[p].job])
        /\ op[p].job \in SpeechJobs => SpeechFresh(op[p], receipt[op[p].job])
    BY <1>3, <1>5, KnownFresh DEF Bare
  <2>2. CopyFresh(op'[p], op[p].copy)
    BY <1>2, <1>3, <2>1 DEF CopyFresh, Calls
  <2>3. op[p].job \in SpeechJobs => SpeechFresh(op'[p], receipt[op[p].job])
    BY <1>2, <2>1 DEF SpeechFresh
  <2> QED
    BY <1>1, <1>2, <1>4, <2>2, <2>3 DEF HandlerFresh, StepFresh
<1> QED
  BY <1>1, <1>2, <1>3, <1>5, Writes DEF Bare

----------------------------------------------------------------------------
(***************************************************************************)
(* The handlers of a video job.                                            *)
(***************************************************************************)
LEMMA Begun ==
    ASSUME IInv, NEW p \in Processes, NEW j, NEW step, NEW copy, Begin(p, j, step, copy)
    PROVE  /\ OnlyHandler(p) /\ op[p].step = "IDLE" /\ j \in serves[p]
           /\ op'[p].step = step /\ op'[p].job = j /\ op'[p].copy = copy /\ op'[p].after = "NONE"
<1>1. op \in [Processes -> HandlerType]
  BY DEF IInv
<1> QED
  BY <1>1 DEF Begin, OnlyHandler, NoRequest

LEMMA CreateJobFresh ==
    ASSUME IInv, Fresh, NEW p \in Processes, NEW j \in Jobs, NEW input \in Inputs,
           CreateJob(p, j, input)
    PROVE  Fresh' /\ NothingForgotten
<1>1. OnlyHandler(p) /\ op'[p].step = "INTENT" /\ op'[p].copy = Intent(input)
  BY Begun DEF CreateJob
<1>2. StepFresh(op'[p], record[op'[p].job], receipt[op'[p].job])
  BY <1>1 DEF StepFresh, Intent, Record
<1> QED
  BY <1>1, <1>2, BeginStep DEF CreateJob

\* A video job whose record is read.
LEMMA ReadFresh ==
    ASSUME IInv, Fresh, NEW p \in Processes, NEW j \in Jobs, j \notin SpeechJobs,
           NEW step \in {"SAVE", "POLL", "CANCEL"}, NEW copy, Begin(p, j, step, copy),
           UNCHANGED <<record, speech>>, copy.task = record[j].task, ~Settled(record[j]),
           step # "SAVE" => copy = record[j]
    PROVE  Fresh' /\ NothingForgotten
<1>1. /\ OnlyHandler(p) /\ op'[p].step = step /\ op'[p].copy = copy /\ op'[p].job = j
      /\ op'[p].after = "NONE"
  BY Begun
<1>2. CopyFresh(op'[p], record[j])
  BY <1>1 DEF CopyFresh, Whole, Calls
<1>3. StepFresh(op'[p], record[j], receipt[j])
  BY <1>1, <1>2 DEF StepFresh
<1> QED
  BY <1>1, <1>3, BeginStep

LEMMA GetJobFresh ==
    ASSUME IInv, Fresh, NEW p \in Processes, NEW j \in Jobs, GetJob(p, j)
    PROVE  Fresh' /\ NothingForgotten
<1> DEFINE new == [record[j] EXCEPT !.state = "REQUIRES_ACTION"]
<1>1. new.task = record[j].task
  BY DEF IInv, FilesTyped, RecordType
<1>2. Begin(p, j, "SAVE", new) \/ Begin(p, j, "POLL", record[j])
  BY DEF GetJob
<1> HIDE DEF new
<1> QED
  BY <1>1, <1>2, ReadFresh DEF GetJob

LEMMA CancelJobFresh ==
    ASSUME IInv, Fresh, NEW p \in Processes, NEW j \in Jobs, CancelJob(p, j)
    PROVE  Fresh' /\ NothingForgotten
<1>1. ~Settled(record[j])
  BY DEF CancelJob, Settled
<1> QED
  BY <1>1, ReadFresh DEF CancelJob

\* At a call the record names no task.
LEMMA CallTask ==
    ASSUME NEW h, NEW rec, CopyFresh(h, rec), Calls(h) \/ h.step = "RECEIPT"
    PROVE  rec.task = NoTask
BY DEF CopyFresh

LEMMA SubmitFresh ==
    ASSUME IInv, Fresh, NEW p \in Processes,
           SubmitRefused(p) \/ \E t \in Tasks : SubmitAccepted(p, t)
    PROVE  Fresh' /\ NothingForgotten
<1>1. /\ op[p].step = "SUBMIT" /\ \E copy : Continue(p, "SAVE", copy)
      /\ UNCHANGED <<record, receipt, serves>>
  BY DEF SubmitRefused, SubmitAccepted, speech, files
<1>2. PICK copy : Continue(p, "SAVE", copy)
  BY <1>1
<1>3. op[p].step \notin Whole \cup Bare /\ Calls(op[p])
  BY <1>1 DEF Whole, Bare, NoCopy, Calls
<1>4. op[p].job \notin SpeechJobs
  BY <1>1, Running DEF PlaceOK, VideoSteps
<1> QED
  BY <1>1, <1>2, <1>3, <1>4, CallTask, SavesFresh

LEMMA AnswerFresh ==
    ASSUME IInv, Fresh, NEW p \in Processes, PollTask(p) \/ CancelTask(p)
    PROVE  Fresh' /\ NothingForgotten
<1>1. op[p].step \in {"POLL", "CANCEL"} /\ UNCHANGED <<record, receipt, serves>>
  BY DEF PollTask, CancelTask, speech, files
<1>2. op[p].copy \in RecordType /\ op[p].job \notin SpeechJobs
  BY <1>1, Running DEF PlaceOK, VideoSteps
<1>3. PICK copy : Continue(p, "SAVE", copy) /\ copy.task = op[p].copy.task
  <2> PICK old \in RecordType : old = op[p].copy
    BY <1>2
  <2>1. ASSUME NEW state, NEW artifacts
        PROVE  /\ [old EXCEPT !.state = state].task = old.task
               /\ [old EXCEPT !.state = state, !.artifacts = artifacts].task = old.task
    BY DEF RecordType
  <2>2. CASE PollTask(p)
    <3>1. PICK state, artifacts :
              Continue(p, "SAVE", [old EXCEPT !.state = state, !.artifacts = artifacts])
      BY <2>2, Zenon DEF PollTask
    <3> DEFINE new == [old EXCEPT !.state = state, !.artifacts = artifacts]
    <3>2. new.task = old.task
      BY <2>1
    <3> HIDE DEF new
    <3> QED
      BY <3>1, <3>2, Zenon DEF new
  <2>3. CASE CancelTask(p)
    <3>1. \E state : Continue(p, "SAVE", [old EXCEPT !.state = state])
      BY <2>3 DEF CancelTask
    <3> QED
      BY <2>1, <3>1
  <2> QED
    BY <2>2, <2>3
<1>4. op[p].step \notin Whole \cup Bare
  BY <1>1 DEF Whole, Bare, NoCopy
<1>5. CopyFresh(op[p], record[op[p].job]) /\ record[op[p].job].task # NoTask
          => copy.task = record[op[p].job].task
  BY <1>3 DEF CopyFresh
<1> QED
  BY <1>1, <1>2, <1>3, <1>4, <1>5, SavesFresh

LEMMA UpdateRecordFresh ==
    ASSUME IInv, Fresh, NEW p \in Processes, UpdateRecord(p)
    PROVE  Fresh' /\ NothingForgotten
<1>1. /\ op[p].step = "SAVE" /\ record' = [record EXCEPT ![op[p].job] = op[p].copy]
      /\ UNCHANGED <<receipt, serves>>
  BY DEF UpdateRecord, speech, files
<1>2. OnlyHandler(p) /\ op'[p].step = "IDLE"
  BY FinishedStep DEF UpdateRecord
<1>3. HandlerFresh(p)'
  BY <1>2, IdleFresh DEF HandlerFresh
<1> QED
  BY <1>1, <1>2, <1>3, Writes DEF NoCopy

\* The intent is durable: the record is the copy, and names no task.
LEMMA IntentFresh ==
    ASSUME IInv, Fresh, NEW p \in Processes, op[p].step = "INTENT",
           record[op[p].job].state = "ABSENT",
           record' = [record EXCEPT ![op[p].job] = op[p].copy], UNCHANGED <<receipt, serves>>,
           AfterIntent(p) \/ Finish(p)
    PROVE  Fresh' /\ NothingForgotten
<1>1. /\ op[p].job \in Jobs /\ op[p].copy \in RecordType /\ JobOK(op[p].job)
      /\ record \in [Jobs -> RecordType] /\ op \in [Processes -> HandlerType]
  BY Running DEF IInv, FilesTyped
<1>2. record'[op[p].job] = op[p].copy /\ \A j \in Jobs \ {op[p].job} : Kept(j)
  BY <1>1 DEF Kept
<1>3. record[op[p].job].task = NoTask /\ ~Settled(record[op[p].job])
  BY <1>1 DEF JobOK, NoRecord, Record, Settled, Terminal
<1>4. ~Forgets(op[p].job)
  BY <1>3 DEF Forgets
<1>5. ASSUME HandlerFresh(p)
      PROVE  /\ op[p].copy.task = NoTask /\ op[p].copy.state = "UNKNOWN"
             /\ \A call : RecordFresh(op[p].copy, call)
  BY <1>5 DEF HandlerFresh, StepFresh, RecordFresh
<1>6. CASE Finish(p)
  <2>1. OnlyHandler(p) /\ op'[p].step = "IDLE"
    BY <1>6, FinishedStep
  <2>2. HandlerFresh(p)'
    BY <2>1, IdleFresh DEF HandlerFresh
  <2>3. Alone(p, op[p].job) => RecordFresh(record'[op[p].job], receipt'[op[p].job])
    BY <1>2, <1>5 DEF Fresh
  <2> QED
    BY <1>2, <1>4, <2>1, <2>2, <2>3, OwnStep
<1>7. CASE AfterIntent(p)
  <2>1. /\ OnlyHandler(p) /\ op'[p].job = op[p].job /\ op'[p].copy = op[p].copy
        /\ \/ op'[p].step = "RESTORE" /\ op'[p].after = "FRESH"
           \/ op'[p].step = "SUBMIT" /\ op[p].job \notin SpeechJobs
    BY <1>1, <1>7 DEF AfterIntent, OnlyHandler, HandlerType
  <2>2. ASSUME HandlerFresh(p) PROVE HandlerFresh(p)'
    <3>1. CopyFresh(op'[p], op[p].copy)
      BY <1>5, <2>1, <2>2 DEF CopyFresh, Calls, Whole, Settled, Terminal
    <3>2. op[p].job \in SpeechJobs => SpeechFresh(op'[p], receipt[op[p].job])
      BY <1>5, <2>1, <2>2 DEF SpeechFresh
    <3> QED
      BY <1>2, <2>1, <3>1, <3>2 DEF HandlerFresh, StepFresh
  <2>3. Alone(p, op[p].job) =>
            HandlerFresh(p)' /\ RecordFresh(record'[op[p].job], receipt'[op[p].job])
    BY <1>2, <1>5, <2>2 DEF Fresh
  <2> QED
    BY <1>2, <1>4, <2>1, <2>3, OwnStep
<1> QED
  BY <1>6, <1>7

\* A handler that lost the race goes on with the record it found.
LEMMA LostRaceFresh ==
    ASSUME IInv, Fresh, NEW p \in Processes, op[p].step = "INTENT", LostRace(p),
           UNCHANGED <<record, receipt, serves>>
    PROVE  Fresh' /\ NothingForgotten
<1>1. op \in [Processes -> HandlerType]
  BY DEF IInv
<1>2. CASE Finish(p)
  BY <1>2, Finishes
<1>3. CASE op' = [op EXCEPT ![p] = [@ EXCEPT !.step = "RESTORE", !.copy = record[op[p].job],
                                             !.after = "RACED"]]
  <2>1. /\ OnlyHandler(p) /\ op'[p].step = "RESTORE" /\ op'[p].job = op[p].job
        /\ op'[p].copy = record[op[p].job] /\ op'[p].after = "RACED"
    BY <1>1, <1>3 DEF OnlyHandler, HandlerType
  <2>2. CopyFresh(op'[p], record[op[p].job])
    BY <2>1 DEF CopyFresh, Calls, Whole
  <2>3. RecordFresh(record[op[p].job], receipt[op[p].job]) =>
            SpeechFresh(op'[p], receipt[op[p].job])
    BY <2>1 DEF SpeechFresh
  <2>4. (op[p].job \in SpeechJobs => RecordFresh(record[op[p].job], receipt[op[p].job]))
            => HandlerFresh(p)'
    BY <2>1, <2>2, <2>3 DEF HandlerFresh, StepFresh
  <2> QED
    BY <2>1, <2>4, Moves
<1> QED
  BY <1>2, <1>3 DEF LostRace

LEMMA CreateRecordFresh ==
    ASSUME IInv, Fresh, NEW p \in Processes, CreateRecord(p)
    PROVE  Fresh' /\ NothingForgotten
<1>1. UNCHANGED <<receipt, serves>>
  BY DEF CreateRecord, speech, files
<1> QED
  BY <1>1, IntentFresh, LostRaceFresh DEF CreateRecord

----------------------------------------------------------------------------
(***************************************************************************)
(* The handlers of a speech job.                                           *)
(***************************************************************************)
\* A settled record is exactly what its result makes of it.
LEMMA SettledDelivered ==
    ASSUME IInv, NEW j \in SpeechJobs, Settled(record[j]), RecordFresh(record[j], receipt[j])
    PROVE  result[j] /\ Delivered(record[j], receipt[j]) = record[j]
<1>1. record[j] \in RecordType /\ JobOK(j)
  BY SpeechAssumption DEF IInv, FilesTyped
<1>2. record[j].state \in Terminal
  BY DEF Settled
<1>3. /\ receipt[j] = record[j].task /\ record[j].task # NoTask /\ result[j]
      /\ remote[record[j].task].status = record[j].state
  BY <1>1, <1>2 DEF JobOK, TrueRecord
<1>4. record[j].state = "SUCCEEDED"
  BY <1>1, <1>3 DEF JobOK, FilesOK
<1>5. record[j].artifacts = TRUE /\ record[j].error = "NONE"
  BY <1>4 DEF RecordFresh
<1> QED
  BY <1>1, <1>3, <1>4, <1>5 DEF Delivered, RecordType

LEMMA DeliveredCopy ==
    ASSUME NEW rec \in RecordType, NEW call
    PROVE  /\ Delivered(rec, call).task = call /\ Pending(rec, call).task = call
           /\ RecordFresh(Delivered(rec, call), call) /\ RecordFresh(Pending(rec, call), call)
           /\ ~Settled(Pending(rec, call))
BY DEF Delivered, Pending, RecordFresh, RecordType, Settled, Terminal

LEMMA ServeSpeechJobFresh ==
    ASSUME IInv, Fresh, NEW p \in Processes, NEW j \in SpeechJobs,
           NEW after \in {"REPLAY", "GET"}, ServeSpeechJob(p, j, after)
    PROVE  Fresh' /\ NothingForgotten
<1>1. op \in [Processes -> HandlerType] /\ record[j] \in RecordType
  BY SpeechAssumption DEF IInv, FilesTyped
<1>2. /\ OnlyHandler(p) /\ op'[p].step = "RESTORE" /\ op'[p].job = j /\ op'[p].copy = Loaded(j)
      /\ op'[p].after = after
  BY <1>1 DEF ServeSpeechJob, OnlyHandler, NoRequest
<1>3. ASSUME Alone(p, j) PROVE StepFresh(op'[p], record[j], receipt[j])
  <2>1. RecordFresh(record[j], receipt[j])
    BY <1>3 DEF Fresh
  <2>2. /\ record[j].task # NoTask => Loaded(j).task = record[j].task
        /\ Settled(record[j]) => Loaded(j) = record[j]
        /\ RecordFresh(Loaded(j), receipt[j])
    <3>1. CASE result[j]
      <4>1. receipt[j] # NoTask
        BY <3>1, SpeechAssumption DEF IInv, JobOK, FilesOK
      <4>2. record[j].task # NoTask => receipt[j] = record[j].task
        BY <2>1, <4>1 DEF RecordFresh
      <4> QED
        BY <1>1, <2>1, <3>1, <4>2, DeliveredCopy, SettledDelivered DEF Loaded
    <3>2. CASE ~result[j]
      BY <2>1, <3>2 DEF Loaded
    <3> QED
      BY <3>1, <3>2
  <2>3. CopyFresh(op'[p], record[j])
    BY <1>2, <2>2 DEF CopyFresh, Whole, Calls
  <2>4. SpeechFresh(op'[p], receipt[j])
    BY <1>2, <2>2 DEF SpeechFresh
  <2> QED
    BY <1>2, <2>3, <2>4 DEF StepFresh
<1> QED
  BY <1>2, <1>3, BeginStep DEF ServeSpeechJob

\* The result makes the copy a success, that of the record if it was one.
LEMMA RestoreResultFresh ==
    ASSUME IInv, Fresh, NEW p \in Processes, op[p].step \in SpeechSteps \ NoCopy,
           receipt[op[p].job] # NoTask, RestoreResult(p), UNCHANGED <<record, receipt, serves>>
    PROVE  Fresh' /\ NothingForgotten
<1>1. op[p].job \in SpeechJobs /\ op[p].step \notin Bare
  BY SpeechHandlerJob DEF SpeechSteps, Bare
<1>2. op[p].copy \in RecordType
  BY <1>1, Running DEF Bare
<1>3. PICK new : new = Delivered(op[p].copy, receipt[op[p].job])
  OBVIOUS
<1>4. /\ OnlyHandler(p) /\ op'[p].step = "SAVE" /\ op'[p].job = op[p].job /\ op'[p].copy = new
      /\ op'[p].after = "NONE"
  <2>1. Continue(p, "SAVE", new)
    BY <1>3 DEF RestoreResult, Continue
  <2> QED
    BY <2>1, ContinuedTo
<1>5. new.task = receipt[op[p].job] /\ RecordFresh(new, receipt[op[p].job])
  BY <1>2, <1>3, DeliveredCopy
<1>6. ASSUME HandlerFresh(p), RecordFresh(record[op[p].job], receipt[op[p].job])
      PROVE  HandlerFresh(p)'
  <2>1. CopyFresh(op[p], record[op[p].job])
    BY <1>1, <1>6, KnownFresh
  <2>2. record[op[p].job].task # NoTask => new.task = record[op[p].job].task
    BY <1>5, <1>6 DEF RecordFresh
  <2>3. Settled(record[op[p].job]) => new = record[op[p].job]
    <3>1. Settled(record[op[p].job]) => op[p].copy = record[op[p].job]
      BY <2>1 DEF CopyFresh
    <3> QED
      BY <1>1, <1>3, <1>6, <3>1, SettledDelivered
  <2>4. CopyFresh(op'[p], record[op[p].job])
    BY <1>4, <2>2, <2>3 DEF CopyFresh, Whole, Calls
  <2>5. SpeechFresh(op'[p], receipt[op[p].job])
    BY <1>4, <1>5 DEF SpeechFresh
  <2> QED
    BY <1>4, <2>4, <2>5 DEF HandlerFresh, StepFresh
<1> QED
  BY <1>1, <1>4, <1>6, Moves DEF Bare

LEMMA NothingToReconcileFresh ==
    ASSUME IInv, Fresh, NEW p \in Processes, op[p].step = "RESTORE", NothingToReconcile(p),
           ~result[op[p].job], receipt[op[p].job] = NoTask, UNCHANGED <<record, receipt, serves>>
    PROVE  Fresh' /\ NothingForgotten
<1>1. op[p].job \in SpeechJobs /\ op[p].copy \in RecordType /\ op[p].step \notin Bare
  BY SpeechHandlerJob, Running DEF SpeechSteps, Bare, NoCopy
<1>0. op \in [Processes -> HandlerType]
  BY DEF IInv
<1>2. CASE Continue(p, "CLAIM", NoRecord)
  <2>1. OnlyHandler(p) /\ op'[p].step = "CLAIM" /\ op'[p].job = op[p].job
    BY <1>2, ContinuedTo
  <2>2. HandlerFresh(p)'
    BY <2>1 DEF HandlerFresh, StepFresh, NoCopy
  <2> QED
    BY <2>1, <2>2, Moves
<1>3. CASE op[p].after = "FRESH" /\ Continue(p, "SPEAK", op[p].copy)
  <2>1. PICK copy : copy = op[p].copy
    OBVIOUS
  <2>2. /\ OnlyHandler(p) /\ op'[p].step = "SPEAK" /\ op'[p].job = op[p].job
        /\ op'[p].copy = copy /\ op'[p].after = "NONE"
    BY <1>0, <1>3, <2>1 DEF Continue, OnlyHandler, HandlerType
  <2>3. ASSUME HandlerFresh(p) PROVE HandlerFresh(p)'
    <3>1. /\ CopyFresh(op[p], record[op[p].job]) /\ Calls(op[p])
          /\ RecordFresh(copy, receipt[op[p].job])
      BY <1>1, <1>3, <2>1, <2>3, KnownFresh DEF Calls, SpeechFresh
    <3>2. CopyFresh(op'[p], record[op[p].job])
      BY <2>1, <2>2, <3>1 DEF CopyFresh, Calls, Whole, Settled, Terminal
    <3>3. SpeechFresh(op'[p], receipt[op[p].job])
      BY <2>2, <3>1 DEF SpeechFresh
    <3> QED
      BY <2>2, <3>2, <3>3 DEF HandlerFresh, StepFresh
  <2> QED
    BY <2>2, <2>3, Moves
<1>4. CASE op[p].copy.task = NoTask /\ Continue(p, "SAVE", Unrecorded(op[p].copy))
  <2>1. PICK copy : copy = Unrecorded(op[p].copy)
    OBVIOUS
  <2>2. copy.task = NoTask /\ copy.state = "REQUIRES_ACTION"
    BY <1>1, <1>4, <2>1 DEF Unrecorded, RecordType
  <2>3. /\ OnlyHandler(p) /\ op'[p].step = "SAVE" /\ op'[p].job = op[p].job
        /\ op'[p].copy = copy /\ op'[p].after = "NONE"
    BY <1>0, <1>4, <2>1 DEF Continue, OnlyHandler, HandlerType
  <2>4. ASSUME HandlerFresh(p), RecordFresh(record[op[p].job], receipt[op[p].job])
        PROVE  HandlerFresh(p)'
    <3>1. record[op[p].job].task = NoTask
      BY <1>1, <1>4, <2>4, KnownFresh DEF CopyFresh
    <3>2. ~Settled(record[op[p].job])
      BY <1>1, <2>4, SettledDelivered
    <3>3. CopyFresh(op'[p], record[op[p].job])
      BY <2>3, <3>1, <3>2 DEF CopyFresh, Calls, Whole
    <3>4. SpeechFresh(op'[p], receipt[op[p].job])
      BY <2>2, <2>3 DEF SpeechFresh, RecordFresh
    <3> QED
      BY <2>3, <3>3, <3>4 DEF HandlerFresh, StepFresh
  <2> QED
    BY <1>1, <2>3, <2>4, Moves
<1>5. CASE Finish(p)
  BY <1>5, Finishes
<1> QED
  BY <1>2, <1>3, <1>4, <1>5 DEF NothingToReconcile

LEMMA ReconcileFresh ==
    ASSUME IInv, Fresh, NEW p \in Processes, ReconcileSpeechInspection(p)
    PROVE  Fresh' /\ NothingForgotten
<1>1. op[p].step = "RESTORE" /\ UNCHANGED <<record, receipt, serves>>
  BY DEF ReconcileSpeechInspection, speech, files
<1>2. /\ op[p].step \in SpeechSteps \ NoCopy /\ op[p].job \in SpeechJobs /\ op[p].copy \in RecordType
      /\ op[p].step \notin Bare /\ JobOK(op[p].job)
  BY <1>1, Running, SpeechHandlerJob DEF SpeechSteps, NoCopy, Bare
<1>3. CASE result[op[p].job] /\ RestoreResult(p)
  <2>1. receipt[op[p].job] # NoTask
    BY <1>2, <1>3 DEF JobOK, FilesOK
  <2> QED
    BY <1>1, <1>2, <1>3, <2>1, RestoreResultFresh
<1>4. CASE ~result[op[p].job] /\ receipt[op[p].job] = NoTask /\ NothingToReconcile(p)
  BY <1>1, <1>4, NothingToReconcileFresh
<1>5. CASE /\ ~result[op[p].job] /\ receipt[op[p].job] # NoTask
           /\ Continue(p, "REPAIR", Pending(op[p].copy, receipt[op[p].job]))
  <2>1. PICK copy : copy = Pending(op[p].copy, receipt[op[p].job])
    OBVIOUS
  <2>2. /\ OnlyHandler(p) /\ op'[p].step = "REPAIR" /\ op'[p].job = op[p].job
        /\ op'[p].copy = copy /\ op'[p].after = "NONE"
    <3>1. Continue(p, "REPAIR", copy)
      BY <1>5, <2>1 DEF Continue
    <3> QED
      BY <3>1, ContinuedTo
  <2>3. /\ copy.task = receipt[op[p].job] /\ RecordFresh(copy, receipt[op[p].job])
        /\ ~Settled(copy)
    BY <1>2, <2>1, DeliveredCopy
  <2>4. ASSUME HandlerFresh(p), RecordFresh(record[op[p].job], receipt[op[p].job])
        PROVE  HandlerFresh(p)'
    <3>1. ~Settled(record[op[p].job])
      BY <1>2, <1>5, <2>4, SettledDelivered
    <3>2. record[op[p].job].task # NoTask => copy.task = record[op[p].job].task
      BY <1>5, <2>3, <2>4 DEF RecordFresh
    <3>3. CopyFresh(op'[p], record[op[p].job])
      BY <2>2, <2>3, <3>1, <3>2 DEF CopyFresh, Calls, Whole
    <3>4. SpeechFresh(op'[p], receipt[op[p].job])
      BY <2>2, <2>3 DEF SpeechFresh
    <3> QED
      BY <1>1, <2>2, <3>3, <3>4 DEF HandlerFresh, StepFresh
  <2> QED
    BY <1>1, <1>2, <2>2, <2>4, Moves
<1> QED
  BY <1>3, <1>4, <1>5 DEF ReconcileSpeechInspection

LEMMA InspectSpeechFresh ==
    ASSUME IInv, Fresh, NEW p \in Processes,
           InspectSpeech(p) \/ PublishResult(p) \/ RefuseInspection(p)
    PROVE  Fresh' /\ NothingForgotten
<1>1. /\ op[p].step \in {"INSPECT", "PUBLISH", "REFUSE", "CONFIRM"}
      /\ UNCHANGED <<record, receipt, serves>>
  BY DEF InspectSpeech, PublishResult, RefuseInspection, speech, files
<1>2. /\ op[p].step \in SpeechSteps \ NoCopy /\ op[p].step \notin Whole \cup Bare
      /\ op[p].step # "IDLE"
  BY <1>1 DEF SpeechSteps, NoCopy, Whole, Bare
<1>3. receipt[op[p].job] # NoTask
  BY <1>1, <1>2, Running DEF SpeechOK, WithReceipt
<1>4. \/ RestoreResult(p)
      \/ Continue(p, "PUBLISH", op[p].copy)
      \/ Continue(p, "REFUSE", op[p].copy)
      \/ Continue(p, "EXPOSE", op[p].copy)
      \/ Finish(p)
  BY DEF InspectSpeech, PublishResult, RefuseInspection
<1>5. CASE RestoreResult(p)
  BY <1>1, <1>2, <1>3, <1>5, RestoreResultFresh
<1>6. CASE Finish(p)
  BY <1>1, <1>2, <1>6, Finishes
<1>7. CASE \/ Continue(p, "PUBLISH", op[p].copy)
           \/ Continue(p, "REFUSE", op[p].copy)
           \/ Continue(p, "EXPOSE", op[p].copy)
  BY <1>1, <1>2, <1>7, AdvancesFresh
<1> QED
  BY <1>4, <1>5, <1>6, <1>7

LEMMA WritesFresh ==
    ASSUME IInv, Fresh, NEW p \in Processes,
           RepairRecord(p) \/ ExposeRefusal(p) \/ CheckpointInspection(p)
    PROVE  Fresh' /\ NothingForgotten
BY WriteFresh DEF RepairRecord, ExposeRefusal, CheckpointInspection

\* The call is made while neither the record nor a receipt names one.
LEMMA SpeakFresh ==
    ASSUME IInv, Fresh, NEW p \in Processes,
           SpeakRefused(p) \/ \E t \in Tasks : SpeakAnswered(p, t)
    PROVE  Fresh' /\ NothingForgotten
<1>1. op[p].step = "SPEAK" /\ UNCHANGED <<record, receipt, serves>>
  BY DEF SpeakRefused, SpeakAnswered, speech, files
<1>2. op[p].job \in SpeechJobs /\ op[p].copy \in RecordType
  BY <1>1, Running, SpeechHandlerJob DEF SpeechSteps
<1>3. Calls(op[p]) /\ op[p].step \notin Whole \cup Bare
  BY <1>1 DEF Calls, Whole, Bare, NoCopy
<1>4. \/ \E copy : Continue(p, "SAVE", copy) /\ copy.state \in RefusalOutcomes
      \/ \E t \in Tasks : Continue(p, "RECEIPT", Pending(op[p].copy, t))
  <2>1. \A state, error :
            [op[p].copy EXCEPT !.state = state, !.error = error].state = state
    BY <1>2 DEF RecordType
  <2>2. CASE SpeakRefused(p)
    BY <2>1, <2>2 DEF SpeakRefused
  <2>3. CASE \E t \in Tasks : SpeakAnswered(p, t)
    <3>1. \/ \E t \in Tasks : Continue(p, "RECEIPT", Pending(op[p].copy, t))
          \/ \E state \in RefusalOutcomes, error \in {"REFUSED", "TRACED"} :
                 Continue(p, "SAVE", [op[p].copy EXCEPT !.state = state, !.error = error])
      BY <2>3, Zenon DEF SpeakAnswered
    <3> QED
      BY <2>1, <3>1
  <2> QED
    BY <2>2, <2>3
<1>5. ASSUME NEW copy, Continue(p, "SAVE", copy), copy.state \in RefusalOutcomes
      PROVE  Fresh' /\ NothingForgotten
  <2>1. CopyFresh(op[p], record[op[p].job]) => record[op[p].job].task = NoTask
    BY <1>3, CallTask
  <2>2. SpeechFresh(op[p], receipt[op[p].job]) => RecordFresh(copy, receipt[op[p].job])
    BY <1>1, <1>5 DEF SpeechFresh, RecordFresh, RefusalOutcomes
  <2> QED
    BY <1>1, <1>3, <1>5, <2>1, <2>2, SavesFresh
<1>6. ASSUME NEW t \in Tasks, Continue(p, "RECEIPT", Pending(op[p].copy, t))
      PROVE  Fresh' /\ NothingForgotten
  <2>1. PICK copy : copy = Pending(op[p].copy, t)
    OBVIOUS
  <2>2. copy.state = "REQUIRES_ACTION"
    BY <1>2, <2>1 DEF Pending, RecordType
  <2>3. /\ OnlyHandler(p) /\ op'[p].step = "RECEIPT" /\ op'[p].job = op[p].job
        /\ op'[p].copy = copy /\ op'[p].after = "NONE"
    <3>1. Continue(p, "RECEIPT", copy)
      BY <1>6, <2>1 DEF Continue
    <3> QED
      BY <3>1, ContinuedTo
  <2>4. ASSUME HandlerFresh(p) PROVE HandlerFresh(p)'
    <3>1. CopyFresh(op[p], record[op[p].job]) /\ SpeechFresh(op[p], receipt[op[p].job])
      BY <1>2, <1>3, <2>4, KnownFresh
    <3>2. record[op[p].job].task = NoTask
      BY <1>3, <3>1, CallTask
    <3>3. CopyFresh(op'[p], record[op[p].job])
      BY <1>3, <2>2, <2>3, <3>1, <3>2 DEF CopyFresh, Calls, Whole, Settled, Terminal
    <3>4. SpeechFresh(op'[p], receipt[op[p].job])
      BY <1>1, <2>2, <2>3, <3>1 DEF SpeechFresh, RecordFresh
    <3> QED
      BY <1>1, <2>3, <3>3, <3>4 DEF HandlerFresh, StepFresh
  <2> QED
    BY <1>1, <2>3, <2>4, Moves
<1> QED
  BY <1>4, <1>5, <1>6

\* The receipt that appears names the call of the copy; the record names none yet.
LEMMA ReceiptFresh ==
    ASSUME IInv, Fresh, NEW p \in Processes, CreateSpeechInspectionReceipt(p)
    PROVE  Fresh' /\ NothingForgotten
<1>0. op \in [Processes -> HandlerType]
  BY DEF IInv
<1>1. op[p].step = "RECEIPT" /\ UNCHANGED <<record, serves>>
  BY DEF CreateSpeechInspectionReceipt
<1>2. /\ op[p].job \in SpeechJobs /\ op[p].copy \in RecordType
      /\ receipt \in [SpeechJobs -> Tasks \cup {NoTask}]
  BY <1>1, Running, SpeechHandlerJob DEF SpeechSteps, IInv, FilesTyped
<1>3. op[p].step \notin Whole \cup Bare /\ op[p].step # "IDLE"
  BY <1>1 DEF Whole, Bare, NoCopy
<1>4. PICK kept : kept = [op[p].copy EXCEPT !.state = "UNKNOWN"]
  OBVIOUS
<1>5. kept.task = op[p].copy.task /\ kept.state = "UNKNOWN"
  BY <1>2, <1>4 DEF RecordType
<1>6. PICK copy : copy = op[p].copy
  OBVIOUS
<1>7. ASSUME NEW new \in {kept, copy}, Continue(p, "SAVE", new), UNCHANGED receipt
      PROVE  Fresh' /\ NothingForgotten
  <2>1. CopyFresh(op[p], record[op[p].job]) => record[op[p].job].task = NoTask
    BY <1>1, CallTask
  <2>2. SpeechFresh(op[p], receipt[op[p].job]) => RecordFresh(new, receipt[op[p].job])
    BY <1>1, <1>5, <1>6, <1>7 DEF SpeechFresh, RecordFresh
  <2> QED
    BY <1>1, <1>3, <1>7, <2>1, <2>2, SavesFresh
<1>8. ASSUME NEW new, NEW step, receipt' = [receipt EXCEPT ![op[p].job] = op[p].copy.task],
             Continue(p, step, new), <<step, new>> \in {<<"SAVE", kept>>, <<"STORE", copy>>}
      PROVE  Fresh' /\ NothingForgotten
  <2>1. receipt'[op[p].job] = op[p].copy.task /\ \A j \in Jobs \ {op[p].job} : Kept(j)
    BY <1>1, <1>2, <1>8 DEF Kept
  <2>2. /\ OnlyHandler(p) /\ op'[p].step = step /\ op'[p].job = op[p].job
        /\ op'[p].copy = new /\ op'[p].after = "NONE"
    BY <1>0, <1>8 DEF Continue, OnlyHandler, HandlerType
  <2>3. step \in {"SAVE", "STORE"} /\ new.task = op[p].copy.task
    BY <1>5, <1>6, <1>8
  <2>4. (step = "STORE" => new = op[p].copy) /\ (new = op[p].copy \/ new.state = "UNKNOWN")
    BY <1>5, <1>6, <1>8
  <2>5. ASSUME Alone(p, op[p].job)
        PROVE  HandlerFresh(p)' /\ RecordFresh(record'[op[p].job], receipt'[op[p].job])
    <3>1. /\ CopyFresh(op[p], record[op[p].job]) /\ SpeechFresh(op[p], receipt[op[p].job])
          /\ RecordFresh(record[op[p].job], receipt[op[p].job])
      BY <1>2, <1>3, <2>5, KnownFresh DEF Fresh
    <3>2. record[op[p].job].task = NoTask
      BY <1>1, <3>1, CallTask
    <3>3. CopyFresh(op'[p], record[op[p].job])
      BY <1>3, <2>2, <2>3, <2>4, <3>1, <3>2 DEF CopyFresh, Calls, Whole
    <3>4. SpeechFresh(op'[p], op[p].copy.task)
      BY <2>2, <2>3, <2>4, <3>1 DEF SpeechFresh, RecordFresh
    <3>5. HandlerFresh(p)'
      BY <1>1, <2>1, <2>2, <2>3, <3>3, <3>4 DEF HandlerFresh, StepFresh
    <3>6. RecordFresh(record[op[p].job], receipt'[op[p].job])
      BY <3>1, <3>2 DEF RecordFresh
    <3> QED
      BY <1>1, <3>5, <3>6
  <2>6. ~Forgets(op[p].job)
    BY <1>1, SameForgotten
  <2> QED
    BY <1>1, <1>3, <2>1, <2>2, <2>5, <2>6, OwnStep
<1>9. \/ /\ receipt' = [receipt EXCEPT ![op[p].job] = op[p].copy.task]
         /\ Continue(p, "STORE", copy) \/ Continue(p, "SAVE", kept)
      \/ /\ UNCHANGED receipt
         /\ Continue(p, "SAVE", copy) \/ Continue(p, "SAVE", kept)
  BY <1>4, <1>6, Zenon DEF CreateSpeechInspectionReceipt, Continue
<1> QED
  BY <1>7, <1>8, <1>9

LEMMA StoreSpeechFresh ==
    ASSUME IInv, Fresh, NEW p \in Processes, StoreSpeech(p)
    PROVE  Fresh' /\ NothingForgotten
<1>1. op[p].step = "STORE" /\ UNCHANGED <<record, receipt, serves>>
  BY DEF StoreSpeech
<1>2. op[p].step \notin Whole \cup Bare
  BY <1>1 DEF Whole, Bare, NoCopy
<1>3. PICK copy : copy = op[p].copy
  OBVIOUS
<1>4. Continue(p, "CHECKPOINT", op[p].copy) \/ Continue(p, "SAVE", copy)
  BY <1>3, Zenon DEF StoreSpeech, Continue
<1>5. CopyFresh(op[p], record[op[p].job]) /\ record[op[p].job].task # NoTask
          => copy.task = record[op[p].job].task
  BY <1>3 DEF CopyFresh
<1>6. SpeechFresh(op[p], receipt[op[p].job]) => RecordFresh(copy, receipt[op[p].job])
  BY <1>3 DEF SpeechFresh
<1>7. CASE Continue(p, "CHECKPOINT", op[p].copy)
  BY <1>1, <1>2, <1>7, AdvancesFresh
<1>8. CASE Continue(p, "SAVE", copy)
  BY <1>1, <1>2, <1>5, <1>6, <1>8, SavesFresh
<1> QED
  BY <1>4, <1>7, <1>8

----------------------------------------------------------------------------
(***************************************************************************)
(* The retry of a speech job, which names no call.                         *)
(***************************************************************************)
LEMMA ClaimFresh ==
    ASSUME IInv, Fresh, NEW p \in Processes, CreateSpeechRetryClaim(p)
    PROVE  Fresh' /\ NothingForgotten
<1>1. op[p].step = "CLAIM" /\ UNCHANGED <<record, receipt, serves>>
  BY DEF CreateSpeechRetryClaim
<1>2. CASE Claimed(p)
  <2>1. op \in [Processes -> HandlerType]
    BY DEF IInv
  <2>2. OnlyHandler(p) /\ op'[p].step = "RETRY" /\ op'[p].job = op[p].job
    BY <1>2, <2>1 DEF Claimed, OnlyHandler, HandlerType
  <2>3. HandlerFresh(p)'
    BY <2>2 DEF HandlerFresh, StepFresh, NoCopy
  <2> QED
    BY <1>1, <2>2, <2>3, Moves
<1>3. CASE Finish(p)
  BY <1>1, <1>3, Finishes
<1> QED
  BY <1>2, <1>3 DEF CreateSpeechRetryClaim

LEMMA ReadAfterClaimFresh ==
    ASSUME IInv, Fresh, NEW p \in Processes, ReadAfterClaim(p)
    PROVE  Fresh' /\ NothingForgotten
<1>1. op[p].step = "RETRY" /\ UNCHANGED <<record, receipt, serves>>
  BY DEF ReadAfterClaim, speech, files
<1>2. CASE Finish(p)
  BY <1>1, <1>2, Finishes
<1>3. CASE Retriable(record[op[p].job]) /\ Continue(p, "REOPEN", Retried(record[op[p].job]))
  <2>1. record[op[p].job] \in RecordType
    BY <1>1, Running DEF JobOK
  <2>2. PICK copy : copy = Retried(record[op[p].job])
    OBVIOUS
  <2>3. copy.task = NoTask /\ copy.state = "UNKNOWN"
    BY <1>3, <2>1, <2>2 DEF Retried, Retriable, RecordType
  <2>4. /\ OnlyHandler(p) /\ op'[p].step = "REOPEN" /\ op'[p].job = op[p].job
        /\ op'[p].copy = copy /\ op'[p].after = "NONE"
    <3>1. Continue(p, "REOPEN", copy)
      BY <1>3, <2>2 DEF Continue
    <3> QED
      BY <3>1, ContinuedTo
  <2>5. CopyFresh(op'[p], record[op[p].job])
    BY <1>3, <2>3, <2>4 DEF CopyFresh, Calls, Whole, Settled, Terminal, Retriable
  <2>6. SpeechFresh(op'[p], receipt[op[p].job])
    BY <2>3, <2>4 DEF SpeechFresh, RecordFresh
  <2>7. HandlerFresh(p)'
    BY <1>1, <2>4, <2>5, <2>6 DEF HandlerFresh, StepFresh
  <2> QED
    BY <1>1, <2>4, <2>7, Moves
<1> QED
  BY <1>2, <1>3 DEF ReadAfterClaim, Authorized

LEMMA BeginRetryFresh ==
    ASSUME IInv, Fresh, NEW p \in Processes, BeginSpeechRetry(p)
    PROVE  Fresh' /\ NothingForgotten
<1>1. /\ op[p].step = "REOPEN" /\ UNCHANGED <<receipt, serves>>
      /\ record' = [record EXCEPT ![op[p].job] = op[p].copy]
  BY DEF BeginSpeechRetry, speech, files
<1>2. op \in [Processes -> HandlerType] /\ op[p].job \in Jobs /\ record \in [Jobs -> RecordType]
  BY <1>1, Running DEF IInv, FilesTyped
<1>3. /\ OnlyHandler(p) /\ op'[p].step = "RESTORE" /\ op'[p].job = op[p].job
      /\ op'[p].copy = op[p].copy /\ op'[p].after = "FRESH"
  BY <1>2 DEF BeginSpeechRetry, OnlyHandler, HandlerType
<1>4. op[p].step \notin Whole \cup Bare
  BY <1>1 DEF Whole, Bare, NoCopy
<1>5. ASSUME HandlerFresh(p) PROVE HandlerFresh(p)'
  <2>1. /\ CopyFresh(op[p], record[op[p].job])
        /\ op[p].job \in SpeechJobs => SpeechFresh(op[p], receipt[op[p].job])
    BY <1>4, <1>5, KnownFresh
  <2>2. CopyFresh(op'[p], op[p].copy)
    BY <1>1, <1>3, <2>1 DEF CopyFresh, Whole
  <2>3. op[p].job \in SpeechJobs => SpeechFresh(op'[p], receipt[op[p].job])
    BY <1>3, <2>1 DEF SpeechFresh
  <2> QED
    BY <1>1, <1>2, <1>3, <2>2, <2>3 DEF HandlerFresh, StepFresh
<1> QED
  BY <1>1, <1>3, <1>4, <1>5, Writes DEF Bare

----------------------------------------------------------------------------
LEMMA InitFresh == Init => Fresh
<1> SUFFICES ASSUME Init PROVE Fresh
  OBVIOUS
<1>1. \A p \in Processes : HandlerFresh(p)
  BY IdleFresh DEF Init, NoRequest, HandlerFresh
<1>2. \A j \in SpeechJobs : RecordFresh(record[j], receipt[j])
  BY SpeechAssumption DEF Init, NoRecord, Record, RecordFresh
<1> QED
  BY <1>1, <1>2 DEF Fresh

LEMMA HandlerKeepsFresh ==
    ASSUME IInv, Fresh, NEW p \in Processes, Handler(p)
    PROVE  Fresh' /\ NothingForgotten
<1>1. Abandon(p) => Fresh' /\ NothingForgotten
  BY Finishes DEF Abandon, speech, files
<1> QED
  BY <1>1, CreateJobFresh, GetJobFresh, CancelJobFresh, CreateRecordFresh, SubmitFresh,
     UpdateRecordFresh, AnswerFresh DEF Handler

LEMMA SpeechHandlerKeepsFresh ==
    ASSUME IInv, Fresh, NEW p \in Processes, SpeechHandler(p)
    PROVE  Fresh' /\ NothingForgotten
<1>1. ASSUME NEW j \in SpeechJobs, AuthorizeRetry(p, j) PROVE Fresh' /\ NothingForgotten
  BY <1>1, NoHandlerStep DEF AuthorizeRetry, files
<1> QED
  BY <1>1, ServeSpeechJobFresh, ReconcileFresh, WritesFresh, InspectSpeechFresh, SpeakFresh,
     ReceiptFresh, StoreSpeechFresh, ClaimFresh, ReadAfterClaimFresh, BeginRetryFresh
     DEF SpeechHandler

LEMMA NextFresh ==
    ASSUME IInv, Fresh, [Next]_vars
    PROVE  Fresh' /\ NothingForgotten
<1>1. CASE UNCHANGED vars
  BY <1>1, NoHandlerStep DEF vars, speech, files
<1>2. ASSUME NEW t \in Tasks, TaskProgress(t) PROVE Fresh' /\ NothingForgotten
  BY <1>2, NoHandlerStep DEF TaskProgress, speech, files
<1> QED
  BY <1>1, <1>2, HandlerKeepsFresh, SpeechHandlerKeepsFresh DEF Next

\* A process that is alone with a job never loses the task it has saved for it and
\* never replaces its settled result, whatever crashes, lost answers, failing writes
\* and retries there are.
THEOREM NeverForgets == Spec => SoleServerNeverForgets
<1>1. IInv /\ Fresh /\ [Next]_vars => Fresh'
  BY NextFresh
<1>2. IInv /\ Fresh /\ [Next]_vars =>
          [\A j \in Jobs, p \in Processes :
               {q \in Processes : j \in serves[q]} = {p} => ~Forgets(j)]_vars
  BY NextFresh DEF NothingForgotten, Alone
<1> QED
  BY <1>1, <1>2, InitFresh, Invariance, PTL DEF Spec, SoleServerNeverForgets
=============================================================================
