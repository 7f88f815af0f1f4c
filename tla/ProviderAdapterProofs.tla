----------------------- MODULE ProviderAdapterProofs -----------------------
(***************************************************************************)
(* Proofs about ProviderAdapter, for every set of jobs, batches, processes *)
(* and tasks, every deployment and any number of retries.                  *)
(*                                                                         *)
(* Processes share nothing but files, so the argument is one of files that *)
(* only grow (Grows): an intent is never undone, a task keeps its job and  *)
(* its final status, receipt, object, result and claims are never removed. *)
(* What one handler knows stays true whatever the others do, and each      *)
(* action has to be looked at for its own handler and file only.           *)
(***************************************************************************)
EXTENDS ProviderAdapter, TLAPS

\* A record says nothing that the provider and the files do not bear out.
TrueRecord(rec, j) ==
    /\ rec.task # NoTask => remote[rec.task].job = j
    /\ rec.state \in Terminal =>
           /\ rec.task # NoTask
           /\ remote[rec.task].status = rec.state
           /\ j \in SpeechJobs => receipt[j] = rec.task /\ stored[j] /\ result[j]

\* Receipt, object and result follow a call that succeeded, in this order.
FilesOK(j) ==
    /\ receipt[j] # NoTask =>
           remote[receipt[j]].job = j /\ remote[receipt[j]].status = "SUCCEEDED"
    /\ stored[j] => receipt[j] # NoTask
    /\ result[j] => stored[j]

JobOK(j) ==
    /\ record[j] \in RecordType
    /\ TrueRecord(record[j], j)
    /\ record[j].state = "ABSENT" => record[j] = NoRecord
    /\ record[j].state # "ABSENT" => BatchReady(j)
    /\ j \in SpeechJobs => FilesOK(j)

\* A task was paid for under a durable intent with its input.
TaskOK(t) ==
    /\ remote[t] \in TaskType
    /\ remote[t].status = "NONE" <=> remote[t].job = NoJob
    /\ remote[t].job # NoJob =>
           /\ record[remote[t].job].state # "ABSENT"
           /\ record[remote[t].job].input = remote[t].input
           /\ remote[t].ticket # NoRecord =>
                  remote[t].job \in SpeechJobs /\ remote[t].ticket \in claims[remote[t].job]

\* The steps of a handler whose job has a receipt, and of one that does not
\* rewrite the record from its copy.
WithReceipt == {"REPAIR", "INSPECT", "PUBLISH", "REFUSE", "EXPOSE", "CONFIRM", "STORE",
                "CHECKPOINT"}
NoCopy      == {"CLAIM", "RETRY"}

\* The handler may go on to call the provider.
Holds(p) ==
    \/ op[p].step \in {"SUBMIT", "SPEAK", "RETRY", "REOPEN"}
    \/ op[p].step = "RESTORE" /\ op[p].after = "FRESH"

\* The handler serves a job that is its own to serve, at a step of its capability.
PlaceOK(p) ==
    /\ op[p].job \in serves[p]
    /\ op[p].step \in SpeechSteps => op[p].job \in SpeechJobs
    /\ op[p].step \in VideoSteps => op[p].job \notin SpeechJobs
    /\ op[p].step \in {"POLL", "CANCEL"} => op[p].copy.task \in Tasks

\* Its copy is one the record may be overwritten with.
CopyOK(p) ==
    /\ TrueRecord(op[p].copy, op[p].job)
    /\ op[p].step = "INTENT" => BatchReady(op[p].job) /\ op[p].ticket = NoRecord
    /\ op[p].step # "INTENT" => record[op[p].job].state # "ABSENT"
    /\ op[p].step \notin NoCopy => op[p].copy.state # "ABSENT"
    /\ op[p].step \notin NoCopy \cup {"INTENT"} => op[p].copy.input = record[op[p].job].input

\* What it has found out about the files of a speech job still holds.
SpeechOK(p) ==
    /\ op[p].step \in WithReceipt => receipt[op[p].job] # NoTask
    /\ op[p].step = "PUBLISH" => stored[op[p].job]
    /\ op[p].step = "RECEIPT" =>
           op[p].copy.task # NoTask /\ remote[op[p].copy.task].status = "SUCCEEDED"
    /\ Holds(p) /\ op[p].ticket # NoRecord =>
           op[p].job \in SpeechJobs /\ op[p].ticket \in claims[op[p].job]

HandlerOK(p) ==
    /\ op[p] \in HandlerType
    /\ op[p].step # "IDLE" => PlaceOK(p) /\ CopyOK(p) /\ SpeechOK(p)

\* A job and a ticket pay for one call: there is one handler that may still make
\* it, or one task that was made.
Tickets ==
    /\ \A t, u \in Tasks :
           /\ remote[t].job # NoJob
           /\ remote[u].job = remote[t].job /\ remote[u].ticket = remote[t].ticket
           => u = t
    /\ \A p, q \in Processes :
           /\ Holds(p) /\ Holds(q)
           /\ op[p].job = op[q].job /\ op[p].ticket = op[q].ticket
           => p = q
    /\ \A p \in Processes, t \in Tasks :
           Holds(p) /\ remote[t].job = op[p].job => remote[t].ticket # op[p].ticket

FilesTyped ==
    /\ serves \in Deployments
    /\ record \in [Jobs -> RecordType]
    /\ remote \in [Tasks -> TaskType]
    /\ receipt \in [SpeechJobs -> Tasks \cup {NoTask}]
    /\ stored \in [SpeechJobs -> BOOLEAN]
    /\ result \in [SpeechJobs -> BOOLEAN]
    /\ claims \in [SpeechJobs -> SUBSET RecordType]
    /\ retry \in [Processes -> RecordType]

\* The inductive invariant.
IInv ==
    /\ FilesTyped
    /\ op \in [Processes -> HandlerType]
    /\ \A j \in Jobs : JobOK(j)
    /\ \A t \in Tasks : TaskOK(t)
    /\ \A p \in Processes : HandlerOK(p)
    /\ Tickets

----------------------------------------------------------------------------
(***************************************************************************)
(* What no step takes back.                                                *)
(***************************************************************************)
Grows ==
    /\ serves' = serves
    /\ \A j \in Jobs : record[j].state # "ABSENT" =>
           record'[j].state # "ABSENT" /\ record'[j].input = record[j].input
    /\ \A t \in Tasks : remote[t].job # NoJob =>
           /\ remote'[t].job = remote[t].job
           /\ remote'[t].input = remote[t].input
           /\ remote'[t].ticket = remote[t].ticket
    /\ \A t \in Tasks : remote[t].status \in Terminal => remote'[t].status = remote[t].status
    /\ \A j \in SpeechJobs :
           /\ receipt[j] # NoTask => receipt'[j] = receipt[j]
           /\ stored[j] => stored'[j]
           /\ result[j] => result'[j]
           /\ claims[j] \subseteq claims'[j]

LEMMA TrueRecordStable ==
    ASSUME Grows, NEW j \in Jobs, NEW rec \in RecordType, TrueRecord(rec, j)
    PROVE  TrueRecord(rec, j)'
<1>1. rec.task \in Tasks \cup {NoTask}
  BY DEF RecordType
<1>2. rec.task # NoTask => remote'[rec.task].job = j
  BY <1>1, NoJobAssumption DEF TrueRecord, Grows
<1>3. ASSUME rec.state \in Terminal
      PROVE  /\ rec.task # NoTask
             /\ remote'[rec.task].status = rec.state
             /\ j \in SpeechJobs => receipt'[j] = rec.task /\ stored'[j] /\ result'[j]
  BY <1>1, <1>3 DEF TrueRecord, Grows
<1> QED
  BY <1>2, <1>3 DEF TrueRecord

LEMMA BatchStable ==
    ASSUME Grows, NEW j \in Jobs, BatchReady(j)
    PROVE  BatchReady(j)'
BY SpeechAssumption DEF Grows, BatchReady

LEMMA JobOfHandler ==
    ASSUME FilesTyped, NEW p \in Processes, PlaceOK(p)
    PROVE  op[p].job \in Jobs
BY DeploymentAssumption DEF FilesTyped, PlaceOK

\* Another handler is not disturbed.
LEMMA HandlerStable ==
    ASSUME Grows, FilesTyped, NEW p \in Processes, HandlerOK(p), op'[p] = op[p]
    PROVE  HandlerOK(p)'
<1>1. op[p] \in HandlerType /\ (Holds(p)' <=> Holds(p))
  BY DEF HandlerOK, Holds
<1>2. op[p].copy \in RecordType
  BY <1>1 DEF HandlerType
<1>3. ASSUME op[p].step # "IDLE"
      PROVE  PlaceOK(p)' /\ CopyOK(p)' /\ SpeechOK(p)'
  <2>1. PlaceOK(p) /\ CopyOK(p) /\ SpeechOK(p)
    BY <1>3 DEF HandlerOK
  <2>2. op[p].job \in Jobs
    BY <2>1, JobOfHandler
  <2>3. PlaceOK(p)'
    BY <2>1 DEF PlaceOK, Grows
  <2>4. TrueRecord(op[p].copy, op[p].job)'
    <3>1. TrueRecord(op[p].copy, op[p].job)
      BY <2>1 DEF CopyOK
    <3>2. op[p].copy.task \in Tasks \cup {NoTask}
      BY <1>2 DEF RecordType
    <3> QED
      BY <1>2, <2>2, <3>1, <3>2, NoJobAssumption DEF TrueRecord, Grows
  <2>5. BatchReady(op[p].job) => BatchReady(op[p].job)'
    BY <2>2, SpeechAssumption DEF Grows, BatchReady
  <2>6. CopyOK(p)'
    BY <2>1, <2>2, <2>4, <2>5 DEF CopyOK, Grows
  <2>7. SpeechOK(p)'
    <3>1. op[p].copy.task \in Tasks \cup {NoTask}
      BY <1>2 DEF RecordType
    <3>2. op[p].step \in WithReceipt => op[p].job \in SpeechJobs
      BY <2>1 DEF PlaceOK, WithReceipt, SpeechSteps
    <3> QED
      BY <1>1, <2>1, <2>2, <3>1, <3>2 DEF SpeechOK, Grows, PlaceOK, SpeechSteps, Terminal
  <2> QED
    BY <2>3, <2>6, <2>7
<1> QED
  BY <1>1, <1>3 DEF HandlerOK

LEMMA JobStable ==
    ASSUME Grows, NEW j \in Jobs, JobOK(j), record'[j] = record[j],
           j \in SpeechJobs =>
               receipt'[j] = receipt[j] /\ stored'[j] = stored[j] /\ result'[j] = result[j],
           j \in SpeechJobs => receipt[j] \in Tasks \cup {NoTask}
    PROVE  JobOK(j)'
<1>1. record[j] \in RecordType /\ TrueRecord(record[j], j)
  BY DEF JobOK
<1>2. TrueRecord(record[j], j)'
  <2>1. record[j].task \in Tasks \cup {NoTask}
    BY <1>1 DEF RecordType
  <2> QED
    BY <1>1, <2>1, NoJobAssumption DEF TrueRecord, Grows
<1>3. BatchReady(j) => BatchReady(j)'
  BY BatchStable
<1>4. ASSUME j \in SpeechJobs PROVE FilesOK(j)'
  <2>1. FilesOK(j) /\ (receipt[j] # NoTask => receipt[j] \in Tasks)
    BY <1>4 DEF JobOK
  <2> QED
    BY <1>4, <2>1, NoJobAssumption DEF FilesOK, Grows, Terminal
<1> QED
  BY <1>1, <1>2, <1>3, <1>4 DEF JobOK

LEMMA TaskStable ==
    ASSUME Grows, NEW t \in Tasks, TaskOK(t),
           remote'[t] \in TaskType, remote'[t].job = remote[t].job,
           remote'[t].input = remote[t].input, remote'[t].ticket = remote[t].ticket,
           remote'[t].status = "NONE" <=> remote[t].status = "NONE"
    PROVE  TaskOK(t)'
<1>1. remote[t].job # NoJob => remote[t].job \in Jobs
  BY DEF TaskOK, TaskType
<1> QED
  BY <1>1 DEF TaskOK, Grows

----------------------------------------------------------------------------
(***************************************************************************)
(* A step of one handler.                                                  *)
(***************************************************************************)
OnlyHandler(p) == op' = [op EXCEPT ![p] = op'[p]]

\* The handler may call the provider only if it might before.
Keeps(p) ==
    Holds(p)' => Holds(p) /\ op'[p].job = op[p].job /\ op'[p].ticket = op[p].ticket

\* Nothing is paid for.
SameTasks ==
    \A t \in Tasks : remote'[t].job = remote[t].job /\ remote'[t].ticket = remote[t].ticket

LEMMA HandlersOK ==
    ASSUME IInv, Grows, NEW p \in Processes, OnlyHandler(p), HandlerOK(p)'
    PROVE  (op \in [Processes -> HandlerType])' /\ \A q \in Processes : HandlerOK(q)'
<1>1. op'[p] \in HandlerType /\ op \in [Processes -> HandlerType]
  BY DEF HandlerOK, IInv
<1>2. op' \in [Processes -> HandlerType]
  BY <1>1 DEF OnlyHandler
<1>3. ASSUME NEW q \in Processes, q # p PROVE HandlerOK(q)'
  <2>1. op'[q] = op[q]
    BY <1>1, <1>3 DEF OnlyHandler
  <2>2. FilesTyped /\ HandlerOK(q)
    BY DEF IInv
  <2> QED
    BY <2>1, <2>2, HandlerStable
<1> QED
  BY <1>2, <1>3

LEMMA OtherHolders ==
    ASSUME IInv, NEW p \in Processes, OnlyHandler(p), NEW q \in Processes, q # p
    PROVE  op'[q] = op[q] /\ (Holds(q)' <=> Holds(q))
BY DEF IInv, OnlyHandler, Holds

LEMMA TicketsKept ==
    ASSUME IInv, NEW p \in Processes, OnlyHandler(p), Keeps(p), SameTasks
    PROVE  Tickets'
<1>1. Tickets
  BY DEF IInv
<1>2. \A q \in Processes : Holds(q)' =>
          Holds(q) /\ op'[q].job = op[q].job /\ op'[q].ticket = op[q].ticket
  BY OtherHolders DEF Keeps
<1>3. (\A t, u \in Tasks :
           /\ remote[t].job # NoJob
           /\ remote[u].job = remote[t].job /\ remote[u].ticket = remote[t].ticket
           => u = t)'
  BY <1>1 DEF Tickets, SameTasks
<1>4. (\A q, r \in Processes :
           /\ Holds(q) /\ Holds(r)
           /\ op[q].job = op[r].job /\ op[q].ticket = op[r].ticket
           => q = r)'
  BY <1>1, <1>2 DEF Tickets
<1>5. (\A q \in Processes, t \in Tasks :
           Holds(q) /\ remote[t].job = op[q].job => remote[t].ticket # op[q].ticket)'
  BY <1>1, <1>2 DEF Tickets, SameTasks
<1> QED
  BY <1>3, <1>4, <1>5 DEF Tickets

\* Most steps change nothing but the handler.
LEMMA HandlerMoves ==
    ASSUME IInv, NEW p \in Processes, OnlyHandler(p), HandlerOK(p)', Keeps(p),
           UNCHANGED <<record, remote, speech>>
    PROVE  IInv'
<1>1. Grows
  BY DEF Grows, speech, files
<1>2. (op \in [Processes -> HandlerType])' /\ \A q \in Processes : HandlerOK(q)'
  BY <1>1, HandlersOK
<1>3. FilesTyped'
  BY DEF IInv, FilesTyped, speech, files
<1>4. \A j \in Jobs : JobOK(j)'
  BY DEF IInv, JobOK, TrueRecord, FilesOK, BatchReady, speech, files
<1>5. \A t \in Tasks : TaskOK(t)'
  BY DEF IInv, TaskOK, speech, files
<1>6. Tickets'
  BY TicketsKept DEF SameTasks
<1> QED
  BY <1>2, <1>3, <1>4, <1>5, <1>6 DEF IInv

\* The others overwrite the record with the copy, whatever it has become.
Overwrites(p) ==
    /\ record' = [record EXCEPT ![op[p].job] = op[p].copy]
    /\ op[p].step \notin {"IDLE", "INTENT"} \cup NoCopy

LEMMA RecordOverwritten ==
    ASSUME IInv, NEW p \in Processes, Overwrites(p), UNCHANGED <<remote, speech>>
    PROVE  /\ Grows
           /\ FilesTyped'
           /\ \A j \in Jobs : JobOK(j)'
           /\ \A t \in Tasks : TaskOK(t)'
<1>1. PlaceOK(p) /\ CopyOK(p) /\ op[p].copy \in RecordType
  BY DEF IInv, HandlerOK, HandlerType, Overwrites
<1>2. PICK j \in Jobs : j = op[p].job
  BY <1>1, JobOfHandler DEF IInv
<1>3. PICK copy \in RecordType : copy = op[p].copy
  BY <1>1
<1>4. /\ TrueRecord(copy, j) /\ copy.state # "ABSENT"
      /\ record[j].state # "ABSENT" /\ copy.input = record[j].input
  BY <1>1, <1>2, <1>3 DEF CopyOK, Overwrites
<1>5. record \in [Jobs -> RecordType]
  BY DEF IInv, FilesTyped
<1>6. record'[j] = copy /\ \A k \in Jobs : k # j => record'[k] = record[k]
  BY <1>2, <1>3, <1>5 DEF Overwrites
<1>7. Grows
  BY <1>4, <1>6 DEF Grows, speech, files
<1>8. FilesTyped'
  BY <1>1, <1>2, <1>5 DEF IInv, FilesTyped, Overwrites, speech, files
<1>9. JobOK(j)'
  <2>1. JobOK(j)
    BY DEF IInv
  <2>2. TrueRecord(copy, j)'
    BY <1>4 DEF TrueRecord, speech, files
  <2>3. BatchReady(j)' /\ (j \in SpeechJobs => FilesOK(j)')
    BY <1>4, <2>1 DEF JobOK, BatchReady, FilesOK, speech, files
  <2> QED
    BY <1>3, <1>4, <1>6, <2>2, <2>3 DEF JobOK, TrueRecord
<1>10. \A k \in Jobs : JobOK(k)'
  <2>1. ASSUME NEW k \in Jobs, k # j PROVE JobOK(k)'
    BY <1>6, <2>1 DEF IInv, JobOK, TrueRecord, FilesOK, BatchReady, speech, files
  <2> QED
    BY <1>9, <2>1
<1>11. ASSUME NEW t \in Tasks PROVE TaskOK(t)'
  <2>1. TaskOK(t)
    BY DEF IInv
  <2> QED
    BY <1>7, <2>1, TaskStable DEF TaskOK, speech, files
<1> QED
  BY <1>7, <1>8, <1>10, <1>11

LEMMA HandlerWrites ==
    ASSUME IInv, NEW p \in Processes, Overwrites(p), UNCHANGED <<remote, speech>>,
           OnlyHandler(p), HandlerOK(p)', Keeps(p)
    PROVE  IInv'
<1>1. Grows /\ FilesTyped' /\ (\A j \in Jobs : JobOK(j)') /\ (\A t \in Tasks : TaskOK(t)')
  BY RecordOverwritten
<1>2. (op \in [Processes -> HandlerType])' /\ \A q \in Processes : HandlerOK(q)'
  BY <1>1, HandlersOK
<1>3. Tickets'
  BY TicketsKept DEF SameTasks
<1> QED
  BY <1>1, <1>2, <1>3 DEF IInv

----------------------------------------------------------------------------
(***************************************************************************)
(* The ways a handler goes on.                                             *)
(***************************************************************************)
Steps == {"IDLE", "INTENT", "SAVE"} \cup VideoSteps \cup SpeechSteps

\* What is known of a running handler.
LEMMA Running ==
    ASSUME IInv, NEW p \in Processes, op[p].step # "IDLE"
    PROVE  /\ op[p].job \in Jobs /\ op[p].copy \in RecordType /\ op[p].ticket \in RecordType
           /\ PlaceOK(p) /\ CopyOK(p) /\ SpeechOK(p)
           /\ JobOK(op[p].job)
<1>1. op[p] \in HandlerType /\ PlaceOK(p) /\ CopyOK(p) /\ SpeechOK(p)
  BY DEF IInv, HandlerOK
<1>2. op[p].job \in Jobs
  BY <1>1, JobOfHandler DEF IInv
<1>3. op[p].copy \in RecordType /\ op[p].ticket \in RecordType
  BY <1>1 DEF HandlerType
<1> QED
  BY <1>1, <1>2, <1>3 DEF IInv

LEMMA NoRecordTyped == NoRecord \in RecordType
BY DEF NoRecord, Record, RecordType

LEMMA FinishOK ==
    ASSUME IInv, NEW p \in Processes, Finish(p)
    PROVE  OnlyHandler(p) /\ HandlerOK(p)' /\ Keeps(p)
<1>1. op'[p] = NoRequest /\ OnlyHandler(p)
  BY DEF IInv, Finish, OnlyHandler
<1>2. NoRequest \in HandlerType /\ NoRequest.step = "IDLE"
  BY NoRecordTyped DEF NoRequest, HandlerType
<1> QED
  BY <1>1, <1>2 DEF HandlerOK, Keeps, Holds

LEMMA Continued ==
    ASSUME IInv, NEW p \in Processes, NEW step \in Steps, NEW copy \in RecordType,
           Continue(p, step, copy)
    PROVE  /\ OnlyHandler(p) /\ op'[p] \in HandlerType
           /\ op'[p].step = step /\ op'[p].job = op[p].job /\ op'[p].copy = copy
           /\ op'[p].after = "NONE" /\ op'[p].ticket = op[p].ticket
<1>1. op \in [Processes -> HandlerType]
  BY DEF IInv
<1> QED
  BY <1>1 DEF Continue, OnlyHandler, HandlerType, Steps

LEMMA ContinueOK ==
    ASSUME IInv, Grows, NEW p \in Processes, op[p].step \notin {"IDLE", "INTENT"},
           NEW j \in Jobs, j = op[p].job,
           NEW step \in Steps, step \notin {"IDLE", "INTENT", "RETRY"} \cup VideoSteps,
           NEW copy \in RecordType, Continue(p, step, copy),
           TrueRecord(copy, j)',
           step \notin NoCopy => copy.state # "ABSENT" /\ copy.input = record[j].input,
           step \in SpeechSteps => j \in SpeechJobs,
           step \in WithReceipt => receipt'[j] # NoTask,
           step = "PUBLISH" => stored'[j],
           step = "RECEIPT" => copy.task # NoTask /\ remote'[copy.task].status = "SUCCEEDED",
           step \in {"SPEAK", "REOPEN"} => Holds(p)
    PROVE  OnlyHandler(p) /\ HandlerOK(p)' /\ Keeps(p)
<1>1. /\ OnlyHandler(p) /\ op'[p] \in HandlerType
      /\ op'[p].step = step /\ op'[p].job = j /\ op'[p].copy = copy
      /\ op'[p].after = "NONE" /\ op'[p].ticket = op[p].ticket
  BY Continued
<1>2. PlaceOK(p) /\ CopyOK(p) /\ SpeechOK(p)
  BY Running
<1>3. Keeps(p) /\ (Holds(p)' => Holds(p))
  BY <1>1 DEF Keeps, Holds, VideoSteps
<1>4. PlaceOK(p)'
  BY <1>1, <1>2 DEF PlaceOK, Grows, VideoSteps
<1>5. CopyOK(p)'
  <2>1. TrueRecord(op[p].copy, op[p].job)'
    BY <1>1 DEF TrueRecord
  <2>2. record[j].state # "ABSENT"
    BY <1>2 DEF CopyOK
  <2> QED
    BY <1>1, <2>1, <2>2 DEF CopyOK, Grows
<1>6. SpeechOK(p)'
  BY <1>1, <1>2, <1>3 DEF SpeechOK, Grows
<1> QED
  BY <1>1, <1>3, <1>4, <1>5, <1>6 DEF HandlerOK

LEMMA BeginOK ==
    ASSUME IInv, NEW p \in Processes, NEW j \in Jobs, NEW copy \in RecordType,
           NEW step \in {"INTENT", "SAVE", "POLL", "CANCEL"}, Begin(p, j, step, copy),
           UNCHANGED <<record, remote, speech>>,
           TrueRecord(copy, j), copy.state # "ABSENT",
           step = "INTENT" => BatchReady(j),
           step # "INTENT" => record[j].state # "ABSENT" /\ copy.input = record[j].input,
           step \in {"POLL", "CANCEL"} => copy.task \in Tasks /\ j \notin SpeechJobs
    PROVE  IInv'
<1>1. op \in [Processes -> HandlerType] /\ NoRecord \in RecordType
  BY NoRecordTyped DEF IInv
<1>2. /\ OnlyHandler(p) /\ op'[p] \in HandlerType
      /\ op'[p].step = step /\ op'[p].job = j /\ op'[p].copy = copy
      /\ op'[p].after = "NONE" /\ op'[p].ticket = NoRecord
  BY <1>1 DEF Begin, OnlyHandler, HandlerType, NoRequest, VideoSteps
<1>3. Keeps(p) /\ ~Holds(p)'
  BY <1>2 DEF Keeps, Holds
<1>4. PlaceOK(p)'
  BY <1>2 DEF PlaceOK, Begin, VideoSteps, SpeechSteps, speech, files
<1>5. CopyOK(p)'
  <2>1. TrueRecord(op[p].copy, op[p].job)'
    BY <1>2 DEF TrueRecord, speech, files
  <2>2. step = "INTENT" => BatchReady(op[p].job)'
    BY <1>2 DEF BatchReady, speech, files
  <2> QED
    BY <1>2, <2>1, <2>2 DEF CopyOK, NoCopy
<1>6. SpeechOK(p)'
  BY <1>2, <1>3 DEF SpeechOK, WithReceipt
<1> QED
  BY <1>2, <1>3, <1>4, <1>5, <1>6, HandlerMoves DEF HandlerOK

\* A handler that goes on without writing anything.
LEMMA GoesOn ==
    ASSUME IInv, NEW p \in Processes, op[p].step \notin {"IDLE", "INTENT"},
           UNCHANGED <<record, remote, speech>>,
           NEW j \in Jobs, j = op[p].job,
           NEW step \in Steps, step \notin {"IDLE", "INTENT", "RETRY"} \cup VideoSteps,
           NEW copy \in RecordType, Continue(p, step, copy),
           TrueRecord(copy, j),
           step \notin NoCopy => copy.state # "ABSENT" /\ copy.input = record[j].input,
           step \in SpeechSteps => j \in SpeechJobs,
           step \in WithReceipt => receipt[j] # NoTask,
           step = "PUBLISH" => stored[j],
           step = "RECEIPT" => copy.task # NoTask /\ remote[copy.task].status = "SUCCEEDED",
           step \in {"SPEAK", "REOPEN"} => Holds(p)
    PROVE  IInv'
<1>1. Grows
  BY DEF Grows, speech, files
<1>2. TrueRecord(copy, j)'
  BY DEF TrueRecord, speech, files
<1>3. OnlyHandler(p) /\ HandlerOK(p)' /\ Keeps(p)
  BY <1>1, <1>2, ContinueOK DEF speech, files
<1> QED
  BY <1>3, HandlerMoves

LEMMA Saves ==
    ASSUME IInv, NEW p \in Processes, op[p].step \notin {"IDLE", "INTENT"},
           UNCHANGED <<record, remote, speech>>,
           NEW copy \in RecordType, Continue(p, "SAVE", copy),
           TrueRecord(copy, op[p].job), copy.state # "ABSENT",
           copy.input = record[op[p].job].input
    PROVE  IInv'
<1>1. op[p].job \in Jobs
  BY Running
<1>2. /\ "SAVE" \in Steps /\ "SAVE" \notin VideoSteps \cup SpeechSteps
      /\ "SAVE" \notin WithReceipt
  BY DEF Steps, VideoSteps, SpeechSteps, WithReceipt
<1> QED
  BY <1>1, <1>2, GoesOn

LEMMA GivesUp ==
    ASSUME IInv, NEW p \in Processes, Finish(p), UNCHANGED <<record, remote, speech>>
    PROVE  IInv'
BY FinishOK, HandlerMoves

----------------------------------------------------------------------------
(***************************************************************************)
(* The actions that only move their handler.                               *)
(***************************************************************************)
LEMMA IntentTyped ==
    ASSUME NEW input \in Inputs
    PROVE  /\ Intent(input) \in RecordType
           /\ Intent(input).state = "UNKNOWN" /\ Intent(input).task = NoTask
BY DEF Intent, Record, RecordType

LEMMA CreateJobStep ==
    ASSUME IInv, NEW p \in Processes, NEW j \in Jobs, NEW input \in Inputs,
           CreateJob(p, j, input)
    PROVE  IInv'
<1>1. TrueRecord(Intent(input), j)
  BY IntentTyped DEF TrueRecord, Terminal
<1> QED
  BY <1>1, IntentTyped, BeginOK DEF CreateJob

LEMMA JobTasks ==
    ASSUME IInv, NEW j \in Jobs
    PROVE  /\ record[j] \in RecordType /\ TrueRecord(record[j], j)
           /\ record[j].task \in Tasks \cup {NoTask}
           /\ record[j].task # NoTask => record[j].state # "ABSENT"
<1>1. JobOK(j)
  BY DEF IInv
<1>2. NoRecord.task = NoTask
  BY DEF NoRecord, Record
<1> QED
  BY <1>1, <1>2 DEF JobOK, RecordType

LEMMA GetJobStep ==
    ASSUME IInv, NEW p \in Processes, NEW j \in Jobs, GetJob(p, j)
    PROVE  IInv'
<1>1. CASE record[j].task = NoTask
  <2> DEFINE copy == [record[j] EXCEPT !.state = "REQUIRES_ACTION"]
  <2>1. copy \in RecordType /\ copy.state = "REQUIRES_ACTION" /\ copy.task = NoTask
        /\ copy.input = record[j].input
    BY <1>1, JobTasks DEF RecordType
  <2>2. TrueRecord(copy, j)
    BY <2>1 DEF TrueRecord, Terminal
  <2>3. Begin(p, j, "SAVE", copy) /\ UNCHANGED <<record, remote, speech>>
        /\ record[j].state # "ABSENT"
    BY <1>1 DEF GetJob
  <2> HIDE DEF copy
  <2> QED
    BY <2>1, <2>2, <2>3, BeginOK
<1>2. CASE record[j].task # NoTask
  <2>1. Begin(p, j, "POLL", record[j]) /\ UNCHANGED <<record, remote, speech>>
        /\ j \notin SpeechJobs
    BY <1>2 DEF GetJob
  <2> QED
    BY <1>2, <2>1, JobTasks, BeginOK
<1> QED
  BY <1>1, <1>2

LEMMA CancelJobStep ==
    ASSUME IInv, NEW p \in Processes, NEW j \in Jobs, CancelJob(p, j)
    PROVE  IInv'
BY JobTasks, BeginOK DEF CancelJob

\* A copy whose state and error alone changed, to ones no outcome rests on.
LEMMA Reworded ==
    ASSUME IInv, NEW p \in Processes, op[p].step \notin {"IDLE", "INTENT"} \cup NoCopy,
           NEW copy \in RecordType, copy.task = op[p].copy.task,
           copy.input = op[p].copy.input, copy.state \notin Terminal \cup {"ABSENT"}
    PROVE  /\ TrueRecord(copy, op[p].job)
           /\ copy.input = record[op[p].job].input
<1>1. CopyOK(p)
  BY Running
<1> QED
  BY <1>1 DEF CopyOK, TrueRecord

LEMMA SubmitRefusedStep ==
    ASSUME IInv, NEW p \in Processes, SubmitRefused(p)
    PROVE  IInv'
<1>1. PICK state \in RefusalOutcomes :
          Continue(p, "SAVE", [op[p].copy EXCEPT !.state = state])
  BY DEF SubmitRefused
<1>2. PICK copy \in RecordType : copy = [op[p].copy EXCEPT !.state = state]
  BY Running DEF SubmitRefused, RecordType, RefusalOutcomes
<1>3. /\ copy.task = op[p].copy.task /\ copy.input = op[p].copy.input
      /\ copy.state \notin Terminal \cup {"ABSENT"}
  BY <1>2, Running DEF SubmitRefused, RecordType, RefusalOutcomes, Terminal
<1>4. TrueRecord(copy, op[p].job) /\ copy.input = record[op[p].job].input
  BY <1>3, Reworded DEF SubmitRefused, NoCopy
<1> QED
  BY <1>1, <1>2, <1>3, <1>4, Saves DEF SubmitRefused

\* The status of the task the copy names.
LEMMA CopyTask ==
    ASSUME IInv, NEW p \in Processes, op[p].step \in {"POLL", "CANCEL"}
    PROVE  /\ op[p].copy.task \in Tasks /\ op[p].job \notin SpeechJobs
           /\ remote[op[p].copy.task].job = op[p].job
           /\ remote[op[p].copy.task].status \in Terminal \cup Active
<1>1. PlaceOK(p) /\ CopyOK(p) /\ op[p].job \in Jobs
  BY Running
<1>2. op[p].copy.task \in Tasks /\ op[p].job \notin SpeechJobs
  BY <1>1 DEF PlaceOK, VideoSteps
<1>3. remote[op[p].copy.task].job = op[p].job
  BY <1>1, <1>2, NoTaskAssumption DEF CopyOK, TrueRecord
<1>4. TaskOK(op[p].copy.task)
  BY <1>2 DEF IInv
<1> QED
  BY <1>1, <1>2, <1>3, <1>4, NoJobAssumption DEF TaskOK, TaskType

LEMMA Answered ==
    ASSUME IInv, NEW p \in Processes, op[p].step \in {"POLL", "CANCEL"},
           NEW status \in Terminal \cup Active, status = remote[op[p].copy.task].status,
           NEW copy \in RecordType, copy.task = op[p].copy.task,
           copy.input = op[p].copy.input, copy.state = status,
           Continue(p, "SAVE", copy), UNCHANGED <<record, remote, speech>>
    PROVE  IInv'
<1>1. TrueRecord(copy, op[p].job)
  BY CopyTask, NoTaskAssumption DEF TrueRecord
<1>2. copy.input = record[op[p].job].input
  BY Running DEF CopyOK, NoCopy
<1> QED
  BY <1>1, <1>2, Saves DEF Terminal, Active

LEMMA PollTaskStep ==
    ASSUME IInv, NEW p \in Processes, PollTask(p)
    PROVE  IInv'
<1>1. PICK status \in Terminal \cup Active : status = remote[op[p].copy.task].status
  BY CopyTask DEF PollTask
<1>2. PICK copy \in RecordType :
          copy = [op[p].copy EXCEPT !.state = status, !.artifacts = (status = "SUCCEEDED")]
  BY Running DEF PollTask, RecordType, Terminal, Active
<1>3. copy.task = op[p].copy.task /\ copy.input = op[p].copy.input /\ copy.state = status
  BY <1>2, Running DEF PollTask, RecordType
<1>4. Continue(p, "SAVE", copy)
  BY <1>1, <1>2 DEF PollTask
<1> QED
  BY <1>1, <1>3, <1>4, Answered DEF PollTask

----------------------------------------------------------------------------
(***************************************************************************)
(* The provider's tasks.                                                   *)
(***************************************************************************)
\* A task goes on, by itself or because it is cancelled.
LEMMA StatusMoves ==
    ASSUME IInv, NEW t \in Tasks, remote[t].status \in Active,
           NEW s \in Terminal \cup Active, remote' = [remote EXCEPT ![t].status = s],
           UNCHANGED <<record, speech>>
    PROVE  /\ Grows /\ SameTasks /\ FilesTyped' /\ remote'[t].status = s
           /\ \A j \in Jobs : JobOK(j)'
           /\ \A u \in Tasks : TaskOK(u)'
<1>1. remote \in [Tasks -> TaskType]
  BY DEF IInv, FilesTyped
<1>2. /\ remote'[t].status = s /\ remote'[t].job = remote[t].job
      /\ remote'[t].input = remote[t].input /\ remote'[t].ticket = remote[t].ticket
      /\ remote' \in [Tasks -> TaskType]
  BY <1>1 DEF TaskType
<1>3. \A u \in Tasks : u # t => remote'[u] = remote[u]
  BY <1>1
<1>4. Grows /\ SameTasks
  BY <1>2, <1>3 DEF Grows, SameTasks, Active, Terminal, speech, files
<1>5. FilesTyped'
  BY <1>2 DEF IInv, FilesTyped, speech, files
<1>6. ASSUME NEW j \in Jobs PROVE JobOK(j)'
  <2>1. JobOK(j) /\ (j \in SpeechJobs => receipt[j] \in Tasks \cup {NoTask})
    BY DEF IInv, FilesTyped
  <2> QED
    BY <1>4, <2>1, JobStable DEF speech, files
<1>7. ASSUME NEW u \in Tasks PROVE TaskOK(u)'
  <2>1. TaskOK(u) /\ remote'[u] \in TaskType
    BY <1>2 DEF IInv
  <2> QED
    BY <1>2, <1>3, <1>4, <2>1, TaskStable DEF Active, Terminal
<1> QED
  BY <1>2, <1>4, <1>5, <1>6, <1>7

LEMMA TaskProgressStep ==
    ASSUME IInv, NEW t \in Tasks, TaskProgress(t)
    PROVE  IInv'
<1>1. PICK s \in Terminal \cup Active : remote' = [remote EXCEPT ![t].status = s]
  BY DEF TaskProgress, Terminal, Active
<1>2. remote[t].status \in Active /\ UNCHANGED <<record, op, speech>>
  BY DEF TaskProgress, Active
<1>3. /\ Grows /\ SameTasks /\ FilesTyped'
      /\ (\A j \in Jobs : JobOK(j)') /\ (\A u \in Tasks : TaskOK(u)')
  BY <1>1, <1>2, StatusMoves
<1>4. ASSUME NEW p \in Processes PROVE HandlerOK(p)'
  BY <1>2, <1>3, HandlerStable DEF IInv
<1>5. Tickets'
  BY <1>2, <1>3 DEF IInv, Tickets, SameTasks, Holds
<1> QED
  BY <1>2, <1>3, <1>4, <1>5 DEF IInv

LEMMA CancelTaskStep ==
    ASSUME IInv, NEW p \in Processes, CancelTask(p)
    PROVE  IInv'
<1> DEFINE task == op[p].copy.task
<1>1. /\ task \in Tasks /\ op[p].job \notin SpeechJobs /\ remote[task].job = op[p].job
      /\ remote[task].status \in Terminal \cup Active /\ op[p].step = "CANCEL"
  BY CopyTask DEF CancelTask
<1>2. /\ op[p].job \in Jobs /\ op[p].copy \in RecordType
      /\ op[p].copy.input = record[op[p].job].input
  BY <1>1, Running DEF CopyOK, NoCopy
<1>3. CASE /\ remote[task].status \in Active
           /\ remote' = [remote EXCEPT ![task].status = "CANCELLED"]
           /\ Continue(p, "SAVE", [op[p].copy EXCEPT !.state = "CANCELLED"])
  <2>1. PICK copy \in RecordType : copy = [op[p].copy EXCEPT !.state = "CANCELLED"]
    BY <1>2 DEF RecordType, Terminal
  <2>2. copy.task = task /\ copy.input = op[p].copy.input /\ copy.state = "CANCELLED"
    BY <1>2, <2>1 DEF RecordType
  <2>3. UNCHANGED <<record, speech>> /\ "CANCELLED" \in Terminal
    BY DEF CancelTask, Terminal
  <2>4. /\ Grows /\ SameTasks /\ FilesTyped' /\ remote'[task].status = "CANCELLED"
        /\ (\A j \in Jobs : JobOK(j)') /\ (\A u \in Tasks : TaskOK(u)')
    BY <1>1, <1>3, <2>3, StatusMoves
  <2>5. PICK j \in Jobs : j = op[p].job
    BY <1>2
  <2>6. TrueRecord(copy, j)'
    BY <1>1, <2>2, <2>4, <2>5, NoTaskAssumption DEF TrueRecord, SameTasks
  <2>7. /\ "SAVE" \in Steps /\ "SAVE" \notin VideoSteps \cup SpeechSteps
        /\ "SAVE" \notin WithReceipt
    BY DEF Steps, VideoSteps, SpeechSteps, WithReceipt
  <2>8. Continue(p, "SAVE", copy)
    BY <1>3, <2>1
  <2>9. OnlyHandler(p) /\ HandlerOK(p)' /\ Keeps(p)
    BY <1>1, <1>2, <2>2, <2>4, <2>5, <2>6, <2>7, <2>8, ContinueOK
  <2> QED
    BY <2>4, <2>9, HandlersOK, TicketsKept DEF IInv
<1>4. CASE /\ Continue(p, "SAVE", [op[p].copy EXCEPT !.state = remote[task].status])
           /\ UNCHANGED remote
  <2>1. PICK status \in Terminal \cup Active : status = remote[task].status
    BY <1>1
  <2>2. PICK copy \in RecordType : copy = [op[p].copy EXCEPT !.state = status]
    BY <1>2 DEF RecordType
  <2>3. copy.task = task /\ copy.input = op[p].copy.input /\ copy.state = status
    BY <1>2, <2>2 DEF RecordType
  <2>4. Continue(p, "SAVE", copy) /\ UNCHANGED <<record, remote, speech>>
    BY <1>4, <2>1, <2>2 DEF CancelTask
  <2> QED
    BY <1>1, <2>1, <2>3, <2>4, Answered
<1> QED
  BY <1>3, <1>4 DEF CancelTask

\* A call is paid for by a handler that held the ticket, and holds it no more.
LEMMA Paid ==
    ASSUME IInv, NEW p \in Processes, NEW t \in Tasks,
           NEW status \in Terminal \cup Active,
           op[p].step \in {"SUBMIT", "SPEAK"}, NewTask(p, t, status),
           UNCHANGED <<record, speech>>, OnlyHandler(p), ~Holds(p)'
    PROVE  /\ Grows /\ FilesTyped' /\ remote'[t].job = op[p].job
           /\ remote'[t].status = status
           /\ \A j \in Jobs : JobOK(j)'
           /\ \A u \in Tasks : TaskOK(u)'
           /\ Tickets'
<1>1. /\ op[p].job \in Jobs /\ op[p].copy \in RecordType /\ op[p].ticket \in RecordType
      /\ CopyOK(p) /\ SpeechOK(p) /\ Holds(p)
  BY Running DEF Holds
<1>2. remote \in [Tasks -> TaskType] /\ TaskOK(t)
  BY DEF IInv, FilesTyped
<1>3. /\ remote'[t] = [status |-> status, job |-> op[p].job, input |-> op[p].copy.input,
                       ticket |-> op[p].ticket]
      /\ \A u \in Tasks : u # t => remote'[u] = remote[u]
  BY <1>2 DEF NewTask
<1>4. remote' \in [Tasks -> TaskType]
  BY <1>1, <1>2 DEF NewTask, TaskType, RecordType
<1>5. remote[t].status = "NONE" /\ remote[t].job = NoJob
  BY <1>2 DEF NewTask, TaskOK
<1>6. Grows
  BY <1>3, <1>5 DEF Grows, Terminal, speech, files
<1>7. FilesTyped'
  BY <1>4 DEF IInv, FilesTyped, speech, files
<1>8. ASSUME NEW j \in Jobs PROVE JobOK(j)'
  <2>1. JobOK(j) /\ (j \in SpeechJobs => receipt[j] \in Tasks \cup {NoTask})
    BY DEF IInv, FilesTyped
  <2> QED
    BY <1>6, <2>1, JobStable DEF speech, files
<1>9. ASSUME NEW u \in Tasks PROVE TaskOK(u)'
  <2>1. CASE u = t
    <3>1. /\ record[op[p].job].state # "ABSENT"
          /\ op[p].copy.input = record[op[p].job].input
      BY <1>1 DEF CopyOK, NoCopy
    <3>2. op[p].ticket # NoRecord =>
              op[p].job \in SpeechJobs /\ op[p].ticket \in claims[op[p].job]
      BY <1>1 DEF SpeechOK
    <3> QED
      BY <1>1, <1>3, <1>4, <2>1, <3>1, <3>2, NoJobAssumption
         DEF TaskOK, Terminal, Active, speech, files
  <2>2. CASE u # t
    <3>1. remote'[u] = remote[u] /\ TaskOK(u)
      BY <1>3, <2>2 DEF IInv
    <3> QED
      BY <1>6, <3>1, TaskStable DEF TaskOK
  <2> QED
    BY <2>1, <2>2
<1>10. Tickets'
  <2>1. Tickets
    BY DEF IInv
  <2>2. \A q \in Processes : Holds(q)' =>
            q # p /\ Holds(q) /\ op'[q].job = op[q].job /\ op'[q].ticket = op[q].ticket
    BY OtherHolders
  <2>3. (\A u, v \in Tasks :
             /\ remote[u].job # NoJob
             /\ remote[v].job = remote[u].job /\ remote[v].ticket = remote[u].ticket
             => v = u)'
    BY <1>1, <1>3, <2>1 DEF Tickets
  <2>4. (\A q, r \in Processes :
             /\ Holds(q) /\ Holds(r)
             /\ op[q].job = op[r].job /\ op[q].ticket = op[r].ticket
             => q = r)'
    BY <2>1, <2>2 DEF Tickets
  <2>5. (\A q \in Processes, u \in Tasks :
             Holds(q) /\ remote[u].job = op[q].job => remote[u].ticket # op[q].ticket)'
    BY <1>1, <1>3, <2>1, <2>2 DEF Tickets
  <2> QED
    BY <2>3, <2>4, <2>5 DEF Tickets
<1> QED
  BY <1>3, <1>6, <1>7, <1>8, <1>9, <1>10

LEMMA PaidCopy ==
    ASSUME IInv, NEW p \in Processes, op[p].step \in {"SUBMIT", "SPEAK"},
           Grows, NEW t \in Tasks, remote'[t].job = op[p].job,
           NEW j \in Jobs, j = op[p].job,
           NEW copy \in RecordType, copy.task \in {t, op[p].copy.task},
           copy.input = op[p].copy.input, copy.state \notin Terminal \cup {"ABSENT"}
    PROVE  TrueRecord(copy, j)' /\ copy.input = record[j].input
<1>1. CopyOK(p) /\ op[p].copy \in RecordType
  BY Running
<1>2. op[p].copy.task \in Tasks \cup {NoTask}
  BY <1>1 DEF RecordType
<1>3. copy.task # NoTask => remote'[copy.task].job = j
  BY <1>1, <1>2, NoJobAssumption DEF CopyOK, TrueRecord, Grows
<1> QED
  BY <1>1, <1>3 DEF TrueRecord, CopyOK, NoCopy

\* The record of a call that ended is saved.
LEMMA PaidAndSaved ==
    ASSUME IInv, NEW p \in Processes, op[p].step \in {"SUBMIT", "SPEAK"},
           NEW t \in Tasks, NEW status \in Terminal \cup Active, NewTask(p, t, status),
           UNCHANGED <<record, speech>>,
           NEW copy \in RecordType, copy.task \in {t, op[p].copy.task},
           copy.input = op[p].copy.input, copy.state \notin Terminal \cup {"ABSENT"},
           NEW step \in {"SAVE", "RECEIPT"}, Continue(p, step, copy),
           step = "RECEIPT" => op[p].step = "SPEAK" /\ status = "SUCCEEDED" /\ copy.task = t
    PROVE  IInv'
<1>1. /\ step \in Steps /\ step \notin {"IDLE", "INTENT", "RETRY"} \cup VideoSteps
      /\ step \notin WithReceipt /\ (step \in SpeechSteps => step = "RECEIPT")
  BY DEF Steps, VideoSteps, SpeechSteps, WithReceipt
<1>2. OnlyHandler(p) /\ op'[p].step = step
  BY <1>1, Continued
<1>3. /\ Grows /\ FilesTyped' /\ remote'[t].job = op[p].job /\ remote'[t].status = status
      /\ (\A j \in Jobs : JobOK(j)') /\ (\A u \in Tasks : TaskOK(u)') /\ Tickets'
  BY <1>2, Paid DEF Holds
<1>4. PICK j \in Jobs : j = op[p].job
  BY Running
<1>5. TrueRecord(copy, j)' /\ copy.input = record[j].input
  BY <1>3, <1>4, PaidCopy
<1>6. step = "RECEIPT" => j \in SpeechJobs
  BY <1>4, Running DEF PlaceOK, SpeechSteps
<1>7. OnlyHandler(p) /\ HandlerOK(p)'
  BY <1>1, <1>3, <1>4, <1>5, <1>6, ContinueOK, NoTaskAssumption
<1> QED
  BY <1>3, <1>7, HandlersOK DEF IInv

LEMMA SubmitAcceptedStep ==
    ASSUME IInv, NEW p \in Processes, NEW t \in Tasks, SubmitAccepted(p, t)
    PROVE  IInv'
<1>1. op[p].step = "SUBMIT" /\ NewTask(p, t, "QUEUED") /\ UNCHANGED <<record, speech>>
      /\ "QUEUED" \in Terminal \cup Active
  BY DEF SubmitAccepted, Active
<1>2. op[p].copy \in RecordType
  BY <1>1, Running
<1>3. CASE Continue(p, "SAVE", [op[p].copy EXCEPT !.state = "QUEUED", !.task = t])
  <2>1. PICK copy \in RecordType :
            copy = [op[p].copy EXCEPT !.state = "QUEUED", !.task = t]
    BY <1>2 DEF RecordType, Active
  <2>2. /\ copy.task = t /\ copy.input = op[p].copy.input
        /\ copy.state \notin Terminal \cup {"ABSENT"}
    BY <1>2, <2>1 DEF RecordType, Terminal
  <2> QED
    BY <1>1, <1>3, <2>1, <2>2, PaidAndSaved
<1>4. ASSUME NEW state \in RefusalOutcomes,
             Continue(p, "SAVE", [op[p].copy EXCEPT !.state = state])
      PROVE  IInv'
  <2>1. PICK copy \in RecordType : copy = [op[p].copy EXCEPT !.state = state]
    BY <1>2 DEF RecordType, RefusalOutcomes
  <2>2. /\ copy.task = op[p].copy.task /\ copy.input = op[p].copy.input
        /\ copy.state \notin Terminal \cup {"ABSENT"}
    BY <1>2, <2>1 DEF RecordType, Terminal, RefusalOutcomes
  <2> QED
    BY <1>1, <1>4, <2>1, <2>2, PaidAndSaved
<1> QED
  BY <1>3, <1>4 DEF SubmitAccepted

----------------------------------------------------------------------------
(***************************************************************************)
(* The intent, the updates of the record, and the handlers that stop.      *)
(***************************************************************************)
\* A handler comes to hold a ticket that is free.
LEMMA NewHolder ==
    ASSUME IInv, NEW p \in Processes, OnlyHandler(p), UNCHANGED remote,
           \A q \in Processes \ {p} :
               Holds(q) /\ op[q].job = op'[p].job => op[q].ticket # op'[p].ticket,
           \A t \in Tasks :
               remote[t].job = op'[p].job => remote[t].ticket # op'[p].ticket
    PROVE  Tickets'
<1>1. Tickets
  BY DEF IInv
<1>2. \A q \in Processes \ {p} : op'[q] = op[q] /\ (Holds(q)' <=> Holds(q))
  BY OtherHolders
<1>3. (\A t, u \in Tasks :
           /\ remote[t].job # NoJob
           /\ remote[u].job = remote[t].job /\ remote[u].ticket = remote[t].ticket
           => u = t)'
  BY <1>1 DEF Tickets
<1>4. ASSUME NEW q \in Processes, NEW r \in Processes, Holds(q)', Holds(r)',
             op'[q].job = op'[r].job, op'[q].ticket = op'[r].ticket
      PROVE  q = r
  <2>1. CASE q = p \/ r = p
    BY <1>2, <1>4, <2>1
  <2>2. CASE q # p /\ r # p
    BY <1>1, <1>2, <1>4, <2>2 DEF Tickets
  <2> QED
    BY <2>1, <2>2
<1>5. (\A q \in Processes, t \in Tasks :
           Holds(q) /\ remote[t].job = op[q].job => remote[t].ticket # op[q].ticket)'
  BY <1>1, <1>2 DEF Tickets
<1> QED
  BY <1>3, <1>4, <1>5 DEF Tickets

LEMMA IntentPublished ==
    ASSUME IInv, NEW p \in Processes, op[p].step = "INTENT",
           record[op[p].job].state = "ABSENT",
           record' = [record EXCEPT ![op[p].job] = op[p].copy],
           UNCHANGED <<remote, speech>>
    PROVE  /\ Grows /\ FilesTyped'
           /\ \A k \in Jobs : JobOK(k)'
           /\ \A t \in Tasks : TaskOK(t)'
           /\ record'[op[p].job] = op[p].copy
<1>1. PICK j \in Jobs : j = op[p].job
  BY Running
<1>2. PICK copy \in RecordType : copy = op[p].copy
  BY Running
<1>3. TrueRecord(copy, j) /\ copy.state # "ABSENT" /\ BatchReady(j)
  BY <1>1, <1>2, Running DEF CopyOK, NoCopy
<1>4. record \in [Jobs -> RecordType]
  BY DEF IInv, FilesTyped
<1>5. record'[j] = copy /\ \A k \in Jobs : k # j => record'[k] = record[k]
  BY <1>1, <1>2, <1>4
<1>6. Grows
  BY <1>1, <1>5 DEF Grows, speech, files
<1>7. FilesTyped'
  BY <1>1, <1>2, <1>4 DEF IInv, FilesTyped, speech, files
<1>8. JobOK(j)'
  <2>1. TrueRecord(copy, j)'
    BY <1>3 DEF TrueRecord, speech, files
  <2>2. BatchReady(j)' /\ (j \in SpeechJobs => FilesOK(j)')
    BY <1>3 DEF IInv, JobOK, BatchReady, FilesOK, speech, files
  <2> QED
    BY <1>3, <1>5, <2>1, <2>2 DEF JobOK, TrueRecord
<1>9. ASSUME NEW k \in Jobs PROVE JobOK(k)'
  <2>1. CASE k # j
    BY <1>5, <2>1 DEF IInv, JobOK, TrueRecord, FilesOK, BatchReady, speech, files
  <2> QED
    BY <1>8, <2>1
<1>10. ASSUME NEW t \in Tasks PROVE TaskOK(t)'
  <2>1. TaskOK(t)
    BY DEF IInv
  <2> QED
    BY <1>6, <2>1, TaskStable DEF TaskOK
<1> QED
  BY <1>1, <1>2, <1>5, <1>6, <1>7, <1>9, <1>10

LEMMA AfterIntentStep ==
    ASSUME IInv, NEW p \in Processes, op[p].step = "INTENT",
           record[op[p].job].state = "ABSENT",
           record' = [record EXCEPT ![op[p].job] = op[p].copy],
           AfterIntent(p), UNCHANGED <<remote, speech>>
    PROVE  IInv'
<1>1. /\ Grows /\ FilesTyped' /\ (\A k \in Jobs : JobOK(k)')
      /\ (\A t \in Tasks : TaskOK(t)') /\ record'[op[p].job] = op[p].copy
  BY IntentPublished
<1>2. /\ op[p].job \in Jobs /\ op[p].copy \in RecordType
      /\ PlaceOK(p) /\ CopyOK(p) /\ op[p].ticket = NoRecord
  BY Running DEF CopyOK
<1>3. op \in [Processes -> HandlerType]
  BY DEF IInv
<1>4. /\ OnlyHandler(p) /\ op'[p] \in HandlerType
      /\ op'[p].job = op[p].job /\ op'[p].copy = op[p].copy
      /\ op'[p].ticket = NoRecord
      /\ \/ op[p].job \in SpeechJobs /\ op'[p].step = "RESTORE"
         \/ op[p].job \notin SpeechJobs /\ op'[p].step = "SUBMIT"
  BY <1>2, <1>3 DEF AfterIntent, OnlyHandler, HandlerType, VideoSteps, SpeechSteps
<1>5. PlaceOK(p)'
  BY <1>2, <1>4 DEF PlaceOK, SpeechSteps, VideoSteps, speech, files
<1>6. CopyOK(p)'
  <2>1. TrueRecord(op[p].copy, op[p].job)'
    BY <1>2, <1>4 DEF CopyOK, TrueRecord, speech, files
  <2> QED
    BY <1>1, <1>2, <1>4, <2>1 DEF CopyOK, NoCopy
<1>7. SpeechOK(p)'
  BY <1>4 DEF SpeechOK, WithReceipt
<1>8. (op \in [Processes -> HandlerType])' /\ \A q \in Processes : HandlerOK(q)'
  <2>1. HandlerOK(p)'
    BY <1>4, <1>5, <1>6, <1>7 DEF HandlerOK
  <2> QED
    BY <1>1, <1>4, <2>1, HandlersOK
<1>9. \A q \in Processes \ {p} :
          Holds(q) /\ op[q].job = op'[p].job => op[q].ticket # op'[p].ticket
  <2> SUFFICES ASSUME NEW q \in Processes, Holds(q), op[q].job = op[p].job PROVE FALSE
    BY <1>4
  <2>1. op[q].step \notin {"IDLE", "INTENT"}
    BY DEF Holds
  <2> QED
    BY <2>1, Running DEF CopyOK
<1>10. \A t \in Tasks : remote[t].job = op'[p].job => remote[t].ticket # op'[p].ticket
  BY <1>2, <1>4, NoJobAssumption DEF IInv, TaskOK
<1>11. Tickets'
  BY <1>4, <1>9, <1>10, NewHolder
<1> QED
  BY <1>1, <1>8, <1>11 DEF IInv

LEMMA LostRaceStep ==
    ASSUME IInv, NEW p \in Processes, op[p].step = "INTENT",
           record[op[p].job].state # "ABSENT", LostRace(p),
           UNCHANGED <<record, remote, speech>>
    PROVE  IInv'
<1>1. CASE Finish(p)
  BY <1>1, GivesUp
<1>2. CASE /\ op[p].job \in SpeechJobs
           /\ op' = [op EXCEPT ![p] = [@ EXCEPT !.step = "RESTORE",
                         !.copy = record[op[p].job], !.after = "RACED"]]
  <2>1. op[p].job \in Jobs /\ PlaceOK(p) /\ JobOK(op[p].job)
    BY Running
  <2>2. op \in [Processes -> HandlerType] /\ record[op[p].job] \in RecordType
    BY <2>1 DEF IInv, JobOK
  <2>3. /\ OnlyHandler(p) /\ op'[p] \in HandlerType
        /\ op'[p].step = "RESTORE" /\ op'[p].job = op[p].job
        /\ op'[p].copy = record[op[p].job] /\ op'[p].after = "RACED"
    BY <1>2, <2>2 DEF OnlyHandler, HandlerType, SpeechSteps
  <2>4. Keeps(p) /\ ~Holds(p)'
    BY <2>3 DEF Keeps, Holds
  <2>5. PlaceOK(p)'
    BY <1>2, <2>1, <2>3 DEF PlaceOK, VideoSteps, speech, files
  <2>6. CopyOK(p)'
    <3>1. TrueRecord(op[p].copy, op[p].job)'
      BY <2>1, <2>3 DEF JobOK, TrueRecord, speech, files
    <3> QED
      BY <2>3, <3>1 DEF CopyOK, NoCopy
  <2>7. SpeechOK(p)'
    BY <2>3, <2>4 DEF SpeechOK, WithReceipt
  <2> QED
    BY <2>3, <2>4, <2>5, <2>6, <2>7, HandlerMoves DEF HandlerOK
<1> QED
  BY <1>1, <1>2 DEF LostRace

LEMMA CreateRecordStep ==
    ASSUME IInv, NEW p \in Processes, CreateRecord(p)
    PROVE  IInv'
<1>1. op[p].step = "INTENT" /\ UNCHANGED <<remote, speech>>
  BY DEF CreateRecord
<1>2. CASE /\ record[op[p].job].state = "ABSENT" /\ Finish(p)
           /\ record' = [record EXCEPT ![op[p].job] = op[p].copy]
  <2>1. /\ Grows /\ FilesTyped' /\ (\A k \in Jobs : JobOK(k)')
        /\ (\A t \in Tasks : TaskOK(t)')
    BY <1>1, <1>2, IntentPublished
  <2> QED
    BY <1>1, <1>2, <2>1, FinishOK, HandlersOK, TicketsKept DEF IInv, SameTasks
<1> QED
  BY <1>1, <1>2, AfterIntentStep, LostRaceStep DEF CreateRecord

LEMMA UpdateRecordStep ==
    ASSUME IInv, NEW p \in Processes, UpdateRecord(p)
    PROVE  IInv'
BY FinishOK, HandlerWrites DEF UpdateRecord, Overwrites, NoCopy

LEMMA AbandonStep ==
    ASSUME IInv, NEW p \in Processes, Abandon(p)
    PROVE  IInv'
BY GivesUp DEF Abandon

----------------------------------------------------------------------------
(***************************************************************************)
(* Speech: reading the files.                                              *)
(***************************************************************************)
\* A record overlaid with a published result is true.
LEMMA DeliveredOK ==
    ASSUME IInv, NEW j \in SpeechJobs, result[j], NEW rec \in RecordType
    PROVE  /\ Delivered(rec, receipt[j]) \in RecordType
           /\ TrueRecord(Delivered(rec, receipt[j]), j)
           /\ Delivered(rec, receipt[j]).input = rec.input
           /\ Delivered(rec, receipt[j]).state = "SUCCEEDED"
<1>1. FilesOK(j)
  BY SpeechAssumption DEF IInv, JobOK
<1>2. receipt[j] \in Tasks /\ stored[j]
  BY <1>1 DEF IInv, FilesTyped, FilesOK
<1>3. /\ Delivered(rec, receipt[j]) \in RecordType
      /\ Delivered(rec, receipt[j]).input = rec.input
      /\ Delivered(rec, receipt[j]).state = "SUCCEEDED"
      /\ Delivered(rec, receipt[j]).task = receipt[j]
  BY <1>2 DEF Delivered, RecordType, Terminal
<1>4. TrueRecord(Delivered(rec, receipt[j]), j)
  BY <1>1, <1>2, <1>3, NoTaskAssumption DEF TrueRecord, FilesOK
<1> QED
  BY <1>3, <1>4

LEMMA ServeSpeechJobStep ==
    ASSUME IInv, NEW p \in Processes, NEW j \in SpeechJobs, NEW after \in {"REPLAY", "GET"},
           ServeSpeechJob(p, j, after)
    PROVE  IInv'
<1>1. j \in Jobs /\ record[j] \in RecordType /\ TrueRecord(record[j], j)
  BY SpeechAssumption, JobTasks
<1>2. PICK copy \in RecordType : copy = Loaded(j)
  BY <1>1, DeliveredOK DEF Loaded
<1>3. TrueRecord(copy, j) /\ copy.state # "ABSENT" /\ copy.input = record[j].input
  BY <1>1, <1>2, DeliveredOK DEF Loaded, ServeSpeechJob
<1>4. op \in [Processes -> HandlerType] /\ NoRecord \in RecordType
  BY NoRecordTyped DEF IInv
<1>5. /\ OnlyHandler(p) /\ op'[p] \in HandlerType
      /\ op'[p].step = "RESTORE" /\ op'[p].job = j /\ op'[p].copy = copy
      /\ op'[p].after = after
  BY <1>1, <1>2, <1>4 DEF ServeSpeechJob, OnlyHandler, HandlerType, NoRequest, SpeechSteps
<1>6. Keeps(p) /\ ~Holds(p)'
  BY <1>5 DEF Keeps, Holds
<1>7. PlaceOK(p)'
  BY <1>5 DEF PlaceOK, VideoSteps, ServeSpeechJob, speech, files
<1>8. CopyOK(p)'
  <2>1. TrueRecord(op[p].copy, op[p].job)'
    BY <1>3, <1>5 DEF TrueRecord, ServeSpeechJob, speech, files
  <2> QED
    BY <1>3, <1>5, <2>1 DEF CopyOK, NoCopy, ServeSpeechJob
<1>9. SpeechOK(p)'
  BY <1>5, <1>6 DEF SpeechOK, WithReceipt
<1> QED
  BY <1>5, <1>6, <1>7, <1>8, <1>9, HandlerMoves DEF HandlerOK, ServeSpeechJob

LEMMA SpeechHandlerJob ==
    ASSUME IInv, NEW p \in Processes, op[p].step \in SpeechSteps
    PROVE  op[p].job \in SpeechJobs
BY Running DEF PlaceOK, SpeechSteps

LEMMA RestoreResultStep ==
    ASSUME IInv, NEW p \in Processes, op[p].step \in SpeechSteps \ NoCopy,
           result[op[p].job], RestoreResult(p), UNCHANGED <<record, remote, speech>>
    PROVE  IInv'
<1>1. op[p].job \in SpeechJobs /\ op[p].step \notin {"IDLE", "INTENT"}
  BY SpeechHandlerJob DEF SpeechSteps
<1>2. op[p].copy \in RecordType /\ op[p].copy.input = record[op[p].job].input
  BY <1>1, Running DEF CopyOK
<1>3. PICK copy \in RecordType : copy = Delivered(op[p].copy, receipt[op[p].job])
  BY <1>1, <1>2, DeliveredOK
<1>4. /\ TrueRecord(copy, op[p].job) /\ copy.state # "ABSENT"
      /\ copy.input = record[op[p].job].input
  BY <1>1, <1>2, <1>3, DeliveredOK
<1> QED
  BY <1>1, <1>3, <1>4, Saves DEF RestoreResult

\* GoesOn for the steps of speech, with the copy as it is.
LEMMA KeepsCopy ==
    ASSUME IInv, NEW p \in Processes, op[p].step \in SpeechSteps \ NoCopy,
           UNCHANGED <<record, remote, speech>>,
           NEW step \in SpeechSteps, step \notin NoCopy \cup {"RECEIPT", "REOPEN"},
           Continue(p, step, op[p].copy),
           step \in WithReceipt => receipt[op[p].job] # NoTask,
           step = "PUBLISH" => stored[op[p].job],
           step = "SPEAK" => Holds(p)
    PROVE  IInv'
<1>1. op[p].job \in SpeechJobs /\ op[p].step \notin {"IDLE", "INTENT"}
  BY SpeechHandlerJob DEF SpeechSteps
<1>2. /\ op[p].job \in Jobs /\ op[p].copy \in RecordType /\ TrueRecord(op[p].copy, op[p].job)
      /\ op[p].copy.state # "ABSENT" /\ op[p].copy.input = record[op[p].job].input
  BY <1>1, Running DEF CopyOK
<1>3. step \in Steps /\ step \notin {"IDLE", "INTENT", "RETRY"} \cup VideoSteps
  BY DEF Steps, SpeechSteps, VideoSteps, NoCopy
<1> QED
  BY <1>1, <1>2, <1>3, GoesOn

LEMMA NothingToReconcileStep ==
    ASSUME IInv, NEW p \in Processes, op[p].step = "RESTORE", NothingToReconcile(p),
           UNCHANGED <<record, remote, speech>>
    PROVE  IInv'
<1>1. op[p].step \in SpeechSteps \ NoCopy /\ op[p].job \in SpeechJobs
  BY SpeechHandlerJob DEF SpeechSteps, NoCopy
<1>2. op[p].copy \in RecordType /\ op[p].job \in Jobs
  BY <1>1, Running
<1>3. CASE Continue(p, "CLAIM", NoRecord)
  <2>1. TrueRecord(NoRecord, op[p].job)
    BY DEF TrueRecord, NoRecord, Record, Terminal
  <2>2. /\ "CLAIM" \in Steps \cap SpeechSteps \cap NoCopy /\ "CLAIM" \notin WithReceipt
        /\ "CLAIM" \notin {"IDLE", "INTENT", "RETRY"} \cup VideoSteps
    BY DEF Steps, SpeechSteps, NoCopy, WithReceipt, VideoSteps
  <2> QED
    BY <1>1, <1>2, <1>3, <2>1, <2>2, NoRecordTyped, GoesOn
<1>4. CASE op[p].after = "FRESH" /\ Continue(p, "SPEAK", op[p].copy)
  BY <1>1, <1>4, KeepsCopy DEF SpeechSteps, NoCopy, WithReceipt, Holds
<1>5. CASE Continue(p, "SAVE", Unrecorded(op[p].copy))
  <2>1. PICK copy \in RecordType : copy = Unrecorded(op[p].copy)
    BY <1>2 DEF Unrecorded, RecordType
  <2>2. /\ copy.task = op[p].copy.task /\ copy.input = op[p].copy.input
        /\ copy.state \notin Terminal \cup {"ABSENT"}
    BY <1>2, <2>1 DEF Unrecorded, RecordType, Terminal
  <2>3. TrueRecord(copy, op[p].job) /\ copy.input = record[op[p].job].input
    BY <1>1, <2>2, Reworded
  <2> QED
    BY <1>1, <1>5, <2>1, <2>2, <2>3, Saves
<1>6. CASE Finish(p)
  BY <1>6, GivesUp
<1> QED
  BY <1>3, <1>4, <1>5, <1>6 DEF NothingToReconcile

LEMMA ReconcileSpeechInspectionStep ==
    ASSUME IInv, NEW p \in Processes, ReconcileSpeechInspection(p)
    PROVE  IInv'
<1>1. op[p].step = "RESTORE" /\ UNCHANGED <<record, remote, speech>>
  BY DEF ReconcileSpeechInspection
<1>2. /\ op[p].step \in SpeechSteps \ NoCopy /\ op[p].job \in SpeechJobs
      /\ op[p].job \in Jobs /\ op[p].copy \in RecordType /\ CopyOK(p)
  BY <1>1, Running, SpeechHandlerJob DEF SpeechSteps, NoCopy
<1>3. CASE result[op[p].job] /\ RestoreResult(p)
  BY <1>1, <1>2, <1>3, RestoreResultStep
<1>4. CASE NothingToReconcile(p)
  BY <1>1, <1>4, NothingToReconcileStep
<1>5. CASE /\ receipt[op[p].job] # NoTask
           /\ Continue(p, "REPAIR", Pending(op[p].copy, receipt[op[p].job]))
  <2>1. receipt[op[p].job] \in Tasks /\ remote[receipt[op[p].job]].job = op[p].job
    BY <1>2, <1>5 DEF IInv, FilesTyped, JobOK, FilesOK
  <2>2. PICK copy \in RecordType : copy = Pending(op[p].copy, receipt[op[p].job])
    BY <1>2, <2>1 DEF Pending, RecordType
  <2>3. /\ copy.task = receipt[op[p].job] /\ copy.input = op[p].copy.input
        /\ copy.state = "REQUIRES_ACTION"
    BY <1>2, <2>2 DEF Pending, RecordType
  <2>4. TrueRecord(copy, op[p].job)
    BY <2>1, <2>3 DEF TrueRecord, Terminal
  <2>5. /\ "REPAIR" \in Steps \cap SpeechSteps
        /\ "REPAIR" \notin {"IDLE", "INTENT", "RETRY"} \cup VideoSteps \cup NoCopy
    BY DEF Steps, SpeechSteps, VideoSteps, NoCopy
  <2>6. copy.input = record[op[p].job].input
    BY <1>1, <1>2, <2>3 DEF CopyOK, NoCopy
  <2> QED
    BY <1>1, <1>2, <1>5, <2>2, <2>3, <2>4, <2>5, <2>6, GoesOn
<1> QED
  BY <1>3, <1>4, <1>5 DEF ReconcileSpeechInspection

LEMMA InspectSpeechStep ==
    ASSUME IInv, NEW p \in Processes, InspectSpeech(p)
    PROVE  IInv'
<1>1. op[p].step = "INSPECT" /\ UNCHANGED <<record, remote, speech>>
  BY DEF InspectSpeech
<1>2. op[p].step \in SpeechSteps \ NoCopy /\ receipt[op[p].job] # NoTask
  BY <1>1, Running DEF SpeechSteps, NoCopy, SpeechOK, WithReceipt
<1>3. CASE result[op[p].job] /\ RestoreResult(p)
  BY <1>1, <1>2, <1>3, RestoreResultStep
<1>4. CASE stored[op[p].job] /\ Continue(p, "PUBLISH", op[p].copy)
  BY <1>1, <1>2, <1>4, KeepsCopy DEF SpeechSteps, NoCopy
<1>5. CASE Continue(p, "REFUSE", op[p].copy)
  BY <1>1, <1>2, <1>5, KeepsCopy DEF SpeechSteps, NoCopy
<1> QED
  BY <1>3, <1>4, <1>5 DEF InspectSpeech

LEMMA RefuseInspectionStep ==
    ASSUME IInv, NEW p \in Processes, RefuseInspection(p)
    PROVE  IInv'
<1>1. op[p].step \in {"REFUSE", "CONFIRM"} /\ UNCHANGED <<record, remote, speech>>
  BY DEF RefuseInspection
<1>2. op[p].step \in SpeechSteps \ NoCopy /\ receipt[op[p].job] # NoTask
  BY <1>1, Running DEF SpeechSteps, NoCopy, SpeechOK, WithReceipt
<1>3. CASE result[op[p].job] /\ RestoreResult(p)
  BY <1>1, <1>2, <1>3, RestoreResultStep
<1>4. CASE Continue(p, "EXPOSE", op[p].copy)
  BY <1>1, <1>2, <1>4, KeepsCopy DEF SpeechSteps, NoCopy
<1>5. CASE Finish(p)
  BY <1>1, <1>5, GivesUp
<1> QED
  BY <1>3, <1>4, <1>5 DEF RefuseInspection

----------------------------------------------------------------------------
(***************************************************************************)
(* Speech: the updates of the record and the retry under its claim.        *)
(***************************************************************************)
LEMMA WriteStep ==
    ASSUME IInv, NEW p \in Processes, NEW from \in SpeechSteps \ NoCopy,
           NEW to \in {"INSPECT", "CONFIRM", "RESTORE"}, Write(p, from, to),
           to \in WithReceipt => receipt[op[p].job] # NoTask
    PROVE  IInv'
<1>1. /\ op[p].step = from /\ op[p].step \notin {"IDLE", "INTENT"} \cup NoCopy
      /\ UNCHANGED <<remote, speech>> /\ Overwrites(p)
  BY DEF Write, Overwrites, SpeechSteps
<1>2. Grows
  BY <1>1, RecordOverwritten
<1>3. PICK j \in Jobs : j = op[p].job
  BY <1>1, Running
<1>4. PICK copy \in RecordType : copy = op[p].copy
  BY <1>1, Running
<1>5. /\ TrueRecord(copy, j) /\ copy.state # "ABSENT" /\ copy.input = record[j].input
      /\ j \in SpeechJobs
  BY <1>1, <1>3, <1>4, Running, SpeechHandlerJob DEF CopyOK
<1>6. TrueRecord(copy, j)'
  BY <1>1, <1>5 DEF TrueRecord, speech, files
<1>7. /\ to \in Steps /\ to \notin {"IDLE", "INTENT", "RETRY"} \cup VideoSteps
  BY DEF Steps, SpeechSteps, VideoSteps
<1>8. to \in WithReceipt => receipt'[j] # NoTask
  BY <1>1, <1>3 DEF speech, files
<1>9. Continue(p, to, copy)
  BY <1>4 DEF Write
<1>10. OnlyHandler(p) /\ HandlerOK(p)' /\ Keeps(p)
  BY <1>1, <1>2, <1>3, <1>5, <1>6, <1>7, <1>8, <1>9, ContinueOK
<1> QED
  BY <1>1, <1>10, HandlerWrites

LEMMA WritesStep ==
    ASSUME IInv, NEW p \in Processes,
           RepairRecord(p) \/ ExposeRefusal(p) \/ CheckpointInspection(p)
    PROVE  IInv'
<1>1. op[p].step \in WithReceipt
  BY DEF RepairRecord, ExposeRefusal, CheckpointInspection, Write, WithReceipt
<1>2. receipt[op[p].job] # NoTask
  BY <1>1, Running DEF SpeechOK, WithReceipt
<1> QED
  BY <1>2, WriteStep DEF RepairRecord, ExposeRefusal, CheckpointInspection, SpeechSteps, NoCopy

LEMMA BeginSpeechRetryStep ==
    ASSUME IInv, NEW p \in Processes, BeginSpeechRetry(p)
    PROVE  IInv'
<1>1. /\ op[p].step = "REOPEN" /\ Overwrites(p) /\ UNCHANGED <<remote, speech>>
  BY DEF BeginSpeechRetry, Overwrites, NoCopy
<1>2. /\ op[p].job \in Jobs /\ PlaceOK(p) /\ CopyOK(p) /\ SpeechOK(p) /\ Holds(p)
      /\ op[p].job \in SpeechJobs /\ op[p].copy \in RecordType
  BY <1>1, Running, SpeechHandlerJob DEF SpeechSteps, Holds
<1>3. op \in [Processes -> HandlerType]
  BY DEF IInv
<1>4. /\ OnlyHandler(p) /\ op'[p] \in HandlerType
      /\ op'[p].step = "RESTORE" /\ op'[p].after = "FRESH" /\ op'[p].job = op[p].job
      /\ op'[p].copy = op[p].copy /\ op'[p].ticket = op[p].ticket
  BY <1>3 DEF BeginSpeechRetry, OnlyHandler, HandlerType, SpeechSteps
<1>5. Keeps(p)
  BY <1>2, <1>4 DEF Keeps
<1>6. record'[op[p].job] = op[p].copy
  BY <1>1, <1>2 DEF IInv, FilesTyped, Overwrites
<1>7. PlaceOK(p)'
  BY <1>1, <1>2, <1>4 DEF PlaceOK, VideoSteps, speech, files
<1>8. CopyOK(p)'
  <2>1. TrueRecord(op[p].copy, op[p].job)'
    BY <1>1, <1>2, <1>4 DEF CopyOK, TrueRecord, speech, files
  <2> QED
    BY <1>1, <1>2, <1>4, <1>6, <2>1 DEF CopyOK, NoCopy
<1>9. SpeechOK(p)'
  BY <1>1, <1>2, <1>4 DEF SpeechOK, WithReceipt, speech, files
<1> QED
  BY <1>1, <1>4, <1>5, <1>7, <1>8, <1>9, HandlerWrites DEF HandlerOK

LEMMA ReadAfterClaimStep ==
    ASSUME IInv, NEW p \in Processes, ReadAfterClaim(p)
    PROVE  IInv'
<1>1. op[p].step = "RETRY" /\ UNCHANGED <<record, remote, speech>>
  BY DEF ReadAfterClaim
<1>2. op[p].job \in SpeechJobs /\ op[p].job \in Jobs /\ Holds(p)
  BY <1>1, Running, SpeechHandlerJob DEF SpeechSteps, Holds
<1>3. CASE Finish(p)
  BY <1>1, <1>3, GivesUp
<1>4. CASE Authorized(p, record[op[p].job]) /\ Continue(p, "REOPEN", Retried(record[op[p].job]))
  <2>1. PICK rec \in RecordType : rec = record[op[p].job]
    BY <1>2, JobTasks
  <2>2. rec.task = NoTask /\ rec.history < 2
    BY <1>4, <2>1 DEF Authorized, Retriable
  <2>3. rec.history + 1 \in 0 .. 2
    BY <2>2 DEF RecordType
  <2>4. PICK copy \in RecordType : copy = Retried(rec)
    BY <2>3 DEF Retried, RecordType
  <2>5. copy.task = NoTask /\ copy.state = "UNKNOWN" /\ copy.input = rec.input
    BY <2>2, <2>4 DEF Retried, RecordType
  <2>6. TrueRecord(copy, op[p].job)
    BY <2>5 DEF TrueRecord, Terminal
  <2>7. /\ "REOPEN" \in Steps /\ "REOPEN" \notin WithReceipt
        /\ "REOPEN" \notin {"IDLE", "INTENT", "RETRY"} \cup VideoSteps
    BY DEF Steps, SpeechSteps, VideoSteps, WithReceipt
  <2> QED
    BY <1>1, <1>2, <1>4, <2>1, <2>4, <2>5, <2>6, <2>7, GoesOn
<1> QED
  BY <1>3, <1>4 DEF ReadAfterClaim

LEMMA SpeakRefusedStep ==
    ASSUME IInv, NEW p \in Processes, SpeakRefused(p)
    PROVE  IInv'
<1>1. PICK state \in RefusalOutcomes :
          Continue(p, "SAVE", [op[p].copy EXCEPT !.state = state, !.error = "REFUSED"])
  BY DEF SpeakRefused
<1>2. op[p].step = "SPEAK" /\ op[p].copy \in RecordType
  BY Running DEF SpeakRefused
<1>3. PICK copy \in RecordType :
          copy = [op[p].copy EXCEPT !.state = state, !.error = "REFUSED"]
  BY <1>2 DEF RecordType, RefusalOutcomes
<1>4. /\ copy.task = op[p].copy.task /\ copy.input = op[p].copy.input
      /\ copy.state \notin Terminal \cup {"ABSENT"}
  BY <1>2, <1>3 DEF RecordType, RefusalOutcomes, Terminal
<1>5. TrueRecord(copy, op[p].job) /\ copy.input = record[op[p].job].input
  BY <1>2, <1>4, Reworded DEF NoCopy
<1> QED
  BY <1>1, <1>2, <1>3, <1>4, <1>5, Saves DEF SpeakRefused

LEMMA SpeakAnsweredStep ==
    ASSUME IInv, NEW p \in Processes, NEW t \in Tasks, SpeakAnswered(p, t)
    PROVE  IInv'
<1>1. PICK status \in {"SUCCEEDED", "FAILED"} :
          /\ NewTask(p, t, status)
          /\ \/ /\ status = "SUCCEEDED"
                /\ Continue(p, "RECEIPT", Pending(op[p].copy, t))
             \/ \E state \in RefusalOutcomes, error \in {"REFUSED", "TRACED"} :
                   Continue(p, "SAVE", [op[p].copy EXCEPT !.state = state, !.error = error])
  BY DEF SpeakAnswered
<1>2. /\ op[p].step = "SPEAK" /\ op[p].copy \in RecordType /\ UNCHANGED <<record, speech>>
      /\ status \in Terminal \cup Active
  BY Running DEF SpeakAnswered, Terminal
<1>3. CASE status = "SUCCEEDED" /\ Continue(p, "RECEIPT", Pending(op[p].copy, t))
  <2>1. PICK copy \in RecordType : copy = Pending(op[p].copy, t)
    BY <1>2 DEF Pending, RecordType
  <2>2. /\ copy.task = t /\ copy.input = op[p].copy.input
        /\ copy.state \notin Terminal \cup {"ABSENT"}
    BY <1>2, <2>1 DEF Pending, RecordType, Terminal
  <2> QED
    BY <1>1, <1>2, <1>3, <2>1, <2>2, PaidAndSaved
<1>4. ASSUME NEW state \in RefusalOutcomes, NEW error \in {"REFUSED", "TRACED"},
             Continue(p, "SAVE", [op[p].copy EXCEPT !.state = state, !.error = error])
      PROVE  IInv'
  <2>1. PICK copy \in RecordType :
            copy = [op[p].copy EXCEPT !.state = state, !.error = error]
    BY <1>2 DEF RecordType, RefusalOutcomes
  <2>2. /\ copy.task = op[p].copy.task /\ copy.input = op[p].copy.input
        /\ copy.state \notin Terminal \cup {"ABSENT"}
    BY <1>2, <2>1 DEF RecordType, RefusalOutcomes, Terminal
  <2> QED
    BY <1>1, <1>2, <1>4, <2>1, <2>2, PaidAndSaved
<1> QED
  BY <1>1, <1>3, <1>4

----------------------------------------------------------------------------
(***************************************************************************)
(* Speech: the immutable files.                                            *)
(***************************************************************************)
\* A file of one job appears; every record stays true.
LEMMA FileAppears ==
    ASSUME IInv, Grows, FilesTyped', UNCHANGED <<record, remote>>, NEW j \in SpeechJobs,
           \A k \in SpeechJobs \ {j} : /\ receipt'[k] = receipt[k] /\ stored'[k] = stored[k]
                                       /\ result'[k] = result[k],
           FilesOK(j)'
    PROVE  (\A k \in Jobs : JobOK(k)') /\ (\A t \in Tasks : TaskOK(t)') /\ SameTasks
<1>1. ASSUME NEW k \in Jobs PROVE JobOK(k)'
  <2>1. JobOK(k) /\ (k \in SpeechJobs => receipt[k] \in Tasks \cup {NoTask})
    BY DEF IInv, FilesTyped
  <2>2. CASE k = j
    <3>1. /\ record[k] \in RecordType /\ TrueRecord(record[k], k)
          /\ record[k].task \in Tasks \cup {NoTask}
      BY <2>1 DEF JobOK, RecordType
    <3>2. TrueRecord(record[k], k)'
      BY <3>1, NoTaskAssumption DEF TrueRecord, Grows
    <3>3. BatchReady(k) => BatchReady(k)'
      BY BatchStable
    <3> QED
      BY <2>1, <2>2, <3>2, <3>3 DEF JobOK
  <2>3. CASE k # j
    BY <2>1, <2>3, JobStable
  <2> QED
    BY <2>2, <2>3
<1>2. ASSUME NEW t \in Tasks PROVE TaskOK(t)'
  <2>1. TaskOK(t)
    BY DEF IInv
  <2> QED
    BY <2>1, TaskStable DEF TaskOK
<1> QED
  BY <1>1, <1>2 DEF SameTasks

LEMMA PublishResultStep ==
    ASSUME IInv, NEW p \in Processes, PublishResult(p)
    PROVE  IInv'
<1>1. /\ op[p].step = "PUBLISH" /\ result' = [result EXCEPT ![op[p].job] = TRUE]
      /\ UNCHANGED <<record, remote, serves, receipt, stored, claims, retry>>
  BY DEF PublishResult
<1>2. /\ op[p].job \in Jobs /\ op[p].copy \in RecordType /\ op[p].step \in SpeechSteps
      /\ CopyOK(p) /\ SpeechOK(p)
  BY <1>1, Running DEF SpeechSteps
<1>3. PICK j \in SpeechJobs : j = op[p].job
  BY <1>2, SpeechHandlerJob
<1>4. FilesTyped /\ FilesOK(j) /\ stored[j] /\ receipt[j] # NoTask
  BY <1>1, <1>2, <1>3, SpeechAssumption DEF IInv, JobOK, SpeechOK, FilesOK
<1>5. /\ result'[j] /\ \A k \in SpeechJobs \ {j} : result'[k] = result[k]
      /\ result' \in [SpeechJobs -> BOOLEAN]
  BY <1>1, <1>3, <1>4 DEF FilesTyped
<1>6. Grows
  BY <1>1, <1>5 DEF Grows
<1>7. FilesTyped'
  BY <1>1, <1>4, <1>5 DEF FilesTyped
<1>8. FilesOK(j)'
  BY <1>1, <1>4, <1>5 DEF FilesOK
<1>9. (\A k \in Jobs : JobOK(k)') /\ (\A t \in Tasks : TaskOK(t)') /\ SameTasks
  BY <1>1, <1>5, <1>6, <1>7, <1>8, FileAppears
<1>10. OnlyHandler(p) /\ HandlerOK(p)' /\ Keeps(p)
  <2>1. receipt[j] \in Tasks
    BY <1>4 DEF FilesTyped
  <2>2. PICK copy \in RecordType : copy = Delivered(op[p].copy, receipt[j])
    BY <1>2, <2>1 DEF Delivered, RecordType, Terminal
  <2>3. copy.task = receipt[j] /\ copy.input = op[p].copy.input /\ copy.state = "SUCCEEDED"
    BY <1>2, <2>2 DEF Delivered, RecordType
  <2>4. TrueRecord(copy, j)'
    BY <1>1, <1>4, <1>5, <2>3 DEF TrueRecord, FilesOK
  <2>5. Continue(p, "SAVE", copy) /\ copy.input = record[j].input
    BY <1>1, <1>2, <1>3, <2>2, <2>3 DEF PublishResult, RestoreResult, CopyOK, NoCopy
  <2>6. /\ "SAVE" \in Steps /\ "SAVE" \notin VideoSteps \cup SpeechSteps
        /\ "SAVE" \notin WithReceipt
    BY DEF Steps, VideoSteps, SpeechSteps, WithReceipt
  <2> QED
    BY <1>1, <1>2, <1>3, <1>6, <2>3, <2>4, <2>5, <2>6, ContinueOK
<1> QED
  BY <1>6, <1>7, <1>9, <1>10, HandlersOK, TicketsKept DEF IInv

\* A handler that goes on after it published a file, or failed to.
LEMMA FileStep ==
    ASSUME IInv, NEW p \in Processes, op[p].step \in {"RECEIPT", "STORE"},
           Grows, FilesTyped', UNCHANGED <<record, remote>>,
           \A k \in SpeechJobs \ {op[p].job} :
               receipt'[k] = receipt[k] /\ stored'[k] = stored[k] /\ result'[k] = result[k],
           NEW j \in SpeechJobs, j = op[p].job, FilesOK(j)',
           NEW step \in {"SAVE", "STORE", "CHECKPOINT"},
           NEW copy \in RecordType, Continue(p, step, copy),
           TrueRecord(copy, j), copy.state # "ABSENT", copy.input = op[p].copy.input,
           step # "SAVE" => receipt'[j] # NoTask
    PROVE  IInv'
<1>1. (\A k \in Jobs : JobOK(k)') /\ (\A t \in Tasks : TaskOK(t)') /\ SameTasks
  BY FileAppears
<1>2. op[p].step \notin {"IDLE", "INTENT"} \cup NoCopy /\ j \in Jobs
  BY SpeechAssumption DEF NoCopy
<1>3. copy.input = record[j].input
  BY <1>2, Running DEF CopyOK
<1>4. TrueRecord(copy, j)'
  BY <1>2, TrueRecordStable
<1>5. /\ step \in Steps /\ step \notin {"IDLE", "INTENT", "RETRY"} \cup VideoSteps
      /\ (step \in WithReceipt => receipt'[j] # NoTask)
  BY DEF Steps, VideoSteps, SpeechSteps, WithReceipt
<1>6. OnlyHandler(p) /\ HandlerOK(p)' /\ Keeps(p)
  BY <1>2, <1>3, <1>4, <1>5, ContinueOK
<1> QED
  BY <1>1, <1>6, HandlersOK, TicketsKept DEF IInv

LEMMA CreateSpeechInspectionReceiptStep ==
    ASSUME IInv, NEW p \in Processes, CreateSpeechInspectionReceipt(p)
    PROVE  IInv'
<1> DEFINE kept == Continue(p, "SAVE", [op[p].copy EXCEPT !.state = "UNKNOWN"])
<1>1. /\ op[p].step = "RECEIPT"
      /\ UNCHANGED <<record, remote, serves, stored, result, claims, retry>>
  BY DEF CreateSpeechInspectionReceipt
<1>2. PICK j \in SpeechJobs : j = op[p].job
  BY <1>1, SpeechHandlerJob DEF SpeechSteps
<1>3. /\ op[p].copy \in RecordType /\ CopyOK(p) /\ SpeechOK(p) /\ j \in Jobs
  BY <1>1, Running, SpeechAssumption
<1>4. /\ op[p].copy.task \in Tasks /\ remote[op[p].copy.task].job = j
      /\ remote[op[p].copy.task].status = "SUCCEEDED"
  BY <1>1, <1>2, <1>3 DEF CopyOK, SpeechOK, TrueRecord, RecordType
<1>5. FilesTyped /\ FilesOK(j)
  BY <1>3 DEF IInv, JobOK
<1>6. \/ receipt[j] = NoTask /\ receipt' = [receipt EXCEPT ![j] = op[p].copy.task]
      \/ receipt' = receipt
  BY <1>2 DEF CreateSpeechInspectionReceipt
<1>7. /\ receipt[j] # NoTask => receipt'[j] = receipt[j]
      /\ \A k \in SpeechJobs \ {j} : receipt'[k] = receipt[k]
      /\ receipt' \in [SpeechJobs -> Tasks \cup {NoTask}]
  BY <1>4, <1>5, <1>6 DEF FilesTyped
<1>8. Grows
  BY <1>1, <1>7 DEF Grows
<1>9. FilesTyped'
  BY <1>1, <1>5, <1>7 DEF FilesTyped
<1>10. FilesOK(j)'
  BY <1>1, <1>4, <1>5, <1>6, NoTaskAssumption DEF FilesOK, FilesTyped
<1>11. CASE kept
  <2>1. PICK copy \in RecordType : copy = [op[p].copy EXCEPT !.state = "UNKNOWN"]
    BY <1>3 DEF RecordType
  <2>2. /\ copy.task = op[p].copy.task /\ copy.input = op[p].copy.input
        /\ copy.state \notin Terminal \cup {"ABSENT"}
    BY <1>3, <2>1 DEF RecordType, Terminal
  <2>3. TrueRecord(copy, j)
    BY <1>1, <1>2, <2>2, Reworded DEF NoCopy
  <2> QED
    BY <1>1, <1>2, <2>3, <1>7, <1>8, <1>9, <1>10, <1>11, <2>1, <2>2, FileStep
<1>12. TrueRecord(op[p].copy, j) /\ op[p].copy.state # "ABSENT"
  BY <1>1, <1>2, <1>3 DEF CopyOK, NoCopy
<1>13. CASE Continue(p, "SAVE", op[p].copy)
  BY <1>1, <1>2, <1>3, <1>7, <1>8, <1>9, <1>10, <1>12, <1>13, FileStep
<1>14. CASE receipt'[j] # NoTask /\ Continue(p, "STORE", op[p].copy)
  BY <1>1, <1>2, <1>3, <1>7, <1>8, <1>9, <1>10, <1>12, <1>14, FileStep
<1> QED
  BY <1>2, <1>4, <1>5, <1>11, <1>13, <1>14, NoTaskAssumption
     DEF CreateSpeechInspectionReceipt, FilesTyped

LEMMA StoreSpeechStep ==
    ASSUME IInv, NEW p \in Processes, StoreSpeech(p)
    PROVE  IInv'
<1>1. /\ op[p].step = "STORE"
      /\ UNCHANGED <<record, remote, serves, receipt, result, claims, retry>>
  BY DEF StoreSpeech
<1>2. PICK j \in SpeechJobs : j = op[p].job
  BY <1>1, SpeechHandlerJob DEF SpeechSteps
<1>3. op[p].copy \in RecordType /\ CopyOK(p) /\ SpeechOK(p) /\ j \in Jobs
  BY <1>1, Running, SpeechAssumption
<1>4. FilesTyped /\ FilesOK(j) /\ receipt[j] # NoTask
  BY <1>1, <1>2, <1>3 DEF IInv, JobOK, SpeechOK, WithReceipt
<1>5. stored' = [stored EXCEPT ![j] = TRUE] \/ stored' = stored
  BY <1>2 DEF StoreSpeech
<1>6. /\ stored[j] => stored'[j]
      /\ \A k \in SpeechJobs \ {j} : stored'[k] = stored[k]
      /\ stored' \in [SpeechJobs -> BOOLEAN]
  BY <1>4, <1>5 DEF FilesTyped
<1>7. Grows
  BY <1>1, <1>6 DEF Grows
<1>8. FilesTyped'
  BY <1>1, <1>4, <1>6 DEF FilesTyped
<1>9. FilesOK(j)'
  BY <1>1, <1>4, <1>6 DEF FilesOK
<1>10. TrueRecord(op[p].copy, j) /\ op[p].copy.state # "ABSENT"
  BY <1>1, <1>2, <1>3 DEF CopyOK, NoCopy
<1>11. \E step \in {"SAVE", "CHECKPOINT"} : Continue(p, step, op[p].copy)
  BY DEF StoreSpeech
<1> QED
  BY <1>1, <1>2, <1>3, <1>4, <1>6, <1>7, <1>8, <1>9, <1>10, <1>11, FileStep

LEMMA CreateSpeechRetryClaimStep ==
    ASSUME IInv, NEW p \in Processes, CreateSpeechRetryClaim(p)
    PROVE  IInv'
<1>1. /\ op[p].step = "CLAIM"
      /\ UNCHANGED <<record, remote, serves, receipt, stored, result, retry>>
  BY DEF CreateSpeechRetryClaim
<1>2. PICK j \in SpeechJobs : j = op[p].job
  BY <1>1, SpeechHandlerJob DEF SpeechSteps
<1>3. j \in Jobs /\ PlaceOK(p) /\ CopyOK(p)
  BY <1>1, Running, SpeechAssumption
<1>4. CASE /\ Authorized(p, record[j]) /\ retry[p] \notin claims[j]
           /\ claims' = [claims EXCEPT ![j] = @ \cup {retry[p]}]
           /\ Claimed(p)
  <2>1. FilesTyped /\ op \in [Processes -> HandlerType] /\ FilesOK(j)
    BY <1>3 DEF IInv, JobOK
  <2>2. /\ retry[p] \in RecordType /\ retry[p] # NoRecord
        /\ record[j].state # "ABSENT"
    BY <1>4, <2>1 DEF Authorized, Retriable, FilesTyped, NoRecord, Record
  <2>3. /\ claims' \in [SpeechJobs -> SUBSET RecordType]
        /\ claims'[j] = claims[j] \cup {retry[p]}
        /\ \A k \in SpeechJobs : claims[k] \subseteq claims'[k]
    BY <1>4, <2>1, <2>2 DEF FilesTyped
  <2>4. Grows
    BY <1>1, <2>3 DEF Grows
  <2>5. FilesTyped'
    BY <1>1, <2>1, <2>3 DEF FilesTyped
  <2>6. FilesOK(j)'
    BY <1>1, <2>1 DEF FilesOK
  <2>7. (\A k \in Jobs : JobOK(k)') /\ (\A t \in Tasks : TaskOK(t)')
    BY <1>1, <2>4, <2>5, <2>6, FileAppears
  <2>8. /\ OnlyHandler(p) /\ op'[p] \in HandlerType
        /\ op'[p].step = "RETRY" /\ op'[p].job = j /\ op'[p].copy = op[p].copy
        /\ op'[p].ticket = retry[p]
    BY <1>2, <1>4, <2>1, <2>2 DEF Claimed, OnlyHandler, HandlerType, SpeechSteps
  <2>9. PlaceOK(p)'
    BY <1>1, <1>2, <1>3, <2>8 DEF PlaceOK, VideoSteps, SpeechSteps
  <2>10. CopyOK(p)'
    <3>1. TrueRecord(op[p].copy, op[p].job)'
      BY <1>1, <1>2, <1>3, <2>8 DEF CopyOK, TrueRecord
    <3> QED
      BY <1>1, <2>2, <2>8, <3>1 DEF CopyOK, NoCopy
  <2>11. SpeechOK(p)'
    BY <2>3, <2>8 DEF SpeechOK, WithReceipt
  <2>12. (op \in [Processes -> HandlerType])' /\ \A q \in Processes : HandlerOK(q)'
    <3>1. HandlerOK(p)'
      BY <2>8, <2>9, <2>10, <2>11 DEF HandlerOK
    <3> QED
      BY <2>4, <2>8, <3>1, HandlersOK
  <2>13. ASSUME NEW q \in Processes, Holds(q), op[q].job = j
         PROVE  op[q].ticket # retry[p]
    <3>1. SpeechOK(q)
      BY <2>13, Running DEF Holds
    <3> QED
      BY <1>4, <2>2, <2>13, <3>1 DEF SpeechOK
  <2>14. ASSUME NEW t \in Tasks, remote[t].job = j
         PROVE  remote[t].ticket # retry[p]
    BY <1>3, <1>4, <2>2, <2>14, NoJobAssumption DEF IInv, TaskOK
  <2>15. Tickets'
    BY <1>1, <2>8, <2>13, <2>14, NewHolder
  <2> QED
    BY <2>5, <2>7, <2>12, <2>15 DEF IInv
<1>5. CASE Finish(p) /\ UNCHANGED claims
  BY <1>1, <1>5, GivesUp DEF speech, files
<1> QED
  BY <1>2, <1>4, <1>5 DEF CreateSpeechRetryClaim

LEMMA AuthorizeRetryStep ==
    ASSUME IInv, NEW p \in Processes, NEW j \in SpeechJobs, AuthorizeRetry(p, j)
    PROVE  IInv'
<1>1. record[j] \in RecordType
  BY SpeechAssumption, JobTasks
<1>2. /\ retry' = [retry EXCEPT ![p] = record[j]]
      /\ UNCHANGED <<record, op, remote, receipt, stored, result, claims, serves>>
  BY DEF AuthorizeRetry, files
<1>3. FilesTyped'
  BY <1>1, <1>2 DEF IInv, FilesTyped
<1>4. \A k \in Jobs : JobOK(k)'
  BY <1>2 DEF IInv, JobOK, TrueRecord, FilesOK, BatchReady
<1>5. \A t \in Tasks : TaskOK(t)'
  BY <1>2 DEF IInv, TaskOK
<1>6. \A q \in Processes : HandlerOK(q)'
  BY <1>2 DEF IInv, HandlerOK, PlaceOK, CopyOK, SpeechOK, Holds, TrueRecord, BatchReady
<1>7. Tickets'
  BY <1>2 DEF IInv, Tickets, Holds
<1> QED
  BY <1>2, <1>3, <1>4, <1>5, <1>6, <1>7 DEF IInv

----------------------------------------------------------------------------
LEMMA InitIInv == Init => IInv
<1> SUFFICES ASSUME Init PROVE IInv
  OBVIOUS
<1>1. /\ NoRecord \in RecordType /\ NoRecord.state = "ABSENT" /\ NoRecord.task = NoTask
      /\ NoRequest \in HandlerType /\ NoRequest.step = "IDLE"
  BY NoRecordTyped DEF NoRecord, Record, NoRequest, HandlerType
<1>2. FilesTyped /\ op \in [Processes -> HandlerType]
  BY <1>1 DEF Init, FilesTyped, TaskType
<1>3. \A j \in Jobs : JobOK(j)
  BY <1>1 DEF Init, JobOK, TrueRecord, FilesOK, Terminal
<1>4. \A t \in Tasks : TaskOK(t)
  BY <1>1 DEF Init, TaskOK, TaskType
<1>5. \A p \in Processes : HandlerOK(p) /\ ~Holds(p)
  BY <1>1 DEF Init, HandlerOK, Holds
<1>6. Tickets
  BY <1>5 DEF Init, Tickets
<1> QED
  BY <1>2, <1>3, <1>4, <1>5, <1>6 DEF IInv

LEMMA HandlerStep ==
    ASSUME IInv, NEW p \in Processes, Handler(p)
    PROVE  IInv'
BY CreateJobStep, GetJobStep, CancelJobStep, CreateRecordStep, SubmitAcceptedStep,
   SubmitRefusedStep, UpdateRecordStep, PollTaskStep, CancelTaskStep, AbandonStep
   DEF Handler

LEMMA SpeechHandlerStep ==
    ASSUME IInv, NEW p \in Processes, SpeechHandler(p)
    PROVE  IInv'
BY ServeSpeechJobStep, AuthorizeRetryStep, ReconcileSpeechInspectionStep, WritesStep,
   InspectSpeechStep, PublishResultStep, RefuseInspectionStep, SpeakAnsweredStep,
   SpeakRefusedStep, CreateSpeechInspectionReceiptStep, StoreSpeechStep,
   CreateSpeechRetryClaimStep, ReadAfterClaimStep, BeginSpeechRetryStep
   DEF SpeechHandler

LEMMA NextIInv == IInv /\ [Next]_vars => IInv'
<1> SUFFICES ASSUME IInv, [Next]_vars PROVE IInv'
  OBVIOUS
<1>1. CASE UNCHANGED vars
  BY <1>1 DEF vars, speech, files, IInv, FilesTyped, JobOK, TaskOK, HandlerOK, PlaceOK,
     CopyOK, SpeechOK, Holds, Tickets, TrueRecord, FilesOK, BatchReady
<1> QED
  BY <1>1, HandlerStep, SpeechHandlerStep, TaskProgressStep DEF Next

----------------------------------------------------------------------------
\* The inductive invariant holds however processes, crashes and answers interleave.
THEOREM Invariance == Spec => []IInv
<1> QED
  BY InitIInv, NextIInv, PTL DEF Spec

\* Files, handlers and tasks keep their shape, and a handler that asks the provider
\* about a task knows which one.
THEOREM TypeCorrect == Spec => []TypeOK
<1>1. IInv => TypeOK
  BY DEF IInv, FilesTyped, HandlerOK, PlaceOK, TypeOK, SpeechSteps
<1> QED
  BY <1>1, Invariance, PTL

\* Two tasks of one job were never bought under the same intent or claim.
THEOREM PaidOnce == Spec => []OnePaidTask
<1>1. IInv => OnePaidTask
  BY DEF IInv, Tickets, TaskOK, OnePaidTask
<1> QED
  BY <1>1, Invariance, PTL

\* A paid task has a durable intent with its input, and follows every earlier cue of
\* its batch.
THEOREM IntentFirst == Spec => []TaskHasIntent
<1>1. ASSUME IInv, NEW t \in Tasks, remote[t].status # "NONE"
      PROVE  /\ record[remote[t].job].input = remote[t].input
             /\ remote[t].job \in SpeechJobs =>
                    \A k \in Before[remote[t].job] : result[k]
  <2>1. TaskOK(t) /\ remote[t].job # NoJob /\ remote[t].job \in Jobs
    BY <1>1 DEF IInv, TaskOK, TaskType
  <2>2. JobOK(remote[t].job)
    BY <1>1, <2>1 DEF IInv
  <2> QED
    BY <2>1, <2>2 DEF TaskOK, JobOK, BatchReady
<1>2. IInv => TaskHasIntent
  BY <1>1 DEF TaskHasIntent
<1> QED
  BY <1>2, Invariance, PTL

\* A record never claims an outcome that the provider and the files do not bear out.
THEOREM NeverOverclaims == Spec => []RecordNeverOverclaims
<1>1. IInv => RecordNeverOverclaims
  BY DEF IInv, JobOK, TrueRecord, RecordNeverOverclaims
<1> QED
  BY <1>1, Invariance, PTL
=============================================================================
