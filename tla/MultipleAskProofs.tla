-------------------------- MODULE MultipleAskProofs --------------------------
(***************************************************************************)
(* Theorems about a Multiple Ask batch for every paper, batch size, number *)
(* of workers and attempt limit, with executions that overlap, raise and   *)
(* die at any step.                                                        *)
(*                                                                         *)
(* The argument has layers.  TypeInv gives the rows their types and a      *)
(* leased row an attempt.  QuietBefore says that nothing is queued before  *)
(* the submission, so that a submission cannot meet work of its own batch. *)
(* ChargeInv adds that an execution which reads questions, perhaps one     *)
(* whose lease has passed to another, has been paid for.  ItemsInv ties    *)
(* the items to the batch's status: they appear together, once, and only   *)
(* between extraction and answering.  ChainInv follows the chain of answer *)
(* jobs: the count in a job's key bounds what is pending when it runs, so  *)
(* that a job always hands over to one not queued before, and a batch in   *)
(* answering always has a job.  With the attempts counted (AttemptsMade)   *)
(* every step of the rows is a step of JobDelivery or none.  OnceInv shows *)
(* that a refund is final where the validation is executed once.           *)
(***************************************************************************)
EXTENDS MultipleAsk, FiniteSetTheorems, WellFoundedInduction, TLAPS

-----------------------------------------------------------------------------
(* Types *)

TaskRecords == [pc : PCs, key : Keys, todo : SUBSET Items, rest : 0..NItems]

Rows == [status : {"absent", "waiting", "leased", "succeeded", "failed"},
         attempts : 0..MaxAttempts, holder : Tasks \cup {None}]

\* A row that may be leased has an attempt left.
AttemptsLeft ==
  \A k \in Keys : /\ queue[k].status = "absent" => queue[k].attempts = 0
                  /\ queue[k].status = "waiting" => queue[k].attempts < MaxAttempts

\* The answer handler runs for keys of an epoch.
AnswersHaveEpoch ==
  \A t \in Tasks : task[t].pc \in {"begin", "mcq", "mcq_save"} => task[t].key.epoch \in Epochs

TaskTypeOK == task \in [Tasks -> {Idle} \cup TaskRecords] /\ AnswersHaveEpoch
QueueTypeOK == queue \in [Keys -> Rows] /\ AttemptsLeft

ParentTypeOK ==
  /\ session \in {"none", "created", "finalized", "raw_source_purged"}
  /\ source \in {"good", "bad", "purged"}
  /\ workflow_status \in Workflows
  /\ quota_status \in {"not_reserved", "committed", "refunded"}
  /\ reservation \in {"none", "committed", "refunded"}
  /\ extraction_epoch \in Nat /\ answer_epoch \in Nat
  /\ starting \in BOOLEAN

ItemsTypeOK ==
  /\ item_status \in [Items -> ItemStatuses]
  /\ answers \subseteq Items
  /\ mcq_batches \subseteq Epochs

TypeInv == TaskTypeOK /\ QueueTypeOK /\ ParentTypeOK /\ ItemsTypeOK

\* The keys name a stage of the handlers, and those of answers an epoch.
LEMMA StagesOfKeys ==
  ASSUME NEW k \in Keys
  PROVE  /\ k.stage \in {"validate", "extract", "answer"}
         /\ k.stage = "answer" => k.epoch \in Epochs
  BY DEF Keys, Validate, Extract, Answer

\* A task that does something has a record with a key.
LEMMA BusyTask ==
  ASSUME TaskTypeOK, NEW t \in Tasks, task[t].pc # "idle" PROVE task[t] \in TaskRecords
  BY DEF TaskTypeOK, Idle

\* A handler's move to its next statement.
LEMMA GotoTyped ==
  ASSUME TaskTypeOK, NEW t \in Tasks, task[t].pc # "idle", NEW pc \in PCs, Goto(t, pc),
         pc \in {"begin", "mcq", "mcq_save"} => task[t].pc \in {"begin", "mcq", "mcq_save"}
  PROVE  TaskTypeOK'
<1>1. task[t] \in TaskRecords
  BY BusyTask
<1>2. [task[t] EXCEPT !.pc = pc] \in TaskRecords
  BY <1>1 DEF TaskRecords
<1>3. task' = [task EXCEPT ![t] = [task[t] EXCEPT !.pc = pc]]
  BY DEF Goto
<1>4. task' \in [Tasks -> {Idle} \cup TaskRecords]
  BY <1>2, <1>3 DEF TaskTypeOK
<1>5. AnswersHaveEpoch'
  BY <1>1, <1>3 DEF TaskTypeOK, AnswersHaveEpoch, TaskRecords
<1> QED
  BY <1>4, <1>5 DEF TaskTypeOK

\* The exception handler keeps the key.
LEMMA RaiseTyped ==
  ASSUME TaskTypeOK, NEW t \in Tasks, task[t].pc # "idle", Raise(t) PROVE TaskTypeOK'
<1>1. task[t] \in TaskRecords
  BY BusyTask
<1>2. [pc |-> "raise", key |-> task[t].key, todo |-> {}, rest |-> 0] \in TaskRecords
  BY <1>1, BatchAssumption DEF TaskRecords, PCs
<1> QED
  BY <1>2 DEF Raise, TaskTypeOK, AnswersHaveEpoch

\* A task becomes idle.
LEMMA IdleTyped ==
  ASSUME TaskTypeOK, NEW t \in Tasks, task' = [task EXCEPT ![t] = Idle] PROVE TaskTypeOK'
  BY DEF TaskTypeOK, AnswersHaveEpoch, Idle

\* A new set of rows in hand.
LEMMA TodoTyped ==
  ASSUME TaskTypeOK, NEW t \in Tasks, task[t].pc # "idle",
         NEW pc \in PCs, NEW S \in SUBSET Items, NEW n \in 0..NItems,
         task' = [task EXCEPT ![t] = [task[t] EXCEPT !.pc = pc, !.todo = S, !.rest = n]],
         pc \in {"begin", "mcq", "mcq_save"} => task[t].pc \in {"begin", "mcq", "mcq_save"}
  PROVE  TaskTypeOK'
<1>1. task[t] \in TaskRecords
  BY BusyTask
<1>2. [task[t] EXCEPT !.pc = pc, !.todo = S, !.rest = n] \in TaskRecords
  BY <1>1 DEF TaskRecords
<1>3. task' \in [Tasks -> {Idle} \cup TaskRecords]
  BY <1>2 DEF TaskTypeOK
<1>4. AnswersHaveEpoch'
  BY <1>1 DEF TaskTypeOK, AnswersHaveEpoch, TaskRecords
<1> QED
  BY <1>3, <1>4 DEF TaskTypeOK

\* Where a step of task t leaves it, and the other tasks as they were.
MovesTo(t, S) == task'[t].pc \in S /\ \A u \in Tasks \ {t} : task'[u] = task[u]

\* A plain move.
LEMMA MovesByGoto ==
  ASSUME TaskTypeOK, NEW t \in Tasks, NEW pc, Goto(t, pc) PROVE MovesTo(t, {pc})
<1>1. "pc" \in DOMAIN task[t]
  BY DEF TaskTypeOK, TaskRecords, Idle
<1>2. task' = [task EXCEPT ![t] = [task[t] EXCEPT !.pc = pc]]
  BY DEF Goto
<1>3. [task[t] EXCEPT !.pc = pc].pc = pc
  BY <1>1
<1> QED
  BY <1>2, <1>3 DEF TaskTypeOK, MovesTo

\* The exception handler.
LEMMA MovesByRaise ==
  ASSUME TaskTypeOK, NEW t \in Tasks, Raise(t) PROVE MovesTo(t, {"raise"})
  BY DEF TaskTypeOK, Raise, MovesTo

\* The end of an execution.
LEMMA MovesByEnd ==
  ASSUME TaskTypeOK, NEW t \in Tasks, task' = [task EXCEPT ![t] = Idle] PROVE MovesTo(t, {"idle"})
  BY DEF TaskTypeOK, Idle, MovesTo

\* create_job leaves typed rows.
LEMMA EnqueueTyped == ASSUME QueueTypeOK, NEW k, Enqueue(k) PROVE QueueTypeOK'
<1>1. CASE k \in Keys /\ queue[k].status = "absent"
  <2>1. queue' = [queue EXCEPT ![k] = [queue[k] EXCEPT !.status = "waiting"]]
    BY <1>1 DEF Enqueue
  <2>2. queue[k] \in Rows /\ queue[k].attempts = 0
    BY <1>1 DEF QueueTypeOK, AttemptsLeft
  <2>3. [queue[k] EXCEPT !.status = "waiting"] \in Rows
    BY <2>2 DEF Rows
  <2>4. queue' \in [Keys -> Rows]
    BY <2>1, <2>3 DEF QueueTypeOK
  <2>5. AttemptsLeft'
    BY <1>1, <2>1, <2>2, BatchAssumption DEF QueueTypeOK, AttemptsLeft, Rows
  <2> QED
    BY <2>4, <2>5 DEF QueueTypeOK
<1>2. CASE ~(k \in Keys /\ queue[k].status = "absent")
  <2>1. queue' = queue
    BY <1>2 DEF Enqueue, QueueTypeOK
  <2> QED
    BY <2>1 DEF QueueTypeOK, AttemptsLeft
<1> QED
  BY <1>1, <1>2

\* Stale recovery and fail_job leave an attempt to a row that waits.
LEMMA ReleasedTyped ==
  ASSUME QueueTypeOK, NEW k \in Keys, queue' = [queue EXCEPT ![k] = Released(queue[k])]
  PROVE  QueueTypeOK'
<1>1. queue[k] \in Rows
  BY DEF QueueTypeOK
<1>2. /\ Released(queue[k]) \in Rows
      /\ Released(queue[k]).status = "waiting" => Released(queue[k]).attempts < MaxAttempts
      /\ Released(queue[k]).status # "absent"
  BY <1>1 DEF Rows, Released
<1> QED
  BY <1>2 DEF QueueTypeOK, AttemptsLeft

\* The statements of the validation handler.
LEMMA ValidationTyped ==
  ASSUME TypeInv, NEW t \in Tasks,
         CheckValidation(t) \/ Inspect(t) \/ Reject(t) \/ Charge(t) \/ ScheduleExtraction(t)
  PROVE  TypeInv'
<1> USE DEF TypeInv
<1>1. task[t].pc # "idle"
  BY DEF CheckValidation, Inspect, Reject, Charge, ScheduleExtraction, At
<1>2. PICK pc \in {"schedule", "return", "inspect", "charge", "reject"} : Goto(t, pc)
  BY DEF CheckValidation, Inspect, Reject, Charge, ScheduleExtraction
<1>3. TaskTypeOK'
  BY <1>1, <1>2, GotoTyped DEF PCs
<1>4. QueueTypeOK'
  <2>1. CASE UNCHANGED queue
    BY <2>1 DEF QueueTypeOK, AttemptsLeft
  <2>2. ASSUME NEW k, Enqueue(k) PROVE QueueTypeOK'
    BY <2>2, EnqueueTyped
  <2> QED
    BY <2>1, <2>2 DEF CheckValidation, Inspect, Reject, Charge, ScheduleExtraction
<1>5. ItemsTypeOK'
  BY DEF ItemsTypeOK, items, CheckValidation, Inspect, Reject, Charge, ScheduleExtraction
<1>6. ParentTypeOK'
  <2> USE DEF ParentTypeOK, intake, parent, Workflows, Terminal, ValidationDone
  <2>1. CASE CheckValidation(t) \/ Inspect(t) \/ Reject(t)
    BY <2>1 DEF CheckValidation, Inspect, Reject
  <2>2. CASE Charge(t)
    BY <2>2 DEF Charge, ReserveAndCommit
  <2>3. CASE ScheduleExtraction(t)
    BY <2>3 DEF ScheduleExtraction
  <2> QED
    BY <2>1, <2>2, <2>3
<1> QED
  BY <1>3, <1>4, <1>5, <1>6

\* The statements of the extraction handler.
LEMMA ExtractionTyped ==
  ASSUME TypeInv, NEW t \in Tasks,
         OpenExtraction(t) \/ ReadQuestions(t) \/ TooMany(t) \/ InsertItems(t) \/ HandOver(t)
  PROVE  TypeInv'
<1> USE DEF TypeInv
<1>1. task[t].pc # "idle"
  BY DEF OpenExtraction, ReadQuestions, TooMany, InsertItems, HandOver, At
<1>2. task[t] \in TaskRecords
  BY <1>1, BusyTask
<1>3. TaskTypeOK'
  <2>1. ASSUME NEW pc \in {"ocr", "return", "too_many"}, Goto(t, pc) PROVE TaskTypeOK'
    BY <1>1, <2>1, GotoTyped DEF PCs
  <2>2. CASE Raise(t)
    BY <1>1, <2>2, RaiseTyped
  <2>3. ASSUME NEW pc \in {"insert", "return", "hand_over"}, NEW S \in SUBSET Items,
               task' = [task EXCEPT ![t].pc = pc, ![t].todo = S]
        PROVE  TaskTypeOK'
    <3>1. task' = [task EXCEPT ![t] = [task[t] EXCEPT !.pc = pc, !.todo = S, !.rest = task[t].rest]]
      BY <1>2, <2>3 DEF TaskTypeOK, TaskRecords
    <3>2. task[t].rest \in 0..NItems
      BY <1>2 DEF TaskRecords
    <3> QED
      BY <1>1, <3>1, <3>2, TodoTyped DEF PCs
  <2>4. CASE OpenExtraction(t) \/ TooMany(t) \/ HandOver(t)
    BY <2>1, <2>2, <2>4 DEF OpenExtraction, TooMany, HandOver
  <2>5. CASE ReadQuestions(t)
    BY <2>1, <2>3, <2>5 DEF ReadQuestions
  <2>6. CASE InsertItems(t)
    BY <2>2, <2>3, <2>6 DEF InsertItems
  <2> QED
    BY <2>4, <2>5, <2>6
<1>4. QueueTypeOK'
  <2>1. CASE UNCHANGED queue
    BY <2>1 DEF QueueTypeOK, AttemptsLeft
  <2>2. ASSUME NEW k, Enqueue(k) PROVE QueueTypeOK'
    BY <2>2, EnqueueTyped
  <2> QED
    BY <2>1, <2>2 DEF OpenExtraction, ReadQuestions, TooMany, InsertItems, HandOver, BeginAnswers
<1>5. ItemsTypeOK'
  BY DEF ItemsTypeOK, items, ItemStatuses, OpenExtraction, ReadQuestions, TooMany, InsertItems,
         HandOver
<1>6. ParentTypeOK'
  <2> USE DEF ParentTypeOK, intake, parent, Workflows, Terminal
  <2>1. CASE OpenExtraction(t) \/ ReadQuestions(t)
    BY <2>1 DEF OpenExtraction, ReadQuestions
  <2>2. CASE TooMany(t)
    BY <2>2 DEF TooMany, FailAndRefund
  <2>3. CASE InsertItems(t)
    BY <2>3 DEF InsertItems
  <2>4. CASE HandOver(t)
    BY <2>4 DEF HandOver, BeginAnswers
  <2> QED
    BY <2>1, <2>2, <2>3, <2>4
<1> QED
  BY <1>3, <1>4, <1>5, <1>6

\* The statements of the answer handler.
LEMMA AnswersTyped ==
  ASSUME TypeInv, NEW t \in Tasks,
         \/ BeginAnswering(t) \/ McqBatch(t) \/ SaveMcqBatch(t) \/ SelectBatch(t)
         \/ (\E i \in Items : SaveAnswer(t, i) \/ CompleteItem(t, i) \/ FailItem(t, i))
         \/ LoopEnds(t) \/ Finish(t)
  PROVE  TypeInv'
<1> USE DEF TypeInv
<1>1. task[t].pc # "idle"
  BY DEF BeginAnswering, McqBatch, SaveMcqBatch, SelectBatch, SaveAnswer, CompleteItem, FailItem,
         LoopEnds, Finish, At, Working
<1>2. task[t] \in TaskRecords
  BY <1>1, BusyTask
<1>3. TaskTypeOK'
  <2> DEFINE NextPCs == {"return", "select", "mcq_items", "mcq_save", "mcq_fail", "finish"}
  <2>1. ASSUME NEW pc \in NextPCs, Goto(t, pc), pc = "mcq_save" => task[t].pc = "mcq"
        PROVE  TaskTypeOK'
    BY <1>1, <2>1, GotoTyped DEF PCs
  <2>2. CASE Raise(t)
    BY <1>1, <2>2, RaiseTyped
  <2>3. CASE UNCHANGED task
    BY <2>3 DEF TaskTypeOK, AnswersHaveEpoch
  <2>4. ASSUME NEW i \in Items, task' = [task EXCEPT ![t].todo = @ \ {i}] PROVE TaskTypeOK'
    <3>1. task' = [task EXCEPT ![t] = [task[t] EXCEPT !.pc = task[t].pc,
                                                      !.todo = task[t].todo \ {i},
                                                      !.rest = task[t].rest]]
      BY <1>2, <2>4 DEF TaskTypeOK, TaskRecords
    <3>2. /\ task[t].pc \in PCs /\ task[t].rest \in 0..NItems
          /\ task[t].todo \ {i} \in SUBSET Items
      BY <1>2 DEF TaskRecords
    <3> QED
      BY <1>1, <3>1, <3>2, TodoTyped
  <2>5. CASE BeginAnswering(t)
    <3>1. ASSUME At(t, "begin"),
                 task' = [task EXCEPT ![t].pc = "mcq",
                                      ![t].todo = {i \in Mcq : item_status[i] # "answered"}]
          PROVE  TaskTypeOK'
      <4>1. task' = [task EXCEPT ![t] = [task[t] EXCEPT !.pc = "mcq",
                       !.todo = {i \in Mcq : item_status[i] # "answered"}, !.rest = task[t].rest]]
        BY <1>2, <3>1 DEF TaskTypeOK, TaskRecords
      <4>2. /\ {i \in Mcq : item_status[i] # "answered"} \in SUBSET Items
            /\ task[t].rest \in 0..NItems /\ "mcq" \in PCs /\ task[t].pc = "begin"
        BY <1>2, <3>1, BatchAssumption DEF TaskRecords, PCs, At
      <4> QED
        BY <1>1, <4>1, <4>2, TodoTyped
    <3> QED
      BY <2>1, <2>2, <2>5, <3>1 DEF BeginAnswering
  <2>6. CASE McqBatch(t) \/ SaveMcqBatch(t) \/ LoopEnds(t) \/ Finish(t)
    BY <2>1, <2>6 DEF McqBatch, SaveMcqBatch, LoopEnds, Finish, At
  <2>7. CASE SelectBatch(t)
    <3> DEFINE remaining == Pending(Items \ Mcq)
               batch == {i \in remaining : Cardinality({k \in remaining : k < i}) < BatchSize}
               pc == IF remaining = {} THEN "finish" ELSE "write"
    <3>1. task' = [task EXCEPT ![t] = [task[t] EXCEPT !.pc = pc, !.todo = batch,
                                                      !.rest = Cardinality(remaining \ batch)]]
      BY <1>2, <2>7 DEF SelectBatch, TaskTypeOK, TaskRecords
    <3>2. batch \in SUBSET Items /\ remaining \ batch \subseteq Items
      BY DEF Pending
    <3>3. IsFiniteSet(Items) /\ Cardinality(Items) = NItems
      BY BatchAssumption, FS_Interval DEF Items
    <3>4. Cardinality(remaining \ batch) \in 0..NItems
      <4> HIDE DEF remaining, batch
      <4>1. IsFiniteSet(remaining \ batch)
            /\ Cardinality(remaining \ batch) <= Cardinality(Items)
        BY <3>2, <3>3, FS_Subset
      <4>2. Cardinality(remaining \ batch) \in Nat
        BY <4>1, FS_CardinalityType
      <4> QED
        BY <3>3, <4>1, <4>2, BatchAssumption
    <3>5. pc \in PCs /\ pc \notin {"begin", "mcq", "mcq_save"}
      BY DEF PCs
    <3> HIDE DEF remaining, batch, pc
    <3> QED
      BY <1>1, <3>1, <3>2, <3>4, <3>5, TodoTyped
  <2>8. ASSUME NEW i \in Items, SaveAnswer(t, i) \/ CompleteItem(t, i) \/ FailItem(t, i)
        PROVE  TaskTypeOK'
    BY <2>3, <2>4, <2>8 DEF SaveAnswer, CompleteItem, FailItem
  <2> QED
    BY <2>5, <2>6, <2>7, <2>8
<1>4. QueueTypeOK'
  <2>1. UNCHANGED queue
    BY DEF BeginAnswering, McqBatch, SaveMcqBatch, SelectBatch, SaveAnswer, CompleteItem, FailItem,
           LoopEnds, Finish
  <2> QED
    BY <2>1 DEF QueueTypeOK, AttemptsLeft
<1>5. ItemsTypeOK'
  <2> USE DEF ItemsTypeOK, items, ItemStatuses
  <2>1. CASE BeginAnswering(t) \/ McqBatch(t) \/ SelectBatch(t) \/ LoopEnds(t) \/ Finish(t)
    BY <2>1 DEF BeginAnswering, McqBatch, SelectBatch, LoopEnds, Finish
  <2>2. CASE SaveMcqBatch(t)
    BY <2>2 DEF SaveMcqBatch, At, TaskTypeOK, AnswersHaveEpoch
  <2>3. ASSUME NEW i \in Items, SaveAnswer(t, i) \/ CompleteItem(t, i) \/ FailItem(t, i)
        PROVE  ItemsTypeOK'
    BY <2>3 DEF SaveAnswer, CompleteItem, FailItem
  <2> QED
    BY <2>1, <2>2, <2>3
<1>6. ParentTypeOK'
  <2>1. UNCHANGED <<session, source, quota_status, reservation, extraction_epoch, answer_epoch,
                    starting>>
    BY DEF BeginAnswering, McqBatch, SaveMcqBatch, SelectBatch, SaveAnswer, CompleteItem, FailItem,
           LoopEnds, Finish, intake, parent
  <2>2. workflow_status' = workflow_status \/ workflow_status' = Outcome(item_status)
    BY DEF BeginAnswering, McqBatch, SaveMcqBatch, SelectBatch, SaveAnswer, CompleteItem, FailItem,
           LoopEnds, Finish, FinishAnswers, parent
  <2> QED
    BY <2>1, <2>2 DEF ParentTypeOK, Outcome, Workflows, Terminal
<1> QED
  BY <1>3, <1>4, <1>5, <1>6

\* The steps of the queue and of the worker around a handler.
LEMMA QueueStepsTyped ==
  ASSUME TypeInv, NEW t \in Tasks,
         \/ (\E k \in Keys : Lease(t, k))
         \/ Complete(t) \/ TaskRaises(t) \/ FailJob(t) \/ Report(t) \/ Crash(t)
  PROVE  TypeInv'
<1> USE DEF TypeInv
<1>1. ASSUME NEW k \in Keys, Lease(t, k) PROVE TaskTypeOK' /\ QueueTypeOK'
  <2>1. queue[k] \in Rows /\ queue[k].attempts < MaxAttempts
    BY <1>1 DEF Lease, QueueTypeOK, AttemptsLeft
  <2>2. [status |-> "leased", attempts |-> queue[k].attempts + 1, holder |-> t] \in Rows
    BY <2>1, BatchAssumption DEF Rows
  <2>3. QueueTypeOK'
    BY <1>1, <2>2 DEF Lease, QueueTypeOK, AttemptsLeft
  <2>4. /\ Entry(k.stage) \in PCs
        /\ Entry(k.stage) \in {"begin", "mcq", "mcq_save"} => k.epoch \in Epochs
    BY StagesOfKeys DEF Entry, PCs
  <2>5. [pc |-> Entry(k.stage), key |-> k, todo |-> {}, rest |-> 0] \in TaskRecords
    BY <2>4, BatchAssumption DEF TaskRecords
  <2>6. TaskTypeOK'
    BY <1>1, <2>4, <2>5 DEF Lease, TaskTypeOK, AnswersHaveEpoch
  <2> QED
    BY <2>3, <2>6
<1>2. CASE Complete(t)
  <2>1. task[t].pc # "idle" /\ task[t] \in TaskRecords
    BY <1>2, BusyTask DEF Complete, At
  <2>2. TaskTypeOK'
    BY <1>2, <2>1, RaiseTyped, IdleTyped DEF Complete
  <2>3. QueueTypeOK'
    <3> DEFINE k == task[t].key
               n == NextKey(t)
    <3>1. k \in Keys /\ queue[k] \in Rows
      BY <2>1 DEF TaskRecords, QueueTypeOK
    <3>2. [queue[k] EXCEPT !.status = "succeeded"] \in Rows
      BY <3>1 DEF Rows
    <3>3. ASSUME n \in Keys, queue[n].status = "absent"
          PROVE  /\ [queue[n] EXCEPT !.status = "waiting"] \in Rows
                 /\ [queue[n] EXCEPT !.status = "waiting"].attempts < MaxAttempts
      <4>1. queue[n] \in Rows /\ queue[n].attempts = 0
        BY <3>3 DEF QueueTypeOK, AttemptsLeft
      <4> QED
        BY <4>1, BatchAssumption DEF Rows
    <3>4. \/ UNCHANGED queue
          \/ \E chained \in BOOLEAN :
               queue' = [j \in Keys |->
                  IF j = k THEN [queue[k] EXCEPT !.status = "succeeded"]
                  ELSE IF chained /\ j = n /\ queue[n].status = "absent"
                    THEN [queue[n] EXCEPT !.status = "waiting"] ELSE queue[j]]
      BY <1>2 DEF Complete
    <3> HIDE DEF k, n
    <3>5. \A j \in Keys : queue'[j] \in Rows
      BY <3>1, <3>2, <3>3, <3>4 DEF QueueTypeOK
    <3>6. queue' \in [Keys -> Rows]
      BY <3>4, <3>5 DEF QueueTypeOK
    <3>7. AttemptsLeft'
      BY <3>1, <3>2, <3>3, <3>4 DEF QueueTypeOK, AttemptsLeft, Rows
    <3> QED
      BY <3>6, <3>7 DEF QueueTypeOK
  <2> QED
    BY <1>2, <2>2, <2>3 DEF Complete, ParentTypeOK, ItemsTypeOK, intake, parent, items
<1>3. CASE TaskRaises(t) \/ Crash(t)
  <2>1. TaskTypeOK'
    BY <1>3, RaiseTyped, IdleTyped DEF TaskRaises, Crash
  <2> QED
    BY <1>3, <2>1 DEF TaskRaises, Crash, QueueTypeOK, AttemptsLeft, ParentTypeOK, ItemsTypeOK,
                      intake, parent, items
<1>4. CASE FailJob(t)
  <2>1. task[t].pc # "idle" /\ task[t].key \in Keys
    BY <1>4, BusyTask DEF FailJob, At, TaskRecords
  <2>2. TaskTypeOK'
    BY <1>4, <2>1, GotoTyped DEF FailJob, PCs
  <2>3. QueueTypeOK'
    BY <1>4, <2>1, ReleasedTyped DEF FailJob, QueueTypeOK, AttemptsLeft
  <2> QED
    BY <1>4, <2>2, <2>3 DEF FailJob, ParentTypeOK, ItemsTypeOK, intake, parent, items
<1>5. CASE Report(t)
  <2>1. TaskTypeOK' /\ QueueTypeOK'
    BY <1>5, IdleTyped DEF Report, QueueTypeOK, AttemptsLeft
  <2>2. ItemsTypeOK'
    BY <1>5 DEF Report, MarkAnswersFailed, ItemsTypeOK, ItemStatuses
  <2>3. ParentTypeOK'
    BY <1>5 DEF Report, MarkAnswersFailed, FinishAnswers, Outcome, FailAndRefund, ParentTypeOK,
                intake, Workflows, Terminal
  <2> QED
    BY <2>1, <2>2, <2>3
<1> QED
  BY <1>1, <1>2, <1>3, <1>4, <1>5
     DEF Lease, ParentTypeOK, ItemsTypeOK, intake, parent, items

\* The student's requests and the passing of the raw source's day.
LEMMA ApiTyped == ASSUME TypeInv, Api PROVE TypeInv'
<1> USE DEF TypeInv
<1>1. TaskTypeOK'
  BY DEF Api, CreateSession, ExpireSession, Submit, PurgeRawSource, StartAfterCorrection,
         ApplyCorrection, TaskTypeOK, AnswersHaveEpoch
<1>2. QueueTypeOK'
  <2>1. CASE UNCHANGED queue
    BY <2>1 DEF QueueTypeOK, AttemptsLeft
  <2>2. ASSUME NEW k, Enqueue(k) PROVE QueueTypeOK'
    BY <2>2, EnqueueTyped
  <2> QED
    BY <2>1, <2>2 DEF Api, CreateSession, ExpireSession, Submit, PurgeRawSource,
                      StartAfterCorrection, BeginAnswers, ApplyCorrection
<1>3. ItemsTypeOK'
  BY DEF Api, CreateSession, ExpireSession, Submit, PurgeRawSource, StartAfterCorrection,
         ApplyCorrection, ItemsTypeOK, ItemStatuses, items
<1>4. ParentTypeOK'
  <2> USE DEF ParentTypeOK, Workflows, Terminal, intake, parent
  <2>1. CASE CreateSession \/ ExpireSession \/ Submit \/ PurgeRawSource
    BY <2>1 DEF CreateSession, ExpireSession, Submit, PurgeRawSource
  <2>2. CASE StartAfterCorrection
    <3>1. \/ UNCHANGED <<workflow_status, answer_epoch>>
          \/ workflow_status' = "answering" /\ answer_epoch' = answer_epoch + 1
      BY <2>2 DEF StartAfterCorrection, BeginAnswers
    <3>2. /\ UNCHANGED <<session, source, quota_status, reservation, extraction_epoch>>
          /\ starting' \in BOOLEAN
      BY <2>2 DEF StartAfterCorrection
    <3> QED
      BY <3>1, <3>2
  <2>3. ASSUME NEW i \in Items, ApplyCorrection(i) PROVE ParentTypeOK'
    <3>1. \/ UNCHANGED <<workflow_status, starting>>
          \/ workflow_status' = "ready_to_answer" /\ starting' = TRUE
      BY <2>3 DEF ApplyCorrection
    <3>2. UNCHANGED <<session, source, quota_status, reservation, extraction_epoch, answer_epoch>>
      BY <2>3 DEF ApplyCorrection
    <3> QED
      BY <3>1, <3>2
  <2> QED
    BY <2>1, <2>2, <2>3 DEF Api
<1> QED
  BY <1>1, <1>2, <1>3, <1>4

\* Every step keeps the types.
LEMMA TypeInvKept == ASSUME TypeInv, [Next]_vars PROVE TypeInv'
<1>1. ASSUME NEW t \in Tasks, Work(t) \/ Crash(t) PROVE TypeInv'
  BY <1>1, ValidationTyped, ExtractionTyped, AnswersTyped, QueueStepsTyped DEF Work, Handle
<1>2. ASSUME NEW k \in Keys, LeaseLapses(k) PROVE TypeInv'
  <2>1. TaskTypeOK' /\ QueueTypeOK'
    BY <1>2, ReleasedTyped DEF LeaseLapses, TaskTypeOK, AnswersHaveEpoch, TypeInv
  <2> QED
    BY <1>2, <2>1 DEF TypeInv, LeaseLapses, ParentTypeOK, ItemsTypeOK, intake, parent, items
<1>3. CASE UNCHANGED vars
  BY <1>3 DEF vars, intake, parent, items, TypeInv, TaskTypeOK, AnswersHaveEpoch, QueueTypeOK,
              AttemptsLeft, ParentTypeOK, ItemsTypeOK
<1> QED
  BY <1>1, <1>2, <1>3, ApiTyped DEF Next

\* The types hold in every state.
LEMMA TypeInvHolds == Spec => []TypeInv
<1>1. Init => TypeInv
  <2> SUFFICES ASSUME Init PROVE TypeInv
    OBVIOUS
  <2>1. TaskTypeOK
    BY DEF Init, TaskTypeOK, AnswersHaveEpoch, Idle
  <2>2. [status |-> "absent", attempts |-> 0, holder |-> None] \in Rows
    BY BatchAssumption DEF Rows
  <2>3. QueueTypeOK
    BY <2>2 DEF Init, QueueTypeOK, AttemptsLeft
  <2>4. ParentTypeOK /\ ItemsTypeOK
    BY DEF Init, ParentTypeOK, ItemsTypeOK, Workflows, ItemStatuses
  <2> QED
    BY <2>1, <2>3, <2>4 DEF TypeInv
<1> QED
  BY <1>1, TypeInvKept, PTL DEF Spec

\* Every column and local variable stays in its domain, for every paper, number of
\* workers and attempt limit.
THEOREM TypeCorrect == Spec => []TypeOK
<1>1. TypeInv => TypeOK
  BY DEF TypeInv, TaskTypeOK, QueueTypeOK, ParentTypeOK, ItemsTypeOK, TypeOK, TaskRecords, Rows
<1> QED
  BY <1>1, TypeInvHolds, PTL

-----------------------------------------------------------------------------
(* The charge *)

\* Before the submission nothing is queued, running or charged.
QuietBefore ==
  session \in {"none", "created"} =>
    /\ workflow_status = "none" /\ quota_status = "not_reserved" /\ ~starting
    /\ \A t \in Tasks : task[t] = Idle
    /\ \A k \in Keys : queue[k].status = "absent"

\* Every step keeps the quiet before the submission.
LEMMA QuietBeforeKept == ASSUME TypeInv, QuietBefore, [Next]_vars PROVE QuietBefore'
<1> SUFFICES ASSUME session' \in {"none", "created"}
             PROVE  /\ workflow_status' = "none" /\ quota_status' = "not_reserved" /\ ~starting'
                    /\ \A t \in Tasks : task'[t] = Idle
                    /\ \A k \in Keys : queue'[k].status = "absent"
  BY DEF QuietBefore
<1> USE DEF intake, parent, items
<1>1. CASE UNCHANGED vars
  BY <1>1 DEF vars, QuietBefore
<1>2. ASSUME NEW t \in Tasks, Work(t) \/ Crash(t) PROVE FALSE
  <2>1. UNCHANGED session
    BY <1>2 DEF Work, Handle, Lease, Complete, TaskRaises, FailJob, Report, Crash, CheckValidation,
                Inspect, Reject, Charge, ScheduleExtraction, OpenExtraction, ReadQuestions, TooMany,
                InsertItems, HandOver, BeginAnswering, McqBatch, SaveMcqBatch, SelectBatch,
                SaveAnswer, CompleteItem, FailItem, LoopEnds, Finish
  <2>2. task[t].pc = "idle" /\ task[t] = Idle /\ \A k \in Keys : queue[k].status = "absent"
    BY <2>1 DEF QuietBefore, Idle
  <2> QED
    BY <1>2, <2>2
       DEF Work, Handle, Lease, Complete, TaskRaises, FailJob, Report, Crash, CheckValidation,
           Inspect, Reject, Charge, ScheduleExtraction, OpenExtraction, ReadQuestions, TooMany,
           InsertItems, HandOver, BeginAnswering, McqBatch, SaveMcqBatch, SelectBatch,
           SaveAnswer, CompleteItem, FailItem, LoopEnds, Finish, At, Working
<1>3. ASSUME NEW k \in Keys, LeaseLapses(k) PROVE FALSE
  BY <1>3 DEF LeaseLapses, QuietBefore
<1>4. CASE Api
  <2>1. CASE CreateSession \/ ExpireSession
    BY <2>1 DEF CreateSession, ExpireSession, QuietBefore
  <2>2. CASE Submit \/ PurgeRawSource
    BY <2>2 DEF Submit, PurgeRawSource
  <2>3. ~StartAfterCorrection
    BY DEF StartAfterCorrection, QuietBefore
  <2>4. ASSUME NEW i \in Items, ApplyCorrection(i) PROVE FALSE
    BY <2>4 DEF ApplyCorrection, QuietBefore
  <2> QED
    BY <1>4, <2>1, <2>2, <2>3, <2>4 DEF Api
<1> QED
  BY <1>1, <1>2, <1>3, <1>4 DEF Next

\* An extraction that reads its questions has been paid for.
PaidReading == \A t \in Tasks : task[t].pc \in {"ocr", "too_many"} => reservation # "none"

ChargeInv ==
  /\ ChargedBeforeWork /\ RefundRecorded /\ PaidReading
  /\ reservation = "committed" => quota_status = "committed"

\* A step that neither charges nor refunds keeps the invariant if the batch goes on
\* from where it was paid for, or ends.
LEMMA UnchargedStep ==
  ASSUME ChargeInv, UNCHANGED <<quota_status, reservation>>,
         \/ UNCHANGED workflow_status
         \/ workflow_status' \in {"invalid", "limit_reached", "failed"}
         \/ quota_status # "refunded" /\ workflow_status' \in {"queued", "validating"}
         \/ /\ workflow_status \in {"validated", "extracting", "needs_correction",
                                    "ready_to_answer", "answering"}
            /\ workflow_status' \in {"extracting", "needs_correction", "ready_to_answer",
                                     "answering", "completed", "partially_completed"},
         \A t \in Tasks : task'[t].pc \in {"ocr", "too_many"} =>
                            \/ task[t].pc \in {"ocr", "too_many"}
                            \/ workflow_status = "extracting"
  PROVE  ChargeInv'
  BY DEF ChargeInv, ChargedBeforeWork, RefundRecorded, PaidReading, Terminal

\* The steps that touch the charge.
LEMMA ChargingSteps ==
  ASSUME TypeInv, ChargeInv, NEW t \in Tasks, Charge(t) \/ TooMany(t) \/ Report(t)
  PROVE  ChargeInv'
<1>1. TaskTypeOK /\ reservation \in {"none", "committed", "refunded"}
  BY DEF TypeInv, ParentTypeOK
<1>2. \A u \in Tasks : task'[u].pc \in {"ocr", "too_many"} => task[u].pc \in {"ocr", "too_many"}
  <2>1. MovesTo(t, {"schedule"}) \/ MovesTo(t, {"return"}) \/ MovesTo(t, {"idle"})
    BY <1>1, MovesByGoto, MovesByEnd DEF Charge, TooMany, Report
  <2> QED
    BY <2>1 DEF MovesTo
<1>3. PaidReading'
  BY <1>1, <1>2
     DEF ChargeInv, PaidReading, Charge, ReserveAndCommit, TooMany, Report, FailAndRefund,
                    MarkAnswersFailed
<1> USE DEF ChargeInv, ChargedBeforeWork, RefundRecorded, Terminal
<1>4. CASE Charge(t)
  BY <1>1, <1>3, <1>4 DEF Charge, ReserveAndCommit, ValidationDone
<1>5. CASE TooMany(t)
  <2>1. reservation # "none"
    BY <1>5 DEF TooMany, At, PaidReading
  <2> QED
    BY <1>1, <1>3, <1>5, <2>1 DEF TooMany, FailAndRefund, RefundBlocked
<1>6. CASE Report(t)
  <2>1. CASE UNCHANGED <<workflow_status, quota_status, reservation>>
    BY <1>3, <2>1
  <2>2. CASE FailAndRefund("failed")
    BY <1>1, <1>3, <2>2 DEF FailAndRefund
  <2>3. CASE MarkAnswersFailed /\ UNCHANGED <<quota_status, reservation>>
    BY <1>3, <2>3 DEF MarkAnswersFailed, FinishAnswers, Outcome
  <2> QED
    BY <1>6, <2>1, <2>2, <2>3 DEF Report
<1> QED
  BY <1>4, <1>5, <1>6

\* Every step keeps the charge invariant.
LEMMA ChargeInvKept == ASSUME TypeInv, QuietBefore, ChargeInv, [Next]_vars PROVE ChargeInv'
<1> USE DEF intake, parent, items
<1>1. TaskTypeOK
  BY DEF TypeInv
<1>2. CASE UNCHANGED vars
  BY <1>2, UnchargedStep DEF vars
<1>3. ASSUME NEW t \in Tasks, Handle(t), ~Charge(t), ~TooMany(t) PROVE ChargeInv'
  <2>1. UNCHANGED <<quota_status, reservation>>
    BY <1>3 DEF Handle, CheckValidation, Inspect, Reject, ScheduleExtraction, OpenExtraction,
                ReadQuestions, InsertItems, HandOver, BeginAnswering, McqBatch, SaveMcqBatch,
                SelectBatch, SaveAnswer, CompleteItem, FailItem, LoopEnds, Finish
  <2>2. CASE \/ CheckValidation(t) \/ Inspect(t) \/ Reject(t) \/ ScheduleExtraction(t)
             \/ HandOver(t) \/ InsertItems(t)
    <3>1. \A u \in Tasks : task'[u].pc \in {"ocr", "too_many"} => task[u].pc \in {"ocr", "too_many"}
      <4>1. \E pc \in PCs \ {"ocr", "too_many"} : MovesTo(t, {pc})
        <5>1. CASE CheckValidation(t) \/ Inspect(t) \/ Reject(t) \/ ScheduleExtraction(t)
          BY <1>1, <5>1, MovesByGoto DEF CheckValidation, Inspect, Reject, ScheduleExtraction, PCs
        <5>2. CASE HandOver(t)
          BY <1>1, <5>2, MovesByGoto, MovesByRaise DEF HandOver, PCs
        <5>3. ASSUME NEW pc \in {"return", "hand_over"},
                     task' = [task EXCEPT ![t].pc = pc, ![t].todo = {}]
              PROVE  MovesTo(t, {pc})
          BY <1>1, <5>3 DEF TaskTypeOK, TaskRecords, Idle, MovesTo
        <5>4. CASE InsertItems(t)
          BY <1>1, <5>3, <5>4, MovesByRaise DEF InsertItems, PCs
        <5> QED
          BY <2>2, <5>1, <5>2, <5>4
      <4> QED
        BY <4>1 DEF MovesTo
    <3>2. CASE CheckValidation(t)
      BY <2>1, <3>1, <3>2, UnchargedStep DEF CheckValidation, ChargeInv, RefundRecorded, Terminal
    <3>3. CASE Inspect(t) \/ Reject(t)
      BY <2>1, <3>1, <3>3, UnchargedStep DEF Inspect, Reject
    <3>4. CASE ScheduleExtraction(t) \/ HandOver(t) \/ InsertItems(t)
      BY <2>1, <3>1, <3>4, UnchargedStep
         DEF ScheduleExtraction, HandOver, BeginAnswers, InsertItems, Current
    <3> QED
      BY <2>2, <3>2, <3>3, <3>4
  <2>3. CASE OpenExtraction(t) \/ ReadQuestions(t)
    <3>1. \A u \in Tasks : task'[u].pc \in {"ocr", "too_many"} =>
                             task[u].pc \in {"ocr", "too_many"} \/ workflow_status = "extracting"
      <4>1. CASE OpenExtraction(t)
        <5>1. MovesTo(t, {"return"}) \/ (MovesTo(t, {"ocr"}) /\ workflow_status = "extracting")
          <6> DEFINE pc == IF Current(t) THEN "ocr" ELSE "return"
          <6>1. Goto(t, pc)
            BY <4>1 DEF OpenExtraction
          <6>2. pc = "return" \/ (pc = "ocr" /\ workflow_status = "extracting")
            BY DEF Current
          <6> HIDE DEF pc
          <6>3. MovesTo(t, {pc})
            BY <1>1, <6>1, MovesByGoto
          <6> QED
            BY <6>2, <6>3
        <5> QED
          BY <5>1 DEF MovesTo
      <4>2. CASE ReadQuestions(t)
        <5>1. task[t].pc = "ocr" /\ \A u \in Tasks \ {t} : task'[u] = task[u]
          BY <1>1, <4>2 DEF ReadQuestions, At, Goto, TaskTypeOK
        <5> QED
          BY <5>1
      <4> QED
        BY <2>3, <4>1, <4>2
    <3> QED
      BY <2>1, <2>3, <3>1, UnchargedStep DEF OpenExtraction, ReadQuestions
  <2>4. CASE \/ BeginAnswering(t) \/ McqBatch(t) \/ SaveMcqBatch(t) \/ SelectBatch(t)
             \/ (\E i \in Items : SaveAnswer(t, i) \/ CompleteItem(t, i) \/ FailItem(t, i))
             \/ LoopEnds(t) \/ Finish(t)
    <3>1. \A u \in Tasks : task'[u].pc \in {"ocr", "too_many"} => task[u].pc \in {"ocr", "too_many"}
      <4>1. CASE McqBatch(t) \/ SaveMcqBatch(t) \/ LoopEnds(t) \/ Finish(t)
        <5>1. \E pc \in PCs \ {"ocr", "too_many"} : MovesTo(t, {pc})
          BY <1>1, <4>1, MovesByGoto DEF McqBatch, SaveMcqBatch, LoopEnds, Finish, PCs
        <5> QED
          BY <5>1 DEF MovesTo
      <4>2. CASE BeginAnswering(t)
        <5>1. ASSUME NEW S, task' = [task EXCEPT ![t].pc = "mcq", ![t].todo = S]
              PROVE  MovesTo(t, {"mcq"})
          BY <1>1, <5>1 DEF TaskTypeOK, TaskRecords, Idle, MovesTo
        <5>2. \E pc \in PCs \ {"ocr", "too_many"} : MovesTo(t, {pc})
          BY <1>1, <4>2, <5>1, MovesByGoto, MovesByRaise DEF BeginAnswering, PCs
        <5> QED
          BY <5>2 DEF MovesTo
      <4>3. CASE SelectBatch(t)
        <5>1. ASSUME NEW pc \in {"finish", "write"}, NEW S, NEW n,
                     task' = [task EXCEPT ![t].pc = pc, ![t].todo = S, ![t].rest = n]
              PROVE  MovesTo(t, {pc})
          BY <1>1, <5>1 DEF TaskTypeOK, TaskRecords, Idle, MovesTo
        <5>2. MovesTo(t, {"finish"}) \/ MovesTo(t, {"write"})
          BY <4>3, <5>1 DEF SelectBatch
        <5> QED
          BY <5>2 DEF MovesTo
      <4>4. ASSUME NEW i \in Items, SaveAnswer(t, i) \/ CompleteItem(t, i) \/ FailItem(t, i)
            PROVE  \A u \in Tasks : task'[u].pc = task[u].pc
        <5>1. CASE UNCHANGED task
          BY <5>1
        <5>2. CASE task' = [task EXCEPT ![t].todo = @ \ {i}]
          BY <1>1, <5>2 DEF TaskTypeOK, TaskRecords, Idle
        <5> QED
          BY <4>4, <5>1, <5>2 DEF SaveAnswer, CompleteItem, FailItem
      <4> QED
        BY <2>4, <4>1, <4>2, <4>3, <4>4
    <3>2. \/ UNCHANGED workflow_status
          \/ /\ workflow_status = "answering"
             /\ workflow_status' \in {"completed", "partially_completed", "failed"}
      BY <2>4 DEF BeginAnswering, McqBatch, SaveMcqBatch, SelectBatch, SaveAnswer, CompleteItem,
                  FailItem, LoopEnds, Finish, FinishAnswers, Outcome
    <3> QED
      BY <2>1, <3>1, <3>2, UnchargedStep
  <2> QED
    BY <1>3, <2>2, <2>3, <2>4 DEF Handle
<1>4. ASSUME NEW t \in Tasks,
             \/ (\E k \in Keys : Lease(t, k)) \/ Complete(t) \/ TaskRaises(t) \/ FailJob(t)
             \/ Crash(t)
      PROVE  ChargeInv'
  <2>1. \A u \in Tasks : task'[u].pc \in {"ocr", "too_many"} => task[u].pc \in {"ocr", "too_many"}
    <3>1. ASSUME NEW k \in Keys, Lease(t, k)
          PROVE  MovesTo(t, {Entry(k.stage)}) /\ Entry(k.stage) \notin {"ocr", "too_many"}
      BY <1>1, <3>1, StagesOfKeys DEF TaskTypeOK, Lease, Entry, MovesTo
    <3>2. CASE Complete(t) \/ TaskRaises(t) \/ FailJob(t) \/ Crash(t)
      <4>1. MovesTo(t, {"idle"}) \/ MovesTo(t, {"raise"}) \/ MovesTo(t, {"report"})
        BY <1>1, <3>2, MovesByGoto, MovesByRaise, MovesByEnd
           DEF Complete, TaskRaises, FailJob, Crash
      <4> QED
        BY <4>1 DEF MovesTo
    <3> QED
      BY <1>4, <3>1, <3>2 DEF MovesTo
  <2> QED
    BY <1>4, <2>1, UnchargedStep DEF Lease, Complete, TaskRaises, FailJob, Crash
<1>5. ASSUME NEW k \in Keys, LeaseLapses(k) PROVE ChargeInv'
  BY <1>5, UnchargedStep DEF LeaseLapses
<1>6. CASE Api
  <2>1. CASE CreateSession \/ ExpireSession \/ PurgeRawSource
    BY <2>1, UnchargedStep DEF CreateSession, ExpireSession, PurgeRawSource
  <2>2. CASE Submit
    BY <2>2, UnchargedStep DEF Submit, QuietBefore
  <2>3. CASE StartAfterCorrection
    BY <2>3, UnchargedStep DEF StartAfterCorrection, BeginAnswers
  <2>4. ASSUME NEW i \in Items, ApplyCorrection(i) PROVE ChargeInv'
    BY <2>4, UnchargedStep DEF ApplyCorrection
  <2> QED
    BY <1>6, <2>1, <2>2, <2>3, <2>4 DEF Api
<1> QED
  BY <1>2, <1>3, <1>4, <1>5, <1>6, ChargingSteps DEF Next, Work, Handle

\* The charge invariant holds in every state.
LEMMA ChargeInvHolds == Spec => [](TypeInv /\ QuietBefore /\ ChargeInv)
<1>1. Init => QuietBefore /\ ChargeInv
  BY DEF Init, QuietBefore, ChargeInv, ChargedBeforeWork, RefundRecorded, PaidReading, Idle
<1> QED
  BY <1>1, TypeInvHolds, QuietBeforeKept, ChargeInvKept, PTL DEF Spec

\* No extraction or answer work without a charge, however often the queue delivers a
\* job and wherever its executions fail or die.
THEOREM WorkIsCharged == Spec => []ChargedBeforeWork
<1>1. ChargeInv => ChargedBeforeWork
  BY DEF ChargeInv
<1> QED
  BY <1>1, ChargeInvHolds, PTL

\* quota_status tells the truth about a refund, and a paper with too many questions
\* has been given back.
THEOREM RefundsAreRecorded == Spec => []RefundRecorded
<1>1. ChargeInv => RefundRecorded
  BY DEF ChargeInv
<1> QED
  BY <1>1, ChargeInvHolds, PTL

-----------------------------------------------------------------------------
(* The items *)

\* The items of a paper are inserted together and once, and answered after that.
ItemsInv ==
  /\ NoItems \/ \A i \in Items : item_status[i] # "absent"
  /\ NoItems => answer_epoch = 0
  /\ workflow_status \in {"needs_correction", "ready_to_answer"} => answer_epoch = 0 /\ ~NoItems
  /\ AnswersStartOnce /\ OutcomeMatchesItems

\* finish_answers leaves the batch with the outcome of its items.
LEMMA OutcomeOfItems ==
  ASSUME NEW st \in [Items -> ItemStatuses], FinishAnswers(st),
         workflow_status = "answering" =>
           \A i \in Items : st[i] \in {"pending", "answered", "failed"}
  PROVE  \/ UNCHANGED workflow_status
         \/ workflow_status' = "failed"
         \/ workflow_status' = "completed" /\ \A i \in Items : st[i] = "answered"
         \/ /\ workflow_status' = "partially_completed"
            /\ \A i \in Items : st[i] \in {"answered", "failed"}
            /\ \E i \in Items : st[i] = "answered"
  BY DEF FinishAnswers, Outcome

\* A step that leaves the items alone keeps the invariant, unless it makes the batch
\* ready, answered or done.
LEMMA ItemsUntouched ==
  ASSUME ItemsInv, UNCHANGED <<item_status, answer_epoch>>, answers \subseteq answers',
         \/ UNCHANGED workflow_status
         \/ workflow_status' \in {"queued", "validating", "validated", "invalid", "limit_reached",
                                  "extracting", "too_many_questions", "failed"}
  PROVE  ItemsInv'
  BY DEF ItemsInv, NoItems, AnswersStartOnce, OutcomeMatchesItems

\* insert_extracted_items, the only step that makes items.
LEMMA InsertKeepsItems ==
  ASSUME TypeInv, ItemsInv, NEW t \in Tasks, InsertItems(t) PROVE ItemsInv'
<1>1. CASE UNCHANGED <<workflow_status, item_status>>
  BY <1>1, ItemsUntouched DEF InsertItems
<1>2. ASSUME NEW unclear, NoItems, unclear = task[t].todo,
             item_status' = [i \in Items |-> IF i \in unclear THEN "needs_correction"
                                                             ELSE "pending"],
             workflow_status' \in {"ready_to_answer", "needs_correction"}
      PROVE  ItemsInv'
  <2>1. 1 \in Items
    BY BatchAssumption DEF Items
  <2>2. answer_epoch' = 0
    BY <1>2 DEF InsertItems, ItemsInv
  <2>3. \A i \in Items : item_status'[i] \in {"needs_correction", "pending"}
    BY <1>2
  <2> QED
    BY <1>2, <2>1, <2>2, <2>3 DEF ItemsInv, NoItems, AnswersStartOnce, OutcomeMatchesItems
<1> QED
  BY <1>1, <1>2 DEF InsertItems

\* start_for_job, by the extraction or by the correction request.
LEMMA BeginKeepsItems ==
  ASSUME TypeInv, ItemsInv, BeginAnswers, UNCHANGED <<item_status, answers>> PROVE ItemsInv'
<1>1. /\ workflow_status' = "answering" /\ answer_epoch' = 1 /\ ~NoItems
      /\ \A i \in Items : item_status[i] # "needs_correction"
  BY DEF BeginAnswers, ItemsInv, Unclear
<1>2. \A i \in Items : item_status[i] \in {"pending", "answered", "failed"}
  BY <1>1 DEF ItemsInv, TypeInv, ItemsTypeOK, ItemStatuses
<1> QED
  BY <1>1, <1>2 DEF ItemsInv, NoItems, AnswersStartOnce, OutcomeMatchesItems

\* An item that is answered or failed was pending, and its answer is saved.
LEMMA SettledItems ==
  ASSUME TypeInv, ItemsInv, NEW i \in Items, NEW st \in {"answered", "failed"},
         st = "answered" => i \in answers,
         item_status' = [item_status EXCEPT ![i] = IF @ = "pending" THEN st ELSE @],
         UNCHANGED <<workflow_status, answer_epoch, answers>>
  PROVE  ItemsInv'
<1>1. item_status \in [Items -> ItemStatuses]
  BY DEF TypeInv, ItemsTypeOK
<1>2. \A k \in Items : \/ item_status'[k] = item_status[k]
                       \/ k = i /\ item_status[i] = "pending" /\ item_status'[i] = st
  BY <1>1
<1>3. (NoItems' <=> NoItems) /\ ((\A k \in Items : item_status[k] # "absent") =>
                                 (\A k \in Items : item_status'[k] # "absent"))
  BY <1>2 DEF NoItems
<1>4. AnswersStartOnce' /\ OutcomeMatchesItems'
  BY <1>2 DEF ItemsInv, AnswersStartOnce, OutcomeMatchesItems
<1> QED
  BY <1>3, <1>4 DEF ItemsInv

\* Corrections make the batch ready to answer.
LEMMA CorrectionKeepsItems ==
  ASSUME TypeInv, ItemsInv, NEW i \in Items, ApplyCorrection(i) PROVE ItemsInv'
<1>1. item_status \in [Items -> ItemStatuses]
  BY DEF TypeInv, ItemsTypeOK
<1>2. /\ workflow_status = "needs_correction" /\ item_status[i] = "needs_correction"
      /\ workflow_status' \in {"needs_correction", "ready_to_answer"}
      /\ item_status'[i] = "pending"
      /\ \A k \in Items \ {i} : item_status'[k] = item_status[k]
      /\ UNCHANGED <<answer_epoch, answers>>
  BY <1>1 DEF ApplyCorrection
<1>3. ~NoItems /\ ~NoItems' /\ \A k \in Items : item_status'[k] # "absent"
  BY <1>2 DEF ItemsInv, NoItems
<1> QED
  BY <1>2, <1>3 DEF ItemsInv, AnswersStartOnce, OutcomeMatchesItems

\* mark_queue_failure fails the pending items and closes the batch.
LEMMA ReportKeepsItems ==
  ASSUME TypeInv, ItemsInv, NEW t \in Tasks, Report(t) PROVE ItemsInv'
<1>1. CASE UNCHANGED <<workflow_status, item_status>>
  BY <1>1, ItemsUntouched DEF Report
<1>2. CASE FailAndRefund("failed") /\ UNCHANGED item_status
  BY <1>2, ItemsUntouched DEF Report, FailAndRefund
<1>3. CASE workflow_status = "answering" /\ MarkAnswersFailed
  <2> DEFINE st == [i \in Items |-> IF item_status[i] = "pending" THEN "failed" ELSE item_status[i]]
  <2>1. \A i \in Items : item_status[i] \in {"pending", "answered", "failed"}
    BY <1>3 DEF ItemsInv, AnswersStartOnce
  <2>2. st \in [Items -> ItemStatuses] /\ \A i \in Items : st[i] \in {"answered", "failed"}
    BY <2>1 DEF ItemStatuses
  <2>3. item_status' = st /\ FinishAnswers(st)
    BY <1>3 DEF MarkAnswersFailed
  <2>4. \A i \in Items : st[i] = "answered" => item_status[i] = "answered"
    OBVIOUS
  <2>5. ~NoItems'
    <3>1. 1 \in Items
      BY BatchAssumption DEF Items
    <3> QED
      BY <2>2, <2>3, <3>1 DEF NoItems
  <2>6. UNCHANGED <<answer_epoch, answers>>
    BY DEF Report
  <2> HIDE DEF st
  <2>7. \/ UNCHANGED workflow_status
        \/ workflow_status' = "failed"
        \/ workflow_status' = "completed" /\ \A i \in Items : st[i] = "answered"
        \/ /\ workflow_status' = "partially_completed"
           /\ \A i \in Items : st[i] \in {"answered", "failed"}
           /\ \E i \in Items : st[i] = "answered"
    BY <2>2, <2>3, OutcomeOfItems
  <2> QED
    BY <1>3, <2>2, <2>3, <2>4, <2>5, <2>6, <2>7
       DEF ItemsInv, AnswersStartOnce, OutcomeMatchesItems
<1> QED
  BY <1>1, <1>2, <1>3 DEF Report, MarkAnswersFailed

\* Every step keeps the items invariant.
LEMMA ItemsInvKept == ASSUME TypeInv, QuietBefore, ItemsInv, [Next]_vars PROVE ItemsInv'
<1> USE DEF intake, parent, items
<1>1. CASE UNCHANGED vars
  BY <1>1, ItemsUntouched DEF vars
<1>2. ASSUME NEW t \in Tasks, Handle(t) PROVE ItemsInv'
  <2>1. CASE \/ CheckValidation(t) \/ Inspect(t) \/ Reject(t) \/ Charge(t) \/ ScheduleExtraction(t)
             \/ OpenExtraction(t) \/ ReadQuestions(t) \/ TooMany(t)
    BY <2>1, ItemsUntouched
       DEF CheckValidation, Inspect, Reject, Charge, ScheduleExtraction, OpenExtraction,
           ReadQuestions, TooMany, FailAndRefund
  <2>2. CASE InsertItems(t)
    BY <2>2, InsertKeepsItems
  <2>3. CASE HandOver(t)
    BY <2>3, BeginKeepsItems, ItemsUntouched DEF HandOver
  <2>4. CASE \/ BeginAnswering(t) \/ McqBatch(t) \/ SaveMcqBatch(t) \/ SelectBatch(t) \/ LoopEnds(t)
             \/ (\E i \in Items : SaveAnswer(t, i))
    BY <2>4, ItemsUntouched
       DEF BeginAnswering, McqBatch, SaveMcqBatch, SelectBatch, LoopEnds, SaveAnswer
  <2>5. ASSUME NEW i \in Items, CompleteItem(t, i) \/ FailItem(t, i) PROVE ItemsInv'
    BY <2>5, SettledItems DEF CompleteItem, FailItem
  <2>6. CASE Finish(t)
    <3>1. /\ item_status \in [Items -> ItemStatuses]
          /\ FinishAnswers(item_status) /\ UNCHANGED <<item_status, answers, answer_epoch>>
      BY <2>6 DEF Finish, TypeInv, ItemsTypeOK
    <3>2. \/ UNCHANGED workflow_status
          \/ workflow_status' = "failed"
          \/ workflow_status' = "completed" /\ \A i \in Items : item_status[i] = "answered"
          \/ /\ workflow_status' = "partially_completed"
             /\ \A i \in Items : item_status[i] \in {"answered", "failed"}
             /\ \E i \in Items : item_status[i] = "answered"
      BY <3>1, OutcomeOfItems DEF ItemsInv, AnswersStartOnce
    <3> QED
      BY <3>1, <3>2 DEF ItemsInv, NoItems, AnswersStartOnce, OutcomeMatchesItems
  <2> QED
    BY <1>2, <2>1, <2>2, <2>3, <2>4, <2>5, <2>6 DEF Handle
<1>3. ASSUME NEW t \in Tasks,
             \/ (\E k \in Keys : Lease(t, k)) \/ Complete(t) \/ TaskRaises(t) \/ FailJob(t)
             \/ Crash(t)
      PROVE  ItemsInv'
  BY <1>3, ItemsUntouched DEF Lease, Complete, TaskRaises, FailJob, Crash
<1>4. ASSUME NEW k \in Keys, LeaseLapses(k) PROVE ItemsInv'
  BY <1>4, ItemsUntouched DEF LeaseLapses
<1>5. CASE Api
  <2>1. CASE CreateSession \/ ExpireSession \/ Submit \/ PurgeRawSource
    BY <2>1, ItemsUntouched DEF CreateSession, ExpireSession, Submit, PurgeRawSource
  <2>2. CASE StartAfterCorrection
    BY <2>2, BeginKeepsItems, ItemsUntouched DEF StartAfterCorrection
  <2> QED
    BY <1>5, <2>1, <2>2, CorrectionKeepsItems DEF Api
<1> QED
  BY <1>1, <1>2, <1>3, <1>4, <1>5, ReportKeepsItems DEF Next, Work

\* The items invariant holds in every state.
LEMMA ItemsInvHolds == Spec => [](TypeInv /\ ItemsInv)
<1>1. Init => ItemsInv
  BY DEF Init, ItemsInv, NoItems, AnswersStartOnce, OutcomeMatchesItems
<1> QED
  BY <1>1, TypeInvHolds, ChargeInvHolds, ItemsInvKept, PTL DEF Spec

\* Answering starts once, for one complete set of items, although a validation that is
\* delivered again may start the extraction again.
THEOREM AnsweringStartsOnce == Spec => []AnswersStartOnce
<1>1. ItemsInv => AnswersStartOnce
  BY DEF ItemsInv
<1> QED
  BY <1>1, ItemsInvHolds, PTL

\* The final status of a batch agrees with its items, and an answered item has its
\* answer, however executions overlap, fail and die.
THEOREM OutcomesMatch == Spec => []OutcomeMatchesItems
<1>1. ItemsInv => OutcomeMatchesItems
  BY DEF ItemsInv
<1> QED
  BY <1>1, ItemsInvHolds, PTL

\* An answered or failed item stays as it is.
THEOREM OutcomesAreFinal == Spec => ItemsAreFinal
<1> DEFINE Final == \A i \in Items : item_status[i] \in {"answered", "failed"} =>
                                       item_status'[i] = item_status[i]
<1>1. ASSUME TypeInv, [Next]_vars PROVE [Final]_vars
  <2> SUFFICES ASSUME Next PROVE Final
    BY <1>1
  <2>1. item_status \in [Items -> ItemStatuses]
    BY <1>1 DEF TypeInv, ItemsTypeOK
  <2>2. CASE UNCHANGED item_status
    BY <2>2
  <2>3. ASSUME NEW t \in Tasks, InsertItems(t) PROVE Final
    BY <2>3 DEF InsertItems, NoItems
  <2>4. ASSUME NEW t \in Tasks, NEW i \in Items, CompleteItem(t, i) \/ FailItem(t, i) PROVE Final
    BY <2>1, <2>4 DEF CompleteItem, FailItem
  <2>5. ASSUME NEW i \in Items, ApplyCorrection(i) PROVE Final
    BY <2>1, <2>5 DEF ApplyCorrection
  <2>6. ASSUME NEW t \in Tasks, Report(t) PROVE Final
    BY <2>6 DEF Report, MarkAnswersFailed
  <2>7. ASSUME NEW t \in Tasks, Handle(t) PROVE Final
    <3>1. \/ UNCHANGED item_status \/ InsertItems(t)
          \/ \E i \in Items : CompleteItem(t, i) \/ FailItem(t, i)
      BY <2>7 DEF Handle, items, CheckValidation, Inspect, Reject, Charge, ScheduleExtraction,
                  OpenExtraction, ReadQuestions, TooMany, HandOver, BeginAnswering, McqBatch,
                  SaveMcqBatch, SelectBatch, SaveAnswer, LoopEnds, Finish
    <3> QED
      BY <2>2, <2>3, <2>4, <2>7, <3>1
  <2>8. ASSUME NEW t \in Tasks, Work(t) \/ Crash(t) PROVE Final
    <3>1. CASE \/ (\E k \in Keys : Lease(t, k)) \/ Complete(t) \/ TaskRaises(t) \/ FailJob(t)
               \/ Crash(t)
      BY <2>2, <3>1 DEF Lease, Complete, TaskRaises, FailJob, Crash, items
    <3> QED
      BY <2>6, <2>7, <2>8, <3>1 DEF Work
  <2>9. CASE Api \/ \E k \in Keys : LeaseLapses(k)
    BY <2>2, <2>5, <2>9 DEF Api, CreateSession, ExpireSession, Submit, PurgeRawSource,
                            StartAfterCorrection, LeaseLapses, items
  <2> QED
    BY <2>8, <2>9 DEF Next
<1> QED
  BY <1>1, TypeInvHolds, PTL DEF Spec, ItemsAreFinal

-----------------------------------------------------------------------------
(* The chain of answer jobs *)

AnswerKeys == {k \in Keys : k.stage = "answer"}

Written == Items \ Mcq

\* A job that may run again or has visibly failed.
Open(k) == queue[k].status \in {"waiting", "leased", "failed"}

\* The statements of the answer handler before its return.
Handling == {"begin", "mcq", "mcq_save", "mcq_items", "mcq_fail", "select", "write", "finish"}

\* What an execution of the answer handler may rely on at its statement, although the
\* other executions go on: of the items it has passed, none is pending.
AnswerTask(t) ==
  /\ task[t].key \in AnswerKeys
  /\ task[t].pc # "write" => task[t].rest = 0
  /\ task[t].pc \in {"mcq", "mcq_save", "mcq_items", "mcq_fail"} => Pending(Mcq) \subseteq task[t].todo
  /\ task[t].pc \in {"select", "write", "finish"} => Pending(Mcq) = {}
  /\ task[t].pc = "write" => /\ task[t].rest < task[t].key.rest
                             /\ Cardinality(Pending(Written) \ task[t].todo) <= task[t].rest
  /\ task[t].pc = "finish" => Pending(Written) = {}

\* An execution that returns chains a job of a smaller count, or the batch is over.
ReturnTask(t) ==
  IF task[t].rest = 0
    THEN workflow_status # "answering"
    ELSE task[t].rest < task[t].key.rest /\ Cardinality(Pending(Written)) <= task[t].rest

ChainTask(t) ==
  /\ task[t].pc # "idle" => queue[task[t].key].status # "absent"
  /\ task[t].pc \in Handling => AnswerTask(t)
  /\ task[t].pc # "idle" /\ task[t].key \in AnswerKeys =>
       task[t].pc \in Handling \cup {"return", "raise", "report"}
  /\ task[t].pc = "return" /\ task[t].key \in AnswerKeys => ReturnTask(t)

HoldersKnown == \A k \in Keys : queue[k].status \in {"leased", "succeeded"} => queue[k].holder # None

\* The count in a key bounds what is left for its job, and nothing has been chained
\* to a job that is not done.
ChainRows ==
  /\ \A k \in AnswerKeys : queue[k].status # "absent" =>
       k.epoch = answer_epoch /\ Cardinality(Pending(Written)) <= k.rest
  /\ \A k, n \in AnswerKeys : Open(k) /\ n.rest < k.rest => queue[n].status = "absent"

ChainInv ==
  /\ HoldersKnown /\ ChainRows /\ AnsweringHasJob
  /\ workflow_status = "answering" => answer_epoch = 1
  /\ \A t \in Tasks : ChainTask(t)

\* The keys of answer jobs are pairs of an epoch and a count.
LEMMA AnswerKeyForm ==
  /\ \A e \in Epochs, n \in Items : Answer(e, n) \in AnswerKeys /\ Answer(e, n).epoch = e
                                    /\ Answer(e, n).rest = n
  /\ \A k \in AnswerKeys : k \in Keys /\ k.epoch \in Epochs /\ k.rest \in Items
                           /\ k = Answer(k.epoch, k.rest)
<1>1. \A e \in Epochs, n \in Items : /\ Answer(e, n) \in AnswerKeys /\ Answer(e, n).epoch = e
                                     /\ Answer(e, n).rest = n
  BY DEF AnswerKeys, Keys, Answer
<1>2. ASSUME NEW k \in AnswerKeys PROVE \E e \in Epochs, n \in Items : k = Answer(e, n)
  BY DEF AnswerKeys, Keys, Validate, Extract
<1> QED
  BY <1>1, <1>2 DEF AnswerKeys

\* The items are finitely many, so that pending ones can be counted.
LEMMA CountPending ==
  ASSUME NEW S \in SUBSET Items, NEW T \in SUBSET S
  PROVE  /\ IsFiniteSet(S) /\ IsFiniteSet(T)
         /\ Cardinality(T) \in Nat /\ Cardinality(S) \in Nat /\ Cardinality(T) <= Cardinality(S)
         /\ Cardinality(S) <= NItems
         /\ T # S => Cardinality(T) < Cardinality(S)
         /\ Cardinality(T) = 0 => T = {}
<1>1. IsFiniteSet(Items) /\ Cardinality(Items) = NItems
  BY FS_Interval, BatchAssumption DEF Items
<1>2. IsFiniteSet(S) /\ Cardinality(S) <= Cardinality(Items)
  BY <1>1, FS_Subset
<1>3. /\ IsFiniteSet(T) /\ Cardinality(T) <= Cardinality(S)
      /\ Cardinality(S) = Cardinality(T) => S = T
  BY <1>2, FS_Subset
<1>4. Cardinality(T) \in Nat /\ Cardinality(S) \in Nat
  BY <1>2, <1>3, FS_CardinalityType
<1>5. Cardinality(T) = 0 => T = {}
  BY <1>3, FS_EmptySet
<1> QED
  BY <1>1, <1>2, <1>3, <1>4, <1>5

-----------------------------------------------------------------------------
(* Steps that leave the chain alone *)

\* No step puts an item back, opens answering again or forgets a row, once answering
\* has begun.
Forward ==
  /\ \A k \in Keys : queue[k].status # "absent" => queue'[k].status # "absent"
  /\ answer_epoch # 0 =>
       /\ UNCHANGED answer_epoch
       /\ workflow_status' = "answering" => workflow_status = "answering"
       /\ \A i \in Items : item_status'[i] = "pending" => item_status[i] = "pending"

\* A step that neither begins answering nor completes an answer job.
Calm ==
  /\ Forward /\ HoldersKnown'
  /\ UNCHANGED answer_epoch
  /\ workflow_status' = "answering" => workflow_status = "answering"
  /\ \A k \in AnswerKeys : /\ queue'[k].status = "absent" <=> queue[k].status = "absent"
                           /\ Open(k)' <=> Open(k)

\* Fewer items are pending, so that a count that covered them does so still.
LEMMA FewerPending ==
  ASSUME NEW S \in SUBSET Items, NEW D, NEW n \in Nat,
         \A i \in Items : item_status'[i] = "pending" => item_status[i] = "pending"
  PROVE  /\ Pending(S)' \subseteq Pending(S)
         /\ Cardinality(Pending(S) \ D) <= n => Cardinality(Pending(S)' \ D) <= n
         /\ Cardinality(Pending(S)) <= n => Cardinality(Pending(S)') <= n
<1>1. Pending(S)' \subseteq Pending(S) /\ Pending(S) \subseteq Items
  BY DEF Pending
<1>2. /\ Pending(S)' \ D \in SUBSET (Pending(S) \ D) /\ Pending(S) \ D \in SUBSET Items
      /\ Pending(S)' \in SUBSET Pending(S) /\ Pending(S) \in SUBSET Items
  BY <1>1
<1> HIDE DEF Pending
<1>3. /\ Cardinality(Pending(S)' \ D) \in Nat /\ Cardinality(Pending(S) \ D) \in Nat
      /\ Cardinality(Pending(S)' \ D) <= Cardinality(Pending(S) \ D)
  BY <1>2, CountPending
<1>4. /\ Cardinality(Pending(S)') \in Nat /\ Cardinality(Pending(S)) \in Nat
      /\ Cardinality(Pending(S)') <= Cardinality(Pending(S))
  BY <1>2, CountPending
<1> QED
  BY <1>1, <1>3, <1>4

\* What a task knows stays true while others take such a step.
LEMMA OthersKnow ==
  ASSUME TypeInv, ChainInv, Forward, NEW u \in Tasks, task'[u] = task[u] PROVE ChainTask(u)'
<1>1. ChainTask(u)
  BY DEF ChainInv
<1>2. CASE task[u].pc = "idle"
  BY <1>2 DEF ChainTask, Handling
<1>3. ASSUME task[u].pc # "idle" PROVE ChainTask(u)'
  <2>1. /\ task[u].key \in Keys /\ task[u].rest \in Nat /\ task[u].rest \in 0..NItems
        /\ task[u].pc \in PCs
    BY <1>3, BusyTask, BatchAssumption DEF TypeInv, TaskRecords
  <2>2. queue[task[u].key].status # "absent" /\ queue'[task[u].key].status # "absent"
    BY <1>1, <1>3, <2>1 DEF ChainTask, Forward
  <2>3. ASSUME task[u].key \in AnswerKeys
        PROVE  /\ workflow_status' = "answering" => workflow_status = "answering"
               /\ \A i \in Items : item_status'[i] = "pending" => item_status[i] = "pending"
    <3>1. answer_epoch \in Epochs
      BY <2>2, <2>3, AnswerKeyForm DEF ChainInv, ChainRows
    <3> QED
      BY <3>1 DEF Forward, Epochs
  <2>4. ASSUME task[u].pc \in Handling PROVE AnswerTask(u)'
    <3>1. AnswerTask(u)
      BY <1>1, <2>4 DEF ChainTask
    <3>2. /\ Pending(Mcq)' \subseteq Pending(Mcq) /\ Pending(Written)' \subseteq Pending(Written)
          /\ Cardinality(Pending(Written) \ task[u].todo) <= task[u].rest =>
               Cardinality(Pending(Written)' \ task[u].todo) <= task[u].rest
      BY <2>1, <2>3, <3>1, FewerPending, BatchAssumption DEF AnswerTask, Written
    <3> QED
      BY <3>1, <3>2 DEF AnswerTask
  <2>5. ASSUME task[u].pc = "return", task[u].key \in AnswerKeys PROVE ReturnTask(u)'
    <3>1. ReturnTask(u)
      BY <1>1, <2>5 DEF ChainTask
    <3>2. Cardinality(Pending(Written)) <= task[u].rest =>
               Cardinality(Pending(Written)') <= task[u].rest
      BY <2>1, <2>3, <2>5, FewerPending DEF Written
    <3> QED
      BY <2>3, <2>5, <3>1, <3>2 DEF ReturnTask
  <2> QED
    BY <1>1, <2>2, <2>4, <2>5 DEF ChainTask
<1> QED
  BY <1>2, <1>3

\* A calm step keeps the rows of the chain and the job of a batch in answering.
LEMMA CalmKeepsRows ==
  ASSUME TypeInv, ChainInv, Calm
  PROVE  /\ HoldersKnown' /\ ChainRows' /\ AnsweringHasJob'
         /\ (workflow_status = "answering" => answer_epoch = 1)'
<1>1. HoldersKnown' /\ (workflow_status = "answering" => answer_epoch = 1)'
  BY DEF Calm, ChainInv
<1>2. ASSUME NEW k \in AnswerKeys, queue'[k].status # "absent"
      PROVE  k.epoch = answer_epoch' /\ Cardinality(Pending(Written)') <= k.rest
  <2>1. /\ queue[k].status # "absent" /\ k.epoch \in Epochs /\ k.rest \in Nat
    BY <1>2, AnswerKeyForm DEF Calm, Items
  <2>2. k.epoch = answer_epoch /\ Cardinality(Pending(Written)) <= k.rest /\ answer_epoch # 0
    BY <2>1 DEF ChainInv, ChainRows, Epochs
  <2>3. \A i \in Items : item_status'[i] = "pending" => item_status[i] = "pending"
    BY <2>2 DEF Calm, Forward
  <2> QED
    BY <2>1, <2>2, <2>3, FewerPending DEF Calm, Written
<1>3. ASSUME NEW k \in AnswerKeys, NEW n \in AnswerKeys, Open(k)', n.rest < k.rest
      PROVE  queue'[n].status = "absent"
  BY <1>3 DEF Calm, ChainInv, ChainRows
<1>4. ASSUME workflow_status' = "answering"
      PROVE  \E n \in Items : queue'[Answer(answer_epoch', n)].status \in {"waiting", "leased", "failed"}
  <2>1. PICK n \in Items : Open(Answer(answer_epoch, n))
    BY <1>4 DEF Calm, ChainInv, AnsweringHasJob, Open
  <2>2. answer_epoch \in Epochs
    BY <1>4, BatchAssumption DEF Calm, ChainInv, Epochs
  <2>3. Open(Answer(answer_epoch, n))'
    BY <2>1, <2>2, AnswerKeyForm DEF Calm, Answer
  <2> QED
    BY <2>3 DEF Open, Calm
<1> QED
  BY <1>1, <1>2, <1>3, <1>4 DEF ChainRows, AnsweringHasJob

\* A step that changes no row.
LEMMA CalmOfBusiness ==
  ASSUME ChainInv, UNCHANGED <<queue, answer_epoch>>,
         workflow_status' = "answering" => workflow_status = "answering",
         answer_epoch # 0 => \A i \in Items : item_status'[i] = "pending" => item_status[i] = "pending"
  PROVE  Calm
  BY DEF Calm, Forward, ChainInv, HoldersKnown, Open

\* A step that moves one row between waiting, leased and failed.
LEMMA CalmOfRow ==
  ASSUME ChainInv, NEW k \in Keys,
         queue[k].status \in {"waiting", "leased", "failed"},
         queue'[k].status \in {"waiting", "leased", "failed"},
         queue'[k].status = "leased" => queue'[k].holder # None,
         \A j \in Keys \ {k} : queue'[j] = queue[j],
         UNCHANGED <<answer_epoch, workflow_status, item_status>>
  PROVE  Calm
<1>1. HoldersKnown'
  BY DEF ChainInv, HoldersKnown
<1>2. Forward
  BY DEF Forward
<1>3. \A j \in AnswerKeys : /\ queue'[j].status = "absent" <=> queue[j].status = "absent"
                            /\ Open(j)' <=> Open(j)
  BY DEF AnswerKeys, Open
<1> QED
  BY <1>1, <1>2, <1>3 DEF Calm

\* create_job of a validation or an extraction.
LEMMA CalmOfEnqueue ==
  ASSUME TypeInv, ChainInv, NEW k, k \notin AnswerKeys, Enqueue(k),
         UNCHANGED <<answer_epoch, item_status>>, workflow_status' # "answering"
  PROVE  Calm
<1>1. CASE UNCHANGED queue
  BY <1>1, CalmOfBusiness
<1>2. ASSUME queue[k].status = "absent", queue' = [queue EXCEPT ![k] = [queue[k] EXCEPT !.status = "waiting"]]
      PROVE  Calm
  <2>1. \A j \in Keys : queue'[j] = IF j = k THEN [queue[k] EXCEPT !.status = "waiting"] ELSE queue[j]
    BY <1>2 DEF TypeInv, QueueTypeOK
  <2>2. k \in Keys => [queue[k] EXCEPT !.status = "waiting"].status = "waiting"
    BY DEF TypeInv, QueueTypeOK, Rows
  <2>3. \A j \in Keys : j # k => queue'[j] = queue[j]
    BY <2>1
  <2>4. k \in Keys => queue'[k].status = "waiting"
    BY <2>1, <2>2
  <2>5. HoldersKnown'
    BY <2>3, <2>4 DEF ChainInv, HoldersKnown
  <2>6. Forward
    BY <2>3, <2>4 DEF Forward
  <2>7. \A j \in AnswerKeys : queue'[j] = queue[j]
    BY <2>3 DEF AnswerKeys
  <2> QED
    BY <2>5, <2>6, <2>7 DEF Calm, Open
<1> QED
  BY <1>1, <1>2 DEF Enqueue

\* The statements of validation and extraction, except the one that hands over.
LEMMA CalmIntake ==
  ASSUME TypeInv, ItemsInv, ChainInv, NEW t \in Tasks,
         \/ CheckValidation(t) \/ Inspect(t) \/ Reject(t) \/ Charge(t) \/ ScheduleExtraction(t)
         \/ OpenExtraction(t) \/ ReadQuestions(t) \/ TooMany(t) \/ InsertItems(t)
  PROVE  Calm
<1> USE DEF parent, items, intake
<1>1. CASE CheckValidation(t) \/ Inspect(t) \/ Reject(t) \/ Charge(t) \/ OpenExtraction(t)
           \/ ReadQuestions(t)
  BY <1>1, CalmOfBusiness
     DEF CheckValidation, Inspect, Reject, Charge, OpenExtraction, ReadQuestions
<1>2. CASE TooMany(t)
  BY <1>2, CalmOfBusiness DEF TooMany, FailAndRefund
<1>3. CASE InsertItems(t)
  <2>1. \/ UNCHANGED <<workflow_status, item_status>>
        \/ NoItems /\ workflow_status' \in {"ready_to_answer", "needs_correction"}
    BY <1>3 DEF InsertItems
  <2>2. UNCHANGED <<queue, answer_epoch>>
    BY <1>3 DEF InsertItems
  <2> QED
    BY <2>1, <2>2, CalmOfBusiness DEF ItemsInv
<1>4. CASE ScheduleExtraction(t)
  <2>1. Extract(extraction_epoch + 1) \notin AnswerKeys
    BY DEF AnswerKeys, Extract
  <2>2. \/ UNCHANGED <<workflow_status, queue>>
        \/ workflow_status' = "extracting" /\ Enqueue(Extract(extraction_epoch + 1))
    BY <1>4 DEF ScheduleExtraction
  <2>3. UNCHANGED <<answer_epoch, item_status>>
    BY <1>4 DEF ScheduleExtraction
  <2> QED
    BY <2>1, <2>2, <2>3, CalmOfEnqueue, CalmOfBusiness
<1> QED
  BY <1>1, <1>2, <1>3, <1>4

\* The statements of the answer handler.
LEMMA CalmAnswers ==
  ASSUME TypeInv, ItemsInv, ChainInv, NEW t \in Tasks,
         \/ BeginAnswering(t) \/ McqBatch(t) \/ SaveMcqBatch(t) \/ SelectBatch(t)
         \/ (\E i \in Items : SaveAnswer(t, i) \/ CompleteItem(t, i) \/ FailItem(t, i))
         \/ LoopEnds(t) \/ Finish(t)
  PROVE  Calm
<1> USE DEF parent, items, intake
<1>1. CASE \/ BeginAnswering(t) \/ McqBatch(t) \/ SaveMcqBatch(t) \/ SelectBatch(t) \/ LoopEnds(t)
           \/ (\E i \in Items : SaveAnswer(t, i))
  BY <1>1, CalmOfBusiness
     DEF BeginAnswering, McqBatch, SaveMcqBatch, SelectBatch, LoopEnds, SaveAnswer
<1>2. ASSUME NEW i \in Items, CompleteItem(t, i) \/ FailItem(t, i) PROVE Calm
  <2>1. PICK st \in {"answered", "failed"} :
          item_status' = [item_status EXCEPT ![i] = IF item_status[i] = "pending" THEN st
                                                    ELSE item_status[i]]
    BY <1>2 DEF CompleteItem, FailItem
  <2>2. \A k \in Items : item_status'[k] = "pending" => item_status[k] = "pending"
    BY <2>1 DEF TypeInv, ItemsTypeOK
  <2> QED
    BY <1>2, <2>2, CalmOfBusiness DEF CompleteItem, FailItem
<1>3. CASE Finish(t)
  BY <1>3, CalmOfBusiness DEF Finish, FinishAnswers
<1> QED
  BY <1>1, <1>2, <1>3

\* The queue and the worker around a handler, except the completion of an answer job.
LEMMA CalmQueue ==
  ASSUME TypeInv, ItemsInv, ChainInv, NEW t \in Tasks,
         \/ (\E k \in Keys : Lease(t, k)) \/ TaskRaises(t) \/ FailJob(t) \/ Report(t) \/ Crash(t)
         \/ (\E k \in Keys : LeaseLapses(k))
  PROVE  Calm
<1> USE DEF parent, items, intake
<1>1. ASSUME NEW k \in Keys, Lease(t, k) PROVE Calm
  <2> DEFINE r == [status |-> "leased", attempts |-> queue[k].attempts + 1, holder |-> t]
  <2>1. r.status = "leased" /\ r.holder # None
    BY BatchAssumption
  <2>2. /\ queue[k].status = "waiting" /\ queue' = [queue EXCEPT ![k] = r]
        /\ UNCHANGED <<answer_epoch, workflow_status, item_status>>
    BY <1>1 DEF Lease
  <2>3. queue'[k] = r /\ \A j \in Keys \ {k} : queue'[j] = queue[j]
    BY <2>2 DEF TypeInv, QueueTypeOK
  <2> QED
    BY <2>1, <2>2, <2>3, CalmOfRow
<1>2. ASSUME NEW k \in Keys, queue[k].status \in {"waiting", "leased", "failed"},
             queue' = [queue EXCEPT ![k] = Released(queue[k])],
             UNCHANGED <<answer_epoch, workflow_status, item_status>>
      PROVE  Calm
  <2>1. Released(queue[k]).status \in {"waiting", "failed"}
    BY DEF TypeInv, QueueTypeOK, Rows, Released
  <2>2. queue'[k] = Released(queue[k]) /\ \A j \in Keys \ {k} : queue'[j] = queue[j]
    BY <1>2 DEF TypeInv, QueueTypeOK
  <2> QED
    BY <1>2, <2>1, <2>2, CalmOfRow
<1>3. CASE \E k \in Keys : LeaseLapses(k)
  BY <1>2, <1>3 DEF LeaseLapses
<1>4. CASE TaskRaises(t) \/ Crash(t)
  BY <1>4, CalmOfBusiness DEF TaskRaises, Crash
<1>5. CASE FailJob(t)
  <2> DEFINE k == task[t].key
  <2>1. UNCHANGED <<answer_epoch, workflow_status, item_status>>
    BY <1>5 DEF FailJob
  <2>2. k \in Keys /\ queue[k].status # "absent"
    BY <1>5, BusyTask DEF FailJob, At, TypeInv, TaskRecords, ChainInv, ChainTask
  <2>3. CASE UNCHANGED queue
    BY <2>1, <2>3, CalmOfBusiness
  <2>4. CASE /\ Leads(t) \/ queue[k].holder = None
             /\ queue' = [queue EXCEPT ![k] = Released(queue[k])]
    <3>1. queue[k].status \in {"absent", "waiting", "leased", "succeeded", "failed"}
      BY <2>2 DEF TypeInv, QueueTypeOK, Rows
    <3>2. queue[k].status \in {"waiting", "leased", "failed"}
      BY <2>2, <2>4, <3>1 DEF Leads, ChainInv, HoldersKnown
    <3> QED
      BY <1>2, <2>1, <2>2, <2>4, <3>2
  <2> QED
    BY <1>5, <2>3, <2>4 DEF FailJob
<1>6. CASE Report(t)
  <2>1. UNCHANGED <<queue, answer_epoch>>
    BY <1>6 DEF Report
  <2>2. workflow_status' = "answering" => workflow_status = "answering"
    BY <1>6 DEF Report, MarkAnswersFailed, FinishAnswers, FailAndRefund
  <2>3. \A i \in Items : item_status'[i] = "pending" => item_status[i] = "pending"
    BY <1>6 DEF Report, MarkAnswersFailed
  <2> QED
    BY <2>1, <2>2, <2>3, CalmOfBusiness
<1> QED
  BY <1>1, <1>3, <1>4, <1>5, <1>6

\* The student's requests, except the one that begins the answers.
LEMMA CalmApi ==
  ASSUME TypeInv, ItemsInv, ChainInv,
         \/ CreateSession \/ ExpireSession \/ Submit \/ PurgeRawSource
         \/ (\E i \in Items : ApplyCorrection(i))
  PROVE  Calm
<1> USE DEF parent, items, intake
<1>1. CASE CreateSession \/ ExpireSession \/ PurgeRawSource
  BY <1>1, CalmOfBusiness DEF CreateSession, ExpireSession, PurgeRawSource
<1>2. CASE Submit
  <2>1. Validate \notin AnswerKeys
    BY DEF AnswerKeys, Validate
  <2> QED
    BY <1>2, <2>1, CalmOfEnqueue DEF Submit
<1>3. ASSUME NEW i \in Items, ApplyCorrection(i) PROVE Calm
  <2>1. /\ answer_epoch = 0 /\ workflow_status' # "answering"
        /\ UNCHANGED <<queue, answer_epoch>>
    BY <1>3 DEF ApplyCorrection, ItemsInv
  <2> QED
    BY <2>1, CalmOfBusiness
<1> QED
  BY <1>1, <1>2, <1>3

-----------------------------------------------------------------------------
(* Steps of the chain *)

\* Before answering has begun, no answer job exists.
LEMMA NoJobsBefore ==
  ASSUME ChainInv, answer_epoch = 0, NEW k \in AnswerKeys PROVE queue[k].status = "absent"
  BY AnswerKeyForm DEF ChainInv, ChainRows, Epochs

\* start_for_job: the first answer job may be left with every item.
LEMMA BeginStartsChain ==
  ASSUME TypeInv, ItemsInv, ChainInv, BeginAnswers, UNCHANGED item_status
  PROVE  /\ Forward /\ HoldersKnown' /\ ChainRows' /\ AnsweringHasJob'
         /\ (workflow_status = "answering" => answer_epoch = 1)'
<1> DEFINE first == Answer(1, NItems)
<1>1. answer_epoch = 0 /\ answer_epoch' = 1
  BY DEF BeginAnswers, ItemsInv
<1>2. first \in AnswerKeys /\ first.epoch = 1 /\ first.rest = NItems /\ first \in Keys
  BY AnswerKeyForm, BatchAssumption DEF Epochs, Items
<1>3. queue[first].status = "absent"
  BY <1>1, <1>2, NoJobsBefore
<1>4. Enqueue(first)
  BY <1>1 DEF BeginAnswers
<1> HIDE DEF first
<1>5. queue' = [queue EXCEPT ![first] = [queue[first] EXCEPT !.status = "waiting"]]
  BY <1>3, <1>4 DEF Enqueue
<1>6. [queue[first] EXCEPT !.status = "waiting"].status = "waiting"
  BY <1>2 DEF TypeInv, QueueTypeOK, Rows
<1>7. queue'[first].status = "waiting" /\ \A j \in Keys : j # first => queue'[j] = queue[j]
  BY <1>2, <1>5, <1>6 DEF TypeInv, QueueTypeOK
<1>8. HoldersKnown'
  BY <1>7 DEF ChainInv, HoldersKnown
<1>9. Forward
  BY <1>1, <1>7 DEF Forward
<1>10. \A k \in AnswerKeys : k # first => queue'[k].status = "absent"
  BY <1>1, <1>7, NoJobsBefore DEF AnswerKeys
<1>11. Cardinality(Pending(Written)') <= NItems
  <2>1. Pending(Written)' \in SUBSET Items
    BY DEF Pending, Written
  <2> QED
    BY <2>1, CountPending
<1>12. ChainRows'
  <2>1. \A k \in AnswerKeys : queue'[k].status # "absent" =>
          k.epoch = answer_epoch' /\ Cardinality(Pending(Written)') <= k.rest
    BY <1>1, <1>2, <1>10, <1>11
  <2>2. \A k, n \in AnswerKeys : Open(k)' /\ n.rest < k.rest => queue'[n].status = "absent"
    <3>1. ~(first.rest < first.rest)
      BY <1>2, BatchAssumption
    <3> QED
      BY <1>10, <3>1 DEF Open
  <2> QED
    BY <2>1, <2>2 DEF ChainRows
<1>13. AnsweringHasJob'
  BY <1>1, <1>7, BatchAssumption DEF AnsweringHasJob, first, Items
<1> QED
  BY <1>1, <1>8, <1>9, <1>12, <1>13

\* The completion of an answer job: the batch is over, or the job of the items that are
\* left is new and takes its place.
LEMMA CompleteKeepsChain ==
  ASSUME TypeInv, ChainInv, NEW t \in Tasks, Complete(t), Leads(t), task[t].key \in AnswerKeys
  PROVE  Forward /\ HoldersKnown' /\ ChainRows' /\ AnsweringHasJob'
<1> DEFINE k == task[t].key
           n == NextKey(t)
           chained == task[t].rest > 0
<1>1. /\ task[t].pc = "return" /\ task[t] \in TaskRecords /\ k \in AnswerKeys /\ k \in Keys
      /\ k.stage = "answer" /\ task[t].rest \in 0..NItems
  BY BusyTask DEF Complete, At, TypeInv, TaskRecords, AnswerKeys
<1>2. ReturnTask(t) /\ queue[k].status = "leased"
  BY <1>1 DEF ChainInv, ChainTask, Leads
<1>3. /\ queue' = [j \in Keys |->
                     IF j = k THEN [queue[k] EXCEPT !.status = "succeeded"]
                     ELSE IF chained /\ j = n /\ queue[n].status = "absent"
                       THEN [queue[n] EXCEPT !.status = "waiting"] ELSE queue[j]]
      /\ UNCHANGED <<workflow_status, answer_epoch, item_status>>
  BY <1>1 DEF Complete, intake, parent, items
<1>4. chained => n \in AnswerKeys /\ n.epoch = k.epoch /\ n.rest = task[t].rest
  BY <1>1, AnswerKeyForm, BatchAssumption DEF NextKey, Items
<1>5. chained => n.rest < k.rest /\ Cardinality(Pending(Written)) <= n.rest
  BY <1>1, <1>2, <1>4 DEF ReturnTask
<1>6. chained => queue[n].status = "absent" /\ n # k
  BY <1>1, <1>2, <1>4, <1>5 DEF ChainInv, ChainRows, Open
<1>7. /\ queue[k] \in Rows /\ queue[k].holder # None
      /\ chained => n \in Keys /\ queue[n] \in Rows
  BY <1>1, <1>2, <1>4 DEF ChainInv, HoldersKnown, TypeInv, QueueTypeOK, AnswerKeys
<1>8. /\ [queue[k] EXCEPT !.status = "succeeded"].status = "succeeded"
      /\ [queue[k] EXCEPT !.status = "succeeded"].holder # None
      /\ chained => [queue[n] EXCEPT !.status = "waiting"].status = "waiting"
  BY <1>7 DEF Rows
<1>9. k.epoch = answer_epoch /\ k.rest \in Items
  BY <1>1, <1>2, AnswerKeyForm DEF ChainInv, ChainRows
<1>10. ReturnTask(t) => (~chained => workflow_status # "answering")
  BY <1>1, BatchAssumption DEF ReturnTask
<1>11. chained => NextKey(t) = Answer(answer_epoch, task[t].rest) /\ task[t].rest \in Items
  BY <1>1, <1>9, BatchAssumption DEF NextKey, Items
<1> HIDE DEF k, n, chained
<1>12. /\ queue'[k].status = "succeeded" /\ queue'[k].holder # None
       /\ chained => queue'[n].status = "waiting"
       /\ \A j \in Keys : j # k /\ ~(chained /\ j = n) => queue'[j] = queue[j]
  <2>1. queue'[k] = [queue[k] EXCEPT !.status = "succeeded"]
    BY <1>1, <1>3
  <2>2. chained => queue'[n] = [queue[n] EXCEPT !.status = "waiting"]
    BY <1>3, <1>6, <1>7
  <2>3. \A j \in Keys : j # k /\ ~(chained /\ j = n) => queue'[j] = queue[j]
    BY <1>3
  <2> QED
    BY <1>8, <2>1, <2>2, <2>3
<1>13. HoldersKnown'
  BY <1>12 DEF ChainInv, HoldersKnown
<1>14. Forward
  BY <1>3, <1>12 DEF Forward
<1>15. ASSUME NEW a \in AnswerKeys, queue'[a].status # "absent"
       PROVE  a.epoch = answer_epoch' /\ Cardinality(Pending(Written)') <= a.rest
  <2>1. Pending(Written)' = Pending(Written)
    BY <1>3 DEF Pending
  <2>2. CASE chained /\ a = n
    BY <1>3, <1>4, <1>5, <1>9, <2>1, <2>2
  <2>3. CASE ~(chained /\ a = n)
    <3>1. a \in Keys /\ queue[a].status # "absent"
      BY <1>2, <1>12, <1>15, <2>3 DEF AnswerKeys
    <3> QED
      BY <1>3, <2>1, <3>1 DEF ChainInv, ChainRows
  <2> QED
    BY <2>2, <2>3
<1>16. ASSUME NEW a \in AnswerKeys, NEW b \in AnswerKeys, Open(a)', b.rest < a.rest
       PROVE  queue'[b].status = "absent"
  <2>1. a # k
    BY <1>12, <1>16 DEF Open
  <2>2. /\ a \in Keys /\ b \in Keys /\ a.rest \in Nat /\ b.rest \in Nat /\ k.rest \in Nat
        /\ a.rest \in Items /\ b.rest \in Items
    BY <1>9, AnswerKeyForm DEF Items
  <2>3. CASE chained /\ a = n
    <3>1. queue[b].status = "absent" /\ b # k /\ b # n
      BY <1>1, <1>2, <1>4, <1>5, <1>16, <2>2, <2>3 DEF ChainInv, ChainRows, Open
    <3> QED
      BY <1>12, <2>2, <3>1
  <2>4. CASE ~(chained /\ a = n)
    <3>1. Open(a)
      BY <1>12, <1>16, <2>1, <2>2, <2>4 DEF Open
    <3>2. ~(k.rest < a.rest)
      BY <1>1, <1>2, <3>1 DEF ChainInv, ChainRows
    <3>3. a.epoch = k.epoch
      BY <1>9, <3>1 DEF ChainInv, ChainRows, Open
    <3>4. a.rest # k.rest
      BY <1>1, <2>1, <3>3, AnswerKeyForm
    <3>5. a.rest < k.rest
      BY <2>2, <3>2, <3>4
    <3>6. queue[a].status = "absent"
      BY <1>1, <1>2, <3>5 DEF ChainInv, ChainRows, Open
    <3> QED
      BY <3>1, <3>6 DEF Open
  <2> QED
    BY <2>3, <2>4
<1>17. AnsweringHasJob'
  <2>1. CASE ~chained
    BY <1>2, <1>3, <1>10, <2>1 DEF AnsweringHasJob
  <2>2. CASE chained
    BY <1>3, <1>11, <1>12, <2>2 DEF AnsweringHasJob, n
  <2> QED
    BY <2>1, <2>2
<1> QED
  BY <1>13, <1>14, <1>15, <1>16, <1>17 DEF ChainRows

\* A plain move keeps the locals of its task and the other tasks.
LEMMA GotoKeeps ==
  ASSUME TaskTypeOK, NEW t \in Tasks, task[t].pc # "idle", NEW pc, Goto(t, pc)
  PROVE  /\ task'[t].pc = pc /\ task'[t].key = task[t].key /\ task'[t].todo = task[t].todo
         /\ task'[t].rest = task[t].rest
         /\ \A u \in Tasks \ {t} : task'[u] = task[u]
<1>1. task[t] \in TaskRecords
  BY BusyTask
<1>2. task' = [task EXCEPT ![t] = [task[t] EXCEPT !.pc = pc]]
  BY DEF Goto
<1>3. task'[t] = [task[t] EXCEPT !.pc = pc] /\ \A u \in Tasks \ {t} : task'[u] = task[u]
  BY <1>2 DEF TaskTypeOK
<1> QED
  BY <1>1, <1>3 DEF TaskRecords

\* A task that has no answer job in hand, or leaves it by an exception, relies on nothing.
LEMMA LeavesChain ==
  ASSUME TypeInv, ChainInv, Forward, NEW t \in Tasks, task[t].pc # "idle",
         task'[t].key = task[t].key, task'[t].pc \notin Handling,
         task[t].key \in AnswerKeys => task'[t].pc \in {"raise", "report"}
  PROVE  ChainTask(t)'
<1>1. task[t].key \in Keys
  BY BusyTask DEF TypeInv, TaskRecords
<1>2. queue'[task[t].key].status # "absent"
  BY <1>1 DEF ChainInv, ChainTask, Forward
<1> QED
  BY <1>2 DEF ChainTask

\* A task that has ended relies on nothing.
LEMMA EndsKnowing ==
  ASSUME NEW t \in Tasks, TypeInv, task' = [task EXCEPT ![t] = Idle]
  PROVE  ChainTask(t)' /\ \A u \in Tasks \ {t} : task'[u] = task[u]
  BY DEF TypeInv, TaskTypeOK, Idle, ChainTask, Handling

\* The exception handler.
LEMMA RaisesKnowing ==
  ASSUME TypeInv, ChainInv, Forward, NEW t \in Tasks, task[t].pc # "idle", Raise(t)
  PROVE  ChainTask(t)' /\ \A u \in Tasks \ {t} : task'[u] = task[u]
<1>1. /\ task'[t].pc = "raise" /\ task'[t].key = task[t].key
      /\ \A u \in Tasks \ {t} : task'[u] = task[u]
  BY DEF Raise, TypeInv, TaskTypeOK
<1> QED
  BY <1>1, LeavesChain DEF Handling

\* The statements of validation and extraction.
LEMMA IntakeKnows ==
  ASSUME TypeInv, ChainInv, Forward, NEW t \in Tasks,
         \/ CheckValidation(t) \/ Inspect(t) \/ Reject(t) \/ Charge(t) \/ ScheduleExtraction(t)
         \/ OpenExtraction(t) \/ ReadQuestions(t) \/ TooMany(t) \/ InsertItems(t) \/ HandOver(t)
  PROVE  ChainTask(t)' /\ \A u \in Tasks \ {t} : task'[u] = task[u]
<1>1. /\ task[t].pc # "idle" /\ task[t] \in TaskRecords
      /\ task[t].pc \notin Handling \cup {"return", "raise", "report"}
  BY BusyTask DEF CheckValidation, Inspect, Reject, Charge, ScheduleExtraction, OpenExtraction,
                  ReadQuestions, TooMany, InsertItems, HandOver, At, Handling, TypeInv
<1>2. task[t].key \notin AnswerKeys
  BY <1>1 DEF ChainInv, ChainTask
<1>3. ASSUME NEW pc, pc \notin Handling, Goto(t, pc)
      PROVE  ChainTask(t)' /\ \A u \in Tasks \ {t} : task'[u] = task[u]
  BY <1>1, <1>2, <1>3, GotoKeeps, LeavesChain DEF TypeInv
<1>4. ASSUME NEW pc, pc \notin Handling, NEW S,
             task' = [task EXCEPT ![t] = [task[t] EXCEPT !.pc = pc, !.todo = S]]
      PROVE  ChainTask(t)' /\ \A u \in Tasks \ {t} : task'[u] = task[u]
  <2>1. /\ task'[t].pc = pc /\ task'[t].key = task[t].key
        /\ \A u \in Tasks \ {t} : task'[u] = task[u]
    BY <1>1, <1>4 DEF TypeInv, TaskTypeOK, TaskRecords
  <2> QED
    BY <1>1, <1>2, <1>4, <2>1, LeavesChain
<1>5. CASE \/ CheckValidation(t) \/ Inspect(t) \/ Reject(t) \/ Charge(t) \/ ScheduleExtraction(t)
           \/ OpenExtraction(t) \/ TooMany(t)
  <2>1. \E pc \in {"schedule", "return", "inspect", "charge", "reject", "ocr"} : Goto(t, pc)
    BY <1>5 DEF CheckValidation, Inspect, Reject, Charge, ScheduleExtraction, OpenExtraction, TooMany
  <2> QED
    BY <1>3, <2>1 DEF Handling
<1>6. CASE ReadQuestions(t)
  <2>1. \/ \E unclear \in SUBSET Items :
             task' = [task EXCEPT ![t] = [task[t] EXCEPT !.pc = "insert", !.todo = unclear]]
        \/ Goto(t, "too_many")
    BY <1>6 DEF ReadQuestions
  <2> QED
    BY <1>3, <1>4, <2>1 DEF Handling
<1>7. CASE InsertItems(t)
  <2>1. \/ Raise(t)
        \/ \E pc \in {"return", "hand_over"} :
             task' = [task EXCEPT ![t] = [task[t] EXCEPT !.pc = pc, !.todo = {}]]
    BY <1>7 DEF InsertItems
  <2> QED
    BY <1>1, <1>4, <2>1, RaisesKnowing DEF Handling
<1>8. CASE HandOver(t)
  BY <1>1, <1>3, <1>8, RaisesKnowing DEF HandOver, Handling
<1> QED
  BY <1>5, <1>6, <1>7, <1>8

\* The next written batch is shorter than what the job's key allows for.
LEMMA BatchIsShorter ==
  ASSUME NEW S \in SUBSET Items, S # {}, NEW D,
         D = {i \in S : Cardinality({k \in S : k < i}) < BatchSize}
  PROVE  /\ Cardinality(S \ D) \in Nat /\ Cardinality(S \ D) < Cardinality(S)
<1>1. PICK first \in S : \A k \in S : ~(k < first)
  <2>1. S \in SUBSET Nat
    BY DEF Items
  <2>2. PICK i \in S : \A k \in S : ~(<<k, i>> \in OpToRel(<, Nat))
    BY <2>1, NatLessThanWellFounded, WFMin
  <2> QED
    BY <2>1, <2>2 DEF OpToRel
<1>2. {k \in S : k < first} = {}
  BY <1>1
<1>3. first \in D
  BY <1>2, FS_EmptySet, BatchAssumption
<1>4. S \ D \in SUBSET S /\ S \ D # S
  BY <1>3
<1> QED
  BY <1>4, CountPending

\* The first transaction of answer(), and the MCQ batch.
LEMMA McqKnows ==
  ASSUME TypeInv, ChainInv, Forward, NEW t \in Tasks,
         BeginAnswering(t) \/ McqBatch(t) \/ SaveMcqBatch(t)
  PROVE  ChainTask(t)' /\ \A u \in Tasks \ {t} : task'[u] = task[u]
<1> USE DEF items, parent
<1>1. /\ task[t].pc \in {"begin", "mcq", "mcq_save"} /\ task[t] \in TaskRecords
      /\ task[t].key \in AnswerKeys /\ AnswerTask(t) /\ task[t].rest = 0
      /\ UNCHANGED <<item_status, workflow_status, answer_epoch, queue>>
  BY BusyTask DEF BeginAnswering, McqBatch, SaveMcqBatch, At, TypeInv, ChainInv, ChainTask,
                  AnswerTask, Handling
<1>2. /\ queue'[task[t].key].status # "absent" /\ task[t].key.epoch = answer_epoch
      /\ Pending(Mcq)' = Pending(Mcq)
  BY <1>1 DEF ChainInv, ChainTask, ChainRows, Pending
<1>3. ASSUME NEW pc \in {"mcq_save", "mcq_items", "mcq_fail"}, Goto(t, pc), task[t].pc # "begin"
      PROVE  ChainTask(t)' /\ \A u \in Tasks \ {t} : task'[u] = task[u]
  <2>1. /\ task'[t].pc = pc /\ task'[t].key = task[t].key /\ task'[t].todo = task[t].todo
        /\ task'[t].rest = task[t].rest
        /\ \A u \in Tasks \ {t} : task'[u] = task[u]
    BY <1>1, <1>3, GotoKeeps DEF TypeInv
  <2>2. AnswerTask(t)'
    BY <1>1, <1>2, <1>3, <2>1 DEF AnswerTask
  <2> QED
    BY <1>1, <1>2, <1>3, <2>1, <2>2 DEF ChainTask, Handling
<1>4. CASE McqBatch(t) \/ SaveMcqBatch(t)
  BY <1>3, <1>4 DEF McqBatch, SaveMcqBatch, At
<1>5. ASSUME workflow_status # "answering" \/ answer_epoch # task[t].key.epoch, Goto(t, "return")
      PROVE  ChainTask(t)' /\ \A u \in Tasks \ {t} : task'[u] = task[u]
  <2>1. /\ task'[t].pc = "return" /\ task'[t].key = task[t].key /\ task'[t].rest = 0
        /\ \A u \in Tasks \ {t} : task'[u] = task[u]
    BY <1>1, <1>5, GotoKeeps DEF TypeInv
  <2>2. ReturnTask(t)'
    BY <1>1, <1>2, <1>5, <2>1 DEF ReturnTask
  <2> QED
    BY <1>1, <1>2, <2>1, <2>2 DEF ChainTask, Handling
<1>6. ASSUME Pending(Mcq) = {}, Goto(t, "select")
      PROVE  ChainTask(t)' /\ \A u \in Tasks \ {t} : task'[u] = task[u]
  <2>1. /\ task'[t].pc = "select" /\ task'[t].key = task[t].key /\ task'[t].rest = 0
        /\ \A u \in Tasks \ {t} : task'[u] = task[u]
    BY <1>1, <1>6, GotoKeeps DEF TypeInv
  <2>2. AnswerTask(t)'
    BY <1>1, <1>2, <1>6, <2>1 DEF AnswerTask
  <2> QED
    BY <1>1, <1>2, <2>1, <2>2 DEF ChainTask, Handling
<1>7. ASSUME NEW S, S = {i \in Mcq : item_status[i] # "answered"},
             task' = [task EXCEPT ![t] = [task[t] EXCEPT !.pc = "mcq", !.todo = S]]
      PROVE  ChainTask(t)' /\ \A u \in Tasks \ {t} : task'[u] = task[u]
  <2>1. /\ task'[t].pc = "mcq" /\ task'[t].key = task[t].key /\ task'[t].rest = 0
        /\ task'[t].todo = S
        /\ \A u \in Tasks \ {t} : task'[u] = task[u]
    BY <1>1, <1>7 DEF TypeInv, TaskTypeOK, TaskRecords
  <2>2. Pending(Mcq) \subseteq S
    BY <1>7 DEF Pending
  <2>3. AnswerTask(t)'
    BY <1>1, <1>2, <2>1, <2>2 DEF AnswerTask
  <2> QED
    BY <1>1, <1>2, <2>1, <2>3 DEF ChainTask, Handling
<1>8. CASE BeginAnswering(t)
  <2>1. \/ /\ workflow_status # "answering" \/ answer_epoch # task[t].key.epoch
           /\ Goto(t, "return")
        \/ Raise(t)
        \/ Pending(Mcq) = {} /\ Goto(t, "select")
        \/ task' = [task EXCEPT ![t] = [task[t] EXCEPT !.pc = "mcq",
                                          !.todo = {i \in Mcq : item_status[i] # "answered"}]]
    BY <1>8 DEF BeginAnswering
  <2> QED
    BY <1>1, <1>5, <1>6, <1>7, <2>1, RaisesKnowing
<1> QED
  BY <1>4, <1>8

\* The next written batch: what is left after it is less than the key's count.
LEMMA SelectKnows ==
  ASSUME TypeInv, ChainInv, NEW t \in Tasks, SelectBatch(t)
  PROVE  ChainTask(t)' /\ \A u \in Tasks \ {t} : task'[u] = task[u]
<1> DEFINE remaining == Pending(Written)
           batch == {i \in remaining : Cardinality({k \in remaining : k < i}) < BatchSize}
           pc == IF remaining = {} THEN "finish" ELSE "write"
<1>1. /\ task[t].pc = "select" /\ task[t] \in TaskRecords
      /\ task[t].key \in AnswerKeys /\ AnswerTask(t)
      /\ UNCHANGED <<item_status, workflow_status, answer_epoch, queue>>
  BY BusyTask DEF SelectBatch, At, TypeInv, ChainInv, ChainTask, AnswerTask, Handling, items, parent
<1>2. /\ queue'[task[t].key].status # "absent" /\ Pending(Mcq) = {} /\ Pending(Mcq)' = {}
      /\ Pending(Written)' = remaining /\ Cardinality(remaining) <= task[t].key.rest
      /\ task[t].key.rest \in Nat
  <2>1. Pending(Mcq)' = Pending(Mcq) /\ Pending(Written)' = remaining
    BY <1>1 DEF Pending
  <2>2. Pending(Mcq) = {}
    BY <1>1 DEF AnswerTask
  <2>3. queue[task[t].key].status # "absent" /\ queue' = queue
    BY <1>1 DEF ChainInv, ChainTask
  <2>4. Cardinality(remaining) <= task[t].key.rest
    BY <1>1, <2>3 DEF ChainInv, ChainRows
  <2>5. task[t].key.rest \in Nat
    BY <1>1, AnswerKeyForm DEF Items
  <2> QED
    BY <2>1, <2>2, <2>3, <2>4, <2>5
<1>3. task' = [task EXCEPT ![t] = [task[t] EXCEPT !.pc = pc, !.todo = batch,
                                                  !.rest = Cardinality(remaining \ batch)]]
  BY DEF SelectBatch, Written
<1>4. remaining \in SUBSET Items /\ Cardinality(remaining) \in Nat
  <2>1. remaining \in SUBSET Items
    BY DEF Pending, Written
  <2> QED
    BY <2>1, CountPending
<1>5. remaining # {} => /\ Cardinality(remaining \ batch) \in Nat
                        /\ Cardinality(remaining \ batch) < Cardinality(remaining)
  <2> HIDE DEF remaining
  <2> QED
    BY <1>4, BatchIsShorter
<1>6. remaining = {} => Cardinality(remaining \ batch) = 0
  BY FS_EmptySet
<1>7. pc \in {"finish", "write"} /\ (pc = "finish" <=> remaining = {})
  OBVIOUS
<1> HIDE DEF remaining, batch, pc
<1>8. /\ task'[t].pc = pc /\ task'[t].key = task[t].key /\ task'[t].todo = batch
      /\ task'[t].rest = Cardinality(remaining \ batch)
      /\ \A u \in Tasks \ {t} : task'[u] = task[u]
  BY <1>1, <1>3 DEF TypeInv, TaskTypeOK, TaskRecords
<1>9. AnswerTask(t)'
  BY <1>1, <1>2, <1>4, <1>5, <1>6, <1>7, <1>8 DEF AnswerTask
<1> QED
  BY <1>1, <1>2, <1>7, <1>8, <1>9 DEF ChainTask, Handling

\* The loops over the items of a batch: each leaves only items that are settled behind.
LEMMA ItemKnows ==
  ASSUME TypeInv, ChainInv, NEW t \in Tasks, NEW i \in Items, CompleteItem(t, i) \/ FailItem(t, i)
  PROVE  ChainTask(t)' /\ \A u \in Tasks \ {t} : task'[u] = task[u]
<1>1. /\ task[t].pc \in {"mcq_items", "mcq_fail", "write"} /\ task[t] \in TaskRecords
      /\ task[t].key \in AnswerKeys /\ AnswerTask(t)
      /\ UNCHANGED <<workflow_status, answer_epoch, queue>>
  BY BusyTask DEF CompleteItem, FailItem, Working, At, TypeInv, ChainInv, ChainTask, AnswerTask,
                  Handling, parent
<1>2. queue'[task[t].key].status # "absent" /\ task[t].rest \in Nat /\ task[t].todo \subseteq Items
  BY <1>1, BatchAssumption DEF ChainInv, ChainTask, TaskRecords
<1>3. task' = [task EXCEPT ![t] = [task[t] EXCEPT !.todo = task[t].todo \ {i}]]
  BY DEF CompleteItem, FailItem
<1>4. /\ task'[t].pc = task[t].pc /\ task'[t].key = task[t].key /\ task'[t].rest = task[t].rest
      /\ task'[t].todo = task[t].todo \ {i}
      /\ \A u \in Tasks \ {t} : task'[u] = task[u]
  BY <1>1, <1>3 DEF TypeInv, TaskTypeOK, TaskRecords
<1>5. /\ item_status'[i] # "pending"
      /\ \A k \in Items : item_status'[k] = "pending" => item_status[k] = "pending"
  BY DEF CompleteItem, FailItem, TypeInv, ItemsTypeOK
<1>6. i \notin Pending(Mcq)' /\ i \notin Pending(Written)'
  BY <1>5 DEF Pending
<1>7. /\ Pending(Mcq)' \subseteq Pending(Mcq) /\ Pending(Written)' \subseteq Pending(Written)
      /\ Cardinality(Pending(Written) \ task[t].todo) <= task[t].rest =>
           Cardinality(Pending(Written)' \ task[t].todo) <= task[t].rest
  BY <1>2, <1>5, FewerPending, BatchAssumption DEF Written
<1>8. Pending(Written)' \ (task[t].todo \ {i}) = Pending(Written)' \ task[t].todo
  BY <1>6
<1>9. AnswerTask(t)'
  BY <1>1, <1>2, <1>4, <1>6, <1>7, <1>8 DEF AnswerTask
<1> QED
  BY <1>1, <1>2, <1>4, <1>9 DEF ChainTask, Handling

\* The loops end with no item of the batch pending, and the handler with no item at all,
\* unless it chains a further job.
LEMMA LoopKnows ==
  ASSUME TypeInv, ItemsInv, ChainInv, NEW t \in Tasks, LoopEnds(t) \/ Finish(t)
  PROVE  ChainTask(t)' /\ \A u \in Tasks \ {t} : task'[u] = task[u]
<1>1. /\ task[t].pc \in {"mcq_items", "mcq_fail", "write", "finish"} /\ task[t] \in TaskRecords
      /\ task[t].key \in AnswerKeys /\ AnswerTask(t)
      /\ UNCHANGED <<answer_epoch, queue, item_status>>
  BY BusyTask DEF LoopEnds, Finish, At, TypeInv, ChainInv, ChainTask, AnswerTask, Handling, items, parent
<1>2. /\ queue'[task[t].key].status # "absent" /\ task[t].rest \in Nat
      /\ Pending(Mcq)' = Pending(Mcq) /\ Pending(Written)' = Pending(Written)
  <2>1. queue[task[t].key].status # "absent" /\ queue' = queue
    BY <1>1 DEF ChainInv, ChainTask
  <2>2. Pending(Mcq)' = Pending(Mcq) /\ Pending(Written)' = Pending(Written)
    BY <1>1 DEF Pending
  <2> QED
    BY <1>1, <2>1, <2>2, BatchAssumption DEF TaskRecords
<1>3. ASSUME NEW pc, Goto(t, pc)
      PROVE  /\ task'[t].pc = pc /\ task'[t].key = task[t].key /\ task'[t].todo = task[t].todo
             /\ task'[t].rest = task[t].rest
             /\ \A u \in Tasks \ {t} : task'[u] = task[u]
  BY <1>1, <1>3, GotoKeeps DEF TypeInv
<1>4. CASE task[t].pc \in {"mcq_items", "mcq_fail"}
  <2>1. task[t].todo = {} /\ Goto(t, "select")
    BY <1>4 DEF LoopEnds, Finish, At
  <2>2. AnswerTask(t)'
    BY <1>1, <1>2, <1>3, <1>4, <2>1 DEF AnswerTask
  <2> QED
    BY <1>1, <1>2, <1>3, <2>1, <2>2 DEF ChainTask, Handling
<1>5. CASE task[t].pc = "write"
  <2>1. task[t].todo = {} /\ Goto(t, IF task[t].rest > 0 THEN "return" ELSE "finish")
    BY <1>5 DEF LoopEnds, Finish, At
  <2>2. Pending(Written) \ task[t].todo = Pending(Written)
    BY <2>1
  <2>3. /\ Pending(Mcq) = {} /\ Cardinality(Pending(Written)) <= task[t].rest
        /\ task[t].rest < task[t].key.rest
    BY <1>1, <1>5, <2>2 DEF AnswerTask
  <2>4. CASE task[t].rest > 0
    <3>1. Goto(t, "return")
      BY <2>1, <2>4
    <3>2. ReturnTask(t)'
      BY <1>2, <1>3, <2>3, <2>4, <3>1 DEF ReturnTask
    <3> QED
      BY <1>1, <1>2, <1>3, <3>1, <3>2 DEF ChainTask, Handling
  <2>5. CASE task[t].rest = 0
    <3>1. Goto(t, "finish")
      BY <2>1, <2>5
    <3>2. Pending(Written) = {}
      <4>1. Pending(Written) \in SUBSET Items
        BY DEF Pending, Written
      <4>2. Cardinality(Pending(Written)) = 0
        BY <2>3, <2>5, <4>1, CountPending
      <4> QED
        BY <4>1, <4>2, CountPending
    <3>3. AnswerTask(t)'
      BY <1>1, <1>2, <1>3, <2>3, <2>5, <3>1, <3>2 DEF AnswerTask
    <3> QED
      BY <1>1, <1>2, <1>3, <3>1, <3>3 DEF ChainTask, Handling
  <2> QED
    BY <1>2, <2>4, <2>5
<1>6. CASE task[t].pc = "finish"
  <2>1. Goto(t, "return") /\ FinishAnswers(item_status)
    BY <1>6 DEF LoopEnds, Finish, At
  <2>2. \A i \in Items : item_status[i] # "pending"
    BY <1>1, <1>6 DEF AnswerTask, Pending, Written
  <2>3. workflow_status' # "answering"
    BY <2>1, <2>2 DEF FinishAnswers, Outcome
  <2>4. ReturnTask(t)'
    BY <1>1, <1>3, <1>6, <2>1, <2>3 DEF ReturnTask, AnswerTask
  <2> QED
    BY <1>1, <1>2, <1>3, <2>1, <2>4 DEF ChainTask, Handling
<1> QED
  BY <1>1, <1>4, <1>5, <1>6

\* A lease puts a task at the first statement of its job's handler.
LEMMA LeaseKnows ==
  ASSUME TypeInv, ChainInv, NEW t \in Tasks, NEW k \in Keys, Lease(t, k)
  PROVE  ChainTask(t)' /\ \A u \in Tasks \ {t} : task'[u] = task[u]
<1>1. /\ task'[t] = [pc |-> Entry(k.stage), key |-> k, todo |-> {}, rest |-> 0]
      /\ \A u \in Tasks \ {t} : task'[u] = task[u]
  BY DEF Lease, TypeInv, TaskTypeOK
<1>2. queue'[k].status = "leased"
  BY DEF Lease, TypeInv, QueueTypeOK
<1>3. /\ k.stage = "answer" => Entry(k.stage) = "begin"
      /\ k.stage # "answer" => Entry(k.stage) \in {"check", "open"}
  BY StagesOfKeys DEF Entry
<1> QED
  BY <1>1, <1>2, <1>3 DEF ChainTask, AnswerTask, AnswerKeys, Handling

\* Every step keeps the chain.
LEMMA ChainInvKept == ASSUME TypeInv, ItemsInv, ChainInv, [Next]_vars PROVE ChainInv'
<1> USE DEF parent, items, intake
<1>1. ASSUME Calm, NEW t \in Tasks, ChainTask(t)', \A u \in Tasks \ {t} : task'[u] = task[u]
      PROVE  ChainInv'
  BY <1>1, CalmKeepsRows, OthersKnow DEF ChainInv, Calm
<1>2. ASSUME Calm, UNCHANGED task PROVE ChainInv'
  BY <1>2, CalmKeepsRows, OthersKnow DEF ChainInv, Calm
<1>3. CASE UNCHANGED vars
  BY <1>2, <1>3, CalmOfBusiness DEF vars
<1>4. ASSUME BeginAnswers, UNCHANGED item_status, UNCHANGED task PROVE ChainInv'
  BY <1>4, BeginStartsChain, OthersKnow DEF ChainInv
<1>5. CASE Api
  <2>1. CASE StartAfterCorrection
    <3>1. UNCHANGED <<item_status, task>>
      BY <2>1 DEF StartAfterCorrection
    <3>2. CASE UNCHANGED <<workflow_status, answer_epoch, queue>>
      BY <1>2, <3>1, <3>2, CalmOfBusiness
    <3> QED
      BY <1>4, <2>1, <3>1, <3>2 DEF StartAfterCorrection
  <2>2. CASE \/ CreateSession \/ ExpireSession \/ Submit \/ PurgeRawSource
             \/ (\E i \in Items : ApplyCorrection(i))
    <3>1. UNCHANGED task
      BY <2>2 DEF CreateSession, ExpireSession, Submit, PurgeRawSource, ApplyCorrection
    <3> QED
      BY <1>2, <2>2, <3>1, CalmApi
  <2> QED
    BY <1>5, <2>1, <2>2 DEF Api
<1>6. ASSUME NEW t \in Tasks, Handle(t) PROVE ChainInv'
  <2>1. CASE \/ CheckValidation(t) \/ Inspect(t) \/ Reject(t) \/ Charge(t) \/ ScheduleExtraction(t)
             \/ OpenExtraction(t) \/ ReadQuestions(t) \/ TooMany(t) \/ InsertItems(t)
    <3>1. Calm
      BY <2>1, CalmIntake
    <3>2. ChainTask(t)' /\ \A u \in Tasks \ {t} : task'[u] = task[u]
      BY <2>1, <3>1, IntakeKnows DEF Calm
    <3> QED
      BY <1>1, <3>1, <3>2
  <2>2. CASE HandOver(t)
    <3>1. UNCHANGED item_status
      BY <2>2 DEF HandOver
    <3>2. CASE UNCHANGED <<workflow_status, answer_epoch, queue>>
      <4>1. Calm
        BY <3>1, <3>2, CalmOfBusiness
      <4>2. ChainTask(t)' /\ \A u \in Tasks \ {t} : task'[u] = task[u]
        BY <2>2, <4>1, IntakeKnows DEF Calm
      <4> QED
        BY <1>1, <4>1, <4>2
    <3>3. CASE BeginAnswers
      <4>1. /\ Forward /\ HoldersKnown' /\ ChainRows' /\ AnsweringHasJob'
            /\ (workflow_status = "answering" => answer_epoch = 1)'
        BY <3>1, <3>3, BeginStartsChain
      <4>2. ChainTask(t)' /\ \A u \in Tasks \ {t} : task'[u] = task[u]
        BY <2>2, <4>1, IntakeKnows
      <4> QED
        BY <4>1, <4>2, OthersKnow DEF ChainInv
    <3> QED
      BY <2>2, <3>2, <3>3 DEF HandOver
  <2>3. CASE BeginAnswering(t) \/ McqBatch(t) \/ SaveMcqBatch(t)
    <3>1. Calm
      BY <2>3, CalmAnswers
    <3>2. ChainTask(t)' /\ \A u \in Tasks \ {t} : task'[u] = task[u]
      BY <2>3, <3>1, McqKnows DEF Calm
    <3> QED
      BY <1>1, <3>1, <3>2
  <2>4. CASE SelectBatch(t)
    BY <1>1, <2>4, CalmAnswers, SelectKnows
  <2>5. ASSUME NEW i \in Items, SaveAnswer(t, i) PROVE ChainInv'
    BY <1>2, <2>5, CalmAnswers DEF SaveAnswer
  <2>6. ASSUME NEW i \in Items, CompleteItem(t, i) \/ FailItem(t, i) PROVE ChainInv'
    BY <1>1, <2>6, CalmAnswers, ItemKnows
  <2>7. CASE LoopEnds(t) \/ Finish(t)
    BY <1>1, <2>7, CalmAnswers, LoopKnows
  <2> QED
    BY <1>6, <2>1, <2>2, <2>3, <2>4, <2>5, <2>6, <2>7 DEF Handle
<1>7. ASSUME NEW t \in Tasks, Complete(t) PROVE ChainInv'
  <2>1. /\ task[t].pc = "return" /\ task[t] \in TaskRecords
        /\ UNCHANGED <<workflow_status, answer_epoch, item_status>>
    BY <1>7, BusyTask DEF Complete, At, TypeInv
  <2>2. CASE ~Leads(t)
    <3>1. Raise(t) /\ UNCHANGED queue
      BY <1>7, <2>2 DEF Complete
    <3>2. Calm
      BY <2>1, <3>1, CalmOfBusiness
    <3> QED
      BY <1>1, <2>1, <3>1, <3>2, RaisesKnowing DEF Calm
  <2>3. CASE Leads(t) /\ task[t].key \in AnswerKeys
    <3>1. Forward /\ HoldersKnown' /\ ChainRows' /\ AnsweringHasJob'
      BY <1>7, <2>3, CompleteKeepsChain
    <3>2. ChainTask(t)' /\ \A u \in Tasks \ {t} : task'[u] = task[u]
      BY <1>7, <2>3, EndsKnowing DEF Complete
    <3>3. (workflow_status = "answering" => answer_epoch = 1)'
      BY <2>1 DEF ChainInv
    <3> QED
      BY <3>1, <3>2, <3>3, OthersKnow DEF ChainInv
  <2>4. CASE Leads(t) /\ task[t].key \notin AnswerKeys
    <3> DEFINE k == task[t].key
    <3>1. k \in Keys /\ k.stage # "answer" /\ queue[k] \in Rows
      BY <2>1, <2>4 DEF TaskRecords, AnswerKeys, TypeInv, QueueTypeOK
    <3>2. \A j \in Keys : queue'[j] = IF j = k THEN [queue[k] EXCEPT !.status = "succeeded"]
                                               ELSE queue[j]
      BY <1>7, <2>4, <3>1 DEF Complete
    <3>3. /\ [queue[k] EXCEPT !.status = "succeeded"].status = "succeeded"
          /\ [queue[k] EXCEPT !.status = "succeeded"].holder = queue[k].holder
      BY <3>1 DEF Rows
    <3>4. queue[k].status = "leased"
      BY <2>4 DEF Leads
    <3> HIDE DEF k
    <3>5. HoldersKnown' /\ Forward
      BY <2>1, <3>1, <3>2, <3>3, <3>4 DEF ChainInv, HoldersKnown, Forward
    <3>6. \A j \in AnswerKeys : queue'[j] = queue[j]
      BY <3>1, <3>2 DEF AnswerKeys
    <3>7. Calm
      BY <2>1, <3>5, <3>6 DEF Calm, Open
    <3>8. ChainTask(t)' /\ \A u \in Tasks \ {t} : task'[u] = task[u]
      BY <1>7, <2>4, EndsKnowing DEF Complete
    <3> QED
      BY <1>1, <3>7, <3>8
  <2> QED
    BY <2>2, <2>3, <2>4
<1>8. ASSUME NEW t \in Tasks, TaskRaises(t) \/ FailJob(t) \/ Report(t) \/ Crash(t) PROVE ChainInv'
  <2>1. Calm
    BY <1>8, CalmQueue
  <2>2. CASE TaskRaises(t)
    <3>1. task[t].pc # "idle" /\ Raise(t)
      BY <2>2 DEF TaskRaises
    <3> QED
      BY <1>1, <2>1, <3>1, RaisesKnowing DEF Calm
  <2>3. CASE FailJob(t)
    <3>1. task[t].pc = "raise" /\ Goto(t, "report")
      BY <2>3 DEF FailJob, At
    <3>2. /\ task'[t].pc = "report" /\ task'[t].key = task[t].key
          /\ \A u \in Tasks \ {t} : task'[u] = task[u]
      BY <3>1, GotoKeeps DEF TypeInv
    <3>3. ChainTask(t)'
      BY <2>1, <3>1, <3>2, LeavesChain DEF Calm, Handling
    <3> QED
      BY <1>1, <2>1, <3>2, <3>3
  <2>4. CASE Report(t) \/ Crash(t)
    <3>1. task' = [task EXCEPT ![t] = Idle]
      BY <2>4 DEF Report, Crash
    <3> QED
      BY <1>1, <2>1, <3>1, EndsKnowing
  <2> QED
    BY <1>8, <2>2, <2>3, <2>4
<1>9. ASSUME NEW t \in Tasks, NEW k \in Keys, Lease(t, k) PROVE ChainInv'
  BY <1>1, <1>9, CalmQueue, LeaseKnows
<1>10. ASSUME NEW k \in Keys, LeaseLapses(k) PROVE ChainInv'
  <2>1. PICK t \in Tasks : TRUE
    BY <1>10 DEF LeaseLapses, TypeInv, QueueTypeOK, Rows, ChainInv, HoldersKnown
  <2> QED
    BY <1>2, <1>10, <2>1, CalmQueue DEF LeaseLapses
<1> QED
  BY <1>3, <1>5, <1>6, <1>7, <1>8, <1>9, <1>10 DEF Next, Work

\* The chain of answer jobs is never broken: a batch in answering has a job that will
\* run or that has visibly failed, however executions overlap, raise and die.
THEOREM ChainUnbroken == Spec => []AnsweringHasJob
<1>1. Init => ChainInv
  BY DEF Init, Idle, ChainInv, HoldersKnown, ChainRows, AnsweringHasJob, ChainTask, Handling,
         AnswerKeys, Open
<1>2. ChainInv => AnsweringHasJob
  BY DEF ChainInv
<1> QED
  BY <1>1, <1>2, ItemsInvHolds, ChainInvKept, PTL DEF Spec

-----------------------------------------------------------------------------
(* The queue of the batch implements JobDelivery *)

\* A lease counts, and only the last one may fail a row.
AttemptsMade ==
  \A k \in Keys : /\ queue[k].status = "leased" => queue[k].attempts > 0
                  /\ queue[k].status = "failed" => queue[k].attempts = MaxAttempts

\* How JobDelivery reads a row.
Read(row) == IF row.status \in {"waiting", "leased"} THEN "pending" ELSE row.status

\* A step that leaves every row's reading and attempts alone is invisible.
LEMMA ReadsAlike ==
  ASSUME \A k \in Keys : Read(queue'[k]) = Read(queue[k]) /\ queue'[k].attempts = queue[k].attempts
  PROVE  UNCHANGED Delivery!deliveryVars
  BY DEF Delivery!deliveryVars, Read

\* A step that changes one row.
LEMMA ReadsOneRow ==
  ASSUME NEW k \in Keys, \A j \in Keys \ {k} : queue'[j] = queue[j]
  PROVE  /\ k \in Roots /\ queue[k].status = "absent" /\ Read(queue'[k]) = "pending"
            /\ queue'[k].attempts = queue[k].attempts => Delivery!DeliveryNext
         /\ Read(queue[k]) = "pending" /\ queue[k].attempts < MaxAttempts
            /\ Read(queue'[k]) = "pending" /\ queue'[k].attempts = queue[k].attempts + 1
              => Delivery!DeliveryNext
         /\ Read(queue[k]) = "pending" /\ queue[k].attempts = MaxAttempts
            /\ Read(queue'[k]) = "failed" /\ queue'[k].attempts = queue[k].attempts
              => Delivery!DeliveryNext
         /\ Read(queue[k]) = "pending" /\ queue[k].attempts > 0
            /\ Read(queue'[k]) = "succeeded" /\ queue'[k].attempts = queue[k].attempts
              => Delivery!DeliveryNext
<1>1. ASSUME k \in Roots, queue[k].status = "absent", Read(queue'[k]) = "pending",
             queue'[k].attempts = queue[k].attempts
      PROVE  Delivery!Submit(k)
  BY <1>1 DEF Delivery!Submit, Read
<1>2. ASSUME Read(queue[k]) = "pending", queue[k].attempts < MaxAttempts,
             Read(queue'[k]) = "pending", queue'[k].attempts = queue[k].attempts + 1
      PROVE  Delivery!Try(k)
  BY <1>2 DEF Delivery!Try, Read
<1>3. ASSUME Read(queue[k]) = "pending", queue[k].attempts = MaxAttempts,
             Read(queue'[k]) = "failed", queue'[k].attempts = queue[k].attempts
      PROVE  Delivery!GiveUp({k})
  BY <1>3 DEF Delivery!GiveUp, Read
<1>4. ASSUME Read(queue[k]) = "pending", queue[k].attempts > 0,
             Read(queue'[k]) = "succeeded", queue'[k].attempts = queue[k].attempts
      PROVE  Delivery!Succeed(k, k)
  BY <1>4 DEF Delivery!Succeed, Read
<1> QED
  BY <1>1, <1>2, <1>3, <1>4 DEF Delivery!DeliveryNext

\* A step of the abstract delivery that keeps the count of attempts.
Delivers == AttemptsMade' /\ [Delivery!DeliveryNext]_(Delivery!deliveryVars)

\* A step that does not touch the queue.
LEMMA DeliversNothing == ASSUME AttemptsMade, UNCHANGED queue PROVE Delivers
  BY ReadsAlike DEF Delivers, AttemptsMade

\* create_job outside of a completion.
LEMMA DeliversEnqueue ==
  ASSUME TypeInv, AttemptsMade, NEW k, Enqueue(k), k \in Keys => k \in Roots PROVE Delivers
<1>1. CASE UNCHANGED queue
  BY <1>1, DeliversNothing
<1>2. ASSUME k \in Keys, queue[k].status = "absent",
             queue' = [queue EXCEPT ![k] = [queue[k] EXCEPT !.status = "waiting"]]
      PROVE  Delivers
  <2>1. queue[k] \in Rows
    BY <1>2 DEF TypeInv, QueueTypeOK
  <2>2. /\ [queue[k] EXCEPT !.status = "waiting"].status = "waiting"
        /\ [queue[k] EXCEPT !.status = "waiting"].attempts = queue[k].attempts
    BY <2>1 DEF Rows
  <2>3. /\ queue'[k] = [queue[k] EXCEPT !.status = "waiting"]
        /\ \A j \in Keys \ {k} : queue'[j] = queue[j]
    BY <1>2 DEF TypeInv, QueueTypeOK
  <2>4. AttemptsMade'
    BY <2>2, <2>3 DEF AttemptsMade
  <2>5. Delivery!DeliveryNext
    BY <1>2, <2>2, <2>3, ReadsOneRow DEF Read
  <2> QED
    BY <2>4, <2>5 DEF Delivers
<1>3. CASE k \notin Keys
  BY <1>3, DeliversNothing DEF Enqueue, TypeInv, QueueTypeOK
<1> QED
  BY <1>1, <1>2, <1>3 DEF Enqueue

\* Stale recovery, and fail_job of a row that is not done.
LEMMA DeliversRelease ==
  ASSUME TypeInv, AttemptsMade, NEW k \in Keys, queue' = [queue EXCEPT ![k] = Released(queue[k])],
         queue[k].status \in {"waiting", "leased", "failed"}
  PROVE  Delivers
<1>1. queue[k] \in Rows /\ MaxAttempts \in Nat
  BY BatchAssumption DEF TypeInv, QueueTypeOK
<1>2. /\ Released(queue[k]).attempts = queue[k].attempts
      /\ queue[k].attempts < MaxAttempts => Released(queue[k]).status = "waiting"
      /\ ~(queue[k].attempts < MaxAttempts) => Released(queue[k]).status = "failed"
      /\ ~(queue[k].attempts < MaxAttempts) => queue[k].attempts = MaxAttempts
  BY <1>1 DEF Rows, Released
<1>3. queue'[k] = Released(queue[k]) /\ \A j \in Keys \ {k} : queue'[j] = queue[j]
  BY DEF TypeInv, QueueTypeOK
<1>4. AttemptsMade'
  BY <1>2, <1>3 DEF AttemptsMade
<1>5. CASE queue[k].attempts < MaxAttempts
  <2>1. queue[k].status # "failed"
    BY <1>1, <1>5 DEF AttemptsMade
  <2> QED
    BY <1>2, <1>3, <1>4, <1>5, <2>1, ReadsAlike DEF Delivers, Read
<1>6. CASE ~(queue[k].attempts < MaxAttempts)
  <2>1. CASE queue[k].status = "failed"
    BY <1>2, <1>3, <1>4, <1>6, <2>1, ReadsAlike DEF Delivers, Read
  <2>2. CASE queue[k].status # "failed"
    <3>1. Delivery!DeliveryNext
      BY <1>2, <1>3, <1>6, <2>2, ReadsOneRow DEF Read
    <3> QED
      BY <1>4, <3>1 DEF Delivers
  <2> QED
    BY <2>1, <2>2
<1> QED
  BY <1>5, <1>6

\* lease_job.
LEMMA DeliversLease ==
  ASSUME TypeInv, AttemptsMade, NEW t \in Tasks, NEW k \in Keys, Lease(t, k) PROVE Delivers
<1>1. /\ queue[k].status = "waiting" /\ queue[k].attempts \in Nat
      /\ queue[k].attempts < MaxAttempts
  BY BatchAssumption DEF Lease, TypeInv, QueueTypeOK, AttemptsLeft, Rows
<1>2. /\ queue'[k].status = "leased" /\ queue'[k].attempts = queue[k].attempts + 1
      /\ \A j \in Keys \ {k} : queue'[j] = queue[j]
  BY DEF Lease, TypeInv, QueueTypeOK
<1>3. AttemptsMade'
  BY <1>1, <1>2 DEF AttemptsMade
<1>4. Delivery!DeliveryNext
  BY <1>1, <1>2, ReadsOneRow DEF Read
<1> QED
  BY <1>3, <1>4 DEF Delivers

\* complete_job, and complete_job_and_enqueue of a shorter answer job.
LEMMA DeliversCompletion ==
  ASSUME TypeInv, ChainInv, AttemptsMade, NEW t \in Tasks, Complete(t) PROVE Delivers
<1>1. CASE ~Leads(t)
  BY <1>1, DeliversNothing DEF Complete
<1>2. CASE Leads(t)
  <2> DEFINE k == task[t].key
             n == NextKey(t)
             chained == k.stage = "answer" /\ task[t].rest > 0
  <2>1. /\ task[t].pc = "return" /\ task[t] \in TaskRecords /\ k \in Keys
        /\ task[t].rest \in 0..NItems
    BY BusyTask DEF Complete, At, TypeInv, TaskRecords
  <2>2. queue[k].status = "leased" /\ queue[k] \in Rows /\ queue[k].attempts > 0
    BY <1>2, <2>1 DEF Leads, TypeInv, QueueTypeOK, AttemptsMade
  <2>3. queue' = [j \in Keys |->
                     IF j = k THEN [queue[k] EXCEPT !.status = "succeeded"]
                     ELSE IF chained /\ j = n /\ queue[n].status = "absent"
                       THEN [queue[n] EXCEPT !.status = "waiting"] ELSE queue[j]]
    BY <1>2 DEF Complete
  <2>4. /\ [queue[k] EXCEPT !.status = "succeeded"].status = "succeeded"
        /\ [queue[k] EXCEPT !.status = "succeeded"].attempts = queue[k].attempts
    BY <2>2 DEF Rows
  <2>5. ASSUME chained
        PROVE  /\ k \in AnswerKeys /\ n \in AnswerKeys /\ n.rest < k.rest /\ n.epoch = k.epoch
               /\ queue[n].status = "absent" /\ n # k /\ n \in Keys
               /\ n.stage = "answer" /\ k.stage = "answer"
               /\ [queue[n] EXCEPT !.status = "waiting"].status = "waiting"
               /\ [queue[n] EXCEPT !.status = "waiting"].attempts = queue[n].attempts
    <3>1. k \in AnswerKeys
      BY <2>1, <2>5 DEF AnswerKeys
    <3>2. n \in AnswerKeys /\ n.epoch = k.epoch /\ n.rest = task[t].rest
      BY <2>1, <2>5, <3>1, AnswerKeyForm, BatchAssumption DEF NextKey, Items
    <3>3. n.rest < k.rest
      BY <2>1, <2>5, <3>1, <3>2, BatchAssumption DEF ChainInv, ChainTask, ReturnTask
    <3>4. queue[n].status = "absent"
      BY <2>2, <3>1, <3>2, <3>3 DEF ChainInv, ChainRows, Open
    <3>5. n \in Keys /\ queue[n] \in Rows /\ n.stage = "answer" /\ n # k
      BY <2>2, <3>2, <3>4 DEF AnswerKeys, TypeInv, QueueTypeOK
    <3>6. /\ [queue[n] EXCEPT !.status = "waiting"].status = "waiting"
          /\ [queue[n] EXCEPT !.status = "waiting"].attempts = queue[n].attempts
      BY <3>5 DEF Rows
    <3> QED
      BY <2>5, <3>1, <3>2, <3>3, <3>4, <3>5, <3>6
  <2> HIDE DEF k, n, chained
  <2>6. CASE ~chained
    <3>1. /\ queue'[k] = [queue[k] EXCEPT !.status = "succeeded"]
          /\ \A j \in Keys \ {k} : queue'[j] = queue[j]
      BY <2>1, <2>3, <2>6
    <3>2. AttemptsMade'
      BY <2>4, <3>1 DEF AttemptsMade
    <3>3. Delivery!DeliveryNext
      BY <2>1, <2>2, <2>4, <3>1, ReadsOneRow DEF Read
    <3> QED
      BY <3>2, <3>3 DEF Delivers
  <2>7. CASE chained
    <3>1. /\ queue'[k] = [queue[k] EXCEPT !.status = "succeeded"]
          /\ queue'[n] = [queue[n] EXCEPT !.status = "waiting"]
          /\ \A j \in Keys \ {k, n} : queue'[j] = queue[j]
      BY <2>1, <2>3, <2>5, <2>7
    <3>2. /\ queue'[k].status = "succeeded" /\ queue'[k].attempts = queue[k].attempts
          /\ queue'[n].status = "waiting" /\ queue'[n].attempts = queue[n].attempts
          /\ \A j \in Keys \ {k, n} : queue'[j] = queue[j]
      BY <2>4, <2>5, <2>7, <3>1
    <3>3. AttemptsMade'
      BY <3>2 DEF AttemptsMade
    <3>4. n \in Shorter[k]
      BY <2>1, <2>5, <2>7 DEF Shorter
    <3>5. Delivery!Succeed(k, n)
      BY <2>1, <2>2, <2>5, <2>7, <3>2 DEF Delivery!Succeed
    <3>6. Delivery!DeliveryNext
      <4>1. k \in Keys
        BY <2>1
      <4>2. \E m \in Shorter[k] \cup {k} : Delivery!Succeed(k, m)
        <5> SUFFICES Delivery!Succeed(k, n)
          BY <3>4 DEF Delivery!Succeed
        <5> QED
          BY <3>5
      <4> QED
        BY <4>1, <4>2 DEF Delivery!DeliveryNext, Delivery!Succeed
    <3> QED
      BY <3>3, <3>6 DEF Delivers
  <2> QED
    BY <2>6, <2>7
<1> QED
  BY <1>1, <1>2

\* Every step is one of the abstract delivery or invisible to it.
LEMMA DeliveryStep ==
  ASSUME TypeInv, ItemsInv, ChainInv, AttemptsMade, [Next]_vars PROVE Delivers
<1> USE DEF parent, items, intake
<1>1. CASE UNCHANGED queue
  BY <1>1, DeliversNothing
<1>2. ASSUME BeginAnswers PROVE Delivers
  <2>1. answer_epoch = 0 /\ Enqueue(Answer(answer_epoch + 1, NItems))
    BY <1>2 DEF BeginAnswers, ItemsInv
  <2>2. \A e : Answer(e, NItems) \in Keys => Answer(e, NItems) \in Roots
    BY DEF Roots, Answer
  <2> QED
    BY <2>1, <2>2, DeliversEnqueue
<1>3. CASE Api
  <2>1. CASE Submit
    <3>1. Validate \in Roots /\ Enqueue(Validate)
      BY <2>1 DEF Submit, Roots, Keys, Validate
    <3> QED
      BY <3>1, DeliversEnqueue
  <2>2. CASE StartAfterCorrection
    BY <1>1, <1>2, <2>2 DEF StartAfterCorrection
  <2>3. CASE CreateSession \/ ExpireSession \/ PurgeRawSource \/ (\E i \in Items : ApplyCorrection(i))
    BY <1>1, <2>3 DEF CreateSession, ExpireSession, PurgeRawSource, ApplyCorrection
  <2> QED
    BY <1>3, <2>1, <2>2, <2>3 DEF Api
<1>4. ASSUME NEW t \in Tasks, Handle(t) PROVE Delivers
  <2>1. CASE ScheduleExtraction(t)
    <3>1. \A e : Extract(e) \in Keys => Extract(e) \in Roots
      BY DEF Roots, Extract
    <3>2. UNCHANGED queue \/ Enqueue(Extract(extraction_epoch + 1))
      BY <2>1 DEF ScheduleExtraction
    <3> QED
      BY <1>1, <3>1, <3>2, DeliversEnqueue
  <2>2. CASE HandOver(t)
    BY <1>1, <1>2, <2>2 DEF HandOver
  <2>3. CASE ~ScheduleExtraction(t) /\ ~HandOver(t)
    <3>1. UNCHANGED queue
      BY <1>4, <2>3
         DEF Handle, CheckValidation, Inspect, Reject, Charge, OpenExtraction, ReadQuestions, TooMany,
             InsertItems, BeginAnswering, McqBatch, SaveMcqBatch, SelectBatch, SaveAnswer,
             CompleteItem, FailItem, LoopEnds, Finish
    <3> QED
      BY <1>1, <3>1
  <2> QED
    BY <2>1, <2>2, <2>3
<1>5. ASSUME NEW t \in Tasks, FailJob(t) PROVE Delivers
  <2> DEFINE k == task[t].key
  <2>1. k \in Keys /\ queue[k].status # "absent"
    BY <1>5, BusyTask DEF FailJob, At, TypeInv, TaskRecords, ChainInv, ChainTask
  <2>2. CASE /\ Leads(t) \/ queue[k].holder = None
             /\ queue' = [queue EXCEPT ![k] = Released(queue[k])]
    <3>1. queue[k].status \in {"absent", "waiting", "leased", "succeeded", "failed"}
      BY <2>1 DEF TypeInv, QueueTypeOK, Rows
    <3>2. queue[k].status \in {"waiting", "leased", "failed"}
      BY <2>1, <2>2, <3>1 DEF Leads, ChainInv, HoldersKnown
    <3> QED
      BY <2>1, <2>2, <3>2, DeliversRelease
  <2> QED
    BY <1>1, <1>5, <2>2 DEF FailJob
<1>6. ASSUME NEW k \in Keys, LeaseLapses(k) PROVE Delivers
  BY <1>6, DeliversRelease DEF LeaseLapses
<1>7. ASSUME NEW t \in Tasks, TaskRaises(t) \/ Report(t) \/ Crash(t) PROVE Delivers
  BY <1>1, <1>7 DEF TaskRaises, Report, Crash
<1> QED
  BY <1>1, <1>3, <1>4, <1>5, <1>6, <1>7, DeliversLease, DeliversCompletion DEF Next, Work, vars

\* The jobs of a batch are delivered as JobDelivery promises to the queue's clients, with
\* overlapping, raising and dying executions, and every chain of answer jobs gets shorter.
THEOREM DeliveryKept == Spec => KeepsDelivery
<1>1. Init => ChainInv /\ AttemptsMade /\ Delivery!DeliveryInit
  BY DEF Init, Idle, ChainInv, HoldersKnown, ChainRows, AnsweringHasJob, ChainTask, Handling,
         AnswerKeys, Open, AttemptsMade, Delivery!DeliveryInit
<1>2. TypeInv /\ ItemsInv /\ ChainInv /\ AttemptsMade /\ [Next]_vars
        => ChainInv' /\ AttemptsMade' /\ [Delivery!DeliveryNext]_(Delivery!deliveryVars)
  BY ChainInvKept, DeliveryStep DEF Delivers
<1> QED
  BY <1>1, <1>2, ItemsInvHolds, PTL DEF Spec, KeepsDelivery, Delivery!DeliverySpec
-----------------------------------------------------------------------------
(* A refund is final when the validation is executed once *)

\* The statements of validate_and_charge and start_initial_extraction.
Validation == {"check", "inspect", "reject", "charge", "schedule"}

Validates(t) == task[t].pc # "idle" /\ task[t].key = Validate

\* An execution of the validation has its lease, and passes the charge once.
FirstTime(t) ==
  /\ Leads(t)
  /\ task[t].pc \in Validation \cup {"return"}
  /\ reservation # "none" => task[t].pc \in {"schedule", "return"}

\* Once the batch is charged no validation will begin, and the one that charged it is
\* past the statements that could bring a finished batch back.
OnceInv ==
  /\ queue[Validate].status = "leased" =>
       queue[Validate].holder \in Tasks /\ Validates(queue[Validate].holder)
  /\ reservation # "none" => queue[Validate].status \notin {"absent", "waiting"}
  /\ \A t \in Tasks : /\ Validates(t) => FirstTime(t)
                      /\ task[t].pc \in Validation => Validates(t)
  /\ RefundedIsOver

\* A handler, and an exception in it, keep the key of the job.
LEMMA HandlerMoves ==
  ASSUME TaskTypeOK, NEW t \in Tasks, Handle(t) \/ TaskRaises(t) \/ FailJob(t)
  PROVE  /\ task[t].pc # "idle" /\ task'[t].key = task[t].key
         /\ \A u \in Tasks \ {t} : task'[u] = task[u]
<1> DEFINE Kept == /\ task[t].pc # "idle" /\ task'[t].key = task[t].key
                   /\ \A u \in Tasks \ {t} : task'[u] = task[u]
<1>1. task[t].pc # "idle" /\ task[t] \in TaskRecords
  <2>1. CASE \E i \in Items : SaveAnswer(t, i) \/ CompleteItem(t, i) \/ FailItem(t, i)
    BY <2>1, BusyTask DEF SaveAnswer, CompleteItem, FailItem, Working, At
  <2>2. CASE LoopEnds(t) \/ TaskRaises(t) \/ FailJob(t)
    BY <2>2, BusyTask DEF LoopEnds, TaskRaises, FailJob, At
  <2>3. CASE \/ CheckValidation(t) \/ Inspect(t) \/ Reject(t) \/ Charge(t) \/ ScheduleExtraction(t)
             \/ OpenExtraction(t) \/ ReadQuestions(t) \/ TooMany(t) \/ InsertItems(t) \/ HandOver(t)
    BY <2>3, BusyTask DEF CheckValidation, Inspect, Reject, Charge, ScheduleExtraction,
                          OpenExtraction, ReadQuestions, TooMany, InsertItems, HandOver, At
  <2>4. CASE BeginAnswering(t) \/ McqBatch(t) \/ SaveMcqBatch(t) \/ SelectBatch(t) \/ Finish(t)
    BY <2>4, BusyTask DEF BeginAnswering, McqBatch, SaveMcqBatch, SelectBatch, Finish, At
  <2> QED
    BY <2>1, <2>2, <2>3, <2>4 DEF Handle
<1>2. ASSUME NEW pc, Goto(t, pc) PROVE Kept
  BY <1>1, <1>2, GotoKeeps
<1>3. CASE Raise(t)
  BY <1>1, <1>3 DEF Raise, TaskTypeOK
<1>4. ASSUME NEW pc, NEW S, NEW n, task' = [task EXCEPT ![t] = [task[t] EXCEPT !.pc = pc, !.todo = S, !.rest = n]]
      PROVE  Kept
  BY <1>1, <1>4 DEF TaskTypeOK, TaskRecords
<1>5. ASSUME NEW pc, NEW S, task' = [task EXCEPT ![t] = [task[t] EXCEPT !.pc = pc, !.todo = S]]
      PROVE  Kept
  BY <1>1, <1>5 DEF TaskTypeOK, TaskRecords
<1>6. ASSUME NEW S, task' = [task EXCEPT ![t] = [task[t] EXCEPT !.todo = S]] PROVE Kept
  BY <1>1, <1>6 DEF TaskTypeOK, TaskRecords
<1>7. CASE UNCHANGED task
  BY <1>1, <1>7
<1> HIDE DEF Kept
<1>8. CASE \/ CheckValidation(t) \/ Inspect(t) \/ Reject(t) \/ Charge(t) \/ ScheduleExtraction(t)
           \/ OpenExtraction(t) \/ TooMany(t) \/ HandOver(t) \/ McqBatch(t) \/ SaveMcqBatch(t)
           \/ LoopEnds(t) \/ Finish(t) \/ TaskRaises(t) \/ FailJob(t)
  <2>1. Raise(t) \/ (\E pc \in PCs : Goto(t, pc))
    BY <1>8 DEF CheckValidation, Inspect, Reject, Charge, ScheduleExtraction, OpenExtraction, TooMany,
                HandOver, McqBatch, SaveMcqBatch, LoopEnds, Finish, TaskRaises, FailJob, PCs
  <2> QED
    BY <1>2, <1>3, <2>1 DEF Kept
<1>9. CASE ReadQuestions(t) \/ InsertItems(t)
  <2>1. CASE ReadQuestions(t)
    <3>1. \/ \E unclear \in SUBSET Items :
               task' = [task EXCEPT ![t] = [task[t] EXCEPT !.pc = "insert", !.todo = unclear]]
          \/ Goto(t, "too_many")
      BY <2>1 DEF ReadQuestions
    <3> QED
      BY <1>2, <1>5, <3>1 DEF Kept
  <2>2. CASE InsertItems(t)
    <3>1. \/ Raise(t)
          \/ \E pc \in {"return", "hand_over"} :
               task' = [task EXCEPT ![t] = [task[t] EXCEPT !.pc = pc, !.todo = {}]]
      BY <2>2 DEF InsertItems
    <3> QED
      BY <1>3, <1>5, <3>1 DEF Kept
  <2> QED
    BY <1>9, <2>1, <2>2
<1>10. CASE BeginAnswering(t) \/ SelectBatch(t)
  <2>1. CASE BeginAnswering(t)
    <3>1. \/ Raise(t)
          \/ \E pc \in PCs : Goto(t, pc)
          \/ task' = [task EXCEPT ![t] = [task[t] EXCEPT !.pc = "mcq",
                                              !.todo = {i \in Mcq : item_status[i] # "answered"}]]
      BY <2>1 DEF BeginAnswering, PCs
    <3> QED
      BY <1>2, <1>3, <1>5, <3>1 DEF Kept
  <2>2. CASE SelectBatch(t)
    <3>1. \E pc, S, n : task' = [task EXCEPT ![t] = [task[t] EXCEPT !.pc = pc, !.todo = S, !.rest = n]]
      BY <2>2 DEF SelectBatch
    <3> QED
      BY <1>4, <3>1 DEF Kept
  <2> QED
    BY <1>10, <2>1, <2>2
<1>11. CASE \E i \in Items : SaveAnswer(t, i) \/ CompleteItem(t, i) \/ FailItem(t, i)
  <2>1. \/ UNCHANGED task
        \/ \E S : task' = [task EXCEPT ![t] = [task[t] EXCEPT !.todo = S]]
    BY <1>11 DEF SaveAnswer, CompleteItem, FailItem
  <2> QED
    BY <1>6, <1>7, <2>1 DEF Kept
<1> QED
  BY <1>8, <1>9, <1>10, <1>11 DEF Handle, Kept

\* A handler of another job stays away from the statements of the validation.
LEMMA OthersStayAway ==
  ASSUME TypeInv, OnceInv, NEW t \in Tasks, Handle(t) \/ TaskRaises(t) \/ FailJob(t), ~Validates(t)
  PROVE  ~Validates(t)' /\ task'[t].pc \notin Validation
<1>1. /\ task[t].pc # "idle" /\ task'[t].key = task[t].key /\ task[t].key # Validate
  BY HandlerMoves DEF Validates, TypeInv
<1>2. task[t].pc \notin Validation
  BY DEF OnceInv
<1>3. task'[t].pc \notin Validation
  <2>2. ASSUME NEW pc, pc \notin Validation, Goto(t, pc) PROVE task'[t].pc \notin Validation
    BY <1>1, <2>2, GotoKeeps DEF TypeInv
  <2>3. CASE Raise(t)
    BY <2>3 DEF Raise, TypeInv, TaskTypeOK, Validation
  <2>4. ASSUME NEW S, task' = [task EXCEPT ![t] = [task[t] EXCEPT !.todo = S]]
        PROVE  task'[t].pc \notin Validation
    BY <1>1, <1>2, <2>4, BusyTask DEF TypeInv, TaskTypeOK, TaskRecords
  <2>5. ASSUME NEW pc, pc \notin Validation, NEW S,
               task' = [task EXCEPT ![t] = [task[t] EXCEPT !.pc = pc, !.todo = S]]
        PROVE  task'[t].pc \notin Validation
    BY <1>1, <2>5, BusyTask DEF TypeInv, TaskTypeOK, TaskRecords
  <2>6. CASE \/ CheckValidation(t) \/ Inspect(t) \/ Reject(t) \/ Charge(t) \/ ScheduleExtraction(t)
    BY <1>2, <2>6
       DEF CheckValidation, Inspect, Reject, Charge, ScheduleExtraction, At, Validation
  <2>7. CASE \/ OpenExtraction(t) \/ TooMany(t) \/ HandOver(t) \/ McqBatch(t) \/ SaveMcqBatch(t)
             \/ LoopEnds(t) \/ Finish(t) \/ TaskRaises(t) \/ FailJob(t)
    <3>1. \/ Raise(t)
          \/ \E pc \in {"ocr", "return", "mcq_items", "mcq_save", "mcq_fail", "select", "finish",
                        "report"} : Goto(t, pc)
      BY <2>7 DEF OpenExtraction, TooMany, HandOver, McqBatch, SaveMcqBatch, LoopEnds, Finish,
                  TaskRaises, FailJob
    <3> QED
      BY <2>2, <2>3, <3>1 DEF Validation
  <2>8. CASE ReadQuestions(t)
    <3>1. \/ \E unclear \in SUBSET Items :
               task' = [task EXCEPT ![t] = [task[t] EXCEPT !.pc = "insert", !.todo = unclear]]
          \/ Goto(t, "too_many")
      BY <2>8 DEF ReadQuestions
    <3> QED
      BY <2>2, <2>5, <3>1 DEF Validation
  <2>9. CASE InsertItems(t)
    <3>1. \/ Raise(t)
          \/ \E pc \in {"return", "hand_over"} :
               task' = [task EXCEPT ![t] = [task[t] EXCEPT !.pc = pc, !.todo = {}]]
      BY <2>9 DEF InsertItems
    <3> QED
      BY <2>3, <2>5, <3>1 DEF Validation
  <2>10. CASE BeginAnswering(t)
    <3>1. \/ Raise(t)
          \/ \E pc \in {"return", "select"} : Goto(t, pc)
          \/ task' = [task EXCEPT ![t] = [task[t] EXCEPT !.pc = "mcq",
                                              !.todo = {i \in Mcq : item_status[i] # "answered"}]]
      BY <2>10 DEF BeginAnswering
    <3> QED
      BY <2>2, <2>3, <2>5, <3>1 DEF Validation
  <2>11. CASE SelectBatch(t)
    <3>1. \E pc \in {"finish", "write"} : \E S, n :
             task' = [task EXCEPT ![t] = [task[t] EXCEPT !.pc = pc, !.todo = S, !.rest = n]]
      BY <2>11 DEF SelectBatch
    <3> QED
      BY <1>1, <3>1, BusyTask DEF TypeInv, TaskTypeOK, TaskRecords, Validation
  <2>12. CASE \E i \in Items : SaveAnswer(t, i) \/ CompleteItem(t, i) \/ FailItem(t, i)
    <3>1. \/ UNCHANGED task
          \/ \E S : task' = [task EXCEPT ![t] = [task[t] EXCEPT !.todo = S]]
      BY <2>12 DEF SaveAnswer, CompleteItem, FailItem
    <3> QED
      BY <1>2, <2>4, <3>1
  <2> QED
    BY <2>6, <2>7, <2>8, <2>9, <2>10, <2>11, <2>12 DEF Handle
<1> QED
  BY <1>1, <1>3 DEF Validates

\* A finished batch that was given back stays finished.
LEMMA RefundStays ==
  ASSUME TypeInv, QuietBefore, OnceInv, [Next]_vars PROVE RefundedIsOver'
<1> USE DEF parent, items, intake, RefundedIsOver
<1>1. reservation = "refunded" => workflow_status \in Terminal
  BY DEF OnceInv
<1>2. ASSUME UNCHANGED <<reservation, workflow_status>> PROVE RefundedIsOver'
  BY <1>1, <1>2
<1>3. ASSUME NEW t \in Tasks, task[t].pc \in Validation \ {"schedule"} PROVE reservation = "none"
  BY <1>3 DEF OnceInv, FirstTime, Validation
<1>4. ASSUME NEW st \in Terminal, FailAndRefund(st) PROVE RefundedIsOver'
  BY <1>1, <1>4 DEF FailAndRefund
<1>5. ASSUME BeginAnswers, UNCHANGED reservation PROVE RefundedIsOver'
  BY <1>1, <1>5 DEF BeginAnswers, Terminal
<1>6. CASE UNCHANGED vars
  BY <1>2, <1>6 DEF vars
<1>7. CASE Api
  <2>1. CASE CreateSession \/ ExpireSession \/ PurgeRawSource
    BY <1>2, <2>1 DEF CreateSession, ExpireSession, PurgeRawSource
  <2>2. CASE Submit
    BY <1>1, <2>2 DEF Submit, QuietBefore, Terminal
  <2>3. CASE StartAfterCorrection
    BY <1>2, <1>5, <2>3 DEF StartAfterCorrection
  <2>4. CASE \E i \in Items : ApplyCorrection(i)
    BY <1>1, <2>4 DEF ApplyCorrection, Terminal
  <2> QED
    BY <1>7, <2>1, <2>2, <2>3, <2>4 DEF Api
<1>8. ASSUME NEW t \in Tasks, Handle(t) PROVE RefundedIsOver'
  <2>1. CASE CheckValidation(t) \/ Inspect(t) \/ Reject(t) \/ Charge(t)
    <3>1. reservation = "none"
      BY <1>3, <2>1 DEF CheckValidation, Inspect, Reject, Charge, At, Validation
    <3>2. reservation' \in {"none", "committed"}
      BY <2>1, <3>1 DEF CheckValidation, Inspect, Reject, Charge, ReserveAndCommit
    <3> QED
      BY <3>2
  <2>2. CASE ScheduleExtraction(t)
    BY <1>1, <1>2, <2>2 DEF ScheduleExtraction, Terminal
  <2>3. CASE TooMany(t)
    BY <1>4, <2>3 DEF TooMany, Terminal
  <2>4. CASE InsertItems(t)
    BY <1>1, <1>2, <2>4 DEF InsertItems, Current, Terminal
  <2>5. CASE HandOver(t)
    BY <1>2, <1>5, <2>5 DEF HandOver
  <2>6. CASE Finish(t)
    BY <1>1, <2>6 DEF Finish, FinishAnswers, Terminal
  <2>7. CASE \/ OpenExtraction(t) \/ ReadQuestions(t) \/ BeginAnswering(t) \/ McqBatch(t)
             \/ SaveMcqBatch(t) \/ SelectBatch(t) \/ LoopEnds(t)
             \/ (\E i \in Items : SaveAnswer(t, i) \/ CompleteItem(t, i) \/ FailItem(t, i))
    BY <1>2, <2>7 DEF OpenExtraction, ReadQuestions, BeginAnswering, McqBatch, SaveMcqBatch,
                      SelectBatch, LoopEnds, SaveAnswer, CompleteItem, FailItem
  <2> QED
    BY <1>8, <2>1, <2>2, <2>3, <2>4, <2>5, <2>6, <2>7 DEF Handle
<1>9. ASSUME NEW t \in Tasks, Report(t) PROVE RefundedIsOver'
  <2>1. CASE UNCHANGED reservation
    BY <1>1, <1>4, <1>9, <2>1 DEF Report, MarkAnswersFailed, FinishAnswers, Terminal
  <2>2. CASE FailAndRefund("failed")
    BY <1>4, <2>2 DEF Terminal
  <2> QED
    BY <1>9, <2>1, <2>2 DEF Report
<1>10. ASSUME NEW t \in Tasks,
              (\E k \in Keys : Lease(t, k)) \/ Complete(t) \/ TaskRaises(t) \/ FailJob(t) \/ Crash(t)
       PROVE  RefundedIsOver'
  BY <1>2, <1>10 DEF Lease, Complete, TaskRaises, FailJob, Crash
<1>11. ASSUME NEW k \in Keys, LeaseLapses(k) PROVE RefundedIsOver'
  BY <1>2, <1>11 DEF LeaseLapses
<1> QED
  BY <1>6, <1>7, <1>8, <1>9, <1>10, <1>11 DEF Next, Work

\* A step that neither validates nor moves the validation's row.
LEMMA AsideOfValidation ==
  ASSUME OnceInv, RefundedIsOver', queue'[Validate] = queue[Validate],
         reservation = "none" => reservation' = "none",
         \A u \in Tasks : \/ task'[u] = task[u]
                          \/ ~Validates(u) /\ ~Validates(u)' /\ task'[u].pc \notin Validation
  PROVE  OnceInv'
<1>1. \A u \in Tasks : Validates(u) => task'[u] = task[u]
  OBVIOUS
<1>2. \A u \in Tasks : Validates(u)' => Validates(u) /\ task'[u] = task[u]
  BY DEF Validates
<1>3. ASSUME NEW u \in Tasks, Validates(u)' PROVE FirstTime(u)'
  <2>1. FirstTime(u) /\ task'[u] = task[u] /\ task[u].key = Validate
    BY <1>2, <1>3 DEF OnceInv, Validates
  <2> QED
    BY <2>1 DEF FirstTime, Leads
<1>4. (queue[Validate].status = "leased" =>
         queue[Validate].holder \in Tasks /\ Validates(queue[Validate].holder))'
  BY <1>1 DEF OnceInv, Validates
<1>5. ASSUME NEW u \in Tasks, task'[u].pc \in Validation PROVE Validates(u)'
  BY <1>5 DEF OnceInv, Validates
<1> QED
  BY <1>3, <1>4, <1>5 DEF OnceInv

\* The statements of the validation itself.
LEMMA ValidationOnce ==
  ASSUME TypeInv, OnceInv, RefundedIsOver', NEW t \in Tasks, Validates(t), Handle(t)
  PROVE  OnceInv'
<1> USE DEF parent, items, intake
<1>1. /\ Leads(t) /\ task[t].pc \in Validation /\ task[t].key = Validate
      /\ task[t].pc # "schedule" => reservation = "none"
  <2>1. FirstTime(t) /\ task[t].key = Validate
    BY DEF OnceInv, Validates
  <2>2. task[t].pc # "return"
    BY DEF Handle, CheckValidation, Inspect, Reject, Charge, ScheduleExtraction, OpenExtraction,
           ReadQuestions, TooMany, InsertItems, HandOver, BeginAnswering, McqBatch, SaveMcqBatch,
           SelectBatch, SaveAnswer, CompleteItem, FailItem, LoopEnds, Finish, At, Working
  <2> QED
    BY <2>1, <2>2 DEF FirstTime, Validation
<1>2. CheckValidation(t) \/ Inspect(t) \/ Reject(t) \/ Charge(t) \/ ScheduleExtraction(t)
  BY <1>1
     DEF Handle, OpenExtraction, ReadQuestions, TooMany, InsertItems, HandOver, BeginAnswering,
         McqBatch, SaveMcqBatch, SelectBatch, SaveAnswer, CompleteItem, FailItem, LoopEnds, Finish,
         At, Working, Validation
<1>3. Validate \in Keys /\ queue[Validate].status = "leased" /\ queue[Validate].holder = t
  BY <1>1 DEF Leads, Keys
<1>4. \A u \in Tasks \ {t} : ~Validates(u)
  BY <1>3 DEF OnceInv, FirstTime, Leads, Validates
<1>5. task'[t].key = Validate /\ \A u \in Tasks \ {t} : task'[u] = task[u]
  BY <1>1, HandlerMoves DEF TypeInv
<1>6. \/ task'[t].pc \in Validation /\ reservation' = "none"
      \/ task'[t].pc \in {"schedule", "return"}
  <2>1. CASE CheckValidation(t)
    <3>1. \E pc \in Validation \cup {"return"} : Goto(t, pc)
      BY <2>1 DEF CheckValidation, Validation
    <3> QED
      BY <1>1, <2>1, <3>1, GotoKeeps DEF CheckValidation, At, TypeInv, Validation
  <2>2. CASE Inspect(t)
    <3>1. \E pc \in Validation : Goto(t, pc)
      BY <2>2 DEF Inspect, Validation
    <3> QED
      BY <1>1, <2>2, <3>1, GotoKeeps DEF Inspect, At, TypeInv, Validation
  <2>3. CASE Reject(t) \/ Charge(t) \/ ScheduleExtraction(t)
    <3>1. \E pc \in {"schedule", "return"} : Goto(t, pc)
      BY <2>3 DEF Reject, Charge, ScheduleExtraction
    <3> QED
      BY <1>1, <3>1, GotoKeeps DEF TypeInv, Validation
  <2> QED
    BY <1>2, <2>1, <2>2, <2>3
<1>7. queue'[Validate] = queue[Validate]
  BY <1>2, <1>3 DEF CheckValidation, Inspect, Reject, Charge, ScheduleExtraction, Enqueue, Validate,
                    Extract, TypeInv, QueueTypeOK
<1>8. Validates(t)' /\ FirstTime(t)'
  BY <1>3, <1>5, <1>6, <1>7 DEF Validates, FirstTime, Leads, Validation
<1>9. \A u \in Tasks \ {t} : ~Validates(u)' /\ task'[u].pc \notin Validation
  BY <1>4, <1>5 DEF OnceInv, Validates
<1> QED
  BY <1>3, <1>7, <1>8, <1>9 DEF OnceInv

\* Where executions of the validation neither raise, die nor lose their lease, every
\* step keeps the invariant, whatever those of the other stages do.
LEMMA OnceInvKept ==
  ASSUME "validate" \notin Faulty, TypeInv, QuietBefore, OnceInv, [Next]_vars PROVE OnceInv'
<1> USE DEF parent, items, intake
<1>1. RefundedIsOver'
  BY RefundStays
<1>2. ASSUME queue'[Validate] = queue[Validate], UNCHANGED <<reservation, task>> PROVE OnceInv'
  BY <1>1, <1>2, AsideOfValidation
<1>3. ASSUME NEW t \in Tasks, ~Validates(t)', task'[t].pc \notin Validation, ~Validates(t),
             \A u \in Tasks \ {t} : task'[u] = task[u],
             queue'[Validate] = queue[Validate], reservation = "none" => reservation' = "none"
      PROVE  OnceInv'
  BY <1>1, <1>3, AsideOfValidation
<1>4. ASSUME NEW k, k # Validate, Enqueue(k) PROVE queue'[Validate] = queue[Validate]
  BY <1>4 DEF Enqueue, TypeInv, QueueTypeOK, Keys
<1>5. Validate \in Keys /\ \A k \in Keys : k # Validate => k.stage \in {"extract", "answer"}
  BY DEF Keys, Extract, Answer
<1>6. \A e, n : Answer(e, n) # Validate
  BY DEF Answer, Validate
<1>7. CASE UNCHANGED vars
  BY <1>2, <1>7 DEF vars
<1>8. CASE Api
  <2>1. CASE \/ CreateSession \/ ExpireSession \/ PurgeRawSource
             \/ (\E i \in Items : ApplyCorrection(i))
    BY <1>2, <2>1 DEF CreateSession, ExpireSession, PurgeRawSource, ApplyCorrection
  <2>2. CASE StartAfterCorrection
    <3>1. UNCHANGED <<reservation, task>>
      BY <2>2 DEF StartAfterCorrection
    <3>2. queue'[Validate] = queue[Validate]
      BY <1>4, <1>6, <2>2 DEF StartAfterCorrection, BeginAnswers
    <3> QED
      BY <1>2, <3>1, <3>2
  <2>3. CASE Submit
    <3>1. /\ \A t \in Tasks : task'[t] = Idle
          /\ queue[Validate].status = "absent" /\ queue[Validate] \in Rows
          /\ Enqueue(Validate) /\ UNCHANGED reservation
      BY <1>5, <2>3 DEF Submit, QuietBefore, TypeInv, QueueTypeOK
    <3>2. queue' = [queue EXCEPT ![Validate] = [queue[Validate] EXCEPT !.status = "waiting"]]
      BY <3>1 DEF Enqueue
    <3>3. queue'[Validate].status = "waiting"
      <4>1. queue'[Validate] = [queue[Validate] EXCEPT !.status = "waiting"]
        BY <1>5, <3>2 DEF TypeInv, QueueTypeOK
      <4> QED
        BY <3>1, <4>1 DEF Rows
    <3>4. reservation' = "none"
      BY <3>1 DEF OnceInv
    <3> QED
      BY <1>1, <3>1, <3>3, <3>4 DEF OnceInv, Validates, Validation, Idle
  <2> QED
    BY <1>8, <2>1, <2>2, <2>3 DEF Api
<1>9. ASSUME NEW t \in Tasks, Handle(t) PROVE OnceInv'
  <2>1. CASE Validates(t)
    BY <1>1, <1>9, <2>1, ValidationOnce
  <2>2. CASE ~Validates(t)
    <3>1. task[t].pc \notin Validation
      BY <2>2 DEF OnceInv
    <3>2. queue'[Validate] = queue[Validate] /\ (reservation = "none" => reservation' = "none")
      <4>1. CASE HandOver(t)
        BY <1>4, <1>6, <4>1 DEF HandOver, BeginAnswers
      <4>2. CASE TooMany(t)
        BY <4>2 DEF TooMany, FailAndRefund
      <4>3. CASE ~HandOver(t) /\ ~TooMany(t)
        BY <1>9, <3>1, <4>3
           DEF Handle, CheckValidation, Inspect, Reject, Charge, ScheduleExtraction, OpenExtraction,
               ReadQuestions, InsertItems, BeginAnswering, McqBatch, SaveMcqBatch, SelectBatch,
               SaveAnswer, CompleteItem, FailItem, LoopEnds, Finish, At, Validation
      <4> QED
        BY <4>1, <4>2, <4>3
    <3> QED
      BY <1>3, <1>9, <2>2, <3>2, OthersStayAway, HandlerMoves DEF TypeInv
  <2> QED
    BY <2>1, <2>2
<1>10. ASSUME NEW t \in Tasks, TaskRaises(t) \/ FailJob(t) PROVE OnceInv'
  <2>1. ~Validates(t)
    BY <1>10 DEF TaskRaises, FailJob, At, Validates, Validate, OnceInv, FirstTime, Validation
  <2>2. queue'[Validate] = queue[Validate]
    <3>1. task[t].pc # "idle"
      BY <1>10 DEF TaskRaises, FailJob, At
    <3> QED
      BY <1>5, <1>10, <2>1, <3>1 DEF TaskRaises, FailJob, Validates, TypeInv, QueueTypeOK
  <2>3. UNCHANGED reservation
    BY <1>10 DEF TaskRaises, FailJob
  <2> QED
    BY <1>3, <1>10, <2>1, <2>2, <2>3, OthersStayAway, HandlerMoves DEF TypeInv
<1>11. ASSUME NEW t \in Tasks, Report(t) \/ Crash(t) PROVE OnceInv'
  <2>1. ~Validates(t)
    BY <1>11 DEF Report, Crash, At, Validates, Validate, OnceInv, FirstTime, Validation
  <2>2. task' = [task EXCEPT ![t] = Idle] /\ UNCHANGED queue
    BY <1>11 DEF Report, Crash
  <2>3. reservation = "none" => reservation' = "none"
    BY <1>11 DEF Report, Crash, FailAndRefund
  <2>4. ~Validates(t)' /\ task'[t].pc \notin Validation /\ \A u \in Tasks \ {t} : task'[u] = task[u]
    BY <2>2 DEF TypeInv, TaskTypeOK, Idle, Validates, Validation
  <2> QED
    BY <1>3, <2>1, <2>2, <2>3, <2>4
<1>12. ASSUME NEW t \in Tasks, Complete(t) PROVE OnceInv'
  <2>1. /\ task[t].pc = "return" /\ UNCHANGED reservation
        /\ Validates(t) => Leads(t) /\ queue[Validate].status = "leased" /\ queue[Validate].holder = t
    BY <1>12 DEF Complete, At, OnceInv, FirstTime, Leads, Validates
  <2>2. CASE Validates(t)
    <3>1. Leads(t) /\ task[t].key = Validate
      BY <2>1, <2>2 DEF Validates
    <3>2. /\ queue'[Validate] = [queue[Validate] EXCEPT !.status = "succeeded"]
          /\ task' = [task EXCEPT ![t] = Idle]
      BY <1>5, <1>12, <3>1 DEF Complete
    <3>3. queue'[Validate].status = "succeeded"
      BY <1>5, <3>2 DEF TypeInv, QueueTypeOK, Rows
    <3>4. \A u \in Tasks : ~Validates(u)' /\ task'[u].pc \notin Validation
      <4>1. \A u \in Tasks \ {t} : ~Validates(u) /\ task'[u] = task[u]
        BY <2>1, <2>2, <3>2 DEF OnceInv, FirstTime, Leads, Validates, TypeInv, TaskTypeOK
      <4>2. task'[t] = Idle
        BY <3>2 DEF TypeInv, TaskTypeOK
      <4>3. ~Validates(t)' /\ task'[t].pc \notin Validation
        BY <4>2 DEF Validates, Idle, Validation
      <4>4. \A u \in Tasks \ {t} : ~Validates(u)' /\ task'[u].pc \notin Validation
        BY <4>1 DEF OnceInv, Validates
      <4> QED
        BY <4>3, <4>4
    <3> QED
      BY <1>1, <3>3, <3>4 DEF OnceInv
  <2>3. CASE ~Validates(t)
    <3>1. task[t].key # Validate /\ NextKey(t) # Validate
      BY <1>6, <2>1, <2>3 DEF Validates, NextKey
    <3>2. queue'[Validate] = queue[Validate]
      BY <1>5, <1>12, <3>1 DEF Complete
    <3>3. ~Validates(t)' /\ task'[t].pc \notin Validation /\ \A u \in Tasks \ {t} : task'[u] = task[u]
      BY <1>12, <3>1 DEF Complete, Raise, TypeInv, TaskTypeOK, Idle, Validates, Validation
    <3> QED
      BY <1>3, <2>1, <2>3, <3>2, <3>3
  <2> QED
    BY <2>2, <2>3
<1>13. ASSUME NEW t \in Tasks, NEW k \in Keys, Lease(t, k) PROVE OnceInv'
  <2>1. /\ task[t] = Idle /\ queue[k].status = "waiting" /\ UNCHANGED reservation
        /\ queue'[k] = [status |-> "leased", attempts |-> queue[k].attempts + 1, holder |-> t]
        /\ \A j \in Keys \ {k} : queue'[j] = queue[j]
        /\ task'[t] = [pc |-> Entry(k.stage), key |-> k, todo |-> {}, rest |-> 0]
        /\ \A u \in Tasks \ {t} : task'[u] = task[u]
    BY <1>13 DEF Lease, TypeInv, QueueTypeOK, TaskTypeOK
  <2>2. ~Validates(t)
    BY <2>1 DEF Validates, Idle
  <2>3. CASE k = Validate
    <3>1. reservation' = "none" /\ \A u \in Tasks : ~Validates(u)
      BY <2>1, <2>3 DEF OnceInv, FirstTime, Leads, Validates
    <3>2. task'[t].pc = "check" /\ task'[t].key = Validate
      BY <2>1, <2>3 DEF Entry, Validate
    <3>3. queue'[Validate].status = "leased" /\ queue'[Validate].holder = t
      BY <2>1, <2>3
    <3>4. Validates(t)' /\ FirstTime(t)'
      BY <3>1, <3>2, <3>3 DEF Validates, FirstTime, Leads, Validation
    <3>5. \A u \in Tasks \ {t} : ~Validates(u)' /\ task'[u].pc \notin Validation
      BY <2>1, <3>1 DEF OnceInv, Validates
    <3> QED
      BY <1>1, <3>1, <3>3, <3>4, <3>5 DEF OnceInv
  <2>4. CASE k # Validate
    <3>1. task'[t].pc \in {"open", "begin"} /\ task'[t].key # Validate
      BY <1>5, <2>1, <2>4 DEF Entry
    <3>2. queue'[Validate] = queue[Validate]
      BY <1>5, <2>1, <2>4
    <3> QED
      BY <1>3, <2>1, <2>2, <3>1, <3>2 DEF Validates, Validation
  <2> QED
    BY <2>3, <2>4
<1>14. ASSUME NEW k \in Keys, LeaseLapses(k) PROVE OnceInv'
  <2>1. k # Validate
    BY <1>14 DEF LeaseLapses, OnceInv, Validates, Validate
  <2>2. queue'[Validate] = queue[Validate] /\ UNCHANGED <<reservation, task>>
    BY <1>5, <1>14, <2>1 DEF LeaseLapses, TypeInv, QueueTypeOK
  <2> QED
    BY <1>2, <2>2
<1> QED
  BY <1>7, <1>8, <1>9, <1>10, <1>11, <1>12, <1>13, <1>14 DEF Next, Work

\* If the validation of a batch is executed without a failure, a refund is final:
\* extractions and answers may be delivered twice, overlap, raise and die, and their
\* failure reports may come late.  It is only a second execution of the validation that
\* brings a refunded batch back (validate_and_charge does not look at quota_status).
THEOREM RefundIsFinal == ASSUME "validate" \notin Faulty PROVE Spec => []RefundedIsOver
<1>1. Init => OnceInv
  BY DEF Init, OnceInv, Idle, Validates, Validation, Keys, RefundedIsOver
<1>2. TypeInv /\ QuietBefore /\ OnceInv /\ [Next]_vars => OnceInv'
  BY OnceInvKept
<1>3. OnceInv => RefundedIsOver
  BY DEF OnceInv
<1> QED
  BY <1>1, <1>2, <1>3, ChargeInvHolds, PTL DEF Spec
=============================================================================
