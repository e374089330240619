---------------------------- MODULE MultipleAsk -----------------------------
(***************************************************************************)
(* One Multiple Ask batch: the parent row of multiple_ask_jobs, its items, *)
(* its batch charge, and the validate, extract and answer handlers that    *)
(* move it (app/services/multiple_ask*.py).                                *)
(*                                                                         *)
(* One step of a handler is one database transaction; OCR and provider     *)
(* calls happen between them.  The queue is seen as JobQueue shows it: a   *)
(* job whose lease lapsed is delivered again, to a second task if the      *)
(* first one is only slow (Overlap), an execution may fail or die between  *)
(* any two steps, and exhausted retries are reported by the execution that *)
(* failed last, not by stale recovery.                                     *)
(***************************************************************************)
EXTENDS Naturals, FiniteSets

CONSTANTS
  Tasks,        \* worker processes of the railway_public mode
  None,
  NItems,       \* number of questions in the paper
  Mcq,          \* the items that are multiple choice
  BatchSize,    \* multiple_ask.answer_batch_size
  MaxAttempts,  \* max_attempts of a queue row
  Outlives,     \* whether the batch may still be in work when its raw source is purged
  Faulty,       \* bound: the stages whose executions may raise, die or lose their lease
  Overlap,      \* whether a lease may lapse while its holder still runs
  MayCrash      \* tasks whose process may die

Items == 1..NItems

ASSUME BatchAssumption ==
  /\ None \notin Tasks
  /\ NItems \in Nat \ {0}
  /\ Mcq \subseteq Items
  /\ BatchSize \in Nat \ {0}
  /\ MaxAttempts \in Nat \ {0}
  /\ Outlives \in BOOLEAN /\ Overlap \in BOOLEAN
  /\ Faulty \subseteq {"validate", "extract", "answer"}
  /\ MayCrash \subseteq Tasks

\* Every validation run opens at most one extraction epoch.
Epochs == 1..MaxAttempts

\* Idempotency keys.  rest is the suffix of a chained answer job, NItems for
\* the first one, which has no suffix.
Validate == [stage |-> "validate", epoch |-> 0, rest |-> 0]
Extract(e) == [stage |-> "extract", epoch |-> e, rest |-> 0]
Answer(e, n) == [stage |-> "answer", epoch |-> e, rest |-> n]

Keys == {Validate} \cup {Extract(e) : e \in Epochs} \cup {Answer(e, n) : e \in Epochs, n \in Items}

VARIABLES
  session,           \* multiple_ask_upload_sessions.status, "none" without a row
  source,            \* what canonical validation would find in the raw source
  workflow_status,   \* multiple_ask_jobs.workflow_status, "none" without a row
  quota_status,      \* multiple_ask_jobs.quota_status
  reservation,       \* the batch's row of usage_reservations
  extraction_epoch,
  answer_epoch,
  item_status,       \* per item; "pending" is ready_to_answer or answering,
                     \* which every guard accepts alike
  answers,           \* items whose ai_answers row exists
  mcq_batches,       \* answer epochs whose MCQ batch result is saved
  queue,             \* [status, attempts, holder] of every key
  task,              \* what each task is doing
  starting           \* a correction request is between its transaction and start_for_job

parent == <<workflow_status, quota_status, reservation, extraction_epoch, answer_epoch>>
items == <<item_status, answers, mcq_batches>>
intake == <<session, source>>
vars == <<intake, parent, items, queue, task, starting>>

ValidationDone == {"validated", "invalid", "limit_reached"}
Terminal == {"invalid", "limit_reached", "too_many_questions", "completed",
             "partially_completed", "failed"}
Workflows == {"none", "queued", "validating", "validated", "extracting", "needs_correction",
              "ready_to_answer", "answering"} \cup Terminal
ItemStatuses == {"absent", "needs_correction", "pending", "answered", "failed"}

PCs == {"check", "inspect", "reject", "charge", "schedule",
        "open", "ocr", "too_many", "insert", "hand_over",
        "begin", "mcq", "mcq_save", "mcq_items", "mcq_fail", "select", "write", "finish",
        "return", "raise", "report"}

Idle == [pc |-> "idle", key |-> None, todo |-> {}, rest |-> 0]

Init ==
  /\ session = "none"
  /\ source \in {"good", "bad"}
  /\ workflow_status = "none"
  /\ quota_status = "not_reserved"
  /\ reservation = "none"
  /\ extraction_epoch = 0
  /\ answer_epoch = 0
  /\ item_status = [i \in Items |-> "absent"]
  /\ answers = {}
  /\ mcq_batches = {}
  /\ queue = [k \in Keys |-> [status |-> "absent", attempts |-> 0, holder |-> None]]
  /\ task = [t \in Tasks |-> Idle]
  /\ starting = FALSE

At(t, pc) == task[t].pc = pc
Goto(t, pc) == task' = [task EXCEPT ![t].pc = pc]

\* The exception handler of _process_job.
Raise(t) == task' = [task EXCEPT ![t] = [pc |-> "raise", key |-> @.key, todo |-> {}, rest |-> 0]]

\* create_job: an existing key is left alone.
Enqueue(k) ==
  queue' = IF queue[k].status = "absent" THEN [queue EXCEPT ![k].status = "waiting"] ELSE queue

-----------------------------------------------------------------------------
(* Intake *)

\* create_file_session, and the unfinalized session's expiry.
CreateSession ==
  /\ session = "none"
  /\ session' = "created"
  /\ UNCHANGED <<source, parent, items, queue, task, starting>>

ExpireSession ==
  /\ session = "created"
  /\ session' = "none"
  /\ UNCHANGED <<source, parent, items, queue, task, starting>>

\* finalize_file of a created session, or submit_text of a new one.  Both
\* return the existing job when there is one.
Submit ==
  /\ session \in {"none", "created"}
  /\ session' = "finalized"
  /\ workflow_status' = "queued"
  /\ Enqueue(Validate)
  /\ UNCHANGED <<source, quota_status, reservation, extraction_epoch, answer_epoch, items,
                 task, starting>>

\* The retention pass deletes the raw source a day after finalization.
PurgeRawSource ==
  /\ session = "finalized"
  /\ Outlives
  /\ session' = "raw_source_purged"
  /\ source' = "purged"
  /\ UNCHANGED <<parent, items, queue, task, starting>>

-----------------------------------------------------------------------------
(* handle_multiple_ask_validate *)

\* First transaction of validate_and_charge.
CheckValidation(t) ==
  /\ At(t, "check")
  /\ workflow_status' = IF workflow_status = "queued" THEN "validating" ELSE workflow_status
  /\ Goto(t, CASE workflow_status = "validated" -> "schedule"
               [] workflow_status \in ValidationDone \ {"validated"} -> "return"
               [] OTHER -> "inspect")
  /\ UNCHANGED <<intake, quota_status, reservation, extraction_epoch, answer_epoch, items,
                 queue, starting>>

\* canonical_validate_context.
Inspect(t) ==
  /\ At(t, "inspect")
  /\ Goto(t, IF source = "good" THEN "charge" ELSE "reject")
  /\ UNCHANGED <<intake, parent, items, queue, starting>>

\* The transaction after CanonicalValidationError.
Reject(t) ==
  /\ At(t, "reject")
  /\ workflow_status' = IF workflow_status \in ValidationDone THEN workflow_status ELSE "invalid"
  /\ Goto(t, "return")
  /\ UNCHANGED <<intake, quota_status, reservation, extraction_epoch, answer_epoch, items,
                 queue, starting>>

\* Mutant: the nested transaction is rolled back although it succeeded.
ReserveAndRollBack == reservation' = reservation

\* reserve and commit return an existing reservation unchanged.
ReserveAndCommit == reservation' = IF reservation = "none" THEN "committed" ELSE reservation

\* Last transaction of validate_and_charge.  Reserving may raise
\* UsageLimitExceeded for a request already charged too: Redis answers first.
Charge(t) ==
  /\ At(t, "charge")
  /\ \/ /\ workflow_status \in ValidationDone
        /\ Goto(t, IF workflow_status = "validated" THEN "schedule" ELSE "return")
        /\ UNCHANGED <<workflow_status, quota_status, reservation>>
     \/ /\ workflow_status \notin ValidationDone
        /\ ReserveAndCommit
        /\ workflow_status' = "validated"
        /\ quota_status' = "committed"
        /\ Goto(t, "schedule")
     \/ /\ workflow_status \notin ValidationDone
        /\ workflow_status' = "limit_reached"
        /\ Goto(t, "return")
        /\ UNCHANGED <<quota_status, reservation>>
  /\ UNCHANGED <<intake, extraction_epoch, answer_epoch, items, queue, starting>>

\* start_initial_extraction.
ScheduleExtraction(t) ==
  /\ At(t, "schedule")
  /\ IF workflow_status = "validated"
       THEN /\ workflow_status' = "extracting"
            /\ extraction_epoch' = extraction_epoch + 1
            /\ Enqueue(Extract(extraction_epoch + 1))
       ELSE UNCHANGED <<workflow_status, extraction_epoch, queue>>
  /\ Goto(t, "return")
  /\ UNCHANGED <<intake, quota_status, reservation, answer_epoch, items, starting>>

-----------------------------------------------------------------------------
(* handle_multiple_ask_extract *)

Current(t) == workflow_status = "extracting" /\ extraction_epoch = task[t].key.epoch

OpenExtraction(t) ==
  /\ At(t, "open")
  /\ Goto(t, IF Current(t) THEN "ocr" ELSE "return")
  /\ UNCHANGED <<intake, parent, items, queue, starting>>

\* _normalized_source and extract_ordered_questions: the items that are
\* unclear, or QuestionLimitExceeded.
ReadQuestions(t) ==
  /\ At(t, "ocr")
  /\ source = "good"
  /\ \/ \E unclear \in SUBSET Items :
          task' = [task EXCEPT ![t].pc = "insert", ![t].todo = unclear]
     \/ Goto(t, "too_many")
  /\ UNCHANGED <<intake, parent, items, queue, starting>>

\* Mutant: a batch that is being validated is treated as over.
RefundBlockedMutant == {"validating", "invalid", "limit_reached", "completed", "failed",
                        "too_many_questions"}

\* fail_and_refund's early return.
RefundBlocked == {"invalid", "limit_reached", "completed", "failed", "too_many_questions"}

\* Mutant: the batch ends without its refund.
FailWithoutRefund(status) ==
  IF workflow_status \in RefundBlocked
    THEN UNCHANGED <<workflow_status, quota_status, reservation>>
    ELSE workflow_status' = status /\ UNCHANGED <<quota_status, reservation>>

\* fail_and_refund: terminal, and the committed reservation refunded once.
FailAndRefund(status) ==
  IF workflow_status \in RefundBlocked
    THEN UNCHANGED <<workflow_status, quota_status, reservation>>
    ELSE LET refunds == quota_status = "committed" /\ reservation = "committed"
         IN  /\ workflow_status' = status
             /\ reservation' = IF refunds THEN "refunded" ELSE reservation
             /\ quota_status' = IF refunds THEN "refunded" ELSE quota_status

TooMany(t) ==
  /\ At(t, "too_many")
  /\ FailAndRefund("too_many_questions")
  /\ Goto(t, "return")
  /\ UNCHANGED <<intake, extraction_epoch, answer_epoch, items, queue, starting>>

\* Mutant: the insert overwrites the items of an earlier epoch.
NoItemsMutant == TRUE

\* insert_extracted_items meets no row of (multiple_ask_job_id, item_index).
NoItems == \A i \in Items : item_status[i] = "absent"

\* insert_extracted_items and finish_extraction.
InsertItems(t) ==
  /\ At(t, "insert")
  /\ \/ /\ ~Current(t)
        /\ task' = [task EXCEPT ![t].pc = "return", ![t].todo = {}]
        /\ UNCHANGED <<workflow_status, item_status>>
     \/ /\ Current(t) /\ ~NoItems
        /\ Raise(t)
        /\ UNCHANGED <<workflow_status, item_status>>
     \/ LET unclear == task[t].todo
        IN  /\ Current(t) /\ NoItems
            /\ item_status' = [i \in Items |-> IF i \in unclear THEN "needs_correction"
                                                                 ELSE "pending"]
            /\ workflow_status' = IF unclear = {} THEN "ready_to_answer" ELSE "needs_correction"
            /\ task' = [task EXCEPT ![t].pc = IF unclear = {} THEN "hand_over" ELSE "return",
                                    ![t].todo = {}]
  /\ UNCHANGED <<intake, quota_status, reservation, extraction_epoch, answer_epoch, answers,
                 mcq_batches, queue, starting>>

Unclear == \E i \in Items : item_status[i] = "needs_correction"

\* The transaction of start_for_job when it starts the answers.
BeginAnswers ==
  /\ workflow_status = "ready_to_answer" /\ ~Unclear
  /\ workflow_status' = "answering"
  /\ answer_epoch' = answer_epoch + 1
  /\ Enqueue(Answer(answer_epoch + 1, NItems))

\* start_for_job returns without an effect.
AnswersBegun ==
  ~Unclear /\ workflow_status \in {"answering", "completed", "partially_completed", "failed"}

HandOver(t) ==
  /\ At(t, "hand_over")
  /\ \/ BeginAnswers /\ Goto(t, "return")
     \/ /\ AnswersBegun
        /\ Goto(t, "return")
        /\ UNCHANGED <<workflow_status, answer_epoch, queue>>
     \/ /\ ~AnswersBegun /\ ~(workflow_status = "ready_to_answer" /\ ~Unclear)
        /\ Raise(t)
        /\ UNCHANGED <<workflow_status, answer_epoch, queue>>
  /\ UNCHANGED <<intake, quota_status, reservation, extraction_epoch, items, starting>>

-----------------------------------------------------------------------------
(* Corrections by the student *)

\* apply_correction of an unclear item.  The last one makes the batch ready;
\* start_for_job then runs in a transaction of its own.
ApplyCorrection(i) ==
  /\ workflow_status = "needs_correction"
  /\ item_status[i] = "needs_correction"
  /\ item_status' = [item_status EXCEPT ![i] = "pending"]
  /\ IF \E k \in Items \ {i} : item_status[k] = "needs_correction"
       THEN UNCHANGED <<workflow_status, starting>>
       ELSE workflow_status' = "ready_to_answer" /\ starting' = TRUE
  /\ UNCHANGED <<intake, quota_status, reservation, extraction_epoch, answer_epoch, answers,
                 mcq_batches, queue, task>>

\* start_for_job of the correction request; it may also raise, or the request die.
StartAfterCorrection ==
  /\ starting
  /\ starting' = FALSE
  /\ BeginAnswers \/ UNCHANGED <<workflow_status, answer_epoch, queue>>
  /\ UNCHANGED <<intake, quota_status, reservation, extraction_epoch, items, task>>

-----------------------------------------------------------------------------
(* handle_multiple_ask_answer *)

Pending(S) == {i \in S : item_status[i] = "pending"}

\* First transaction of answer().  todo is its snapshot of the MCQ items that
\* are not answered.
BeginAnswering(t) ==
  /\ At(t, "begin")
  /\ LET stale == workflow_status # "answering" \/ answer_epoch # task[t].key.epoch
     IN  \/ stale /\ Goto(t, "return")
         \/ ~stale /\ Unclear /\ Raise(t)
         \/ ~stale /\ ~Unclear /\ Pending(Mcq) = {} /\ Goto(t, "select")
         \/ /\ ~stale /\ ~Unclear /\ Pending(Mcq) # {}
            /\ task' = [task EXCEPT ![t].pc = "mcq",
                                    ![t].todo = {i \in Mcq : item_status[i] # "answered"}]
  /\ UNCHANGED <<intake, parent, items, queue, starting>>

\* get_mcq_batch, and the provider call when nothing is saved: a valid result,
\* or an error that fails the items.
McqBatch(t) ==
  /\ At(t, "mcq")
  /\ \/ task[t].key.epoch \in mcq_batches /\ Goto(t, "mcq_items")
     \/ task[t].key.epoch \notin mcq_batches /\ (Goto(t, "mcq_save") \/ Goto(t, "mcq_fail"))
  /\ UNCHANGED <<intake, parent, items, queue, starting>>

\* save_mcq_batch keeps the first result.
SaveMcqBatch(t) ==
  /\ At(t, "mcq_save")
  /\ mcq_batches' = mcq_batches \cup {task[t].key.epoch}
  /\ Goto(t, "mcq_items")
  /\ UNCHANGED <<intake, parent, item_status, answers, queue, starting>>

\* Next written batch, after the MCQ items are done.
SelectBatch(t) ==
  LET remaining == Pending(Items \ Mcq)
      Before(i) == {k \in remaining : k < i}
      batch == {i \in remaining : Cardinality(Before(i)) < BatchSize}
  IN  /\ At(t, "select")
      /\ task' = [task EXCEPT ![t].pc = IF remaining = {} THEN "finish" ELSE "write",
                              ![t].todo = batch,
                              ![t].rest = Cardinality(remaining \ batch)]
      /\ UNCHANGED <<intake, parent, items, queue, starting>>

Working(t) == At(t, "mcq_items") \/ At(t, "write")

\* AskRepository.complete: one answer per item, the first one kept.
SaveAnswer(t, i) ==
  /\ Working(t)
  /\ i \in task[t].todo
  /\ i \notin answers
  /\ answers' = answers \cup {i}
  /\ UNCHANGED <<intake, parent, item_status, mcq_batches, queue, task, starting>>

\* complete_answer_item, by the execution that saved the answer or by one that
\* finds it (_existing_completion).
CompleteItem(t, i) ==
  /\ Working(t)
  /\ i \in task[t].todo
  /\ i \in answers
  /\ item_status' = [item_status EXCEPT ![i] = IF @ = "pending" THEN "answered" ELSE @]
  /\ task' = [task EXCEPT ![t].todo = @ \ {i}]
  /\ UNCHANGED <<intake, parent, answers, mcq_batches, queue, starting>>

\* Mutant: the UPDATE has lost its guard on item_status.
FailItemUnguarded(t, i) ==
  /\ At(t, "mcq_fail") \/ At(t, "write")
  /\ i \in task[t].todo
  /\ item_status' = [item_status EXCEPT ![i] = "failed"]
  /\ task' = [task EXCEPT ![t].todo = @ \ {i}]
  /\ UNCHANGED <<intake, parent, answers, mcq_batches, queue, starting>>

\* _fail_item after an error that is not retried.
FailItem(t, i) ==
  /\ At(t, "mcq_fail") \/ At(t, "write")
  /\ i \in task[t].todo
  /\ item_status' = [item_status EXCEPT ![i] = IF @ = "pending" THEN "failed" ELSE @]
  /\ task' = [task EXCEPT ![t].todo = @ \ {i}]
  /\ UNCHANGED <<intake, parent, answers, mcq_batches, queue, starting>>

\* The loops end; a further batch is chained with _next_job.
LoopEnds(t) ==
  /\ task[t].todo = {}
  /\ \/ (At(t, "mcq_items") \/ At(t, "mcq_fail")) /\ Goto(t, "select")
     \/ At(t, "write") /\ Goto(t, IF task[t].rest > 0 THEN "return" ELSE "finish")
  /\ UNCHANGED <<intake, parent, items, queue, starting>>

\* Mutant: a batch without any answer is not failed.
OutcomeWithoutAnswers(st) ==
  IF \E i \in Items : st[i] = "failed" THEN "partially_completed" ELSE "completed"

\* finish_answers, from the item statuses st.
Outcome(st) ==
  IF \A i \in Items : st[i] # "answered" THEN "failed"
  ELSE IF \E i \in Items : st[i] = "failed" THEN "partially_completed" ELSE "completed"

FinishAnswers(st) ==
  workflow_status' = IF workflow_status = "answering" /\ \A i \in Items : st[i] # "pending"
                       THEN Outcome(st) ELSE workflow_status

Finish(t) ==
  /\ At(t, "finish")
  /\ FinishAnswers(item_status)
  /\ Goto(t, "return")
  /\ UNCHANGED <<intake, quota_status, reservation, extraction_epoch, answer_epoch, items,
                 queue, starting>>

-----------------------------------------------------------------------------
(* The queue and the worker around a handler; JobQueue has the details *)

Entry(stage) ==
  CASE stage = "validate" -> "check" [] stage = "extract" -> "open" [] stage = "answer" -> "begin"

Lease(t, k) ==
  /\ task[t] = Idle
  /\ queue[k].status = "waiting"
  /\ queue' = [queue EXCEPT ![k] = [status |-> "leased", attempts |-> @.attempts + 1, holder |-> t]]
  /\ task' = [task EXCEPT ![t] = [pc |-> Entry(k.stage), key |-> k, todo |-> {}, rest |-> 0]]
  /\ UNCHANGED <<intake, parent, items, starting>>

\* Mutant: the comparison with max_attempts is off by one.
ReleasedOffByOne(row) ==
  [row EXCEPT !.status = IF row.attempts <= MaxAttempts THEN "waiting" ELSE "failed", !.holder = None]

\* The row goes back to waiting, or fails when its attempts are used up.
Released(row) ==
  [row EXCEPT !.status = IF row.attempts < MaxAttempts THEN "waiting" ELSE "failed", !.holder = None]

\* Stale recovery of a lease whose holder is gone, or just slow.
LeaseLapses(k) ==
  /\ queue[k].status = "leased"
  /\ (Overlap /\ k.stage \in Faulty) \/ task[queue[k].holder].key # k
  /\ queue' = [queue EXCEPT ![k] = Released(@)]
  /\ UNCHANGED <<intake, parent, items, task, starting>>

Leads(t) == queue[task[t].key].status = "leased" /\ queue[task[t].key].holder = t

\* Mutant: the key of a chained job does not name the count of remaining items.
NextKeyUncounted(t) == Answer(task[t].key.epoch, NItems)

\* _next_job of a batch that leaves written items to a further job.
NextKey(t) == Answer(task[t].key.epoch, task[t].rest)

\* complete_job or complete_job_and_enqueue.
Complete(t) ==
  LET k == task[t].key
      n == NextKey(t)
      chained == k.stage = "answer" /\ task[t].rest > 0
  IN  /\ At(t, "return")
      /\ IF Leads(t)
           THEN /\ queue' = [j \in Keys |->
                     IF j = k THEN [queue[k] EXCEPT !.status = "succeeded"]
                     ELSE IF chained /\ j = n /\ queue[n].status = "absent"
                       THEN [queue[n] EXCEPT !.status = "waiting"] ELSE queue[j]]
                /\ task' = [task EXCEPT ![t] = Idle]
           ELSE Raise(t) /\ UNCHANGED queue
      /\ UNCHANGED <<intake, parent, items, starting>>

\* An exception anywhere in the handler, before or after its last commit.
TaskRaises(t) ==
  /\ task[t].pc \notin {"idle", "raise", "report"}
  /\ task[t].key.stage \in Faulty
  /\ Raise(t)
  /\ UNCHANGED <<intake, parent, items, queue, starting>>

\* fail_job: also of a row that has no holder.
FailJob(t) ==
  LET k == task[t].key
  IN  /\ At(t, "raise")
      /\ queue' = IF Leads(t) \/ queue[k].holder = None
                    THEN [queue EXCEPT ![k] = Released(@)] ELSE queue
      /\ Goto(t, "report")
      /\ UNCHANGED <<intake, parent, items, starting>>

\* mark_queue_failure of the answer service.
MarkAnswersFailed ==
  LET st == [i \in Items |-> IF item_status[i] = "pending" THEN "failed" ELSE item_status[i]]
  IN  IF workflow_status = "answering"
        THEN item_status' = st /\ FinishAnswers(st)
        ELSE UNCHANGED <<item_status, workflow_status>>

\* get_job after fail_job, and mark_queue_failure if the row reads failed.
Report(t) ==
  /\ At(t, "report")
  /\ IF queue[task[t].key].status # "failed"
       THEN UNCHANGED <<workflow_status, quota_status, reservation, item_status>>
       ELSE IF task[t].key.stage = "answer"
         THEN MarkAnswersFailed /\ UNCHANGED <<quota_status, reservation>>
         ELSE FailAndRefund("failed") /\ UNCHANGED item_status
  /\ task' = [task EXCEPT ![t] = Idle]
  /\ UNCHANGED <<intake, extraction_epoch, answer_epoch, answers, mcq_batches, queue, starting>>

Crash(t) ==
  /\ t \in MayCrash
  /\ task[t] # Idle /\ task[t].key.stage \in Faulty
  /\ task' = [task EXCEPT ![t] = Idle]
  /\ UNCHANGED <<intake, parent, items, queue, starting>>

-----------------------------------------------------------------------------
Handle(t) ==
  \/ CheckValidation(t) \/ Inspect(t) \/ Reject(t) \/ Charge(t) \/ ScheduleExtraction(t)
  \/ OpenExtraction(t) \/ ReadQuestions(t) \/ TooMany(t) \/ InsertItems(t) \/ HandOver(t)
  \/ BeginAnswering(t) \/ McqBatch(t) \/ SaveMcqBatch(t) \/ SelectBatch(t)
  \/ \E i \in Items : SaveAnswer(t, i) \/ CompleteItem(t, i) \/ FailItem(t, i)
  \/ LoopEnds(t) \/ Finish(t)

Work(t) ==
  \/ \E k \in Keys : Lease(t, k)
  \/ Handle(t) \/ Complete(t) \/ TaskRaises(t) \/ FailJob(t) \/ Report(t)

Api ==
  \/ CreateSession \/ ExpireSession \/ Submit \/ PurgeRawSource \/ StartAfterCorrection
  \/ \E i \in Items : ApplyCorrection(i)

Next ==
  \/ Api
  \/ \E t \in Tasks : Work(t) \/ Crash(t)
  \/ \E k \in Keys : LeaseLapses(k)

Spec == Init /\ [][Next]_vars

\* Workers keep polling and their handlers end; nobody has to submit a batch or
\* correct an item.
FairSpec ==
  /\ Spec
  /\ \A t \in Tasks : WF_vars(Work(t))
  /\ \A k \in Keys : WF_vars(LeaseLapses(k))
  /\ WF_vars(StartAfterCorrection)

-----------------------------------------------------------------------------
(* Properties *)

\* Every column and every local variable stays in its domain.
TypeOK ==
  /\ session \in {"none", "created", "finalized", "raw_source_purged"}
  /\ source \in {"good", "bad", "purged"}
  /\ workflow_status \in Workflows
  /\ quota_status \in {"not_reserved", "committed", "refunded"}
  /\ reservation \in {"none", "committed", "refunded"}
  /\ extraction_epoch \in Nat /\ answer_epoch \in Nat
  /\ item_status \in [Items -> ItemStatuses]
  /\ answers \subseteq Items
  /\ mcq_batches \subseteq Epochs
  /\ queue \in [Keys -> [status : {"absent", "waiting", "leased", "succeeded", "failed"},
                         attempts : 0..MaxAttempts, holder : Tasks \cup {None}]]
  /\ task \in [Tasks -> {Idle} \cup [pc : PCs, key : Keys, todo : SUBSET Items, rest : 0..NItems]]
  /\ starting \in BOOLEAN

\* No extraction or answer work without a charge: every state from validated on
\* has a reservation, whatever was delivered twice or rolled back.
ChargedBeforeWork ==
  workflow_status \in {"validated", "extracting", "needs_correction", "ready_to_answer",
                       "answering", "completed", "partially_completed", "too_many_questions"}
    => reservation # "none"

\* The parent's quota_status tells the truth about a refund, and a batch that
\* ended as too_many_questions has been given back.
RefundRecorded ==
  /\ quota_status = "refunded" => reservation = "refunded" /\ workflow_status \in Terminal
  /\ workflow_status = "too_many_questions" => reservation = "refunded"

\* Answering starts once, for one set of items, even when a validation that was
\* delivered again restarts the extraction.
AnswersStartOnce ==
  /\ answer_epoch <= 1
  /\ workflow_status = "answering" => \A i \in Items : item_status[i] \in {"pending", "answered", "failed"}

\* The final status agrees with the items: completed means every item has its
\* saved answer, partially_completed that some do and the others failed.
OutcomeMatchesItems ==
  /\ workflow_status = "completed" => \A i \in Items : item_status[i] = "answered"
  /\ workflow_status = "partially_completed" =>
       /\ \A i \in Items : item_status[i] \in {"answered", "failed"}
       /\ \E i \in Items : item_status[i] = "answered"
  /\ \A i \in Items : item_status[i] = "answered" => i \in answers

\* The chain of answer jobs is not broken: a batch in answering has a job that will
\* run or that has visibly failed.  The count of remaining items names each chained
\* job, and create_job ignores a name that exists, so the counts must keep falling
\* although executions overlap, raise and die between the items.
AnsweringHasJob ==
  workflow_status = "answering" =>
    \E n \in Items : queue[Answer(answer_epoch, n)].status \in {"waiting", "leased", "failed"}

\* The jobs that are enqueued otherwise than by _next_job.
Roots == {k \in Keys : k.stage = "answer" => k.rest = NItems}

\* _next_job names fewer remaining items than the job it follows.
Shorter == [k \in Keys |-> {n \in Keys : /\ k.stage = "answer" /\ n.stage = "answer"
                                          /\ n.epoch = k.epoch /\ n.rest < k.rest}]

Delivery == INSTANCE JobDelivery WITH
  Jobs <- Keys, NextJobs <- Shorter, Supported <- Keys,
  outcome <- [k \in Keys |-> IF queue[k].status \in {"waiting", "leased"} THEN "pending"
                                                                        ELSE queue[k].status],
  tries <- [k \in Keys |-> queue[k].attempts]

\* The jobs of a batch are delivered as JobQueue's clients may expect, also when
\* executions overlap: tried at most MaxAttempts times, settled once, and an answer job
\* followed only by jobs of smaller counts (the batch's rows of job_queue).
KeepsDelivery == Delivery!DeliverySpec

\* What the student has been shown of an item does not change: an answered or
\* failed item stays as it is.
ItemsAreFinal ==
  [][\A i \in Items : item_status[i] \in {"answered", "failed"} => item_status'[i] = item_status[i]]_vars

\* Every submitted batch ends, waits for the student, or is ready to answer.
BatchSettles ==
  workflow_status = "queued" ~> workflow_status \in Terminal \cup {"needs_correction", "ready_to_answer"}

\* A batch whose charge was refunded is over: it is not extracted or answered.
RefundedIsOver == reservation = "refunded" => workflow_status \in Terminal
=============================================================================
