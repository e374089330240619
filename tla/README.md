# A TLA+ model of taleem-ai-service

The service answers students' questions about their textbooks. It is a FastAPI
process and two kinds of worker processes around one PostgreSQL database, with
Redis as a fast counter and cache and a private object storage. This directory
models the parts of it in which order, failure and repetition matter, checks them
with TLC and proves the central facts with TLAPS.

## 1. Inventory

| Component | State it keeps | Operations | Talks to |
|---|---|---|---|
| Job queue (`repositories/job_repository.py`, `services/jobs/queue.py`) | `job_queue` rows: status, owner, attempts, heartbeat | enqueue, lease, heartbeat, progress, complete, complete and enqueue, fail, recover stale | every worker |
| Workers (`workers/main.py`, `core/worker_modes.py`) | running flag, active task, heartbeat task | poll, run a handler, report a failure, recover stale leases, retention pass, shut down | queue, handlers |
| Usage quota (`services/usage`) | Redis counter and request keys; `usage_reservations`, `daily_usage` | reserve, commit, refund, refund committed | Single Ask, Multiple Ask |
| Usage policies (`services/usage/limits.py`, `services/runtime_settings.py`) | policy row, generation, an entry per process | get, change | quota |
| Prompts (`services/prompts`, `repositories/prompt_*.py`) | prompt versions, generation, shared cache | draft, edit, activate, roll back, resolve | every generation |
| Multiple Ask (`services/multiple_ask*.py`) | upload session, parent job, items, MCQ batches, answers | create session, finalize, submit text, validate and charge, extract, correct, answer | queue, quota, storage, OCR, provider |
| Multiple Ask retention (`services/multiple_ask.py`) | cleanup claims | claim, delete storage, delete rows | storage |
| Single Ask (`services/answers/generate.py`) | `ai_requests`, `ai_answers` | ask with replay, bank match, retrieval, generation | quota, bank, retrieval |
| Corpus lifecycle (`repositories/rag_repository.py`, `services/local_admin.py`, `services/ingestion`) | corpus versions, chunks, questions, vectors, approvals | import, edit, approve, draft, activate, roll back, embed, confirm, promote | queue, retrieval |
| Retrieval (`services/retrieval`) | the cached active version | resolve, search, fuse, grade | corpus |
| Question bank (`repositories/question_bank_repository.py`, `api/v1/ask_admin.py`) | questions, revisions, variations, candidates, vectors | create, import, review, archive, vary, requeue, embed, clean up | queue, Single Ask |
| Internal tokens (`core/internal_auth.py`) | used token ids | verify and consume | Redis, PostgreSQL |
| Test papers (`migrations/0017`-`0018`, `supabase/functions`) | blueprints | select, generate | outside the service |
| Parsers and validators (`jsonl_chunks.py`, `multiple_ask_extraction.py`, `answers/validation.py`) | none | parse, check | ingestion, Multiple Ask |
| Dashboards, audit, events, pool, migrations, scripts | append-only records | record, list, start up | - |

How they interact: the API inserts a domain row and a queue row in one
transaction; a worker leases the queue row, runs the handler outside any
transaction of the queue, and completes or fails the row; the handler moves the
domain rows in transactions of its own. The queue therefore delivers at least
once, and each handler has to make repetition harmless by itself. The quota is
reserved inside the caller's transaction, but its Redis script takes effect at
once and survives a rollback. Caches are filled by readers and invalidated by
administrators' transactions, one after the other.

What is hard here:

* a lease that lapses while its holder is only slow, so that two executions of
  one job overlap (stalled event loop, pool of five connections, database errors);
* `fail_job`, a SELECT followed by an UPDATE in another statement;
* a process that dies between any two transactions of a handler, and replies lost
  after the commit;
* Redis and PostgreSQL counters that are updated one after the other;
* refunds, which must happen once, on the day that was charged, while other
  executions still move the batch;
* caches filled from a read that an activation has overtaken;
* administrators who edit, approve and activate what a worker is embedding, and
  transactions that take the same row locks in different orders;
* cleanup that works on copies of rows it claimed earlier, between a storage that
  fails and a database that moves on.

What makes each component correct: a job settles, is never run more often than
allowed and its success is final; a request is charged once and refunded at most
once, and the limit holds; a changed policy counts from the next request; a scope
has one active prompt and answers come from stored ones; a batch is charged
before any work, its answers start once and its final status agrees with its
items; an approval stands for what was approved and nothing incomplete is served;
evidence comes from a version served while the question was asked; each generated
question was approved once; locks never form a circle; and no source is forgotten
or deleted before its day.

## 2. Modules

| Module | What it is |
|---|---|
| `JobQueue`, `JobQueueProofs` | the queue and the worker processes |
| `JobDelivery`, `JobDeliveryProofs` | what the queue promises, and the proof that it keeps it |
| `UsageQuota`, `UsageQuotaProofs` | the quota of one student and one feature |
| `PolicyCache`, `PromptVersions`, `SettingsProofs` | a cached policy; the prompts of one family |
| `MCSettings` | instances of `UsageQuota`, `PolicyCache` and `PromptVersions` |
| `MultipleAsk`, `MCMultipleAsk`, `MultipleAskProofs` | one Multiple Ask batch with the queue as its handlers see it |
| `CorpusLifecycle`, `MCCorpus`, `CorpusProofs` | the textbook versions of one scope |
| `ServedTextbook` | what students see of a scope's versions; implemented by `CorpusLifecycle`, used by `Retrieval` |
| `SingleAsk` | one Single Ask request id, sent any number of times |
| `AskContract` | what the student and the ledger may rely on for that id; implemented by `SingleAsk` |
| `Retrieval` | one question against the active version |
| `SingleAskProofs` | theorems of `SingleAsk` and `Retrieval` |
| `QuestionBank` | the bank and its candidates in one chapter |
| `CorpusLocks` | the row locks of the transactions on one corpus |
| `SourceRetention` | uploads, objects and the cleanup pass |
| `MCWorkers` | instances of `JobQueue` and `SourceRetention`, what worker processes do |
| `MCServing` | instances of `SingleAsk`, `Retrieval`, `QuestionBank` and `CorpusLocks` |
| `ServingProofs` | theorems of `QuestionBank`, `CorpusLocks` and `SourceRetention` |

`MCWorkers`, `MCSettings` and `MCServing` put modules that share no variable side by side: a
behaviour picks one `part` and only that part takes steps, so a run explores the
sum of the parts and not their product. Where parts do share state they are one
module: `JobQueue` has queue and workers, `CorpusLifecycle` the administrator,
the import and the embedding workers, `MultipleAsk` the batch, its charge and the
queue rows that drive it.

### JobQueue and JobDelivery

A step is one autocommit statement, or one explicit transaction, with the Python
up to the next one. The rows are functions on `Jobs` (the idempotency keys);
`locked_by` and `attempt_count` are columns, and `elapsed` stands for the two
clock comparisons (`heartbeat_at` older than the threshold for a held row,
`next_retry_at` reached for a waiting one). `pc`, `cur`, `result`, `plan` and
`running` are the locals of `Worker.run` and `_process_job`; `plan` is the UPDATE
that `fail_job` chose from the row it read, kept until it is executed.

`LeaseJob`, `UpdateProgress`, `HandlerReturns`, `CompleteJob`, `FailJobRead`,
`FailJobWrite` and `ReportFailure` follow `_process_job` from top to bottom.
`TaskRaises` is its `except`. `Heartbeat`, `LeaseLapses`, `RetryFallsDue` and
`RecoverStaleJobs` are the time-driven part. A heartbeat is a step only when it
changes something, that is after `elapsed` became true. `LeaseLapses` needs a
reason: the holder is dead, it is draining (its heartbeat loop has ended), or
`HeartbeatLoss` allows a stall. `Crash` also covers an exception that escapes
`fail_job` and ends `run`.

`JobDelivery` has neither rows nor workers: a submitted job is tried at most
`MaxAttempts` times and ends once, a success submits at most one following stage
in the same step, and jobs may only be given up after their last try or when
nobody supports their type. `JobQueue!KeepsPromise` is that specification under
the mapping `outcome` = the status with everything unsettled read as `pending`
and `tries` = `attempt_count`.

### UsageQuota

`reserve()` is two steps of a call: the Lua script, then the SQL. The SQL is one
step because the reservation row and the counter row stay locked until the
caller's transaction ends. `RedisFails` takes the fallback whether or not the
script ran; `SqlFails` reaches the exception handler, which refunds Redis in
`Compensate`; `CallerRollsBack` is a rollback after `reserve()` returned, which
nothing compensates. The refunds are single steps with a best-effort Redis part,
and `RefundRollsBack` is one whose Redis part stands although its transaction
did not commit. `Midnight` and `RedisExpires` move time.

### PolicyCache and PromptVersions

`PolicyCache` is `UsagePolicyCache.get`: check the generation against the
process's entry, take the asyncio lock, read the row, store. `seen` is a history
of the limits stored since the call began. `PromptVersions` has administrators
who check a prompt, lock target and current row in turn, and commit
(`LockTarget`, `FindCurrent`, `LockCurrent`, `CommitActivation`), edits of drafts,
and requests that look up, find, read the generation again and store. A waiting
lock rereads its row, as PostgreSQL's READ COMMITTED does; the unique index on
active prompts is part of the commit.

### MultipleAsk

One batch. A step of a handler is one transaction; the provider and OCR calls
happen in between and appear as choices. `CheckValidation`, `Inspect`, `Reject`,
`Charge` and `ScheduleExtraction` are `handle_multiple_ask_validate`;
`OpenExtraction`, `ReadQuestions`, `TooMany`, `InsertItems` and `HandOver` are
`extract()`; `BeginAnswering`, `McqBatch`, `SaveMcqBatch`, `SelectBatch`,
`SaveAnswer`, `CompleteItem`, `FailItem`, `LoopEnds` and `Finish` are `answer()`.
The queue is reduced to what `JobQueue` shows of it: `Lease`, `LeaseLapses`,
`Complete`, `FailJob` (which also writes to a row without a holder), `Report`.
Items in `ready_to_answer` and `answering` are one status, `pending`, because
every guard of the code accepts the two alike. The idempotency keys are records
of stage, epoch and the count of remaining items that names a chained answer job:
`NextKey` is the key `_next_job` gives, and `Complete` enqueues it only where no row
has it, as `create_job` does.

`KeepsDelivery` is `JobDelivery` again, the promise `JobQueue` keeps under `CrashOnly`,
now for the rows of one batch whose executions may overlap as well: `Roots` are the
jobs that the API and the handlers enqueue themselves, and `Shorter` lets an answer job
be followed only by one of its epoch with a smaller count.

### SingleAsk

All calls of `ask()` for one request id of one student, with the three rows that
carry it. `FirstLook` is the read at the top, `ReservePending` the first
transaction, `Lookup` the second read of a call whose insert met a row, and
`Search`, `Generate`, `SaveAnswer` and `SaveNoAnswer` follow the owner.
`RaiseOwned` is any exception, cancellation included, of a call that has set
`ai_request`, and `Fail` the transaction of the handler. `started` is
`provider_started`. What is found and generated is a choice, and so is whether
the quota admits the request. After each commit the call may still raise, and a
call in `Interrupts` may be killed at any point.

`AskContract` has no calls: a request is opened with a unit, the provider is asked
once at most, and only while it is open, outcome and unit are settled in one step,
and a sending is told what the row says at that moment, or something about itself.
`SingleAsk!KeepsContract` is that specification with `told` mapped to the replies
given so far. `Hide` is the failure that overtakes a stored answer, which the code
allows and section 3 lists.

### CorpusLifecycle and CorpusLocks

The versions of one board, class and subject. A chapter of a version is one row
with a chunk, a question, a display policy and the texts its two vectors were
made from (`None` without a vector); `id` tells rows of different imports apart,
because embedding writes go by row id. `Ingest` is `jsonl_ingest` up to the first
job, `Edit`, `EditQuestion`, `EditVisual`, `Approve`, `CreateDraft`,
`DeleteChapter` and `Activate` (rollback too) are the administrator's transactions.
`Lease`, `Begin`, `EmbedWrite`, `EmbedFails`, `EmbedReturns`, `MarkReady`,
`FindActive`, `Promote` and `TaskFails` are the chained stages, with the comparison
of the job's fingerprint (`input`) at the places where the handlers make it. Jobs
are a set of records, so that an idempotency key exists at most once. Two workers
may run the same job, which is a lapsed lease as `JobQueue` allows it. `Promotable` is
the condition under which a version is taken for the temporary one of a chapter and
deleted after its promotion: there is an active version, and the other has no other
chapter.

`ServesTextbook` is `ServedTextbook` with `served` mapped to the only active version:
everything the administrator and the workers do is invisible to students except an
activation, which replaces the version in one step.

`CorpusLocks` keeps of the same transactions only the order in which they lock the
corpus row and version rows.

### Retrieval

`ActivateVersion` and `InvalidateVersion` are the two steps of an activation,
`ReadCachedVersion`, `ResolveVersion`, `CacheVersion` those of a request, and
`SearchChannel` the three searches, each a statement that joins the version's
status. `ActivateVersion` takes the step `ServedTextbook!Activate`, so that the two
modules agree on what an activation is to a reader. A ranking is any sequence of
distinct citations. `Share`, `Weight`, `FusedRanking` and `Strength` are `fusion.py` and
`evidence.py`; the weights are kept as exact fractions over the common denominator `Scale`,
where the code adds floats, and `FusedRanking` is the sequence of the found citations
that is sorted by weight and then by citation.

### QuestionBank

Revisions with their vectors, variations, candidates, import keys and embedding
jobs. A review is two steps (`Inspect`, then `Approve`, `Reject` or
`ReviewFails`), because the candidate is read without a lock. `RetentionCleanup`
and `CleanupChapter` delete in between; `LeaseEmbedding`, `ReadPending`,
`WriteVectors`, `EmbeddingFails` and `EmbeddingDone` are the embedding job.

### SourceRetention

`OpenSession`, `UploadObject`, `FinalizeSession`, `SaveMcqResult` and `FinishBatch`
are what happens to an upload; `DeadlinePasses` marks the deadlines of its row that
are over. A pass of a worker is `ClaimDue` (three stages: finished batches,
abandoned sessions, raw sources), then for each claimed row `DeleteObject`, whose
reply may be lost or an error, and `PurgeSource`, `DeleteRows` or `KeepRow`.
`PassStops` cuts it off anywhere and `ClaimExpires` gives its claims to others.
`late` are objects uploaded through a URL that outlived its session.

## 3. Runs

| Run | Shows |
|---|---|
| `WorkersCrash` | three workers that only die, on a two-stage chain and a job without a handler: `max_attempts` is exact, no dual execution, successor after success, final success, and the refinement of `JobDelivery`; two workers that clean up two uploads, with a failing storage and passes cut off: no forgotten and no prematurely deleted source |
| `WorkersLive` | fair workers of both modes that may stall, one of which may die or be shut down: no leaked lease, bounded leases; every job settles, and a Multiple Ask job exhausted on a live worker is reported |
| `Settings` | the quota balances, holds its limit and charges once; a policy read is fresh; one active prompt per scope, and every served text is stored |
| `MultipleAskIntake` | charge before work, truthful refunds, answers started once, with overlapping validation and extraction |
| `MultipleAskAnswers` | final status agrees with the items and outcomes are final, a batch in answering always has a job that goes on with it, and the batch's jobs are delivered as `JobDelivery` promises, with overlapping answer executions |
| `MultipleAskLive` | a submitted batch ends, waits for the student or is ready to answer |
| `Corpus` | approvals stand for the approved content, ready and active versions are complete when they become so, promotion keeps the served chapters, and from the first activation on one version is served (`ServedTextbook`) |
| `Serving` | the sendings of a request keep `AskContract`; one generation per request, agreement of request and charge, evidence that was served, fusion that respects its channels, one approval per generated question, an embedding job for each approved one, no lock cycle in the documented order |

Four runs exhibit behaviour that contradicts a document of the repository:

| Run | What the trace shows |
|---|---|
| `MultipleAskRefund` | a redelivered validation revives a refunded batch (`module5_run1_multiple_ask.md:17`) |
| `PromptCache` | a request stores a retired prompt under the generation of the activation that retired it, and later requests are answered with it (`architecture.md:39`, `prompt_cache.py:48`) |
| `CorpusLocks` | an edit or draft locks its version before the corpus and waits for an activation that has the corpus and waits for the version (`architecture.md:148`) |
| `Retention` | a batch with a stored MCQ result is never deleted: a foreign key forbids it, and the error ends each cleanup pass at that row (`module5_run1_multiple_ask.md:31`) |

More disagreements are visible in the models but have no run of their own:

* `fail_job` of a replaced worker ends the lease of its successor: the row was read
  while it had no owner, so the UPDATE carries no owner guard
  (`job_repository.py:198`-`215`; `decisions_changed.md:83` says otherwise).
* A worker draining its job after SIGTERM has stopped its heartbeats, because their
  loop also depends on `self.running`; another worker may run the same job
  (`workers/main.py:218`; `decisions_changed.md:85`).
* A job failed by stale recovery is never reported to the Multiple Ask rows
  (`job_repository.py:278`; `multiple_ask_extraction_service.py:616`). This is why
  `FailureReported` is checked where the job's only worker stays alive.
* A batch stays `ready_to_answer` when its extraction dies between
  `finish_extraction` and `start_for_job`: the redelivered job returns early and
  `resume_extraction` only reports the status. `MultipleAskLive` therefore counts
  `ready_to_answer` as settled.
* `AskRepository.fail` has no guard on the status: a call cancelled after its
  answer was committed marks the request failed. `QuotaAgrees` shows that the
  charge stays right, but retries get a 409.
* Prompt resolution tries the student's own scope and then the subject
  (`prompts/models.py:62`-`71`); `architecture.md:30` and `:39` describe a longer
  chain of board, class, subject and a global prompt.
* An object uploaded after its session was deleted has no row that knows it
  (`late` in `SourceRetention`; `module5_run1_multiple_ask.md:11`).
* `write_chunk_embedding` compares no fingerprint: a late execution may store the
  vector of an older text (`rag_repository.py:634`).
* A requeued bank embedding keeps its idempotency key and never runs again
  (`ask_admin.py:803`).
* A job that dies between `mark_qa_ready` and the promotion fails when it is
  delivered again, and the chapter waits for an administrator
  (`ingestion/completeness.py:24`).
* The usage retention deletes a request row after 90 days but not its reservation,
  so the same request id is generated again without a charge (`usage/service.py:223`).

### Bounds

* `JobQueue`: two workers are the least that can race for a lease, a third lets a
  lost lease be taken twice or a crash leave two survivors. Two jobs give two
  modes, three give a chain and an owned type without a handler.
  `MaxAttempts` = 2 reaches both branches of every comparison with it.
* `Settings`: three requests against a limit of one (one admitted, one denied, one
  retried), two racing calls and one midnight; two readers in one process and one
  in another, and `MaxPolicyGeneration` = 3 for two changes during one read; three
  prompts of one scope and one of the subject, two administrators and a
  student, with `MaxGeneration` = 3 for two activations.
* `MultipleAsk`: one item in intake, three in answers (one MCQ, two written in
  batches of one, so that a chained job is needed). Two tasks overlap. `Faulty`
  names the stages that may fail, `Overlap` whether a lease lapses under a running
  holder, `Outlives` whether the raw source may be purged while the batch is in
  work; they split the question over several runs and are constants of the
  specification, not changes to it.
* `Corpus`: two versions (`MaxVersions`) of two chapters and two texts, two imports
  (`MaxIngests`) and one edit (`MaxEdits`), which give an active version, a draft or
  temporary version, an edit under a running embedding and a promotion into a
  version that has moved on; two workers, so that one may hold a lapsed job.
* `Serving`: three calls of one request let a retry meet a row in each of its stages
  while a third comes later; three citations in two versions with two activations
  (`MaxActivations`); two revisions, a candidate, an import key, two reviewers and
  two changes of variations or requeues (`MaxRequeues`); three transactions on two
  versions.
* `SourceRetention`: two uploads and two workers, so that a pass holds one row while
  another one changes and two passes meet at one row.

### Fairness

A live worker polls, its handlers end (every provider call has a timeout) and its
recovery loop runs: weak fairness on leasing, on a task's steps together (it does
one thing at a time) and on recovery. Clocks advance: weak fairness on `LeaseLapses`
and `RetryFallsDue`. Heartbeats, shutdown and exit have none: nothing depends on
them happening. Nothing obliges the API to enqueue, a handler to succeed, a
process to die or a student to correct. `MultipleAsk` likewise has one weakly fair
action per task, plus lapses and the request that follows a correction.
`RetentionFairness` says that deadlines and claims run out and that each worker
starts a pass and carries it on, as its loop does every five minutes; uploads,
submissions and the end of a batch have no fairness.
Deadlock checking is off where the system may come to rest, which is everywhere:
all bounds run out and nobody has to ask.

## 4. Proofs

Only the constants' assumptions are used (`ConstantsAssumption`, `QuotaAssumption`,
`BatchAssumption` and so on), all evaluated by TLC in the runs, and the hypotheses
named below.

`JobQueueProofs`, for any jobs, workers, chain and `MaxAttempts`:

* `TypeCorrect`, `LeasesAreHeld`: inductive with the fact that a held row carries a
  worker and that worker's `cur` is the row unless it is down.
* `ExclusiveExecution`, `SuccessIsFinal`, under `CrashOnly` (workers may die but
  neither stall nor drain). The strengthening, `OwnershipHolds`, says that every
  worker past its lease owns the row it works on, or has completed it, and that
  its `plan` is a guarded one. Without `CrashOnly` an unowned execution may
  complete or fail a row it does not hold, as section 3 describes.
* `AttemptsAreBounded`, without any such assumption. A lease beyond `max_attempts`
  needs a *zombie*, a worker about to write a retry it decided when fewer attempts
  had been made. The invariant bounds the attempts of a job by `MaxAttempts` plus
  what its zombies may still add and have added; `ZombieCounts` has the
  cardinalities, `BoundsKept` and `CalmStep` the steps.

`JobDeliveryProofs`, under `CrashOnly`: `BudgetInv` adds to ownership that a row
which may still be leased has an attempt left, that a planned failure is due and
that a handler's result is a stage it may enqueue. From it follow
`AttemptsAreExact`, `StagesFollowSuccess` and `PromiseKept`, the refinement: each
step of the queue is a `Submit`, `Try`, `Succeed` or `GiveUp` or leaves `outcome`
and `tries` alone.

`UsageQuotaProofs` proves `TypeCorrect`, `LedgerCorrect`, `LimitHolds`,
`RedisCounterCorrect` and `RequestsChargedOnce`. The ledger is inductive on its own once
the counted sets are known to be finite; `ReserveKeepsLedger` and
`RefundKeepsLedger` have the two set-cardinality arguments. The limit follows from
the guarded upsert, independently of Redis.

`SettingsProofs` proves `LimitsAreFresh` from an invariant that ties the generation
a lookup carries to the values seen since it began (`Rightly`), and `ActiveIsUnique`
and `ServedTextsAreStored` together: every record in the cache or in a request is
one of an activated prompt, whose text no longer changes, because an edit locks the
draft and finds it still a draft.

`MultipleAskProofs` proves all safety properties of `MultipleAsk` and the refinement of
`JobDelivery`, with overlapping, failing and dying executions, for any paper and number
of workers.
`TypeInv` is `TypeOK` with one attempt left for every row that may be leased and an
epoch for every answer execution. `QuietBefore` says that nothing is queued,
running or charged before the submission, so that a submission cannot meet work of
its own batch. `ChargeInv` adds that an execution that has read its questions, even
one whose lease has passed to another, has been paid for: it may still end the
batch, and nothing takes the reservation row away. `ItemsInv` ties items to status:
all are absent until one insert makes them together, and only afterwards may the
batch be ready, answering or done.

`ChainUnbroken` (`AnsweringHasJob`) is about the count in the key of a chained answer job. If a
count came twice, `create_job` would take the next job for one that has run, and the
batch would answer for ever without a job. `ChainInv` shows that it cannot: an item that is
no longer pending stays so, hence the count in the key of a queued job bounds the
written items still pending; each execution, also one that has been overtaken, knows
of the items it passed that they are not pending, so that its own count is a bound too
and smaller than that of its key (`ChainTask`); and nothing has been chained yet to an unfinished job (`ChainRows`), so that the
key its completion asks for is new. `CalmOf...` are the steps that leave the chain alone,
`BeginStartsChain` and `CompleteKeepsChain` the two that move it. `DeliveryKept` adds that the
attempts are counted (`AttemptsMade`) and shows for each step which step of `JobDelivery`
it is, or that it is none.

`RefundIsFinal` complements the run `MultipleAskRefund`. Its hypothesis, `"validate" \notin
Faulty`, says that executions of the validation neither fail, die nor lose their lease; those
of the other stages may do all of that. Then a refunded batch stays finished: once the
batch is charged no validation begins, and the one that charged it is past the
statements that reset the parent (`OnceInv`). So the second execution of the validation
is what it takes, and no late extraction, answer or failure report does the same.

`SingleAskProofs`, for any number of calls: `TypeCorrect`, `OneGeneration`,
`QuotaFollowsRequest`, `ChargesAreEarned` and `PendingHasOwner` are about rows, but
hold because of what the owning call knows: `WorkInv` says that the row is pending
until the owner's own transaction commits and that only the owner has asked the
provider. `ContractKept` is the refinement of `AskContract`; beyond that invariant it needs that a
call which has not returned has told nothing (`ReplyInv`), so that a return adds one
reply. `VerdictsAgree` is `AskContract!NeverContradicted` of the sendings: whatever retries
are told, never an answer to one and "no answer" to another, and never either
without a charge. It is inductive with the fact that a request which has told a
verdict never gets the other one (`VerdictInv`).

The same module proves about `Retrieval`, for any number of versions, activations and
citations: `EvidenceServed`, from the versions seen since the question began;
`FusionIsMonotone`, that a citation no channel ranks below another and one ranks above it
comes first; and `EvidenceIsComplete`, that the fused ranking has each found citation once and
no other. The last two need that `FusedRanking` exists, hence that a finite set under a
linear order can be sorted, and that `Scale`, a product over all ranks, is
divisible by each denominator. Both are statements about every number of
citations; they are proved by the least number for which they would
fail (`LeastNumber`), since induction is out of the prover's reach.

`CorpusProofs` proves `ApprovalsStand`, inductive once `Shape` gives the tables
their shape, and the two action properties `TransitionsAreComplete` and
`ServedChaptersAreKept`, which need in addition that jobs and the workers' copies
of them name versions that exist (`JobsInv`). `TextbookIsServed` is the refinement of
`ServedTextbook`. Its invariant, `ServeInv`, says that at most one version is active
and that a worker about to promote moves a chapter between two different versions;
`Promotable` then finds the target active, so that the version deleted afterwards is
not the one being served, even if it was activated after the worker had chosen it.

`ServingProofs`: `OrderPreventsDeadlock` holds for any number of transactions and
versions under `Ordered`, that only operations run which lock the corpus first or
one version alone; edits, drafts and promotions do not, and the run `CorpusLocks`
shows what follows. `SourcesAreKnown` and `SourcesAreKept` follow from
`RetentionInv`: a row that may be claimed stays one that may go, and an object that
is gone stays gone or comes back late. `ApprovalsAreUnique` and `PendingHasJob` are
about the bank: a generated revision and its candidate's decision are one transaction,
which is undone unless the candidate was still pending (`ApprovalInv`); and once a
revision's own job has read its rows, a revision still pending is among them
(`EmbeddingInv`), so that a first vector is missing only while that job is open or has
failed for good.

Only model-checked: the liveness properties (`JobsSettle`, `FailureReported` and
`BatchSettles`), which are beyond the prover. Every invariant and action property of
the passing runs, and every refinement, is proved, under the hypotheses named above.

## 5. Not modelled

* Parsers and validators (`jsonl_chunks.py`, `multiple_ask_extraction.py`,
  `answers/validation.py`, normalization and context): sequential rules on strings;
  only their outcome matters to the rest, where it is a choice.
* Matching of approved questions: reads only; its outcome is a choice.
* Providers, OCR and storage: input and output; their answers and errors are
  choices of the handlers' actions.
* Internal tokens: authentication of the calling service.
* Test papers: one SQL selection and a function outside the service.
* API routing, dashboards, audit records, operational events, pool, migrations and
  scripts: no state another component depends on.
* `ai_request_repository.py`: replaced by `ask_repository.py`; only tests call it.

Left out of the modelled parts: `JobQueue` has no status `cancelled` (no writer) and
no owner-less `update_progress` and `complete_job` (no caller). `MultipleAsk` has no
`_extract_corrections` and `resume_extraction` (jobs with `resume` are never enqueued, and
the endpoint only reports), takes the normalized source as part of reading the
questions, and has the retention pass as two actions. `SingleAsk` has no deletion of old
requests, after which the same id could be sent again. `CorpusLifecycle` has one
embedding configuration and no stored counters. `QuestionBank` has no visual links,
citations and listings.

## 6. What could come next

A composition of `CorpusLifecycle` with `JobQueue` (today it allows what the queue
allows: two holders, and failed jobs that keep their keys), the change of the
embedding configuration, progress of the corpus under fairness, and the JSONL
parser's page and chunk arithmetic as operators against a reference definition.
