------------------------------ MODULE JobQueue ------------------------------
(***************************************************************************)
(* The durable job queue of app/repositories/job_repository.py and the     *)
(* worker processes of app/workers/main.py that lease from it.             *)
(*                                                                         *)
(* One step is one autocommit SQL statement (or one explicit transaction)  *)
(* together with the Python between it and the next one.  In particular    *)
(* fail_job is two steps, the SELECT of get_job and the UPDATE chosen from *)
(* what it returned.  A worker may die between any two steps, its          *)
(* heartbeats may be late, the reply to a committed statement may be lost, *)
(* and a worker told to shut down drains its current job.                  *)
(***************************************************************************)
EXTENDS Naturals, Sequences, FiniteSets

CONSTANTS
  Jobs,           \* idempotency keys, one per row of job_queue
  Workers,        \* worker process ids, never reused (uuid4 in Worker.__init__)
  None,           \* SQL NULL and Python None
  JobType,        \* JobType[j]: the job_type column
  Mode,           \* Mode[w]: WORKER_MODE of the process
  NextJobs,       \* NextJobs[j]: the "_next_job" keys the handler of j may return
  MaxAttempts,    \* max_attempts
  HeartbeatLoss,  \* whether a running worker may go 60 seconds without refreshing
                  \* its lease (stalled event loop, exhausted pool, database errors)
  MayCrash,       \* workers whose process may be killed
  MayShutDown     \* workers that may receive SIGTERM or SIGINT

-----------------------------------------------------------------------------
(* app/core/worker_modes.py and the handler registry of app/workers/main.py *)

LOCAL_ADMIN_JOB_TYPES ==
  {"test_job", "ingestion_job", "jsonl_ingest", "embed_chunks", "embed_questions",
   "corpus_completeness", "question_bank_embeddings"}

RAILWAY_PUBLIC_JOB_TYPES ==
  {"multiple_ask_validate", "multiple_ask_extract", "multiple_ask_answer"}

WorkerModes == {"local_admin", "railway_public"}

owned_job_types(mode) ==
  IF mode = "local_admin" THEN LOCAL_ADMIN_JOB_TYPES ELSE RAILWAY_PUBLIC_JOB_TYPES

\* Job types with a registered handler: every owned type but ingestion_job.
HANDLERS == (LOCAL_ADMIN_JOB_TYPES \ {"ingestion_job"}) \cup RAILWAY_PUBLIC_JOB_TYPES

\* Job types whose exhaustion the worker reports to the Multiple Ask domain rows.
ReportedTypes == RAILWAY_PUBLIC_JOB_TYPES

ASSUME ConstantsAssumption ==
  /\ IsFiniteSet(Workers) /\ Workers # {}
  /\ None \notin Jobs \cup Workers
  /\ JobType \in [Jobs -> LOCAL_ADMIN_JOB_TYPES \cup RAILWAY_PUBLIC_JOB_TYPES]
  /\ Mode \in [Workers -> WorkerModes]
  /\ NextJobs \in [Jobs -> SUBSET Jobs]
  /\ \A j \in Jobs : j \notin NextJobs[j]
  /\ MaxAttempts \in Nat \ {0}
  /\ HeartbeatLoss \in BOOLEAN
  /\ MayCrash \subseteq Workers
  /\ MayShutDown \subseteq Workers

\* Keys that the API enqueues itself; the others are minted only by a handler.
Roots == Jobs \ UNION {NextJobs[j] : j \in Jobs}

-----------------------------------------------------------------------------
VARIABLES
  \* the job_queue table
  status,         \* status[j], "absent" before the INSERT
  locked_by,      \* locked_by[j]
  attempt_count,  \* attempt_count[j]
  elapsed,        \* the row's clock has run out: heartbeat_at is older than the
                  \* stale threshold (leased, running), next_retry_at has
                  \* passed (retry_wait)
  created,        \* the rows in created_at order
  \* each worker process
  pc,             \* where the process is in run() and _process_job()
  cur,            \* the job of its active task
  result,         \* "_next_job" of the handler's result
  plan,           \* the UPDATE fail_job chose from the row it read
  running,        \* Worker.running, cleared by shutdown()
  \* the Multiple Ask domain
  reported        \* jobs whose failure mark_queue_failure has recorded

rows == <<status, locked_by, attempt_count, elapsed, created>>
procs == <<pc, cur, result, plan, running>>
vars == <<rows, procs, reported>>

Statuses == {"absent", "queued", "leased", "running", "retry_wait", "succeeded", "failed"}
Held == {"leased", "running"}
Settled == {"absent", "succeeded", "failed"}

Plans == {"none", "guarded_retry", "guarded_fail", "bare_retry", "bare_fail"}
PCs == {"idle", "leased", "handling", "returned", "raised", "failing", "reporting", "down"}

\* Mutant: the guard forgets status 'running'.
OwnsMutant(w, j) == locked_by[j] = w /\ status[j] = "leased"

\* The WHERE clause every owner-guarded UPDATE carries.
Owns(w, j) == locked_by[j] = w /\ status[j] \in Held

Alive(w) == pc[w] # "down"

\* The heartbeat task of _process_job exists from the handler lookup to the
\* finally block, but its loop also stops as soon as running is cleared.
Heartbeating(w) ==
  /\ running[w]
  /\ \/ pc[w] \in {"handling", "returned", "raised", "reporting"}
     \/ pc[w] \in {"leased", "failing"} /\ JobType[cur[w]] \in HANDLERS

Init ==
  /\ status = [j \in Jobs |-> "absent"]
  /\ locked_by = [j \in Jobs |-> None]
  /\ attempt_count = [j \in Jobs |-> 0]
  /\ elapsed = [j \in Jobs |-> FALSE]
  /\ created = <<>>
  /\ pc = [w \in Workers |-> "idle"]
  /\ cur = [w \in Workers |-> None]
  /\ result = [w \in Workers |-> None]
  /\ plan = [w \in Workers |-> "none"]
  /\ running = [w \in Workers |-> TRUE]
  /\ reported = {}

-----------------------------------------------------------------------------
(* Enqueueing and leasing *)

\* create_job from the API.  An existing key only has updated_at touched.
EnqueueJob(j) ==
  /\ j \in Roots
  /\ status[j] = "absent"
  /\ status' = [status EXCEPT ![j] = "queued"]
  /\ created' = Append(created, j)
  /\ UNCHANGED <<locked_by, attempt_count, elapsed, procs, reported>>

Leaseable(j) == status[j] = "queued" \/ (status[j] = "retry_wait" /\ elapsed[j])

Position(j) == CHOOSE i \in DOMAIN created : created[i] = j

\* The oldest leaseable row of a type the worker owns.
Candidate(w, j) ==
  LET Eligible(k) == Leaseable(k) /\ JobType[k] \in owned_job_types(Mode[w])
  IN  /\ Eligible(j)
      /\ \A k \in Jobs : Eligible(k) => Position(j) <= Position(k)

LeaseJob(w, j) ==
  /\ pc[w] = "idle" /\ running[w]
  /\ Candidate(w, j)
  /\ status' = [status EXCEPT ![j] = "leased"]
  /\ locked_by' = [locked_by EXCEPT ![j] = w]
  /\ attempt_count' = [attempt_count EXCEPT ![j] = @ + 1]
  /\ elapsed' = [elapsed EXCEPT ![j] = FALSE]
  /\ pc' = [pc EXCEPT ![w] = "leased"]
  /\ cur' = [cur EXCEPT ![w] = j]
  /\ UNCHANGED <<created, result, plan, running, reported>>

-----------------------------------------------------------------------------
(* _process_job: progress, handler, completion *)

\* update_progress(..., "processing", 10.0), whose result is ignored.
UpdateProgress(w) ==
  /\ pc[w] = "leased"
  /\ JobType[cur[w]] \in HANDLERS
  /\ IF Owns(w, cur[w])
       THEN /\ status' = [status EXCEPT ![cur[w]] = "running"]
            /\ elapsed' = [elapsed EXCEPT ![cur[w]] = FALSE]
       ELSE UNCHANGED <<status, elapsed>>
  /\ pc' = [pc EXCEPT ![w] = "handling"]
  /\ UNCHANGED <<locked_by, attempt_count, created, cur, result, plan, running, reported>>

HandlerReturns(w) ==
  /\ pc[w] = "handling"
  /\ \E n \in NextJobs[cur[w]] \cup {None} : result' = [result EXCEPT ![w] = n]
  /\ pc' = [pc EXCEPT ![w] = "returned"]
  /\ UNCHANGED <<rows, cur, plan, running, reported>>

\* The handler, or any database call of the try block, raises before it has
\* had an effect.
TaskRaises(w) ==
  /\ \/ pc[w] = "leased" /\ JobType[cur[w]] \in HANDLERS
     \/ pc[w] \in {"handling", "returned"}
  /\ pc' = [pc EXCEPT ![w] = "raised"]
  /\ result' = [result EXCEPT ![w] = None]
  /\ UNCHANGED <<rows, cur, plan, running, reported>>

\* Mutant: the successor is enqueued in a transaction of its own, first.
CompletionEnqueuesFirst(w) ==
  LET n == result[w]
      fresh == n # None /\ status[n] = "absent"
  IN  /\ status' = IF fresh THEN [status EXCEPT ![n] = "queued"] ELSE status
      /\ created' = IF fresh THEN Append(created, n) ELSE created

\* The transaction of complete_job and complete_job_and_enqueue when the
\* guarded UPDATE matches: the row succeeds (locked_by is kept) and the
\* successor's row is inserted unless its key exists.
Completion(w) ==
  LET j == cur[w]
      n == result[w]
      fresh == n # None /\ status[n] = "absent"
  IN  /\ status' = [k \in Jobs |-> IF k = j THEN "succeeded"
                                   ELSE IF fresh /\ k = n THEN "queued" ELSE status[k]]
      /\ created' = IF fresh THEN Append(created, n) ELSE created

\* complete_job / complete_job_and_enqueue.  The reply may be lost after the
\* commit, which the worker sees as an exception; no row matched is
\* JOB_LEASE_OWNERSHIP_LOST.
CompleteJob(w) ==
  /\ pc[w] = "returned"
  /\ \/ /\ Owns(w, cur[w])
        /\ Completion(w)
        /\ \/ /\ pc' = [pc EXCEPT ![w] = "idle"]
              /\ cur' = [cur EXCEPT ![w] = None]
           \/ /\ pc' = [pc EXCEPT ![w] = "raised"]
              /\ UNCHANGED cur
     \/ /\ ~Owns(w, cur[w])
        /\ pc' = [pc EXCEPT ![w] = "raised"]
        /\ UNCHANGED <<status, created, cur>>
  /\ result' = [result EXCEPT ![w] = None]
  /\ UNCHANGED <<locked_by, attempt_count, elapsed, plan, running, reported>>

-----------------------------------------------------------------------------
(* _process_job: failure *)

\* Mutant: the comparison with max_attempts is off by one.
ChosenPlanOffByOne(w) ==
  LET retry == pc[w] = "raised" /\ attempt_count[cur[w]] <= MaxAttempts
  IN  IF locked_by[cur[w]] = None
        THEN IF retry THEN "bare_retry" ELSE "bare_fail"
        ELSE IF retry THEN "guarded_retry" ELSE "guarded_fail"

\* Mutant: exceptions are retried whatever the attempt count.
ChosenPlanUncounted(w) ==
  IF locked_by[cur[w]] = None
    THEN IF pc[w] = "raised" THEN "bare_retry" ELSE "bare_fail"
    ELSE IF pc[w] = "raised" THEN "guarded_retry" ELSE "guarded_fail"

\* Mutant: the UPDATE never carries the owner guard.
ChosenPlanUnguarded(w) ==
  IF pc[w] = "raised" /\ attempt_count[cur[w]] < MaxAttempts THEN "bare_retry" ELSE "bare_fail"

\* What fail_job decides from the row get_job returned.  It is called with the
\* worker id in position two: that argument is the owner to check only when
\* the row has an owner; without one the UPDATE carries no owner guard.
ChosenPlan(w) ==
  LET j == cur[w]
      retry == pc[w] = "raised" /\ attempt_count[j] < MaxAttempts
  IN  IF locked_by[j] = None
        THEN IF retry THEN "bare_retry" ELSE "bare_fail"
        ELSE IF retry THEN "guarded_retry" ELSE "guarded_fail"

\* fail_job up to its SELECT.  The unsupported-type branch passes no retry
\* delay and returns after fail_job.
FailJobRead(w) ==
  /\ \/ pc[w] = "raised"
     \/ pc[w] = "leased" /\ JobType[cur[w]] \notin HANDLERS
  /\ IF locked_by[cur[w]] \in {None, w}
       THEN /\ plan' = [plan EXCEPT ![w] = ChosenPlan(w)]
            /\ pc' = [pc EXCEPT ![w] = "failing"]
            /\ UNCHANGED cur
       ELSE /\ IF pc[w] = "raised"
                 THEN /\ pc' = [pc EXCEPT ![w] = "reporting"]
                      /\ UNCHANGED cur
                 ELSE /\ pc' = [pc EXCEPT ![w] = "idle"]
                      /\ cur' = [cur EXCEPT ![w] = None]
            /\ UNCHANGED plan
  /\ UNCHANGED <<rows, result, running, reported>>

\* The UPDATE of fail_job.  A terminal failure keeps locked_by.
FailJobWrite(w) ==
  LET j == cur[w]
      hit == plan[w] \in {"bare_retry", "bare_fail"} \/ Owns(w, j)
      retry == plan[w] \in {"bare_retry", "guarded_retry"}
  IN  /\ pc[w] = "failing"
      /\ status' = IF hit THEN [status EXCEPT ![j] = IF retry THEN "retry_wait" ELSE "failed"]
                          ELSE status
      /\ locked_by' = IF hit /\ retry THEN [locked_by EXCEPT ![j] = None] ELSE locked_by
      /\ elapsed' = IF hit THEN [elapsed EXCEPT ![j] = FALSE] ELSE elapsed
      /\ plan' = [plan EXCEPT ![w] = "none"]
      /\ IF JobType[j] \in HANDLERS
           THEN /\ pc' = [pc EXCEPT ![w] = "reporting"]
                /\ UNCHANGED cur
           ELSE /\ pc' = [pc EXCEPT ![w] = "idle"]
                /\ cur' = [cur EXCEPT ![w] = None]
      /\ UNCHANGED <<attempt_count, created, result, running, reported>>

\* Mutant: the failure branch of the worker forgets the extraction type.
ReportFailureMutant(w) ==
  /\ pc[w] = "reporting"
  /\ reported' = IF status[cur[w]] = "failed" /\ JobType[cur[w]] = "multiple_ask_answer"
                   THEN reported \cup {cur[w]} ELSE reported
  /\ pc' = [pc EXCEPT ![w] = "idle"]
  /\ cur' = [cur EXCEPT ![w] = None]
  /\ UNCHANGED <<rows, result, plan, running>>

\* get_job after fail_job, and mark_queue_failure if the row reads failed.
ReportFailure(w) ==
  /\ pc[w] = "reporting"
  /\ reported' = IF status[cur[w]] = "failed" /\ JobType[cur[w]] \in ReportedTypes
                   THEN reported \cup {cur[w]} ELSE reported
  /\ pc' = [pc EXCEPT ![w] = "idle"]
  /\ cur' = [cur EXCEPT ![w] = None]
  /\ UNCHANGED <<rows, result, plan, running>>

-----------------------------------------------------------------------------
(* Heartbeats, clocks, stale recovery *)

Heartbeat(w) ==
  /\ Heartbeating(w)
  /\ Owns(w, cur[w])
  /\ elapsed[cur[w]]
  /\ elapsed' = [elapsed EXCEPT ![cur[w]] = FALSE]
  /\ UNCHANGED <<status, locked_by, attempt_count, created, procs, reported>>

\* Sixty seconds without a heartbeat of the owner: the process is gone, it was
\* told to shut down (its heartbeat loop has ended), or its heartbeats are lost.
LeaseLapses(j) ==
  /\ status[j] \in Held
  /\ ~elapsed[j]
  /\ LET w == locked_by[j] IN HeartbeatLoss \/ ~(Alive(w) /\ running[w])
  /\ elapsed' = [elapsed EXCEPT ![j] = TRUE]
  /\ UNCHANGED <<status, locked_by, attempt_count, created, procs, reported>>

\* next_retry_at is reached.
RetryFallsDue(j) ==
  /\ status[j] = "retry_wait"
  /\ ~elapsed[j]
  /\ elapsed' = [elapsed EXCEPT ![j] = TRUE]
  /\ UNCHANGED <<status, locked_by, attempt_count, created, procs, reported>>

\* Mutant: recovery does not compare heartbeat_at with the threshold.
StaleAtOnce(j) == status[j] \in Held

\* Mutant: recovery selects running rows only.
StaleRunningOnly(j) == status[j] = "running" /\ elapsed[j]

Stale(j) == status[j] \in Held /\ elapsed[j]

\* One pass of a worker's stale recovery loop.  The two UPDATEs select
\* disjoint rows, and neither reads what the other writes.
RecoverStaleJobs(w) ==
  /\ Alive(w) /\ running[w]
  /\ \E j \in Jobs : Stale(j)
  /\ status' = [j \in Jobs |->
                  IF ~Stale(j) THEN status[j]
                  ELSE IF attempt_count[j] < MaxAttempts THEN "retry_wait" ELSE "failed"]
  /\ locked_by' = [j \in Jobs |-> IF Stale(j) THEN None ELSE locked_by[j]]
  /\ elapsed' = [j \in Jobs |-> IF Stale(j) THEN FALSE ELSE elapsed[j]]
  /\ UNCHANGED <<attempt_count, created, procs, reported>>

-----------------------------------------------------------------------------
(* The end of a worker process *)

ShutDown(w) ==
  /\ w \in MayShutDown
  /\ Alive(w) /\ running[w]
  /\ running' = [running EXCEPT ![w] = FALSE]
  /\ UNCHANGED <<rows, pc, cur, result, plan, reported>>

Stop(w) ==
  /\ pc' = [pc EXCEPT ![w] = "down"]
  /\ cur' = [cur EXCEPT ![w] = None]
  /\ result' = [result EXCEPT ![w] = None]
  /\ plan' = [plan EXCEPT ![w] = "none"]
  /\ UNCHANGED <<rows, running, reported>>

\* The polling loop ends once running is cleared and no task is active.
Exit(w) == pc[w] = "idle" /\ ~running[w] /\ Stop(w)

\* Killed, or an exception escaped fail_job and ended run().
Crash(w) == w \in MayCrash /\ Alive(w) /\ Stop(w)

-----------------------------------------------------------------------------
WorkerStep(w) ==
  \/ \E j \in Jobs : LeaseJob(w, j)
  \/ UpdateProgress(w)
  \/ HandlerReturns(w)
  \/ TaskRaises(w)
  \/ CompleteJob(w)
  \/ FailJobRead(w)
  \/ FailJobWrite(w)
  \/ ReportFailure(w)
  \/ Heartbeat(w)
  \/ RecoverStaleJobs(w)
  \/ ShutDown(w)
  \/ Exit(w)
  \/ Crash(w)

JobStep(j) == EnqueueJob(j) \/ LeaseLapses(j) \/ RetryFallsDue(j)

Next == (\E w \in Workers : WorkerStep(w)) \/ (\E j \in Jobs : JobStep(j))

Spec == Init /\ [][Next]_vars

\* Every loop of a live process keeps running and handlers end (their provider
\* calls carry timeouts); clocks advance.  Nothing obliges the API to enqueue,
\* a handler to succeed, or a process to die.
Fairness ==
  /\ \A w \in Workers :
       /\ WF_vars(\E j \in Jobs : LeaseJob(w, j))
       /\ WF_vars(\/ UpdateProgress(w) \/ HandlerReturns(w) \/ TaskRaises(w) \/ CompleteJob(w)
                  \/ FailJobRead(w) \/ FailJobWrite(w) \/ ReportFailure(w))
       /\ WF_vars(RecoverStaleJobs(w))
  /\ \A j \in Jobs : WF_vars(LeaseLapses(j)) /\ WF_vars(RetryFallsDue(j))

FairSpec == Spec /\ Fairness

-----------------------------------------------------------------------------
(* Properties *)

\* Every column and every process variable stays in its domain.
TypeOK ==
  /\ status \in [Jobs -> Statuses]
  /\ locked_by \in [Jobs -> Workers \cup {None}]
  /\ attempt_count \in [Jobs -> Nat]
  /\ elapsed \in [Jobs -> BOOLEAN]
  /\ created \in Seq(Jobs)
  /\ pc \in [Workers -> PCs]
  /\ cur \in [Workers -> Jobs \cup {None}]
  /\ \A w \in Workers : cur[w] = None <=> pc[w] \in {"idle", "down"}
  /\ result \in [Workers -> Jobs \cup {None}]
  /\ plan \in [Workers -> Plans]
  /\ running \in [Workers -> BOOLEAN]
  /\ reported \subseteq Jobs

\* No lease leaks: a leased or running row belongs to a process that is dead or
\* whose active task is that very job.  Otherwise a live, idle worker would
\* hold a row nobody works on (the guards of complete_job and fail_job, and
\* the paths of _process_job that give up silently, together guarantee it).
LeaseHasHolder ==
  \A j \in Jobs : status[j] \in Held =>
    /\ locked_by[j] \in Workers
    /\ pc[locked_by[j]] = "down" \/ cur[locked_by[j]] = j

\* max_attempts bounds the leases of a job even when workers lose their leases
\* while they run: the stale attempt count that fail_job decides from lets
\* every other worker add at most one lease.
AttemptsBounded ==
  \A j \in Jobs : attempt_count[j] <= MaxAttempts + Cardinality(Workers) - 1

\* As long as no live worker loses its lease, a job is leased at most
\* max_attempts times: fail_job, stale recovery and crashes never let an
\* exhausted job run again.
AttemptsWithinMax == \A j \in Jobs : attempt_count[j] <= MaxAttempts

\* Two processes never run the handler of one job at the same time.
NoDualExecution ==
  \A v, w \in Workers :
    v # w /\ pc[v] \in {"handling", "returned"} /\ pc[w] \in {"handling", "returned"}
      => cur[v] # cur[w]

\* A downstream stage exists only after a stage that leads to it has succeeded
\* (complete_job_and_enqueue leaves no window in between).
SuccessorAfterSuccess ==
  \A n \in Jobs \ Roots : status[n] # "absent" =>
    \E k \in Jobs : n \in NextJobs[k] /\ status[k] = "succeeded"

\* A succeeded job is never run again, whatever the worker that completed it
\* was told: fail_job after a lost reply does not undo the completion.
SucceededIsFinal ==
  [][\A j \in Jobs : status[j] = "succeeded" => status'[j] = "succeeded"]_vars

\* The queue keeps its promise to clients and handlers: rows, leases, recovery and
\* lost replies together are a bounded number of tries that end once, each success
\* submitting its following stage in the same step.
Outcome(st) ==
  IF st \in {"absent", "succeeded", "failed"} THEN st ELSE "pending"

Delivery == INSTANCE JobDelivery WITH
  outcome <- [j \in Jobs |-> Outcome(status[j])],
  tries <- attempt_count,
  Supported <- {j \in Jobs : JobType[j] \in HANDLERS}

KeepsPromise == Delivery!DeliverySpec

\* Every enqueued job ends and stays ended: whatever crashes, lapses and
\* failures happen, nothing is retried forever and no row is stuck.
JobsSettle == <>[](\A j \in Jobs : status[j] \in Settled)

\* Exhausted retries of a Multiple Ask job are reflected in its business state.
FailureReported ==
  \A j \in {k \in Jobs : JobType[k] \in ReportedTypes} : status[j] = "failed" ~> j \in reported
=============================================================================
