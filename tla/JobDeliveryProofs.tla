-------------------------- MODULE JobDeliveryProofs --------------------------
(***************************************************************************)
(* The job queue implements JobDelivery as long as its workers may die but *)
(* do not lose their leases while they live, for every set of jobs and     *)
(* workers, every stage graph and every max_attempts.                      *)
(***************************************************************************)
EXTENDS JobQueueProofs

\* max_attempts as every path keeps it: a row that waits has an attempt left,
\* and a held row has used one.
BudgetKept ==
  \A j \in Jobs : /\ attempt_count[j] <= MaxAttempts
                  /\ Waiting(j) => attempt_count[j] < MaxAttempts
                  /\ status[j] \in Held => attempt_count[j] > 0

\* fail_job gives a row up only after its last attempt or without a handler.
FailSound ==
  \A w \in Workers :
    pc[w] = "failing" /\ plan[w] = "guarded_fail" =>
      attempt_count[cur[w]] >= MaxAttempts \/ JobType[cur[w]] \notin HANDLERS

\* A worker completes with a stage that follows its job, or with none.
ResultSound ==
  \A w \in Workers : pc[w] = "returned" => result[w] \in NextJobs[cur[w]] \cup {None}

BudgetInv == RetrySound /\ BudgetKept /\ FailSound /\ ResultSound

-----------------------------------------------------------------------------
\* The attempt budget survives every step of a worker that keeps its lease.
LEMMA BudgetStep ==
  ASSUME CrashOnly, TypeOK, OwnershipInv, BudgetInv, [Next]_vars
  PROVE  BudgetKept'
<1>0. /\ None \notin Jobs /\ None \notin Workers /\ MaxAttempts \in Nat \ {0}
      /\ RetrySound /\ BudgetKept
  BY ConstantsAssumption DEF BudgetInv
<1>a. \A w \in Workers : pc[w] \notin {"idle", "down"} => cur[w] \in Jobs
  BY DEF TypeOK
\* A step that leases nothing and lets no exhausted row wait.
<1>k. ASSUME UNCHANGED attempt_count,
             \A j \in Jobs :
               /\ status'[j] \in Held => status[j] \in Held
               /\ Waiting(j)' => Waiting(j) \/ attempt_count[j] < MaxAttempts
      PROVE  BudgetKept'
  BY <1>0, <1>k DEF BudgetKept
<1> USE <1>0 DEF TypeOK, rows, procs
<1>1. ASSUME NEW j \in Jobs, JobStep(j) PROVE BudgetKept'
  <2>1. /\ UNCHANGED attempt_count
        /\ \A k \in Jobs : status'[k] = status[k] \/ (status[k] = "absent" /\ status'[k] = "queued")
    BY <1>1 DEF JobStep, EnqueueJob, LeaseLapses, RetryFallsDue
  <2> QED
    BY <1>k, <2>1 DEF RetrySound, Waiting, Held
<1>2. ASSUME NEW w \in Workers, NEW j \in Jobs, LeaseJob(w, j) PROVE BudgetKept'
  <2>1. Waiting(j) /\ attempt_count[j] < MaxAttempts
    BY <1>2 DEF LeaseJob, Candidate, Leaseable, Waiting, BudgetKept
  <2>2. /\ status' = [status EXCEPT ![j] = "leased"]
        /\ attempt_count' = [attempt_count EXCEPT ![j] = @ + 1]
    BY <1>2 DEF LeaseJob
  <2> QED
    BY <2>1, <2>2 DEF BudgetKept, Waiting, Held
<1>3. ASSUME NEW w \in Workers, UpdateProgress(w) PROVE BudgetKept'
  <2>1. cur[w] \in Jobs
    BY <1>3, <1>a DEF UpdateProgress
  <2>2. /\ UNCHANGED attempt_count
        /\ \A k \in Jobs : status'[k] = status[k] \/ (status[k] \in Held /\ status'[k] = "running")
    BY <1>3, <2>1 DEF UpdateProgress, Owns
  <2> QED
    BY <1>k, <2>2 DEF Waiting, Held
<1>4. ASSUME NEW w \in Workers, CompleteJob(w) PROVE BudgetKept'
  <2>1. /\ UNCHANGED attempt_count
        /\ \A k \in Jobs : \/ status'[k] = status[k] \/ status'[k] = "succeeded"
                           \/ status[k] = "absent" /\ status'[k] = "queued"
    BY <1>4 DEF CompleteJob, Completion
  <2> QED
    BY <1>k, <2>1 DEF RetrySound, Waiting, Held
<1>5. ASSUME NEW w \in Workers, FailJobWrite(w) PROVE BudgetKept'
  <2>1. cur[w] \in Jobs /\ pc[w] = "failing" /\ plan[w] \in {"guarded_retry", "guarded_fail"}
    BY <1>5, <1>a DEF FailJobWrite, OwnershipInv, TaskOwnsRow
  <2>2. /\ UNCHANGED attempt_count
        /\ \A k \in Jobs : \/ status'[k] = status[k] \/ status'[k] = "failed"
                           \/ /\ k = cur[w] /\ plan[w] = "guarded_retry" /\ Owns(w, k)
                              /\ status'[k] = "retry_wait"
    BY <1>5, <2>1 DEF FailJobWrite
  <2>3. plan[w] = "guarded_retry" /\ Owns(w, cur[w]) => attempt_count[cur[w]] < MaxAttempts
    BY <2>1 DEF RetrySound
  <2> QED
    BY <1>k, <2>2, <2>3 DEF Waiting, Held
<1>6. ASSUME NEW w \in Workers, RecoverStaleJobs(w) PROVE BudgetKept'
  <2>1. /\ UNCHANGED attempt_count
        /\ \A k \in Jobs : \/ status'[k] = status[k] \/ status'[k] = "failed"
                           \/ status'[k] = "retry_wait" /\ attempt_count[k] < MaxAttempts
    BY <1>6 DEF RecoverStaleJobs
  <2> QED
    BY <1>k, <2>1 DEF Waiting, Held
<1>7. ASSUME UNCHANGED <<status, attempt_count>> PROVE BudgetKept'
  BY <1>k, <1>7 DEF Waiting
<1> QED
  BY <1>1, <1>2, <1>3, <1>4, <1>5, <1>6, <1>7
     DEF Next, WorkerStep, HandlerReturns, TaskRaises, FailJobRead, ReportFailure,
         Heartbeat, ShutDown, Exit, Crash, Stop, vars

\* What a worker carries from one statement to the next stays true: while it
\* fails a row no one leases it, and a result is one of its own job.
LEMMA CarriedFactsStep ==
  ASSUME CrashOnly, TypeOK, OwnershipInv, BudgetInv, [Next]_vars
  PROVE  FailSound' /\ ResultSound'
<1>0. /\ None \notin Jobs /\ None \notin Workers /\ MaxAttempts \in Nat \ {0}
      /\ FailSound /\ ResultSound
  BY ConstantsAssumption DEF BudgetInv
<1>a. \A w \in Workers : pc[w] \notin {"idle", "down"} => cur[w] \in Jobs
  BY DEF TypeOK
<1> USE <1>0 DEF TypeOK, rows, procs
\* A step in which no process starts to fail or returns from its handler.
<1>k. ASSUME UNCHANGED attempt_count,
             \A v \in Workers :
               /\ pc'[v] = "failing" => pc[v] = "failing" /\ cur'[v] = cur[v] /\ plan'[v] = plan[v]
               /\ pc'[v] = "returned" => /\ pc[v] = "returned" /\ cur'[v] = cur[v]
                                         /\ result'[v] = result[v]
      PROVE  FailSound' /\ ResultSound'
  BY <1>k DEF FailSound, ResultSound
<1>1. ASSUME NEW j \in Jobs, JobStep(j) PROVE FailSound' /\ ResultSound'
  BY <1>k, <1>1 DEF JobStep, EnqueueJob, LeaseLapses, RetryFallsDue
<1>2. ASSUME NEW w \in Workers, NEW j \in Jobs, LeaseJob(w, j) PROVE FailSound' /\ ResultSound'
  <2>1. \A v \in Workers : pc[v] = "failing" => cur[v] \in Jobs
    BY <1>a
  <2>2. /\ \A k \in Jobs : attempt_count'[k] >= attempt_count[k]
        /\ \A v \in Workers : v # w => pc'[v] = pc[v] /\ cur'[v] = cur[v]
        /\ pc'[w] = "leased" /\ UNCHANGED <<result, plan>>
    BY <1>2 DEF LeaseJob
  <2>3. ASSUME NEW v \in Workers, pc'[v] = "failing", plan'[v] = "guarded_fail"
        PROVE  attempt_count'[cur'[v]] >= MaxAttempts \/ JobType[cur'[v]] \notin HANDLERS
    <3>1. /\ pc[v] = "failing" /\ plan[v] = "guarded_fail" /\ cur'[v] = cur[v]
          /\ cur[v] \in Jobs /\ attempt_count'[cur[v]] \in Nat /\ attempt_count[cur[v]] \in Nat
      BY <1>2, <2>1, <2>2, <2>3 DEF LeaseJob
    <3> QED
      BY <2>2, <3>1 DEF FailSound
  <2>4. ResultSound'
    BY <2>2 DEF ResultSound
  <2> QED
    BY <2>3, <2>4 DEF FailSound
<1>3. ASSUME NEW w \in Workers, HandlerReturns(w) PROVE FailSound' /\ ResultSound'
  <2>1. PICK n \in NextJobs[cur[w]] \cup {None} : result' = [result EXCEPT ![w] = n]
    BY <1>3 DEF HandlerReturns
  <2>2. pc' = [pc EXCEPT ![w] = "returned"] /\ UNCHANGED <<attempt_count, cur, plan>>
    BY <1>3 DEF HandlerReturns
  <2> QED
    BY <2>1, <2>2 DEF FailSound, ResultSound
<1>4. ASSUME NEW w \in Workers, FailJobRead(w) PROVE FailSound' /\ ResultSound'
  <2>1. cur[w] \in Jobs /\ locked_by[cur[w]] = w /\ attempt_count[cur[w]] \in Nat
    BY <1>4, <1>a DEF FailJobRead, OwnershipInv, TaskOwnsRow, Owns
  <2>2. /\ plan' = [plan EXCEPT ![w] = ChosenPlan(w)]
        /\ pc' = [pc EXCEPT ![w] = "failing"]
        /\ UNCHANGED <<attempt_count, cur, result>>
    BY <1>4, <2>1 DEF FailJobRead
  <2>3. ChosenPlan(w) = "guarded_fail" =>
          attempt_count[cur[w]] >= MaxAttempts \/ JobType[cur[w]] \notin HANDLERS
    BY <1>4, <2>1 DEF ChosenPlan, FailJobRead
  <2> QED
    BY <2>2, <2>3 DEF FailSound, ResultSound
<1>5. ASSUME NEW w \in Workers,
             \/ UpdateProgress(w) \/ TaskRaises(w) \/ CompleteJob(w) \/ FailJobWrite(w)
             \/ ReportFailure(w) \/ Heartbeat(w) \/ RecoverStaleJobs(w)
             \/ ShutDown(w) \/ Exit(w) \/ Crash(w)
      PROVE  FailSound' /\ ResultSound'
  <2>1. /\ UNCHANGED attempt_count
        /\ \A v \in Workers :
             /\ pc'[v] = "failing" => pc[v] = "failing" /\ cur'[v] = cur[v] /\ plan'[v] = plan[v]
             /\ pc'[v] = "returned" => /\ pc[v] = "returned" /\ cur'[v] = cur[v]
                                       /\ result'[v] = result[v]
    <3>1. CASE UpdateProgress(w) \/ TaskRaises(w) \/ ReportFailure(w) \/ Heartbeat(w)
                 \/ RecoverStaleJobs(w) \/ ShutDown(w)
      BY <3>1 DEF UpdateProgress, TaskRaises, ReportFailure, Heartbeat, RecoverStaleJobs, ShutDown
    <3>2. CASE CompleteJob(w)
      BY <3>2 DEF CompleteJob
    <3>3. CASE FailJobWrite(w)
      BY <3>3 DEF FailJobWrite
    <3>4. CASE Exit(w) \/ Crash(w)
      BY <3>4 DEF Exit, Crash, Stop
    <3> QED
      BY <1>5, <3>1, <3>2, <3>3, <3>4
  <2> QED
    BY <1>k, <2>1
<1>6. CASE UNCHANGED vars
  BY <1>6 DEF vars, FailSound, ResultSound
<1> QED
  BY <1>1, <1>2, <1>3, <1>4, <1>5, <1>6 DEF Next, WorkerStep

\* Under CrashOnly every reachable state satisfies the budget invariant.
LEMMA BudgetHolds == ASSUME CrashOnly PROVE Spec => []BudgetInv
<1>1. Init => BudgetInv
  BY ConstantsAssumption
     DEF Init, BudgetInv, RetrySound, BudgetKept, FailSound, ResultSound, Waiting, Held
<1>2. TypeOK /\ OwnershipInv /\ BudgetInv /\ [Next]_vars => BudgetInv'
  BY RetrySoundKept, BudgetStep, CarriedFactsStep, CrashOnly DEF BudgetInv
<1> QED
  BY <1>1, <1>2, TypeCorrect, OwnershipHolds, CrashOnly, PTL DEF Spec

-----------------------------------------------------------------------------
\* As long as no live worker loses its lease, fail_job, stale recovery and
\* crashes never let a job be leased more than max_attempts times.
THEOREM AttemptsAreExact == ASSUME CrashOnly PROVE Spec => []AttemptsWithinMax
<1>1. BudgetInv => AttemptsWithinMax
  BY DEF BudgetInv, BudgetKept, AttemptsWithinMax
<1> QED
  BY <1>1, BudgetHolds, CrashOnly, PTL

\* A following stage is in the queue only if a stage that leads to it succeeded.
THEOREM StagesFollowSuccess == ASSUME CrashOnly PROVE Spec => []SuccessorAfterSuccess
<1> DEFINE Kept == \A j \in Jobs : status[j] = "succeeded" => status'[j] = "succeeded"
<1>1. Init => SuccessorAfterSuccess
  BY DEF Init, SuccessorAfterSuccess, Roots
<1>2. TypeOK /\ OwnershipInv /\ BudgetInv /\ SuccessorAfterSuccess /\ [Next]_vars /\ [Kept]_vars
        => SuccessorAfterSuccess'
  <2> SUFFICES ASSUME TypeOK, OwnershipInv, BudgetInv, SuccessorAfterSuccess, Next, Kept,
                      NEW n \in Jobs \ Roots, status'[n] # "absent"
               PROVE  \E k \in Jobs : n \in NextJobs[k] /\ status'[k] = "succeeded"
    BY DEF SuccessorAfterSuccess, vars, rows
  <2>1. CASE status[n] # "absent"
    BY <2>1 DEF SuccessorAfterSuccess
  <2>2. CASE status[n] = "absent"
    <3>1. PICK w \in Workers : CompleteJob(w) /\ Owns(w, cur[w]) /\ n # cur[w] /\ n = result[w]
      <4>1. ASSUME NEW w \in Workers, CompleteJob(w)
            PROVE  Owns(w, cur[w]) /\ n # cur[w] /\ n = result[w]
        BY <2>2, <4>1 DEF CompleteJob, Completion, TypeOK, Owns, Held
      <4>2. ASSUME NEW j \in Jobs, JobStep(j) PROVE FALSE
        BY <2>2, <4>2 DEF JobStep, EnqueueJob, LeaseLapses, RetryFallsDue, TypeOK
      <4>3. ASSUME NEW w \in Workers, NEW j \in Jobs, LeaseJob(w, j) PROVE FALSE
        BY <2>2, <4>3 DEF LeaseJob, Candidate, Leaseable, TypeOK
      <4>4. ASSUME NEW w \in Workers, UpdateProgress(w) \/ RecoverStaleJobs(w) PROVE FALSE
        BY <2>2, <4>4 DEF UpdateProgress, RecoverStaleJobs, Owns, Stale, Held, TypeOK
      <4>5. ASSUME NEW w \in Workers, FailJobWrite(w) PROVE FALSE
        BY <2>2, <4>5 DEF FailJobWrite, TypeOK, OwnershipInv, TaskOwnsRow, Owns, Held
      <4>6. ASSUME NEW w \in Workers, UNCHANGED status PROVE FALSE
        BY <2>2, <4>6
      <4> QED
        BY <4>1, <4>2, <4>3, <4>4, <4>5, <4>6
           DEF Next, WorkerStep, HandlerReturns, TaskRaises, FailJobRead, ReportFailure,
               Heartbeat, ShutDown, Exit, Crash, Stop, rows
    <3>2. cur[w] \in Jobs /\ pc[w] = "returned" /\ status'[cur[w]] = "succeeded"
      BY <3>1 DEF CompleteJob, Completion, TypeOK
    <3>3. n \in NextJobs[cur[w]]
      BY <3>1, <3>2, ConstantsAssumption DEF BudgetInv, ResultSound
    <3> QED
      BY <3>2, <3>3
  <2> QED
    BY <2>1, <2>2
<1> QED
  BY <1>1, <1>2, TypeCorrect, OwnershipHolds, BudgetHolds, SuccessIsFinal, CrashOnly, PTL DEF Spec, SucceededIsFinal

-----------------------------------------------------------------------------
(* The refinement.  Rows that are queued, leased, running or waiting for a
   retry are one abstract state; a lost lease would break the map, which is why
   it is stated for workers that keep theirs. *)

\* With no rows, nothing is submitted and nothing was tried.
LEMMA InitKeepsPromise == Init => Delivery!DeliveryInit
BY DEF Init, Delivery!DeliveryInit, Outcome

\* Every statement of a worker, of the API and of recovery is one step of
\* JobDelivery or none.
LEMMA StepKeepsPromise ==
  ASSUME CrashOnly, TypeOK, OwnershipInv, BudgetInv, [Next]_vars
  PROVE  [Delivery!DeliveryNext]_(Delivery!deliveryVars)
<1> DEFINE out == [j \in Jobs |-> Outcome(status[j])]
           Same == \A j \in Jobs : Outcome(status'[j]) = Outcome(status[j])
<1>0. /\ None \notin Jobs /\ None \notin Workers /\ MaxAttempts \in Nat \ {0}
      /\ BudgetKept /\ FailSound /\ ResultSound
  BY ConstantsAssumption DEF BudgetInv
<1>a. \A w \in Workers : pc[w] \notin {"idle", "down"} => cur[w] \in Jobs
  BY DEF TypeOK
<1>s. ASSUME Same, UNCHANGED attempt_count PROVE UNCHANGED Delivery!deliveryVars
  BY <1>s DEF Delivery!deliveryVars
<1> USE <1>0 DEF TypeOK, rows, procs
<1>1. ASSUME NEW j \in Jobs, EnqueueJob(j) PROVE Delivery!DeliveryNext
  <2>1. Delivery!Submit(j)
    BY <1>1 DEF EnqueueJob, Delivery!Submit, Outcome
  <2> QED
    BY <1>1, <2>1 DEF EnqueueJob, Delivery!DeliveryNext
<1>2. ASSUME NEW w \in Workers, NEW j \in Jobs, LeaseJob(w, j) PROVE Delivery!DeliveryNext
  <2>1. Waiting(j) /\ attempt_count[j] < MaxAttempts
    BY <1>2 DEF LeaseJob, Candidate, Leaseable, Waiting, BudgetKept
  <2>2. Delivery!Try(j)
    BY <1>2, <2>1 DEF LeaseJob, Delivery!Try, Outcome, Waiting
  <2> QED
    BY <2>2 DEF Delivery!DeliveryNext
<1>3. ASSUME NEW w \in Workers, CompleteJob(w), Owns(w, cur[w]) PROVE Delivery!DeliveryNext
  <2>1. cur[w] \in Jobs /\ pc[w] = "returned" /\ result[w] \in NextJobs[cur[w]] \cup {None}
    BY <1>3, <1>a DEF CompleteJob, ResultSound
  <2>2. Completion(w) /\ UNCHANGED attempt_count
    BY <1>3 DEF CompleteJob
  <2>3. out[cur[w]] = "pending" /\ attempt_count[cur[w]] > 0
    BY <1>3, <2>1 DEF Owns, Held, Outcome, BudgetKept
  <2> DEFINE n == IF result[w] = None THEN cur[w] ELSE result[w]
  <2>4. n \in NextJobs[cur[w]] \cup {cur[w]} /\ n \in Jobs
    BY <2>1, ConstantsAssumption
  <2>5. \A k \in Jobs : status[k] \in Statuses
    OBVIOUS
  <2>6. \A k \in Jobs : status'[k] = IF k = cur[w] THEN "succeeded"
                                     ELSE IF k = n /\ status[k] = "absent" THEN "queued"
                                     ELSE status[k]
    BY <2>1, <2>2, ConstantsAssumption DEF Completion
  <2> HIDE DEF n
  <2>7. \A k \in Jobs : Outcome(status'[k]) = IF k = cur[w] THEN "succeeded"
                                     ELSE IF k = n /\ Outcome(status[k]) = "absent" THEN "pending"
                                     ELSE Outcome(status[k])
    BY <2>5, <2>6 DEF Outcome, Statuses
  <2>8. Delivery!Succeed(cur[w], n)
    BY <2>1, <2>2, <2>3, <2>4, <2>7 DEF Delivery!Succeed
  <2> QED
    BY <2>1, <2>4, <2>8 DEF Delivery!DeliveryNext
<1>4. ASSUME NEW w \in Workers, CompleteJob(w), ~Owns(w, cur[w])
      PROVE  UNCHANGED Delivery!deliveryVars
  BY <1>4, <1>s DEF CompleteJob
<1>5. ASSUME NEW w \in Workers, FailJobWrite(w)
      PROVE  Delivery!DeliveryNext \/ UNCHANGED Delivery!deliveryVars
  <2>1. cur[w] \in Jobs /\ pc[w] = "failing" /\ plan[w] \in {"guarded_retry", "guarded_fail"}
    BY <1>5, <1>a DEF FailJobWrite, OwnershipInv, TaskOwnsRow
  <2>2. UNCHANGED attempt_count
    BY <1>5 DEF FailJobWrite
  <2>3. CASE plan[w] = "guarded_fail" /\ Owns(w, cur[w])
    <3>1. status' = [status EXCEPT ![cur[w]] = "failed"]
      BY <1>5, <2>3 DEF FailJobWrite
    <3>2. /\ Outcome(status[cur[w]]) = "pending"
          /\ attempt_count[cur[w]] > 0 /\ attempt_count[cur[w]] <= MaxAttempts
          /\ attempt_count[cur[w]] >= MaxAttempts \/ JobType[cur[w]] \notin HANDLERS
      BY <2>1, <2>3 DEF Owns, Held, Outcome, BudgetKept, FailSound
    <3>3. Delivery!GiveUp({cur[w]})
      BY <2>1, <2>2, <3>1, <3>2 DEF Delivery!GiveUp, Outcome
    <3> QED
      BY <2>1, <3>3 DEF Delivery!DeliveryNext
  <2>4. CASE ~(plan[w] = "guarded_fail" /\ Owns(w, cur[w]))
    <3>1. Same
      BY <1>5, <2>1, <2>4 DEF FailJobWrite, Outcome, Owns, Held
    <3> QED
      BY <2>2, <3>1, <1>s
  <2> QED
    BY <2>3, <2>4
<1>6. ASSUME NEW w \in Workers, RecoverStaleJobs(w) PROVE Delivery!DeliveryNext
  <2> DEFINE S == {j \in Jobs : Stale(j) /\ attempt_count[j] >= MaxAttempts}
  <2>1. \A j \in Jobs : status'[j] = IF ~Stale(j) THEN status[j]
                                     ELSE IF attempt_count[j] < MaxAttempts
                                     THEN "retry_wait" ELSE "failed"
    BY <1>6 DEF RecoverStaleJobs
  <2>2. UNCHANGED attempt_count
    BY <1>6 DEF RecoverStaleJobs
  <2>3. \A j \in S : Outcome(status[j]) = "pending" /\ attempt_count[j] = MaxAttempts
    BY DEF Stale, Held, Outcome, BudgetKept
  <2>4. \A j \in Jobs : Outcome(status'[j]) = IF j \in S THEN "failed" ELSE Outcome(status[j])
    BY <2>1 DEF Stale, Held, Outcome
  <2>5. S \in SUBSET Jobs
    OBVIOUS
  <2> HIDE DEF S
  <2>6. Delivery!GiveUp(S)
    BY <2>2, <2>3, <2>4, <2>5 DEF Delivery!GiveUp
  <2> QED
    BY <2>5, <2>6 DEF Delivery!DeliveryNext
<1>7. ASSUME NEW w \in Workers, UpdateProgress(w) PROVE UNCHANGED Delivery!deliveryVars
  <2>1. Same
    BY <1>7 DEF UpdateProgress, Outcome, Owns, Held
  <2> QED
    BY <1>7, <2>1, <1>s DEF UpdateProgress
<1>8. ASSUME UNCHANGED <<status, attempt_count>> PROVE UNCHANGED Delivery!deliveryVars
  BY <1>8, <1>s
<1> HIDE DEF Same, out
<1> QED
  BY <1>1, <1>2, <1>3, <1>4, <1>5, <1>6, <1>7, <1>8
     DEF Next, WorkerStep, JobStep, LeaseLapses, RetryFallsDue, HandlerReturns, TaskRaises,
         FailJobRead, ReportFailure, Heartbeat, ShutDown, Exit, Crash, Stop, vars

\* The queue keeps the promise of JobDelivery: rows, leases, retries, crashes,
\* lost replies and stale recovery are a bounded number of tries with one end.
THEOREM PromiseKept == ASSUME CrashOnly PROVE Spec => KeepsPromise
<1>1. TypeOK /\ OwnershipInv /\ BudgetInv /\ [Next]_vars
        => [Delivery!DeliveryNext]_(Delivery!deliveryVars)
  BY StepKeepsPromise, CrashOnly
<1> QED
  BY <1>1, InitKeepsPromise, TypeCorrect, OwnershipHolds, BudgetHolds, CrashOnly, PTL
     DEF Spec, KeepsPromise, Delivery!DeliverySpec
=============================================================================
