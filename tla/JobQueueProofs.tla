--------------------------- MODULE JobQueueProofs ---------------------------
(***************************************************************************)
(* Theorems about JobQueue for every set of jobs and workers, every stage  *)
(* graph and every max_attempts.                                           *)
(***************************************************************************)
EXTENDS JobQueue, FiniteSetTheorems, SequenceTheorems, TLAPS

\* Every statement and every process step keeps its variables in their domains;
\* a process has an active task exactly while it is neither polling nor dead.
THEOREM TypeCorrect == Spec => []TypeOK
<1>1. Init => TypeOK
  BY ConstantsAssumption DEF Init, TypeOK, Statuses, PCs, Plans
<1>2. TypeOK /\ [Next]_vars => TypeOK'
  <2> SUFFICES ASSUME TypeOK, [Next]_vars PROVE TypeOK'
    OBVIOUS
  <2>0. None \notin Jobs
    BY ConstantsAssumption
  <2> USE <2>0 DEF TypeOK, rows, procs
  <2>1. ASSUME NEW j \in Jobs, JobStep(j) PROVE TypeOK'
    <3>1. CASE EnqueueJob(j)
      <4>1. created' \in Seq(Jobs)
        BY <3>1, AppendProperties DEF EnqueueJob
      <4> QED
        BY <3>1, <4>1 DEF EnqueueJob, Statuses
    <3>2. CASE LeaseLapses(j) \/ RetryFallsDue(j)
      BY <3>2 DEF LeaseLapses, RetryFallsDue
    <3> QED
      BY <2>1, <3>1, <3>2 DEF JobStep
  <2>2. ASSUME NEW w \in Workers, NEW j \in Jobs, LeaseJob(w, j) PROVE TypeOK'
    BY <2>2 DEF LeaseJob, Statuses, PCs
  <2>3. ASSUME NEW w \in Workers, UpdateProgress(w) PROVE TypeOK'
    BY <2>3 DEF UpdateProgress, Statuses, PCs
  <2>4. ASSUME NEW w \in Workers, HandlerReturns(w) PROVE TypeOK'
    <3>1. cur[w] \in Jobs
      BY <2>4 DEF HandlerReturns
    <3>2. PICK n \in NextJobs[cur[w]] \cup {None} : result' = [result EXCEPT ![w] = n]
      BY <2>4 DEF HandlerReturns
    <3>3. n \in Jobs \cup {None}
      BY <3>1, <3>2, ConstantsAssumption
    <3> QED
      BY <2>4, <3>1, <3>2, <3>3 DEF HandlerReturns, PCs
  <2>5. ASSUME NEW w \in Workers, TaskRaises(w) PROVE TypeOK'
    BY <2>5 DEF TaskRaises, PCs
  <2>6. ASSUME NEW w \in Workers, CompleteJob(w) PROVE TypeOK'
    <3>1. cur[w] \in Jobs
      BY <2>6 DEF CompleteJob
    <3>2. status' \in [Jobs -> Statuses]
      BY <2>6, <3>1 DEF CompleteJob, Completion, Statuses
    <3>3. created' \in Seq(Jobs)
      <4>1. CASE UNCHANGED created
        BY <4>1
      <4>2. CASE ~UNCHANGED created
        <5>1. result[w] \in Jobs /\ created' = Append(created, result[w])
          BY <2>6, <4>2 DEF CompleteJob, Completion
        <5> QED
          BY <5>1, AppendProperties
      <4> QED
        BY <4>1, <4>2
    <3>4. /\ pc' \in [Workers -> PCs] /\ cur' \in [Workers -> Jobs \cup {None}]
          /\ \A v \in Workers : cur'[v] = None <=> pc'[v] \in {"idle", "down"}
      <4>1. CASE /\ pc' = [pc EXCEPT ![w] = "idle"]
                 /\ cur' = [cur EXCEPT ![w] = None]
        BY <4>1 DEF PCs
      <4>2. CASE /\ pc' = [pc EXCEPT ![w] = "raised"]
                 /\ cur' = cur
        BY <3>1, <4>2 DEF PCs
      <4> QED
        BY <2>6, <4>1, <4>2 DEF CompleteJob
    <3> QED
      BY <2>6, <3>2, <3>3, <3>4 DEF CompleteJob
  <2>7. ASSUME NEW w \in Workers, FailJobRead(w) PROVE TypeOK'
    <3>1. cur[w] \in Jobs
      BY <2>7 DEF FailJobRead
    <3>2. ChosenPlan(w) \in Plans
      BY DEF ChosenPlan, Plans
    <3>3. plan' \in [Workers -> Plans]
      BY <2>7, <3>2 DEF FailJobRead
    <3>4. /\ pc' \in [Workers -> PCs] /\ cur' \in [Workers -> Jobs \cup {None}]
          /\ \A v \in Workers : cur'[v] = None <=> pc'[v] \in {"idle", "down"}
      <4>1. CASE /\ pc' = [pc EXCEPT ![w] = "idle"]
                 /\ cur' = [cur EXCEPT ![w] = None]
        BY <4>1 DEF PCs
      <4>2. CASE /\ pc' = [pc EXCEPT ![w] = "failing"] \/ pc' = [pc EXCEPT ![w] = "reporting"]
                 /\ cur' = cur
        BY <3>1, <4>2 DEF PCs
      <4> QED
        BY <2>7, <4>1, <4>2 DEF FailJobRead
    <3> QED
      BY <2>7, <3>3, <3>4 DEF FailJobRead
  <2>8. ASSUME NEW w \in Workers, FailJobWrite(w) PROVE TypeOK'
    <3>1. cur[w] \in Jobs
      BY <2>8 DEF FailJobWrite
    <3>2. status' \in [Jobs -> Statuses]
      BY <2>8, <3>1 DEF FailJobWrite, Statuses
    <3>3. /\ locked_by' = locked_by \/ locked_by' = [locked_by EXCEPT ![cur[w]] = None]
          /\ elapsed' = elapsed \/ elapsed' = [elapsed EXCEPT ![cur[w]] = FALSE]
      BY <2>8 DEF FailJobWrite
    <3>4. /\ pc' \in [Workers -> PCs] /\ cur' \in [Workers -> Jobs \cup {None}]
          /\ \A v \in Workers : cur'[v] = None <=> pc'[v] \in {"idle", "down"}
          /\ plan' \in [Workers -> Plans]
      BY <2>8, <3>1 DEF FailJobWrite, PCs, Plans
    <3> QED
      BY <2>8, <3>2, <3>3, <3>4 DEF FailJobWrite
  <2>9. ASSUME NEW w \in Workers, ReportFailure(w) PROVE TypeOK'
    BY <2>9 DEF ReportFailure, PCs
  <2>10. ASSUME NEW w \in Workers, Heartbeat(w) PROVE TypeOK'
    BY <2>10 DEF Heartbeat
  <2>11. ASSUME NEW w \in Workers, RecoverStaleJobs(w) PROVE TypeOK'
    <3>1. status' \in [Jobs -> Statuses] /\ locked_by' \in [Jobs -> Workers \cup {None}]
      BY <2>11 DEF RecoverStaleJobs, Statuses
    <3>2. elapsed' \in [Jobs -> BOOLEAN]
      BY <2>11, Zenon DEF RecoverStaleJobs
    <3> QED
      BY <2>11, <3>1, <3>2 DEF RecoverStaleJobs
  <2>12. ASSUME NEW w \in Workers, ShutDown(w) PROVE TypeOK'
    BY <2>12 DEF ShutDown
  <2>13. ASSUME NEW w \in Workers, Exit(w) \/ Crash(w) PROVE TypeOK'
    BY <2>13 DEF Exit, Crash, Stop, PCs, Plans
  <2>14. CASE UNCHANGED vars
    BY <2>14 DEF vars
  <2> QED
    BY <2>1, <2>2, <2>3, <2>4, <2>5, <2>6, <2>7, <2>8, <2>9, <2>10, <2>11, <2>12, <2>13, <2>14
       DEF Next, WorkerStep
<1> QED
  BY <1>1, <1>2, PTL DEF Spec

-----------------------------------------------------------------------------
(* LeaseHasHolder is inductive together with: a worker that has left fail_job
   no longer holds the row it is about to report on. *)
ReporterReleased == \A w \in Workers : pc[w] = "reporting" => ~Owns(w, cur[w])

HolderInv == LeaseHasHolder /\ ReporterReleased

\* Whatever path a worker takes out of its active task, it leaves no leased or
\* running row behind: only a dead process can hold a row nobody works on.
THEOREM LeasesAreHeld == Spec => []LeaseHasHolder
<1>1. Init => HolderInv
  BY DEF Init, HolderInv, LeaseHasHolder, ReporterReleased, Held
<1>2. TypeOK /\ HolderInv /\ [Next]_vars => HolderInv'
  <2> SUFFICES ASSUME TypeOK, HolderInv, [Next]_vars PROVE HolderInv'
    OBVIOUS
  <2>0. None \notin Jobs /\ None \notin Workers
    BY ConstantsAssumption
  <2> USE <2>0 DEF TypeOK, rows, procs, HolderInv, LeaseHasHolder, ReporterReleased, Owns, Held
  <2>1. ASSUME NEW j \in Jobs, JobStep(j) PROVE HolderInv'
    BY <2>1 DEF JobStep, EnqueueJob, LeaseLapses, RetryFallsDue
  <2>2. ASSUME NEW w \in Workers, NEW j \in Jobs, LeaseJob(w, j) PROVE HolderInv'
    BY <2>2 DEF LeaseJob
  <2>3. ASSUME NEW w \in Workers, UpdateProgress(w) PROVE HolderInv'
    BY <2>3 DEF UpdateProgress
  <2>4. ASSUME NEW w \in Workers, HandlerReturns(w) \/ TaskRaises(w) PROVE HolderInv'
    BY <2>4 DEF HandlerReturns, TaskRaises
  <2>5. ASSUME NEW w \in Workers, CompleteJob(w) PROVE HolderInv'
    <3>1. cur[w] \in Jobs /\ pc[w] = "returned" /\ locked_by' = locked_by
      BY <2>5 DEF CompleteJob
    <3>2. CASE Owns(w, cur[w])
      <4>1. /\ Completion(w)
            /\ \A v \in Workers : v # w => pc'[v] = pc[v] /\ cur'[v] = cur[v]
            /\ pc'[w] # "reporting"
        BY <2>5, <3>2 DEF CompleteJob
      <4>2. \A j \in Jobs : status'[j] \in Held => status[j] \in Held /\ j # cur[w]
        BY <4>1 DEF Completion
      <4>3. LeaseHasHolder'
        BY <3>1, <4>1, <4>2
      <4>4. ReporterReleased'
        <5> SUFFICES ASSUME NEW v \in Workers, pc'[v] = "reporting", Owns(v, cur[v])'
                     PROVE  FALSE
          OBVIOUS
        <5>1. v # w /\ pc[v] = "reporting" /\ cur'[v] = cur[v]
          BY <4>1
        <5>2. cur[v] \in Jobs
          BY <5>1
        <5> QED
          BY <3>1, <4>2, <5>1, <5>2
      <4> QED
        BY <4>3, <4>4
    <3>3. CASE ~Owns(w, cur[w])
      BY <2>5, <3>1, <3>3 DEF CompleteJob
    <3> QED
      BY <3>2, <3>3
  <2>6. ASSUME NEW w \in Workers, FailJobRead(w) PROVE HolderInv'
    <3>1. cur[w] \in Jobs /\ UNCHANGED <<status, locked_by>>
      BY <2>6 DEF FailJobRead
    <3>2. CASE locked_by[cur[w]] \in {None, w}
      BY <2>6, <3>1, <3>2 DEF FailJobRead
    <3>3. CASE locked_by[cur[w]] \notin {None, w}
      BY <2>6, <3>1, <3>3 DEF FailJobRead
    <3> QED
      BY <3>2, <3>3
  <2>7. ASSUME NEW w \in Workers, FailJobWrite(w) PROVE HolderInv'
    <3>1. cur[w] \in Jobs /\ pc[w] = "failing"
      BY <2>7 DEF FailJobWrite
    <3>2. \A j \in Jobs : status'[j] \in Held =>
            status[j] \in Held /\ locked_by'[j] = locked_by[j] /\ ~(j = cur[w] /\ locked_by[j] = w)
      BY <2>7, <3>1 DEF FailJobWrite
    <3>3. \A v \in Workers : v # w => pc'[v] = pc[v] /\ cur'[v] = cur[v]
      BY <2>7, <3>1 DEF FailJobWrite
    <3>4. pc'[w] = "reporting" => cur'[w] = cur[w]
      BY <2>7, <3>1 DEF FailJobWrite
    <3>5. LeaseHasHolder'
      BY <3>1, <3>2, <3>3
    <3>6. ReporterReleased'
      <4> SUFFICES ASSUME NEW v \in Workers, pc'[v] = "reporting", Owns(v, cur[v])'
                   PROVE  FALSE
        OBVIOUS
      <4>1. cur'[v] = cur[v] /\ cur[v] \in Jobs /\ (v # w => pc[v] = "reporting")
        BY <3>1, <3>3, <3>4
      <4> QED
        BY <3>2, <4>1
    <3> QED
      BY <3>5, <3>6
  <2>8. ASSUME NEW w \in Workers, ReportFailure(w) PROVE HolderInv'
    BY <2>8 DEF ReportFailure
  <2>9. ASSUME NEW w \in Workers, Heartbeat(w) \/ ShutDown(w) PROVE HolderInv'
    BY <2>9 DEF Heartbeat, ShutDown
  <2>10. ASSUME NEW w \in Workers, RecoverStaleJobs(w) PROVE HolderInv'
    <3>1. \A j \in Jobs : status'[j] \in Held =>
            status[j] \in Held /\ locked_by'[j] = locked_by[j]
      BY <2>10 DEF RecoverStaleJobs, Stale
    <3>2. UNCHANGED <<pc, cur>>
      BY <2>10 DEF RecoverStaleJobs
    <3>3. LeaseHasHolder'
      BY <3>1, <3>2
    <3>4. ReporterReleased'
      <4> SUFFICES ASSUME NEW v \in Workers, pc[v] = "reporting", Owns(v, cur[v])'
                   PROVE  FALSE
        BY <3>2
      <4>1. cur'[v] = cur[v] /\ cur[v] \in Jobs
        BY <3>2
      <4> QED
        BY <3>1, <4>1
    <3> QED
      BY <3>3, <3>4
  <2>11. ASSUME NEW w \in Workers, Exit(w) \/ Crash(w) PROVE HolderInv'
    <3>1. /\ pc' = [pc EXCEPT ![w] = "down"] /\ cur' = [cur EXCEPT ![w] = None]
          /\ UNCHANGED <<status, locked_by>>
      BY <2>11 DEF Exit, Crash, Stop
    <3>2. LeaseHasHolder'
      BY <3>1
    <3>3. ReporterReleased'
      BY <3>1
    <3> QED
      BY <3>2, <3>3
  <2>12. CASE UNCHANGED vars
    BY <2>12 DEF vars
  <2> QED
    BY <2>1, <2>2, <2>3, <2>4, <2>5, <2>6, <2>7, <2>8, <2>9, <2>10, <2>11, <2>12
       DEF Next, WorkerStep
<1> QED
  BY <1>1, <1>2, TypeCorrect, PTL DEF Spec, HolderInv

-----------------------------------------------------------------------------
(* Workers that may be killed at any point but neither lose heartbeats while
   they run nor are asked to drain.  Then a live worker keeps its row: a row
   goes stale only after its holder died, and fail_job finds its own id. *)
CrashOnly == HeartbeatLoss = FALSE /\ MayShutDown = {}

TaskOwnsRow ==
  \A w \in Workers :
    /\ pc[w] \in {"leased", "handling", "returned"} => Owns(w, cur[w])
    /\ pc[w] \in {"raised", "failing"} => locked_by[cur[w]] = w
    /\ pc[w] = "failing" => plan[w] \in {"guarded_retry", "guarded_fail"}

WaitingUnlocked ==
  \A j \in Jobs : status[j] \in {"absent", "queued", "retry_wait"} => locked_by[j] = None

StaleHolderDead == \A j \in Jobs : Stale(j) => pc[locked_by[j]] = "down"

OwnershipInv == TaskOwnsRow /\ WaitingUnlocked /\ StaleHolderDead /\ running = [w \in Workers |-> TRUE]

\* Under CrashOnly the ownership invariant is inductive.
LEMMA OwnershipKept ==
  ASSUME CrashOnly, TypeOK, LeaseHasHolder, OwnershipInv, [Next]_vars
  PROVE  OwnershipInv'
<1>0. None \notin Jobs /\ None \notin Workers
  BY ConstantsAssumption
<1>a. \A w \in Workers : pc[w] \notin {"idle", "down"} => cur[w] \in Jobs
  BY DEF TypeOK
<1>b. \A w \in Workers : pc[w] \in {"leased", "handling", "returned"} => Owns(w, cur[w])
  BY DEF OwnershipInv, TaskOwnsRow
<1>c. \A w \in Workers :
        pc[w] \in {"leased", "handling", "returned", "raised", "failing"} => locked_by[cur[w]] = w
  BY <1>b DEF OwnershipInv, TaskOwnsRow, Owns
<1> USE <1>0 DEF TypeOK, rows, procs, OwnershipInv, TaskOwnsRow, WaitingUnlocked,
                 StaleHolderDead, Stale, Owns, Held
<1>1. ASSUME NEW j \in Jobs, EnqueueJob(j) PROVE OwnershipInv'
  BY <1>1 DEF EnqueueJob
<1>2. ASSUME NEW j \in Jobs, LeaseLapses(j) PROVE OwnershipInv'
  BY <1>2 DEF LeaseLapses, CrashOnly, Alive, LeaseHasHolder
<1>3. ASSUME NEW j \in Jobs, RetryFallsDue(j) PROVE OwnershipInv'
  BY <1>3 DEF RetryFallsDue
<1>4. ASSUME NEW w \in Workers, NEW j \in Jobs, LeaseJob(w, j) PROVE OwnershipInv'
  <2>1. status[j] \in {"queued", "retry_wait"} /\ locked_by[j] = None /\ pc[w] = "idle"
    BY <1>4 DEF LeaseJob, Candidate, Leaseable
  <2>2. TaskOwnsRow'
    BY <1>4, <2>1 DEF LeaseJob
  <2>3. StaleHolderDead' /\ WaitingUnlocked'
    BY <1>4, <2>1 DEF LeaseJob
  <2> QED
    BY <1>4, <2>2, <2>3 DEF LeaseJob
<1>5. ASSUME NEW w \in Workers, UpdateProgress(w) PROVE OwnershipInv'
  <2>1. cur[w] \in Jobs /\ Owns(w, cur[w]) /\ pc[w] = "leased"
    BY <1>5, <1>a, <1>b DEF UpdateProgress
  <2>2. /\ status' = [status EXCEPT ![cur[w]] = "running"]
        /\ elapsed' = [elapsed EXCEPT ![cur[w]] = FALSE]
        /\ pc' = [pc EXCEPT ![w] = "handling"]
        /\ UNCHANGED <<locked_by, cur, plan, running>>
    BY <1>5, <2>1 DEF UpdateProgress
  <2>3. TaskOwnsRow'
    BY <2>1, <2>2
  <2>4. StaleHolderDead' /\ WaitingUnlocked'
    BY <2>1, <2>2
  <2> QED
    BY <2>2, <2>3, <2>4
<1>6. ASSUME NEW w \in Workers, HandlerReturns(w) \/ TaskRaises(w) PROVE OwnershipInv'
  <2>1. /\ pc' = [pc EXCEPT ![w] = "returned"] \/ pc' = [pc EXCEPT ![w] = "raised"]
        /\ pc[w] \in {"leased", "handling", "returned"}
        /\ UNCHANGED <<status, locked_by, elapsed, cur, plan, running>>
    BY <1>6 DEF HandlerReturns, TaskRaises
  <2>2. Owns(w, cur[w])
    BY <1>b, <2>1
  <2>3. TaskOwnsRow'
    BY <2>1, <2>2
  <2>4. StaleHolderDead' /\ WaitingUnlocked'
    <3>1. \A v \in Workers : pc[v] = "down" => pc'[v] = "down"
      BY <2>1
    <3> QED
      BY <2>1, <3>1 DEF LeaseHasHolder
  <2> QED
    BY <2>1, <2>3, <2>4
<1>7. ASSUME NEW w \in Workers, CompleteJob(w) PROVE OwnershipInv'
  <2>1. cur[w] \in Jobs /\ Owns(w, cur[w]) /\ pc[w] = "returned"
    BY <1>7, <1>a, <1>b DEF CompleteJob
  <2>2. /\ Completion(w)
        /\ \/ /\ pc' = [pc EXCEPT ![w] = "idle"]
              /\ cur' = [cur EXCEPT ![w] = None]
           \/ /\ pc' = [pc EXCEPT ![w] = "raised"]
              /\ UNCHANGED cur
        /\ UNCHANGED <<locked_by, elapsed, plan, running>>
    BY <1>7, <2>1 DEF CompleteJob
  <2>3. \A j \in Jobs : /\ status[j] \in Held /\ j # cur[w] => status'[j] = status[j]
                        /\ status'[j] \in Held => status[j] \in Held
                        /\ status'[j] \in {"absent", "queued", "retry_wait"} =>
                             status[j] \in {"absent", "queued", "retry_wait"}
    BY <2>1, <2>2 DEF Completion
  <2>4. TaskOwnsRow'
    <3> SUFFICES ASSUME NEW v \in Workers
                 PROVE  /\ pc'[v] \in {"leased", "handling", "returned"} => Owns(v, cur[v])'
                        /\ pc'[v] \in {"raised", "failing"} => locked_by'[cur'[v]] = v
                        /\ pc'[v] = "failing" => plan'[v] \in {"guarded_retry", "guarded_fail"}
      OBVIOUS
    <3>1. CASE v = w
      BY <2>1, <2>2, <3>1
    <3>2. CASE v # w
      <4>1. pc'[v] = pc[v] /\ cur'[v] = cur[v]
        BY <2>2, <3>2
      <4>2. ASSUME pc[v] \in {"leased", "handling", "returned"} PROVE Owns(v, cur[v])'
        <5>1. cur[v] \in Jobs /\ Owns(v, cur[v]) /\ cur[v] # cur[w]
          BY <1>a, <1>b, <2>1, <3>2, <4>2
        <5> QED
          BY <2>2, <2>3, <4>1, <5>1
      <4> QED
        BY <2>2, <4>1, <4>2
    <3> QED
      BY <3>1, <3>2
  <2>5. StaleHolderDead'
    <3>1. \A v \in Workers : pc[v] = "down" => pc'[v] = "down"
      BY <2>1, <2>2
    <3> QED
      BY <2>2, <2>3, <3>1 DEF LeaseHasHolder
  <2>6. WaitingUnlocked'
    BY <2>2, <2>3
  <2> QED
    BY <2>2, <2>4, <2>5, <2>6
<1>8. ASSUME NEW w \in Workers, FailJobRead(w) PROVE OwnershipInv'
  <2>1. cur[w] \in Jobs /\ locked_by[cur[w]] = w
    BY <1>8, <1>a, <1>c DEF FailJobRead
  <2>2. ChosenPlan(w) \in {"guarded_retry", "guarded_fail"}
    BY <2>1 DEF ChosenPlan
  <2>3. /\ plan' = [plan EXCEPT ![w] = ChosenPlan(w)]
        /\ pc' = [pc EXCEPT ![w] = "failing"]
        /\ pc[w] # "down"
        /\ UNCHANGED <<status, locked_by, elapsed, cur, running>>
    BY <1>8, <2>1 DEF FailJobRead
  <2>4. TaskOwnsRow'
    BY <2>1, <2>2, <2>3
  <2>5. StaleHolderDead' /\ WaitingUnlocked'
    <3>1. \A v \in Workers : pc[v] = "down" => pc'[v] = "down"
      BY <2>3
    <3> QED
      BY <2>3, <3>1 DEF LeaseHasHolder
  <2> QED
    BY <2>3, <2>4, <2>5
<1>9. ASSUME NEW w \in Workers, FailJobWrite(w) PROVE OwnershipInv'
  <2>1. cur[w] \in Jobs /\ pc[w] = "failing" /\ locked_by[cur[w]] = w
    BY <1>9, <1>a, <1>c DEF FailJobWrite
  <2>2. /\ \A j \in Jobs \ {cur[w]} : /\ status'[j] = status[j]
                                      /\ locked_by'[j] = locked_by[j]
                                      /\ elapsed'[j] = elapsed[j]
        /\ status'[cur[w]] \notin Held
        /\ status'[cur[w]] \in {"absent", "queued", "retry_wait"} => locked_by'[cur[w]] = None
    BY <1>9, <2>1 DEF FailJobWrite
  <2>3. /\ \A v \in Workers : v # w => pc'[v] = pc[v] /\ cur'[v] = cur[v] /\ plan'[v] = plan[v]
        /\ pc'[w] \in {"idle", "reporting"}
        /\ running' = running
    BY <1>9, <2>1 DEF FailJobWrite
  <2>4. TaskOwnsRow'
    <3> SUFFICES ASSUME NEW v \in Workers, v # w,
                        pc[v] \in {"leased", "handling", "returned", "raised", "failing"}
                 PROVE  /\ pc[v] \in {"leased", "handling", "returned"} => Owns(v, cur[v])'
                        /\ pc[v] \in {"raised", "failing"} => locked_by'[cur[v]] = v
                        /\ pc[v] = "failing" => plan'[v] \in {"guarded_retry", "guarded_fail"}
      BY <2>3
    <3>1. cur[v] \in Jobs \ {cur[w]}
      BY <2>1
    <3> QED
      BY <2>2, <2>3, <3>1
  <2>5. StaleHolderDead'
    <3> SUFFICES ASSUME NEW j \in Jobs, Stale(j)' PROVE pc'[locked_by'[j]] = "down"
      OBVIOUS
    <3>1. j # cur[w] /\ Stale(j) /\ locked_by'[j] = locked_by[j]
      BY <2>2
    <3>2. locked_by[j] \in Workers /\ locked_by[j] # w
      BY <2>1, <3>1 DEF LeaseHasHolder
    <3> QED
      BY <2>3, <3>1, <3>2
  <2>6. WaitingUnlocked'
    BY <2>2
  <2> QED
    BY <2>3, <2>4, <2>5, <2>6
<1>10. ASSUME NEW w \in Workers, ReportFailure(w) PROVE OwnershipInv'
  BY <1>10 DEF ReportFailure, LeaseHasHolder
<1>11. ASSUME NEW w \in Workers, Heartbeat(w) PROVE OwnershipInv'
  BY <1>11 DEF Heartbeat, LeaseHasHolder
<1>12. ASSUME NEW w \in Workers, RecoverStaleJobs(w) PROVE OwnershipInv'
  <2>1. /\ UNCHANGED <<pc, cur, plan, running>>
        /\ \A j \in Jobs : /\ Stale(j) => pc[locked_by[j]] = "down" /\ status'[j] \notin Held
                                          /\ locked_by'[j] = None
                           /\ ~Stale(j) => /\ status'[j] = status[j] /\ locked_by'[j] = locked_by[j]
                                           /\ elapsed'[j] = elapsed[j]
    BY <1>12 DEF RecoverStaleJobs
  <2>2. TaskOwnsRow'
    <3> SUFFICES ASSUME NEW v \in Workers,
                        pc[v] \in {"leased", "handling", "returned", "raised", "failing"}
                 PROVE  /\ pc[v] \in {"leased", "handling", "returned"} => Owns(v, cur[v])'
                        /\ pc[v] \in {"raised", "failing"} => locked_by'[cur[v]] = v
                        /\ pc[v] = "failing" => plan'[v] \in {"guarded_retry", "guarded_fail"}
      BY <2>1
    <3>1. cur[v] \in Jobs /\ locked_by[cur[v]] = v /\ ~Stale(cur[v])
      BY <2>1
    <3> QED
      BY <2>1, <3>1
  <2>3. StaleHolderDead'
    BY <2>1
  <2>4. WaitingUnlocked'
    BY <2>1
  <2> QED
    BY <2>1, <2>2, <2>3, <2>4
<1>13. ASSUME NEW w \in Workers, Exit(w) \/ Crash(w) PROVE OwnershipInv'
  <2>1. /\ pc' = [pc EXCEPT ![w] = "down"] /\ cur' = [cur EXCEPT ![w] = None]
        /\ plan' = [plan EXCEPT ![w] = "none"]
        /\ UNCHANGED <<status, locked_by, elapsed, running>>
    BY <1>13 DEF Exit, Crash, Stop
  <2>2. TaskOwnsRow'
    BY <2>1
  <2>3. StaleHolderDead' /\ WaitingUnlocked'
    BY <2>1 DEF LeaseHasHolder
  <2> QED
    BY <2>1, <2>2, <2>3
<1>14. ASSUME NEW w \in Workers, ShutDown(w) PROVE FALSE
  BY <1>14 DEF ShutDown, CrashOnly
<1>15. CASE UNCHANGED vars
  BY <1>15 DEF vars
<1> QED
  BY <1>1, <1>2, <1>3, <1>4, <1>5, <1>6, <1>7, <1>8, <1>9, <1>10, <1>11, <1>12, <1>13, <1>14, <1>15
     DEF Next, WorkerStep, JobStep

\* Under CrashOnly every reachable state satisfies the ownership invariant.
LEMMA OwnershipHolds == ASSUME CrashOnly PROVE Spec => []OwnershipInv
<1>1. Init => OwnershipInv
  BY DEF Init, OwnershipInv, TaskOwnsRow, WaitingUnlocked, StaleHolderDead, Stale, Held
<1>2. TypeOK /\ LeaseHasHolder /\ OwnershipInv /\ [Next]_vars => OwnershipInv'
  BY OwnershipKept, CrashOnly
<1> QED
  BY <1>1, <1>2, TypeCorrect, LeasesAreHeld, PTL DEF Spec

\* If the only faults are crashes, no job's handler runs in two live processes
\* at once: a row is leased again only after its holder failed it or died.
THEOREM ExclusiveExecution == ASSUME CrashOnly PROVE Spec => []NoDualExecution
<1>1. TypeOK /\ OwnershipInv => NoDualExecution
  BY DEF TypeOK, OwnershipInv, TaskOwnsRow, Owns, NoDualExecution
<1> QED
  BY <1>1, TypeCorrect, OwnershipHolds, CrashOnly, PTL

\* If the only faults are crashes, a succeeded row stays succeeded: fail_job
\* after a completion whose reply was lost is stopped by its status guard.
THEOREM SuccessIsFinal == ASSUME CrashOnly PROVE Spec => SucceededIsFinal
<1> DEFINE Kept == \A j \in Jobs : status[j] = "succeeded" => status'[j] = "succeeded"
<1>1. TypeOK /\ OwnershipInv /\ [Next]_vars => Kept \/ UNCHANGED vars
  <2> SUFFICES ASSUME TypeOK, OwnershipInv, Next PROVE Kept
    OBVIOUS
  <2> USE DEF TypeOK, rows, procs
  <2>1. ASSUME NEW j \in Jobs, JobStep(j) PROVE Kept
    BY <2>1 DEF JobStep, EnqueueJob, LeaseLapses, RetryFallsDue
  <2>2. ASSUME NEW w \in Workers, NEW j \in Jobs, LeaseJob(w, j) PROVE Kept
    BY <2>2 DEF LeaseJob, Candidate, Leaseable
  <2>3. ASSUME NEW w \in Workers, UpdateProgress(w) PROVE Kept
    BY <2>3 DEF UpdateProgress, Owns, Held
  <2>4. ASSUME NEW w \in Workers, CompleteJob(w) PROVE Kept
    BY <2>4 DEF CompleteJob, Completion
  <2>5. ASSUME NEW w \in Workers, FailJobWrite(w) PROVE Kept
    <3>1. plan[w] \notin {"bare_retry", "bare_fail"}
      BY <2>5 DEF FailJobWrite, OwnershipInv, TaskOwnsRow
    <3> QED
      BY <2>5, <3>1 DEF FailJobWrite, Owns, Held
  <2>6. ASSUME NEW w \in Workers, RecoverStaleJobs(w) PROVE Kept
    BY <2>6 DEF RecoverStaleJobs, Stale, Held
  <2>7. ASSUME NEW w \in Workers, UNCHANGED status PROVE Kept
    BY <2>7
  <2> QED
    BY <2>1, <2>2, <2>3, <2>4, <2>5, <2>6, <2>7
       DEF Next, WorkerStep, HandlerReturns, TaskRaises, FailJobRead, ReportFailure,
           Heartbeat, ShutDown, Exit, Crash, Stop
<1> QED
  BY <1>1, TypeCorrect, OwnershipHolds, CrashOnly, PTL DEF SucceededIsFinal, Spec

-----------------------------------------------------------------------------
(* The attempt count.  A row that waits to be leased will be leased once more,
   so it counts as one attempt ahead.  Zombies(j) are the workers inside
   fail_job that read j without an owner and below max_attempts: each of them
   can put j back once more, whoever holds it by then. *)
Waiting(j) == status[j] \in {"queued", "retry_wait"}

Ahead(j) == attempt_count[j] + (IF Waiting(j) THEN 1 ELSE 0)

Zombies(j) == {w \in Workers : pc[w] = "failing" /\ plan[w] = "bare_retry" /\ cur[w] = j}

RetrySound ==
  /\ \A j \in Jobs : status[j] = "absent" => attempt_count[j] = 0
  /\ \A w \in Workers :
       pc[w] = "failing" /\ plan[w] = "guarded_retry" /\ Owns(w, cur[w])
         => attempt_count[cur[w]] < MaxAttempts

ZombiesSpareOne ==
  \A j \in Jobs : attempt_count[j] >= MaxAttempts => Cardinality(Zombies(j)) <= Cardinality(Workers) - 1

AheadBounded ==
  \A j \in Jobs : \/ Ahead(j) <= MaxAttempts
                  \/ Ahead(j) + Cardinality(Zombies(j)) <= MaxAttempts + Cardinality(Workers) - 1

AttemptInv == RetrySound /\ ZombiesSpareOne /\ AheadBounded

\* Facts about the sizes of the sets of workers involved.
LEMMA ZombieCounts ==
  ASSUME NEW j, NEW w \in Workers
  PROVE  /\ Cardinality(Workers) \in Nat \ {0}
         /\ IsFiniteSet(Zombies(j)) /\ Cardinality(Zombies(j)) \in Nat
         /\ Cardinality(Zombies(j)) <= Cardinality(Workers)
         /\ w \notin Zombies(j) => Cardinality(Zombies(j)) <= Cardinality(Workers) - 1
<1>1. IsFiniteSet(Workers) /\ Workers # {} /\ Zombies(j) \in SUBSET Workers
  BY ConstantsAssumption DEF Zombies
<1>2. Cardinality(Workers) \in Nat \ {0}
  BY <1>1, FS_CardinalityType, FS_EmptySet
<1>3. IsFiniteSet(Zombies(j)) /\ Cardinality(Zombies(j)) \in Nat
      /\ Cardinality(Zombies(j)) <= Cardinality(Workers)
  BY <1>1, FS_Subset, FS_CardinalityType
<1>4. ASSUME w \notin Zombies(j) PROVE Cardinality(Zombies(j)) <= Cardinality(Workers) - 1
  <2>1. Zombies(j) \in SUBSET (Workers \ {w})
    BY <1>1, <1>4
  <2>2. IsFiniteSet(Workers \ {w}) /\ Cardinality(Workers \ {w}) = Cardinality(Workers) - 1
    BY <1>1, FS_RemoveElement
  <2> QED
    BY <2>1, <2>2, FS_Subset
<1> QED
  BY <1>2, <1>3, <1>4

\* No row goes back to absent, attempt counts move only with a lease, and no
\* step makes an already failing worker the holder of its row: what fail_job
\* read about the attempts left is still true when its guarded UPDATE matches.
LEMMA RetrySoundKept ==
  ASSUME TypeOK, RetrySound, [Next]_vars
  PROVE  RetrySound'
<1>0. None \notin Jobs /\ None \notin Workers /\ MaxAttempts \in Nat
  BY ConstantsAssumption
<1>a. \A w \in Workers : pc[w] \notin {"idle", "down"} => cur[w] \in Jobs
  BY DEF TypeOK
<1> USE <1>0 DEF TypeOK, rows, procs
<1>k. ASSUME /\ UNCHANGED attempt_count
             /\ \A v \in Workers : pc'[v] = "failing" => /\ pc[v] = "failing" /\ cur'[v] = cur[v]
                                                         /\ plan'[v] = plan[v]
             /\ \A j \in Jobs : /\ status'[j] = "absent" => status[j] = "absent"
                                /\ status'[j] \in Held => /\ status[j] \in Held
                                                         /\ locked_by'[j] = locked_by[j]
      PROVE  RetrySound'
  <2>1. \A j \in Jobs : status'[j] = "absent" => attempt_count'[j] = 0
    BY <1>k DEF RetrySound
  <2>2. ASSUME NEW v \in Workers,
               pc'[v] = "failing", plan'[v] = "guarded_retry", Owns(v, cur[v])'
        PROVE  attempt_count'[cur'[v]] < MaxAttempts
    <3>1. pc[v] = "failing" /\ cur'[v] = cur[v] /\ plan[v] = "guarded_retry"
      BY <1>k, <2>2
    <3>2. cur[v] \in Jobs
      BY <3>1, <1>a
    <3>3. Owns(v, cur[v])
      BY <1>k, <2>2, <3>1, <3>2 DEF Owns
    <3> QED
      BY <1>k, <3>1, <3>3 DEF RetrySound
  <2> QED
    BY <2>1, <2>2 DEF RetrySound
<1>1. ASSUME NEW j \in Jobs, JobStep(j) PROVE RetrySound'
  <2>1. /\ UNCHANGED <<attempt_count, locked_by, pc, cur, plan>>
        /\ \A k \in Jobs : /\ status'[k] = "absent" => status[k] = "absent"
                           /\ status'[k] \in Held => status[k] \in Held
    BY <1>1 DEF JobStep, EnqueueJob, LeaseLapses, RetryFallsDue, Held
  <2> QED
    BY <1>k, <2>1
<1>2. ASSUME NEW w \in Workers, NEW j \in Jobs, LeaseJob(w, j) PROVE RetrySound'
  BY <1>2, <1>a DEF LeaseJob, RetrySound, Owns, Held
<1>3. ASSUME NEW w \in Workers, UpdateProgress(w) PROVE RetrySound'
  BY <1>3, <1>a DEF UpdateProgress, RetrySound, Owns, Held
<1>4. ASSUME NEW w \in Workers, HandlerReturns(w) \/ TaskRaises(w) \/ ReportFailure(w)
                                 \/ Heartbeat(w) \/ ShutDown(w) \/ Exit(w) \/ Crash(w)
      PROVE  RetrySound'
  <2>1. /\ UNCHANGED <<status, locked_by, attempt_count>>
        /\ \A v \in Workers : pc'[v] = "failing" => pc[v] = "failing" /\ cur'[v] = cur[v]
                                                    /\ plan'[v] = plan[v]
    BY <1>4 DEF HandlerReturns, TaskRaises, ReportFailure, Heartbeat, ShutDown, Exit, Crash, Stop
  <2> QED
    BY <2>1 DEF RetrySound, Owns
<1>5. ASSUME NEW w \in Workers, CompleteJob(w) PROVE RetrySound'
  <2>1. /\ UNCHANGED <<locked_by, attempt_count, plan>>
        /\ \A v \in Workers : pc'[v] = "failing" => pc[v] = "failing" /\ cur'[v] = cur[v]
    BY <1>5 DEF CompleteJob
  <2>2. \A j \in Jobs : /\ status'[j] = "absent" => status[j] = "absent"
                        /\ status'[j] \in Held => status[j] \in Held
    BY <1>5 DEF CompleteJob, Completion, Held
  <2> QED
    BY <1>a, <2>1, <2>2 DEF RetrySound, Owns
<1>6. ASSUME NEW w \in Workers, FailJobRead(w) PROVE RetrySound'
  <2>1. UNCHANGED <<status, locked_by, attempt_count>>
    BY <1>6 DEF FailJobRead
  <2>2. \A v \in Workers \ {w} : pc'[v] = pc[v] /\ cur'[v] = cur[v] /\ plan'[v] = plan[v]
    BY <1>6 DEF FailJobRead
  <2>3. pc'[w] = "failing" => cur'[w] = cur[w] /\ plan'[w] = ChosenPlan(w)
    BY <1>6 DEF FailJobRead
  <2>4. ChosenPlan(w) = "guarded_retry" => attempt_count[cur[w]] < MaxAttempts
    BY DEF ChosenPlan
  <2> QED
    BY <2>1, <2>2, <2>3, <2>4 DEF RetrySound, Owns
<1>7. ASSUME NEW w \in Workers, FailJobWrite(w) PROVE RetrySound'
  <2>1. cur[w] \in Jobs
    BY <1>7, <1>a DEF FailJobWrite
  <2>2. /\ UNCHANGED attempt_count
        /\ \A v \in Workers : pc'[v] = "failing" => pc[v] = "failing" /\ cur'[v] = cur[v]
                                                    /\ plan'[v] = plan[v]
    BY <1>7, <2>1 DEF FailJobWrite
  <2>3. \A j \in Jobs : /\ status'[j] = "absent" => status[j] = "absent"
                        /\ status'[j] \in Held => status[j] \in Held /\ locked_by'[j] = locked_by[j]
    BY <1>7, <2>1 DEF FailJobWrite, Held
  <2> QED
    BY <1>k, <2>2, <2>3
<1>8. ASSUME NEW w \in Workers, RecoverStaleJobs(w) PROVE RetrySound'
  <2>1. /\ UNCHANGED <<attempt_count, pc, cur, plan>>
        /\ \A j \in Jobs : /\ status'[j] = "absent" => status[j] = "absent"
                           /\ status'[j] \in Held => status[j] \in Held /\ locked_by'[j] = locked_by[j]
    BY <1>8 DEF RecoverStaleJobs, Stale, Held
  <2> QED
    BY <1>a, <2>1 DEF RetrySound, Owns
<1>9. CASE UNCHANGED vars
  BY <1>9 DEF vars, RetrySound, Owns
<1> QED
  BY <1>1, <1>2, <1>3, <1>4, <1>5, <1>6, <1>7, <1>8, <1>9 DEF Next, WorkerStep

\* A step that neither adds a zombie nor moves a row further ahead than
\* max_attempts keeps both bounds.
LEMMA CalmStep ==
  ASSUME TypeOK, TypeOK', ZombiesSpareOne, AheadBounded, NEW j \in Jobs,
         Zombies(j)' \subseteq Zombies(j),
         attempt_count'[j] = attempt_count[j],
         Ahead(j)' <= Ahead(j) \/ Ahead(j)' <= MaxAttempts
  PROVE  /\ attempt_count'[j] >= MaxAttempts => Cardinality(Zombies(j)') <= Cardinality(Workers) - 1
         /\ \/ Ahead(j)' <= MaxAttempts
            \/ Ahead(j)' + Cardinality(Zombies(j)') <= MaxAttempts + Cardinality(Workers) - 1
<1>1. PICK w \in Workers : TRUE
  BY ConstantsAssumption
<1>2. /\ Cardinality(Workers) \in Nat /\ MaxAttempts \in Nat
      /\ IsFiniteSet(Zombies(j)) /\ Cardinality(Zombies(j)) \in Nat
  BY <1>1, ZombieCounts, ConstantsAssumption
<1>3. /\ Cardinality(Zombies(j)') <= Cardinality(Zombies(j))
      /\ Cardinality(Zombies(j)') \in Nat
  BY <1>2, FS_Subset, FS_CardinalityType
<1>4. Ahead(j) \in Nat /\ Ahead(j)' \in Nat /\ attempt_count[j] \in Nat
  BY DEF Ahead, TypeOK
<1> QED
  BY <1>2, <1>3, <1>4 DEF ZombiesSpareOne, AheadBounded

\* Every step keeps both bounds.  Only fail_job's unguarded UPDATE moves an
\* exhausted row ahead, and it uses up a zombie.
LEMMA BoundsKept ==
  ASSUME TypeOK, TypeOK', AttemptInv, [Next]_vars
  PROVE  ZombiesSpareOne' /\ AheadBounded'
<1> DEFINE Fine(j) ==
      /\ attempt_count'[j] >= MaxAttempts => Cardinality(Zombies(j)') <= Cardinality(Workers) - 1
      /\ \/ Ahead(j)' <= MaxAttempts
         \/ Ahead(j)' + Cardinality(Zombies(j)') <= MaxAttempts + Cardinality(Workers) - 1
<1> SUFFICES ASSUME NEW j \in Jobs PROVE Fine(j)
  BY DEF ZombiesSpareOne, AheadBounded
<1>0. None \notin Jobs /\ None \notin Workers /\ MaxAttempts \in Nat \ {0} /\ attempt_count[j] \in Nat
  BY ConstantsAssumption DEF TypeOK
<1>a. \A w \in Workers : pc[w] \notin {"idle", "down"} => cur[w] \in Jobs
  BY DEF TypeOK
<1>b. RetrySound /\ ZombiesSpareOne /\ AheadBounded
  BY DEF AttemptInv
\* A step that is calm for j.
<1>c. ASSUME /\ \A v \in Workers : pc'[v] = "failing" /\ plan'[v] = "bare_retry" /\ cur'[v] = j
                                  => pc[v] = "failing" /\ plan[v] = "bare_retry" /\ cur[v] = j
             /\ attempt_count'[j] = attempt_count[j]
             /\ Waiting(j)' => Waiting(j) \/ attempt_count[j] < MaxAttempts
      PROVE  Fine(j)
  <2>1. Zombies(j)' \subseteq Zombies(j)
    BY <1>c DEF Zombies
  <2>2. Ahead(j)' <= Ahead(j) \/ Ahead(j)' <= MaxAttempts
    BY <1>0, <1>c DEF Ahead
  <2> QED
    BY <1>b, <1>c, <2>1, <2>2, CalmStep
<1> USE <1>0 DEF TypeOK, rows, procs
<1>1. ASSUME NEW k \in Jobs, JobStep(k) PROVE Fine(j)
  <2>1. UNCHANGED <<attempt_count, pc, cur, plan>>
    BY <1>1 DEF JobStep, EnqueueJob, LeaseLapses, RetryFallsDue
  <2>2. Waiting(j)' => Waiting(j) \/ status[j] = "absent"
    BY <1>1 DEF JobStep, EnqueueJob, LeaseLapses, RetryFallsDue, Waiting
  <2>3. status[j] = "absent" => attempt_count[j] < MaxAttempts
    BY <1>b DEF RetrySound
  <2> QED
    BY <1>c, <2>1, <2>2, <2>3
<1>2. ASSUME NEW w \in Workers, NEW k \in Jobs, LeaseJob(w, k) PROVE Fine(j)
  <2>1. /\ UNCHANGED plan
        /\ \A v \in Workers : pc'[v] = "failing" => pc[v] = "failing" /\ cur'[v] = cur[v]
        /\ pc'[w] = "leased"
    BY <1>2 DEF LeaseJob
  <2>2. CASE j # k
    <3>1. attempt_count'[j] = attempt_count[j] /\ (Waiting(j)' => Waiting(j))
      BY <1>2, <2>2 DEF LeaseJob, Waiting
    <3> QED
      BY <1>c, <2>1, <3>1
  <2>3. CASE j = k
    <3>1. attempt_count'[j] = attempt_count[j] + 1 /\ Waiting(j) /\ ~Waiting(j)'
      BY <1>2, <2>3 DEF LeaseJob, Candidate, Leaseable, Waiting
    <3>2. Ahead(j)' = Ahead(j) /\ Ahead(j) \in Nat
      BY <3>1 DEF Ahead
    <3>3. Zombies(j)' \subseteq Zombies(j) /\ w \notin Zombies(j)
      BY <1>2, <2>1 DEF Zombies, LeaseJob
    <3>4. /\ Cardinality(Workers) \in Nat /\ Cardinality(Zombies(j)) \in Nat
          /\ IsFiniteSet(Zombies(j)) /\ Cardinality(Zombies(j)) <= Cardinality(Workers) - 1
      BY <3>3, ZombieCounts
    <3>5. Cardinality(Zombies(j)') \in Nat /\ Cardinality(Zombies(j)') <= Cardinality(Zombies(j))
      BY <3>3, <3>4, FS_Subset, FS_CardinalityType
    <3> QED
      BY <1>b, <3>2, <3>4, <3>5 DEF AheadBounded
  <2> QED
    BY <2>2, <2>3
<1>3. ASSUME NEW w \in Workers,
             UpdateProgress(w) \/ HandlerReturns(w) \/ TaskRaises(w) \/ ReportFailure(w)
               \/ Heartbeat(w) \/ ShutDown(w) \/ Exit(w) \/ Crash(w)
      PROVE  Fine(j)
  <2>1. /\ UNCHANGED attempt_count
        /\ \A v \in Workers : pc'[v] = "failing" => /\ pc[v] = "failing" /\ cur'[v] = cur[v]
                                                    /\ plan'[v] = plan[v]
    BY <1>3 DEF UpdateProgress, HandlerReturns, TaskRaises, ReportFailure, Heartbeat, ShutDown,
                Exit, Crash, Stop
  <2>2. Waiting(j)' => Waiting(j)
    BY <1>3 DEF UpdateProgress, HandlerReturns, TaskRaises, ReportFailure, Heartbeat, ShutDown,
                Exit, Crash, Stop, Waiting
  <2> QED
    BY <1>c, <2>1, <2>2
<1>4. ASSUME NEW w \in Workers, CompleteJob(w) PROVE Fine(j)
  <2>1. /\ UNCHANGED <<attempt_count, plan>>
        /\ \A v \in Workers : pc'[v] = "failing" => pc[v] = "failing" /\ cur'[v] = cur[v]
    BY <1>4 DEF CompleteJob
  <2>2. Waiting(j)' => Waiting(j) \/ status[j] = "absent"
    <3>1. status'[j] = status[j] \/ status'[j] = "succeeded" \/ status[j] = "absent"
      BY <1>4 DEF CompleteJob, Completion
    <3> QED
      BY <3>1 DEF Waiting
  <2>3. status[j] = "absent" => attempt_count[j] < MaxAttempts
    BY <1>b DEF RetrySound
  <2> QED
    BY <1>c, <2>1, <2>2, <2>3
<1>5. ASSUME NEW w \in Workers, FailJobRead(w) PROVE Fine(j)
  <2>1. UNCHANGED <<status, attempt_count>>
    BY <1>5 DEF FailJobRead
  <2>2. \A v \in Workers \ {w} : pc'[v] = pc[v] /\ cur'[v] = cur[v] /\ plan'[v] = plan[v]
    BY <1>5 DEF FailJobRead
  <2>3. pc'[w] = "failing" => cur'[w] = cur[w] /\ plan'[w] = ChosenPlan(w)
    BY <1>5 DEF FailJobRead
  <2>4. ChosenPlan(w) = "bare_retry" => attempt_count[cur[w]] < MaxAttempts
    BY DEF ChosenPlan
  <2>5. CASE attempt_count[j] < MaxAttempts
    BY <2>1, <2>5 DEF Ahead
  <2>6. CASE attempt_count[j] >= MaxAttempts
    <3>1. Waiting(j)' => Waiting(j)
      BY <2>1 DEF Waiting
    <3>2. ~(pc'[w] = "failing" /\ plan'[w] = "bare_retry" /\ cur'[w] = j)
      BY <2>3, <2>4, <2>6
    <3> QED
      BY <1>c, <2>1, <2>2, <3>1, <3>2
  <2> QED
    BY <2>5, <2>6
<1>6. ASSUME NEW w \in Workers, FailJobWrite(w) PROVE Fine(j)
  <2>1. cur[w] \in Jobs /\ pc[w] = "failing"
    BY <1>6, <1>a DEF FailJobWrite
  <2>2. /\ UNCHANGED attempt_count
        /\ pc'[w] # "failing"
        /\ \A v \in Workers \ {w} : pc'[v] = pc[v] /\ cur'[v] = cur[v] /\ plan'[v] = plan[v]
    BY <1>6, <2>1 DEF FailJobWrite
  <2>3. Waiting(j)' => \/ Waiting(j)
                       \/ j = cur[w] /\ plan[w] = "bare_retry"
                       \/ j = cur[w] /\ plan[w] = "guarded_retry" /\ Owns(w, j)
    <3>1. j # cur[w] => status'[j] = status[j]
      BY <1>6, <2>1 DEF FailJobWrite
    <3>2. j = cur[w] /\ plan[w] \notin {"bare_retry", "guarded_retry"} =>
            status'[j] = status[j] \/ status'[j] = "failed"
      BY <1>6, <2>1 DEF FailJobWrite
    <3>3. j = cur[w] /\ plan[w] = "guarded_retry" /\ ~Owns(w, j) => status'[j] = status[j]
      BY <1>6, <2>1 DEF FailJobWrite
    <3> QED
      BY <3>1, <3>2, <3>3 DEF Waiting
  <2>4. CASE ~(j = cur[w] /\ plan[w] = "bare_retry")
    <3>1. j = cur[w] /\ plan[w] = "guarded_retry" /\ Owns(w, j) => attempt_count[j] < MaxAttempts
      BY <1>b, <2>1 DEF RetrySound
    <3>2. Waiting(j)' => Waiting(j) \/ attempt_count[j] < MaxAttempts
      BY <2>3, <2>4, <3>1
    <3> QED
      BY <1>c, <2>2, <3>2
  <2>5. CASE j = cur[w] /\ plan[w] = "bare_retry"
    <3>1. w \in Zombies(j) /\ Zombies(j)' = Zombies(j) \ {w}
      BY <2>1, <2>2, <2>5 DEF Zombies
    <3>2. /\ Cardinality(Workers) \in Nat /\ Cardinality(Zombies(j)) \in Nat
          /\ IsFiniteSet(Zombies(j)) /\ Cardinality(Zombies(j)) <= Cardinality(Workers)
      BY ZombieCounts
    <3>3. Cardinality(Zombies(j)') = Cardinality(Zombies(j)) - 1
      BY <3>1, <3>2, FS_RemoveElement
    <3>4. /\ Ahead(j) \in Nat /\ Ahead(j)' \in Nat /\ attempt_count[j] <= Ahead(j)
          /\ Ahead(j)' <= attempt_count[j] + 1 /\ attempt_count'[j] = attempt_count[j]
      BY <2>2 DEF Ahead
    <3>5. attempt_count[j] >= MaxAttempts => Cardinality(Zombies(j)) <= Cardinality(Workers) - 1
      BY <1>b DEF ZombiesSpareOne
    <3>6. \/ Ahead(j) <= MaxAttempts
          \/ Ahead(j) + Cardinality(Zombies(j)) <= MaxAttempts + Cardinality(Workers) - 1
      BY <1>b DEF AheadBounded
    <3> QED
      BY <3>2, <3>3, <3>4, <3>5, <3>6
  <2> QED
    BY <2>4, <2>5
<1>7. ASSUME NEW w \in Workers, RecoverStaleJobs(w) PROVE Fine(j)
  <2>1. UNCHANGED <<attempt_count, pc, cur, plan>>
    BY <1>7 DEF RecoverStaleJobs
  <2>2. Waiting(j)' => Waiting(j) \/ attempt_count[j] < MaxAttempts
    BY <1>7 DEF RecoverStaleJobs, Waiting
  <2> QED
    BY <1>c, <2>1, <2>2
<1>8. CASE UNCHANGED vars
  <2>1. UNCHANGED <<status, attempt_count, pc, cur, plan>>
    BY <1>8 DEF vars
  <2>2. Waiting(j)' => Waiting(j)
    BY <2>1 DEF Waiting
  <2> QED
    BY <1>c, <2>1, <2>2
<1> HIDE DEF Fine
<1> QED
  BY <1>1, <1>2, <1>3, <1>4, <1>5, <1>6, <1>7, <1>8 DEF Next, WorkerStep

\* Whatever leases are lost, a job is leased at most max_attempts times plus
\* once for every worker but one.
THEOREM AttemptsAreBounded == Spec => []AttemptsBounded
<1>1. Init => AttemptInv
  <2> SUFFICES ASSUME Init PROVE AttemptInv
    OBVIOUS
  <2>1. RetrySound
    BY DEF Init, RetrySound
  <2>2. \A j \in Jobs : attempt_count[j] = 0 /\ Ahead(j) = 0 /\ MaxAttempts \in Nat \ {0}
    BY ConstantsAssumption DEF Init, Ahead, Waiting
  <2> QED
    BY <2>1, <2>2 DEF AttemptInv, ZombiesSpareOne, AheadBounded
<1>2. TypeOK /\ TypeOK' /\ AttemptInv /\ [Next]_vars => AttemptInv'
  BY RetrySoundKept, BoundsKept DEF AttemptInv
<1>3. TypeOK /\ AttemptInv => AttemptsBounded
  <2> SUFFICES ASSUME TypeOK, AttemptInv, NEW j \in Jobs
               PROVE  attempt_count[j] <= MaxAttempts + Cardinality(Workers) - 1
    BY DEF AttemptsBounded
  <2>1. PICK w \in Workers : TRUE
    BY ConstantsAssumption
  <2>2. /\ Cardinality(Workers) \in Nat \ {0} /\ Cardinality(Zombies(j)) \in Nat
        /\ MaxAttempts \in Nat
    BY <2>1, ZombieCounts, ConstantsAssumption
  <2>3. attempt_count[j] \in Nat /\ Ahead(j) \in Nat /\ attempt_count[j] <= Ahead(j)
    BY DEF TypeOK, Ahead
  <2> QED
    BY <2>2, <2>3 DEF AttemptInv, AheadBounded
<1> QED
  BY <1>1, <1>2, <1>3, TypeCorrect, PTL DEF Spec
=============================================================================
