----------------------------- MODULE JobDelivery ----------------------------
(***************************************************************************)
(* What the job queue promises to those who enqueue jobs and write their   *)
(* handlers, without rows, leases, heartbeats or workers: a submitted job  *)
(* is tried a bounded number of times and then ends once, with a success   *)
(* that submits at most one following stage in the same moment, or with a  *)
(* failure after the last try (app/services/jobs/queue.py).                *)
(***************************************************************************)
EXTENDS Naturals

CONSTANTS
  Jobs,
  Roots,      \* jobs that clients submit
  NextJobs,   \* the jobs that each job's handler may hand over to
  Supported,  \* jobs that have a handler
  MaxAttempts

VARIABLES
  outcome,    \* "absent", "pending", "succeeded" or "failed"
  tries

deliveryVars == <<outcome, tries>>

DeliveryInit ==
  /\ outcome = [j \in Jobs |-> "absent"]
  /\ tries = [j \in Jobs |-> 0]

\* create_job.
Submit(j) ==
  /\ outcome[j] = "absent"
  /\ outcome' = [outcome EXCEPT ![j] = "pending"]
  /\ UNCHANGED tries

\* lease_job.
Try(j) ==
  /\ outcome[j] = "pending"
  /\ tries[j] < MaxAttempts
  /\ tries' = [tries EXCEPT ![j] = @ + 1]
  /\ UNCHANGED outcome

\* complete_job, where n is j itself, and complete_job_and_enqueue, where n was
\* enqueued before or is submitted now.
Succeed(j, n) ==
  /\ outcome[j] = "pending"
  /\ tries[j] > 0
  /\ outcome' = [k \in Jobs |-> IF k = j THEN "succeeded"
                                ELSE IF k = n /\ outcome[k] = "absent" THEN "pending"
                                ELSE outcome[k]]
  /\ UNCHANGED tries

\* fail_job of one job, or recover_stale_jobs of several.
GiveUp(S) ==
  /\ \A j \in S : /\ outcome[j] = "pending"
                  /\ tries[j] = MaxAttempts \/ (j \notin Supported /\ tries[j] > 0)
  /\ outcome' = [j \in Jobs |-> IF j \in S THEN "failed" ELSE outcome[j]]
  /\ UNCHANGED tries

DeliveryNext ==
  \/ \E j \in Roots : Submit(j)
  \/ \E j \in Jobs : Try(j)
  \/ \E j \in Jobs : \E n \in NextJobs[j] \cup {j} : Succeed(j, n)
  \/ \E S \in SUBSET Jobs : GiveUp(S)

DeliverySpec == DeliveryInit /\ [][DeliveryNext]_deliveryVars
=============================================================================
