--------------------------- MODULE SourceRetention ---------------------------
(***************************************************************************)
(* The temporary sources of Multiple Ask and their removal: upload         *)
(* sessions, the private objects students upload, the batches made of      *)
(* them, and the retention pass that the railway_public workers run beside *)
(* their jobs (app/services/multiple_ask.py,                               *)
(* app/repositories/multiple_ask_repository.py, app/workers/main.py).      *)
(*                                                                         *)
(* A pass claims expired rows in one transaction, asks the storage for     *)
(* each object outside of any, and settles each row in a transaction of    *)
(* its own.  Its bound on claimed rows is above the number of rows here.   *)
(* What happens to a batch between finalization and its end is MultipleAsk;*)
(* pasted texts, which have no object, are left out.                       *)
(***************************************************************************)
EXTENDS Sequences, SequencesExt

CONSTANTS
  Uploads,         \* ids of upload sessions and of their batches
  Cleaners,        \* worker processes that run the pass
  StorageMayFail,  \* whether a deletion may fail or its reply be lost
  MayStop          \* whether a pass may be cut off: shutdown, crash, database error

ASSUME RetentionAssumption ==
  IsFiniteSet(Uploads) /\ StorageMayFail \in BOOLEAN /\ MayStop \in BOOLEAN

VARIABLES
  upload,        \* multiple_ask_upload_sessions: status, key; and deadlines passed
  stored,        \* objects in the private bucket
  late,          \* those that arrived after their upload capability had expired
  batch,         \* multiple_ask_jobs: "none", "open", "finished", "deleted"
  mcqResults,    \* batches that a row of multiple_ask_mcq_batches refers to
  claimed,       \* cleanup_claimed_at within five minutes, of sessions and of jobs
  cleaning       \* what each worker's pass is doing

retentionVars == <<upload, stored, late, batch, mcqResults, claimed, cleaning>>

Deadlines == {"capability", "raw_source", "retention"}
ClaimKinds == {"session", "job"}

NoPass == [stage |-> "jobs", todo |-> <<>>, answer |-> "none"]

RetentionInit ==
  /\ upload = [s \in Uploads |-> [status |-> "none", key |-> FALSE, passed |-> {}]]
  /\ stored = {} /\ late = {}
  /\ batch = [s \in Uploads |-> "none"]
  /\ mcqResults = {}
  /\ claimed = [kind \in ClaimKinds |-> {}]
  /\ cleaning = [w \in Cleaners |-> NoPass]

-----------------------------------------------------------------------------
(* The student *)

\* create_file_session.
OpenSession(s) ==
  /\ upload[s].status = "none"
  /\ upload' = [upload EXCEPT ![s] = [status |-> "created", key |-> TRUE, passed |-> {}]]
  /\ UNCHANGED <<stored, late, batch, mcqResults, claimed, cleaning>>

\* The upload to the signed URL, which never overwrites an object.  The storage
\* honours the URL for longer than the service does, but not for a day.
UploadObject(s) ==
  /\ upload[s].status # "none"
  /\ s \notin stored
  /\ "raw_source" \notin upload[s].passed
  /\ stored' = stored \cup {s}
  /\ late' = IF "capability" \in upload[s].passed THEN late \cup {s} ELSE late
  /\ UNCHANGED <<upload, batch, mcqResults, claimed, cleaning>>

\* Mutant: the deadline is not looked at.
OpenForFinalization(s) == upload[s].status = "created"

\* finalize_file's check under the lock of the row.
Finalizable(s) == upload[s].status = "created" /\ "capability" \notin upload[s].passed

\* finalize_file.
FinalizeSession(s) ==
  /\ Finalizable(s)
  /\ upload' = [upload EXCEPT ![s].status = "finalized"]
  /\ batch' = [batch EXCEPT ![s] = "open"]
  /\ UNCHANGED <<stored, late, mcqResults, claimed, cleaning>>

\* save_mcq_batch.
SaveMcqResult(s) ==
  /\ batch[s] = "open"
  /\ mcqResults' = mcqResults \cup {s}
  /\ UNCHANGED <<upload, stored, late, batch, claimed, cleaning>>

\* mark_terminal, finish_answers.
FinishBatch(s) ==
  /\ batch[s] = "open"
  /\ batch' = [batch EXCEPT ![s] = "finished"]
  /\ UNCHANGED <<upload, stored, late, mcqResults, claimed, cleaning>>

-----------------------------------------------------------------------------
(* Time *)

\* upload_capability_expires_at, after 15 minutes; raw_source_expires_at, a day after
\* the finalization; or retention_expires_at, a week after the batch ended.
DeadlinePasses(s, deadline) ==
  /\ deadline \notin upload[s].passed
  /\ upload[s].status # "none"
  /\ deadline = "raw_source" => /\ upload[s].status = "finalized"
                                /\ "capability" \in upload[s].passed
  /\ deadline = "retention" => batch[s] = "finished" /\ "raw_source" \in upload[s].passed
  /\ upload' = [upload EXCEPT ![s].passed = @ \cup {deadline}]
  /\ UNCHANGED <<stored, late, batch, mcqResults, claimed, cleaning>>

\* A claim is five minutes old.
ClaimExpires(kind, s) ==
  /\ s \in claimed[kind]
  /\ claimed' = [claimed EXCEPT ![kind] = @ \ {s}]
  /\ UNCHANGED <<upload, stored, late, batch, mcqResults, cleaning>>

-----------------------------------------------------------------------------
(* MultipleAskRetentionService.cleanup_once *)

NextStage(stage) ==
  CASE stage = "jobs" -> "unfinalized" [] stage = "unfinalized" -> "raw_sources"
    [] stage = "raw_sources" -> "jobs"

KindOf(stage) == IF stage = "jobs" THEN "job" ELSE "session"

\* What claim_expired_unfinalized, claim_expired_raw_sources and claim_expired_jobs
\* may find.
Due(stage) ==
  {s \in Uploads \ claimed[KindOf(stage)] :
     LET row == upload[s]
     IN  CASE stage = "unfinalized" -> row.status = "created" /\ "capability" \in row.passed
           [] stage = "raw_sources" -> row.status = "finalized" /\ "raw_source" \in row.passed
           [] stage = "jobs" -> batch[s] = "finished" /\ "retention" \in row.passed}

\* The claim of a stage returns the rows as they are, in any order of their expiry.
ClaimDue(w) ==
  LET stage == NextStage(cleaning[w].stage)
  IN  /\ cleaning[w].todo = <<>>
      /\ \E due \in SetToSeqs(Due(stage)) :
           /\ claimed' = [claimed EXCEPT ![KindOf(stage)] = @ \cup ToSet(due)]
           /\ cleaning' = [cleaning EXCEPT ![w] =
                [stage |-> stage, answer |-> "none",
                 todo |-> [i \in DOMAIN due |-> [id |-> due[i], key |-> upload[due[i]].key]]]]
      /\ UNCHANGED <<upload, stored, late, batch, mcqResults>>

\* _delete_storage_if_present.
DeleteObject(w) ==
  LET s == Head(cleaning[w].todo)
  IN  /\ cleaning[w].todo # <<>> /\ cleaning[w].answer = "none"
      /\ \/ /\ cleaning' = [cleaning EXCEPT ![w].answer = "deleted"]
            /\ stored' = IF s.key THEN stored \ {s.id} ELSE stored
         \/ /\ StorageMayFail /\ s.key
            /\ cleaning' = [cleaning EXCEPT ![w].answer = "failed"]
            /\ stored' \in {stored, stored \ {s.id}}
      /\ UNCHANGED <<upload, late, batch, mcqResults, claimed>>

Rest(w) == cleaning' = [cleaning EXCEPT ![w].todo = Tail(@), ![w].answer = "none"]

\* An exception ends the pass; what it has claimed stays claimed.
EndPass(w) == cleaning' = [cleaning EXCEPT ![w] = NoPass]

\* release_cleanup_claim, release_job_cleanup_claim.
Release(w, s) ==
  claimed' = [claimed EXCEPT ![KindOf(cleaning[w].stage)] = @ \ {s}]

\* _cleanup_failure.
KeepRow(w) ==
  LET s == Head(cleaning[w].todo).id
  IN  /\ cleaning[w].answer = "failed"
      /\ IF upload[s].status = "deleted" THEN EndPass(w) /\ UNCHANGED claimed
                                         ELSE Rest(w) /\ Release(w, s)
      /\ UNCHANGED <<upload, stored, late, batch, mcqResults>>

\* purge_raw_source.
PurgeSource(w) ==
  LET s == Head(cleaning[w].todo).id
  IN  /\ cleaning[w].answer = "deleted" /\ cleaning[w].stage = "raw_sources"
      /\ IF upload[s].status = "deleted" THEN EndPass(w) /\ UNCHANGED <<upload, claimed>>
         ELSE /\ upload' = [upload EXCEPT ![s].status = "raw_source_purged", ![s].key = FALSE]
              /\ Rest(w) /\ Release(w, s)
      /\ UNCHANGED <<stored, late, batch, mcqResults>>

\* Mutant: the answer of the storage is not waited for.
Answered(w) == cleaning[w].answer # "none"

Gone(w) == cleaning[w].answer = "deleted"

\* delete_unfinalized_session, delete_expired_job_and_session.  The audit row needs
\* the session, and a batch that an MCQ result refers to cannot be deleted (ON
\* DELETE RESTRICT): either ends the pass.
DeleteRows(w) ==
  LET s == Head(cleaning[w].todo).id
  IN  /\ cleaning[w].todo # <<>> /\ Gone(w) /\ cleaning[w].stage # "raw_sources"
      /\ IF upload[s].status = "deleted" \/ s \in mcqResults
           THEN EndPass(w) /\ UNCHANGED <<upload, batch>>
           ELSE /\ upload' = [upload EXCEPT ![s].status = "deleted", ![s].key = FALSE]
                /\ batch' = [batch EXCEPT ![s] = IF @ = "none" THEN @ ELSE "deleted"]
                /\ Rest(w)
      /\ UNCHANGED <<stored, late, mcqResults, claimed>>

\* Any other error, the shutdown or the end of the process.
PassStops(w) ==
  /\ MayStop
  /\ cleaning[w] # NoPass
  /\ EndPass(w)
  /\ UNCHANGED <<upload, stored, late, batch, mcqResults, claimed>>

CleanUp(w) == ClaimDue(w) \/ DeleteObject(w) \/ KeepRow(w) \/ PurgeSource(w) \/ DeleteRows(w)

-----------------------------------------------------------------------------
RetentionNext ==
  \/ \E s \in Uploads :
       \/ OpenSession(s) \/ UploadObject(s) \/ FinalizeSession(s) \/ SaveMcqResult(s)
       \/ FinishBatch(s)
       \/ \E deadline \in Deadlines : DeadlinePasses(s, deadline)
       \/ \E kind \in ClaimKinds : ClaimExpires(kind, s)
  \/ \E w \in Cleaners : CleanUp(w) \/ PassStops(w)

RetentionSpec == RetentionInit /\ [][RetentionNext]_retentionVars

\* Time passes, and the loop starts a pass every five minutes and carries it on.
RetentionFairness ==
  /\ \A s \in Uploads :
       /\ \A deadline \in Deadlines : WF_retentionVars(DeadlinePasses(s, deadline))
       /\ \A kind \in ClaimKinds : WF_retentionVars(ClaimExpires(kind, s))
  /\ \A w \in Cleaners : WF_retentionVars(CleanUp(w))

-----------------------------------------------------------------------------
(* Properties *)

\* No private source is lost track of: while an object that was uploaded in time is
\* in the bucket a session row has its key, although deletions fail, replies are
\* lost, passes are cut off, and two workers may hold the same claim.
NothingForgotten == \A s \in stored \ late : upload[s].key

\* The source of a submitted batch stays for its day: neither a pass that had
\* claimed the session as abandoned nor any other one takes it or its rows away.
SourceKeptForItsDay ==
  [][\A s \in Uploads :
       upload[s].status = "finalized" /\ "raw_source" \notin upload[s].passed =>
         /\ s \in stored => s \in stored'
         /\ upload'[s].status = "finalized" /\ batch'[s] # "deleted"]_retentionVars

\* A finished batch is deleted when its week is over.
FinishedBatchesGo == \A s \in Uploads : batch[s] = "finished" ~> batch[s] = "deleted"
=============================================================================
