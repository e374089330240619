---------------------------- MODULE QuestionBank ----------------------------
(***************************************************************************)
(* The trusted bank of approved questions and the pool of generated        *)
(* candidates that feeds it, in one chapter: creation, import, review,     *)
(* retention, variations, embedding, and the cleanup when the chapter is   *)
(* replaced or deleted (app/api/v1/ask_admin.py,                           *)
(* app/repositories/question_bank_repository.py, ask_repository.py,        *)
(* app/services/answers/retention.py,                                      *)
(* app/services/ingestion/embed_question_bank.py).                         *)
(*                                                                         *)
(* A question has one revision: no operation supersedes one.  A revision   *)
(* has at most one variation, and its texts never change; citations,       *)
(* options and visual links are left out.  An operation of the             *)
(* administrator is one transaction; the review of a candidate reads it    *)
(* without a lock and is two steps.                                        *)
(***************************************************************************)
EXTENDS FiniteSets, Naturals

CONSTANTS
  Revisions,    \* ids of revisions
  Candidates,   \* generated answers stored in ai_answers
  ImportKeys,
  Reviewers,    \* administrators reviewing candidates
  NoRevision,
  MaxRequeues   \* bound: changes of variations and requeued embeddings

ASSUME BankAssumption ==
  /\ NoRevision \notin Revisions
  /\ MaxRequeues \in Nat

VARIABLES
  revision,   \* question_bank_revisions
  variation,  \* question_bank_variations, one for each revision
  candidate,  \* ai_answers: review_status, approved_revision_id, expiry
  imports,    \* question_bank_imports: the revision of each key, or NoRevision
  bankJob,    \* job_queue: per revision and text, the row of its idempotency key
  embedder,   \* the execution of an embedding job
  review,     \* per reviewer, the candidate whose inspection said pending
  requeues,   \* how many of those there were
  requeued    \* revisions whose embedding was reset by hand

bankVars == <<revision, variation, candidate, imports, bankJob, embedder, review, requeues, requeued>>

Kinds == {"revision", "variation"}

NoEmbedder == [pc |-> "idle", job |-> <<>>, rows |-> {}]

BankInit ==
  /\ revision = [r \in Revisions |-> [status |-> "none", source |-> "none", embedding |-> "none"]]
  /\ variation = [r \in Revisions |-> [status |-> "none", embedding |-> "none"]]
  /\ candidate = [c \in Candidates |-> [status |-> "pending", revision |-> NoRevision, expires |-> TRUE]]
  /\ imports = [i \in ImportKeys |-> NoRevision]
  /\ bankJob = [r \in Revisions |-> [k \in Kinds |-> "none"]]
  /\ embedder = NoEmbedder
  /\ review = [a \in Reviewers |-> {}]
  /\ requeues = 0
  /\ requeued = {}

Approved == {r \in Revisions : revision[r].status = "approved"}

-----------------------------------------------------------------------------
(* Creation *)

\* create_approved_revision, pending its first embedding.
Created(r, source) ==
  [revision EXCEPT ![r] = [status |-> "approved", source |-> source, embedding |-> "pending"]]

\* enqueue_job: an existing row of the idempotency key stays as it is.
EnqueueEmbedding(r, k) ==
  bankJob' = IF bankJob[r][k] = "none" THEN [bankJob EXCEPT ![r][k] = "queued"] ELSE bankJob

\* _create_approved: a row of its own.
CreateApproved(r, source) == revision[r].status = "none" /\ revision' = Created(r, source)

\* bank_create.
BankCreate(r) ==
  /\ CreateApproved(r, "admin_authored")
  /\ EnqueueEmbedding(r, "revision")
  /\ UNCHANGED <<variation, candidate, imports, embedder, review, requeues, requeued>>

\* bank_import of one question: the key is imported once, under its advisory lock.
BankImport(i, r) ==
  /\ imports[i] = NoRevision
  /\ imports' = [imports EXCEPT ![i] = r]
  /\ CreateApproved(r, "admin_import")
  /\ EnqueueEmbedding(r, "revision")
  /\ UNCHANGED <<variation, candidate, embedder, review, requeues, requeued>>

-----------------------------------------------------------------------------
(* Review and retention of candidates *)

\* inspect_candidate, for an approval or a rejection.
Inspect(a, c) ==
  /\ review[a] = {}
  /\ candidate[c].status = "pending"
  /\ review' = [review EXCEPT ![a] = {c}]
  /\ UNCHANGED <<revision, variation, candidate, imports, bankJob, embedder, requeues, requeued>>

\* Mutant: the number of updated rows is not looked at.
ApproveUncounted(a, r) ==
  \E c \in review[a] :
    /\ CreateApproved(r, "generated_candidate")
    /\ EnqueueEmbedding(r, "revision")
    /\ candidate' = IF candidate[c].status = "pending"
         THEN [candidate EXCEPT ![c] = [status |-> "approved", revision |-> r, expires |-> FALSE]]
         ELSE candidate
    /\ review' = [review EXCEPT ![a] = {}]
    /\ UNCHANGED <<variation, imports, embedder, requeues, requeued>>

\* candidate_approve.
Approve(a, r) ==
  \E c \in review[a] :
    /\ candidate[c].status = "pending"
    /\ CreateApproved(r, "generated_candidate")
    /\ EnqueueEmbedding(r, "revision")
    /\ candidate' = [candidate EXCEPT ![c] = [status |-> "approved", revision |-> r, expires |-> FALSE]]
    /\ review' = [review EXCEPT ![a] = {}]
    /\ UNCHANGED <<variation, imports, embedder, requeues, requeued>>

\* candidate_reject.
Reject(a) ==
  \E c \in review[a] :
    /\ candidate[c].status = "pending"
    /\ candidate' = [candidate EXCEPT ![c].status = "rejected"]
    /\ review' = [review EXCEPT ![a] = {}]
    /\ UNCHANGED <<revision, variation, imports, bankJob, embedder, requeues, requeued>>

\* An UPDATE that finds the candidate decided or gone rolls everything back; so
\* does any other error.
ReviewFails(a) ==
  /\ review[a] # {}
  /\ review' = [review EXCEPT ![a] = {}]
  /\ UNCHANGED <<revision, variation, candidate, imports, bankJob, embedder, requeues, requeued>>

\* CandidateRetentionService.cleanup of one expired answer.
RetentionCleanup(c) ==
  /\ candidate[c].status \in {"pending", "rejected"}
  /\ candidate[c].revision = NoRevision
  /\ candidate[c].expires
  /\ candidate' = [candidate EXCEPT ![c].status = "deleted"]
  /\ UNCHANGED <<revision, variation, imports, bankJob, embedder, review, requeues, requeued>>

-----------------------------------------------------------------------------
(* Changes of approved questions *)

\* archive_revision.
Archive(r) ==
  /\ r \in Approved
  /\ revision' = [revision EXCEPT ![r].status = "archived"]
  /\ UNCHANGED <<variation, candidate, imports, bankJob, embedder, review, requeues, requeued>>

\* bank_add_variation: a variation that exists is activated again.
AddVariation(r) ==
  /\ r \in Approved
  /\ requeues < MaxRequeues
  /\ requeues' = requeues + 1
  /\ variation' = [variation EXCEPT ![r] =
       [status |-> "active", embedding |-> IF @.status = "none" THEN "pending" ELSE @.embedding]]
  /\ EnqueueEmbedding(r, "variation")
  /\ UNCHANGED <<revision, candidate, imports, embedder, review, requeued>>

\* bank_set_variation_active enqueues nothing.
SetVariationActive(r, active) ==
  /\ r \in Approved
  /\ requeues < MaxRequeues
  /\ requeues' = requeues + 1
  /\ variation[r].status # "none"
  /\ variation' = [variation EXCEPT ![r].status = IF active THEN "active" ELSE "inactive"]
  /\ UNCHANGED <<revision, candidate, imports, bankJob, embedder, review, requeued>>

\* bank_requeue_embedding: reset_embedding, and a job whose key is always taken.
RequeueEmbedding(r, k) ==
  /\ r \in Approved
  /\ requeues < MaxRequeues
  /\ requeues' = requeues + 1
  /\ k = "variation" => variation[r].status = "active"
  /\ requeued' = requeued \cup {r}
  /\ IF k = "revision"
       THEN revision' = [revision EXCEPT ![r].embedding = "pending"] /\ UNCHANGED variation
       ELSE variation' = [variation EXCEPT ![r].embedding = "pending"] /\ UNCHANGED revision
  /\ EnqueueEmbedding(r, k)
  /\ UNCHANGED <<candidate, imports, embedder, review>>

\* cleanup_chapter_qa, when the chapter is promoted or deleted: generated questions
\* go, whatever their status, and ai_answers.approved_revision_id is set to NULL.
CleanupChapter ==
  LET gone == {r \in Revisions : revision[r].source = "generated_candidate"}
  IN  /\ gone # {}
      /\ revision' = [r \in Revisions |-> IF r \in gone
           THEN [status |-> "deleted", source |-> "none", embedding |-> "none"] ELSE revision[r]]
      /\ variation' = [r \in Revisions |-> IF r \in gone
           THEN [status |-> "none", embedding |-> "none"] ELSE variation[r]]
      /\ candidate' = [c \in Candidates |-> IF candidate[c].revision \in gone
           THEN [candidate[c] EXCEPT !.revision = NoRevision] ELSE candidate[c]]
      /\ UNCHANGED <<imports, bankJob, embedder, review, requeues, requeued>>

-----------------------------------------------------------------------------
(* handle_question_bank_embeddings.  The queue runs a job again after a failure *)
(* or a lost lease, or gives it up.                                              *)

LeaseEmbedding(r, k) ==
  /\ embedder.pc = "idle"
  /\ bankJob[r][k] = "queued"
  /\ bankJob' = [bankJob EXCEPT ![r][k] = "running"]
  /\ embedder' = [pc |-> "read", job |-> <<r, k>>, rows |-> {}]
  /\ UNCHANGED <<revision, variation, candidate, imports, review, requeues, requeued>>

\* The job of a revision takes its variation along, and the other way round.
ReadPending ==
  LET r == embedder.job[1]
  IN  /\ embedder.pc = "read"
      /\ embedder' = [embedder EXCEPT !.pc = "write", !.rows =
           {k \in Kinds : /\ r \in Approved
                          /\ IF k = "revision" THEN revision[r].embedding = "pending"
                             ELSE variation[r].status = "active" /\ variation[r].embedding = "pending"}]
      /\ UNCHANGED <<revision, variation, candidate, imports, bankJob, review, requeues, requeued>>

\* The rows are updated by id, whatever became of them since they were read.
WriteVectors ==
  LET r == embedder.job[1]
  IN  /\ embedder.pc = "write"
      /\ revision' = IF "revision" \in embedder.rows /\ revision[r].status # "deleted"
                       THEN [revision EXCEPT ![r].embedding = "embedded"] ELSE revision
      /\ variation' = IF "variation" \in embedder.rows /\ variation[r].status # "none"
                        THEN [variation EXCEPT ![r].embedding = "embedded"] ELSE variation
      /\ embedder' = [embedder EXCEPT !.pc = "complete"]
      /\ UNCHANGED <<candidate, imports, bankJob, review, requeues, requeued>>

EndJob(st) ==
  /\ bankJob' = [bankJob EXCEPT ![embedder.job[1]][embedder.job[2]] = st]
  /\ embedder' = NoEmbedder
  /\ UNCHANGED <<revision, variation, candidate, imports, review, requeues, requeued>>

\* Mutant: the job is completed when the provider fails.
EmbeddingFailsQuietly == embedder.pc # "idle" /\ EndJob("succeeded")

EmbeddingFails == embedder.pc # "idle" /\ \E st \in {"queued", "failed"} : EndJob(st)

EmbeddingDone == embedder.pc = "complete" /\ EndJob("succeeded")

-----------------------------------------------------------------------------
BankNext ==
  \/ \E r \in Revisions :
       \/ BankCreate(r) \/ Archive(r) \/ AddVariation(r)
       \/ \E i \in ImportKeys : BankImport(i, r)
       \/ \E a \in Reviewers : Approve(a, r)
       \/ \E active \in BOOLEAN : SetVariationActive(r, active)
       \/ \E k \in Kinds : RequeueEmbedding(r, k) \/ LeaseEmbedding(r, k)
  \/ \E a \in Reviewers : Reject(a) \/ ReviewFails(a) \/ \E c \in Candidates : Inspect(a, c)
  \/ \E c \in Candidates : RetentionCleanup(c)
  \/ CleanupChapter
  \/ ReadPending \/ WriteVectors \/ EmbeddingFails \/ EmbeddingDone

BankSpec == BankInit /\ [][BankNext]_bankVars

-----------------------------------------------------------------------------
(* Properties *)

\* A generated answer enters the trusted bank through one approval: each generated
\* revision that exists is the revision of one approved candidate, also when two
\* reviews of it and the retention pass overlap (candidate_approve,
\* candidate_reject, cleanup, cleanup_chapter_qa).
GeneratedWasApprovedOnce ==
  /\ \A r \in Revisions : revision[r].source = "generated_candidate" =>
       Cardinality({c \in Candidates : candidate[c].revision = r}) = 1
  /\ \A c \in Candidates : candidate[c].revision # NoRevision =>
       candidate[c].status = "approved"

\* A question is not forgotten by the embedding jobs: while an approved revision
\* waits for its first vector, the job that was enqueued with it is open or has
\* visibly failed, through restarts and variations' jobs that take it along
\* (enqueue in the creating transaction, handle_question_bank_embeddings).
FirstEmbeddingHasJob ==
  \A r \in Approved \ requeued :
    revision[r].embedding = "pending" => bankJob[r]["revision"] \in {"queued", "running", "failed"}
=============================================================================
