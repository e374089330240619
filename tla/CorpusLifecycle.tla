-------------------------- MODULE CorpusLifecycle ---------------------------
(***************************************************************************)
(* The textbook corpus of one board/class/subject scope: its versions, the *)
(* chapters in them, the embedding jobs of the local-admin worker and the  *)
(* administrator's edits, approvals and activations                        *)
(* (app/repositories/rag_repository.py, app/services/local_admin.py,       *)
(* app/services/ingestion, app/workers/handlers/jsonl_ingest.py).          *)
(*                                                                         *)
(* A chapter stands for its document, its chunks, their expected questions *)
(* and visuals: one chunk text, one question, one display policy.  A       *)
(* vector is the text it was computed from, None when the row is pending   *)
(* or failed.  All versions have the embedding configuration of the        *)
(* settings.  The stored counters are refreshed by every transaction that  *)
(* changes rows, so completeness looks at the rows alone.                  *)
(***************************************************************************)
EXTENDS Naturals, FiniteSets

CONSTANTS
  MaxVersions, \* bound: versions of the scope
  Chapters,
  Texts,      \* texts a chunk or a question may have
  None,
  Workers,    \* worker processes of the local_admin mode
  MaxIngests, \* bound: chapters imported
  MaxEdits    \* bound: edits by the administrator

ASSUME CorpusAssumption ==
  /\ MaxVersions \in Nat
  /\ None \notin Texts \cup Chapters
  /\ MaxIngests \in Nat /\ MaxEdits \in Nat

Versions == 1..MaxVersions \* in the order of their version_no

VARIABLES
  status,    \* rag_corpus_versions.status, "none" without a row
  rows,      \* per version and chapter: the stored chunk, question, visual
  input,     \* rag_corpus_versions.embedding_input_fingerprint
  approval,  \* what the live approval of a version was given for, or None
  jobs,      \* the rows of job_queue
  run,       \* what each worker is doing
  ingests, edits

vars == <<status, rows, input, approval, jobs, run, ingests, edits>>

NoId == <<0, 0>>

Absent == [id |-> NoId, chunk |-> None, question |-> None, policy |-> None,
           chunkVector |-> None, questionVector |-> None]

\* replace_chapter_chunks: a new chunk row, nothing embedded.  A row is known by
\* the version it was inserted into and the import it stems from.
NewRow(v, n, t) == [id |-> <<v, n>>, chunk |-> t, question |-> t, policy |-> "llm_decide",
                    chunkVector |-> None, questionVector |-> None]

Present(r) == r.id # NoId

Content(r) == [chunk |-> r.chunk, question |-> r.question, policy |-> r.policy]
ContentOf(v) == [c \in Chapters |-> Content(rows[v][c])]

\* refresh_embedding_input_fingerprint: a hash of chunk ids and texts.
Fingerprint(chapter) ==
  [c \in Chapters |-> [id |-> chapter[c].id, chunk |-> chapter[c].chunk, question |-> chapter[c].question]]

Embedded(r) ==
  Present(r) => r.chunkVector # None /\ (r.question # None => r.questionVector # None)

Pipeline == <<"phase3d", None>>

\* Job rows.  origin tells the idempotency keys apart: phase3d keys of the
\* pipeline, phase3f keys of an edited question or visual.
Job(type, v, fp, origin, promote) ==
  [type |-> type, version |-> v, fp |-> fp, origin |-> origin, promote |-> promote, status |-> "queued"]

SameKey(j, k) ==
  j.type = k.type /\ j.version = k.version /\ j.fp = k.fp /\ j.origin = k.origin

\* create_job: an existing row is left as it is, also a finished one.
Enqueued(js, j) == IF \E k \in js : SameKey(j, k) THEN js ELSE js \cup {j}

WithStatus(js, j, st) == (js \ {j}) \cup {[j EXCEPT !.status = st]}

Settled(v) ==
  \A j \in jobs :
    j.type # "corpus_completeness" /\ j.version = v /\ j.fp = input[v] => j.status = "succeeded"

\* completeness_report, and the trigger phase3d_require_corpus_complete.
Complete(v) == Settled(v) /\ \A c \in Chapters : Embedded(rows[v][c])

Idle == [pc |-> "idle", job |-> None, work |-> {}, target |-> 0]

Init ==
  /\ status = [v \in Versions |-> "none"]
  /\ rows = [v \in Versions |-> [c \in Chapters |-> Absent]]
  /\ input = [v \in Versions |-> None]
  /\ approval = [v \in Versions |-> None]
  /\ jobs = {}
  /\ run = [w \in Workers |-> Idle]
  /\ ingests = 0
  /\ edits = 0

InStatus(st) == {v \in Versions : status[v] = st}
IsLatest(v, S) == v \in S /\ \A u \in S : u <= v
Active == InStatus("active")

\* MAX(version_no) + 1.
Fresh(v) == status[v] = "none" /\ \A u \in Versions : u < v => status[u] # "none"

-----------------------------------------------------------------------------
(* handle_jsonl_ingest *)

\* With an active version the chapter gets a version of its own; before the
\* first activation it extends the latest building or qa_ready one.
IngestTarget(v) ==
  IF Active # {} THEN Fresh(v)
  ELSE IF InStatus("building") # {} THEN IsLatest(v, InStatus("building"))
  ELSE IF InStatus("qa_ready") # {} THEN IsLatest(v, InStatus("qa_ready"))
  ELSE Fresh(v)

Ingest(v, c, t) ==
  LET chapter == [rows[v] EXCEPT ![c] = NewRow(v, ingests + 1, t)]
  IN  /\ ingests < MaxIngests
      /\ IngestTarget(v)
      /\ ingests' = ingests + 1
      /\ status' = [status EXCEPT ![v] = "building"]
      /\ approval' = IF status[v] = "qa_ready" THEN [approval EXCEPT ![v] = None] ELSE approval
      /\ rows' = [rows EXCEPT ![v] = chapter]
      /\ input' = [input EXCEPT ![v] = Fingerprint(chapter)]
      /\ jobs' = Enqueued(jobs, Job("embed_chunks", v, Fingerprint(chapter), Pipeline, c))
      /\ UNCHANGED <<run, edits>>

-----------------------------------------------------------------------------
(* LocalAdminService *)

\* _make_building.
Editable(v) == status[v] \in {"building", "qa_ready"}

\* Both edits: the version reopens, its approvals end, its input is hashed again.
Edit(v, c, r) ==
  LET chapter == [rows[v] EXCEPT ![c] = r]
  IN  /\ edits < MaxEdits
      /\ Editable(v)
      /\ Present(rows[v][c])
      /\ edits' = edits + 1
      /\ status' = [status EXCEPT ![v] = "building"]
      /\ approval' = [approval EXCEPT ![v] = None]
      /\ rows' = [rows EXCEPT ![v] = chapter]
      /\ input' = [input EXCEPT ![v] = Fingerprint(chapter)]
      /\ UNCHANGED <<run, ingests>>

\* edit_question: edited or added (t is a text), or deleted (t is None).
EditQuestion(v, c, t) ==
  LET r == [rows[v][c] EXCEPT !.question = t, !.questionVector = None]
      fp == Fingerprint([rows[v] EXCEPT ![c] = r])
  IN  /\ t = None => rows[v][c].question # None
      /\ Edit(v, c, r)
      /\ jobs' = Enqueued(jobs, Job("embed_questions", v, fp, <<"question", c>>, None))

\* Mutant: a display policy may change behind the approval.
EditVisualKeepsApproval(v, c, t, p) ==
  LET r == [rows[v][c] EXCEPT !.policy = p]
  IN  /\ edits < MaxEdits /\ Editable(v) /\ Present(rows[v][c]) /\ t = rows[v][c].chunk
      /\ edits' = edits + 1
      /\ rows' = [rows EXCEPT ![v][c] = r]
      /\ UNCHANGED <<status, input, approval, jobs, run, ingests>>

\* edit_visual: the text of an approved visual is part of the chunk's input.
\* A change of the display policy alone embeds nothing and enqueues nothing.
EditVisual(v, c, t, p) ==
  LET old == rows[v][c]
      changed == t # old.chunk
      r == [old EXCEPT !.chunk = t, !.policy = p,
                       !.chunkVector = IF changed THEN None ELSE old.chunkVector]
      fp == Fingerprint([rows[v] EXCEPT ![c] = r])
  IN  /\ Edit(v, c, r)
      /\ jobs' = IF changed THEN Enqueued(jobs, Job("embed_chunks", v, fp, <<"visual", c>>, None))
                            ELSE jobs

\* approve_qa.
Approve(v) ==
  /\ status[v] = "qa_ready"
  /\ approval' = [approval EXCEPT ![v] = ContentOf(v)]
  /\ UNCHANGED <<status, rows, input, jobs, run, ingests, edits>>

Copied(r, v, keep) ==
  IF ~Present(r) THEN Absent
  ELSE [r EXCEPT !.id = <<v, r.id[2]>>,
                 !.chunkVector = IF keep THEN r.chunkVector ELSE None,
                 !.questionVector = IF keep THEN r.questionVector ELSE None]

\* create_draft of the active version keeps its vectors; a migration draft, also
\* of a superseded one, keeps none.  The source's fingerprint is copied although
\* the chunk ids are new, and no job is enqueued.
CreateDraft(u, v, migrate) ==
  /\ Fresh(v)
  /\ status[u] = "active" \/ (migrate /\ status[u] = "superseded")
  /\ status' = [status EXCEPT ![v] = "building"]
  /\ rows' = [rows EXCEPT ![v] = [c \in Chapters |-> Copied(rows[u][c], v, ~migrate)]]
  /\ input' = [input EXCEPT ![v] = input[u]]
  /\ UNCHANGED <<approval, jobs, run, ingests, edits>>

\* delete_chapter.
DeleteChapter(a, c) ==
  LET chapter == [rows[a] EXCEPT ![c] = Absent]
  IN  /\ edits < MaxEdits
      /\ a \in Active
      /\ edits' = edits + 1
      /\ rows' = [rows EXCEPT ![a] = chapter]
      /\ input' = [input EXCEPT ![a] = Fingerprint(chapter)]
      /\ approval' = [approval EXCEPT ![a] = None]
      /\ UNCHANGED <<status, jobs, run, ingests>>

\* activate, or a rollback, which may also return to a superseded version.
Activate(v) ==
  /\ status[v] \in {"qa_ready", "superseded"}
  /\ Complete(v)
  /\ approval[v] # None
  /\ status' = [u \in Versions |-> IF u = v THEN "active"
                                   ELSE IF status[u] = "active" THEN "superseded" ELSE status[u]]
  /\ UNCHANGED <<rows, input, approval, jobs, run, ingests, edits>>

-----------------------------------------------------------------------------
(* The local-admin worker.  JobQueue has the details of leasing; here a job  *)
(* that failed or lost its worker is run again, or has failed for good.      *)

At(w, pc) == run[w].pc = pc
Goto(w, pc) == run' = [run EXCEPT ![w].pc = pc]
Current(w) == LET j == run[w].job IN input[j.version] = j.fp
Mine(w) == [run[w].job EXCEPT !.status = "running"]

Lease(w, j) ==
  /\ At(w, "idle")
  /\ j.status = "queued"
  /\ jobs' = WithStatus(jobs, j, "running")
  /\ run' = [run EXCEPT ![w] = [Idle EXCEPT !.pc = "start", !.job = j]]
  /\ UNCHANGED <<status, rows, input, approval, ingests, edits>>

\* complete_job, or complete_job_and_enqueue with the next stage.
Finish(w, next) ==
  /\ jobs' = LET done == WithStatus(jobs, Mine(w), "succeeded")
             IN  IF next = {} THEN done ELSE Enqueued(done, CHOOSE j \in next : TRUE)
  /\ run' = [run EXCEPT ![w] = Idle]

\* An exception or the end of the process anywhere in a handler.
Fail(w) ==
  /\ \E st \in {"queued", "failed"} : jobs' = WithStatus(jobs, Mine(w), st)
  /\ run' = [run EXCEPT ![w] = Idle]

TaskFails(w) ==
  /\ ~At(w, "idle")
  /\ Fail(w)
  /\ UNCHANGED <<status, rows, input, approval, ingests, edits>>

\* _requires_embedding of the stage's rows; the stored vector is compared by the
\* hash of the text it was made from.
Pending(v, type) ==
  {c \in Chapters :
     /\ Present(rows[v][c])
     /\ IF type = "embed_chunks" THEN rows[v][c].chunkVector # rows[v][c].chunk
        ELSE rows[v][c].question # None /\ rows[v][c].questionVector # rows[v][c].question}

Text(r, type) == IF type = "embed_chunks" THEN r.chunk ELSE r.question

\* The beginning of a handler: a job of an earlier input does nothing, an
\* embedding job of a version that is no longer building raises.
Begin(w) ==
  LET j == run[w].job
      v == j.version
  IN  /\ At(w, "start")
      /\ \/ ~Current(w) /\ Finish(w, {})
         \/ /\ Current(w) /\ j.type # "corpus_completeness" /\ status[v] # "building"
            /\ Fail(w)
         \/ /\ Current(w) /\ j.type # "corpus_completeness" /\ status[v] = "building"
            /\ run' = [run EXCEPT ![w].pc = "embed", ![w].work =
                 {[id |-> rows[v][c].id, text |-> Text(rows[v][c], j.type)] : c \in Pending(v, j.type)}]
            /\ UNCHANGED jobs
         \/ Current(w) /\ j.type = "corpus_completeness" /\ Goto(w, "mark") /\ UNCHANGED jobs
      /\ UNCHANGED <<status, rows, input, approval, ingests, edits>>

VectorOf(r, type, x) ==
  IF type = "embed_chunks" THEN [r EXCEPT !.chunkVector = x]
  ELSE [r EXCEPT !.questionVector = IF r.question = None THEN @ ELSE x]

\* write_chunk_embedding or write_question_embedding of the batch: rows of this
\* version, while it is building.  The row's present text is not compared.
EmbedWrite(w) ==
  LET j == run[w].job
      v == j.version
      Read(r) == {k \in run[w].work : k.id = r.id}
  IN  /\ At(w, "embed")
      /\ rows' = IF status[v] # "building" THEN rows
                 ELSE [rows EXCEPT ![v] = [c \in Chapters |->
                        IF Read(rows[v][c]) = {} THEN rows[v][c]
                        ELSE VectorOf(rows[v][c], j.type, (CHOOSE k \in Read(rows[v][c]) : TRUE).text)]]
      /\ run' = [run EXCEPT ![w].pc = "written", ![w].work = {}]
      /\ UNCHANGED <<status, input, approval, jobs, ingests, edits>>

\* mark_embedding_failed of the batch, wherever its rows are by now.
EmbedFails(w) ==
  LET j == run[w].job
      Mark(r) == IF \E k \in run[w].work : k.id = r.id THEN VectorOf(r, j.type, None) ELSE r
  IN  /\ At(w, "embed")
      /\ run[w].work # {}
      /\ rows' = [v \in Versions |-> [c \in Chapters |-> Mark(rows[v][c])]]
      /\ Fail(w)
      /\ UNCHANGED <<status, input, approval, ingests, edits>>

NextStage(type) == IF type = "embed_chunks" THEN "embed_questions" ELSE "corpus_completeness"

\* The end of an embedding handler: no next stage for an input that changed.
EmbedReturns(w) ==
  LET j == run[w].job
  IN  /\ At(w, "written")
      /\ Finish(w, IF Current(w)
                     THEN {Job(NextStage(j.type), j.version, j.fp, Pipeline, j.promote)} ELSE {})
      /\ UNCHANGED <<status, rows, input, approval, ingests, edits>>

\* Mutant: the gate waits for the jobs but does not count the rows.
MarkReadyIgnoringRows(w) ==
  LET v == run[w].job.version
  IN  /\ At(w, "mark")
      /\ IF Settled(v) /\ status[v] = "building"
           THEN status' = [status EXCEPT ![v] = "qa_ready"] /\ Goto(w, "promote") /\ UNCHANGED jobs
           ELSE Fail(w) /\ UNCHANGED status
      /\ UNCHANGED <<rows, input, approval, ingests, edits>>

\* confirm_corpus_completeness: mark_qa_ready.  The trigger repeats the report's
\* checks on the UPDATE itself, so that nothing can come in between.
MarkReady(w) ==
  LET v == run[w].job.version
  IN  /\ At(w, "mark")
      /\ IF Complete(v) /\ status[v] = "building"
           THEN status' = [status EXCEPT ![v] = "qa_ready"] /\ Goto(w, "promote") /\ UNCHANGED jobs
           ELSE Fail(w) /\ UNCHANGED status
      /\ UNCHANGED <<rows, input, approval, ingests, edits>>

\* get_active_corpus_version: a version to promote the chapter into, if any.
\* Nothing is promoted from a version that has just been deleted.
FindActive(w) ==
  LET j == run[w].job
  IN  /\ At(w, "promote")
      /\ IF j.promote = None \/ Active \subseteq {j.version} \/ status[j.version] = "deleted"
           THEN Finish(w, {})
           ELSE /\ run' = [run EXCEPT ![w].pc = "move", ![w].target = CHOOSE a \in Active : TRUE]
                /\ UNCHANGED jobs
      /\ UNCHANGED <<status, rows, input, approval, ingests, edits>>

\* Mutant: the active version takes over the temporary one as a whole.
PromotedWhole(old, new, c) == new

\* The target keeps its other chapters.
Promoted(old, new, c) == [old EXCEPT ![c] = new[c]]

\* Mutant: the target is the active version because it was a moment ago.
PromotableUnchecked(a, v, c) == {d \in Chapters : Present(rows[v][d])} = {c}

\* The target is looked at again under its lock, and the temporary version must
\* have the promoted chapter and no other.
Promotable(a, v, c) ==
  /\ status[a] = "active"
  /\ {d \in Chapters : Present(rows[v][d])} = {c}

\* promote_chapter_from_temp_to_active: one transaction.  The status of the
\* temporary version is not looked at again.
Promote(w) ==
  LET j == run[w].job
      v == j.version
      a == run[w].target
      chapter == Promoted(rows[a], rows[v], j.promote)
  IN  /\ At(w, "move")
      /\ IF Promotable(a, v, j.promote)
           THEN /\ rows' = [rows EXCEPT ![a] = chapter, ![v] = [c \in Chapters |-> Absent]]
                /\ input' = [input EXCEPT ![a] = Fingerprint(chapter), ![v] = None]
                /\ approval' = [approval EXCEPT ![a] = None, ![v] = None]
                /\ status' = [status EXCEPT ![v] = "deleted"]
                /\ Finish(w, {})
           ELSE Fail(w) /\ UNCHANGED <<status, rows, input, approval>>
      /\ UNCHANGED <<ingests, edits>>

-----------------------------------------------------------------------------
Admin ==
  \/ \E v \in Versions, c \in Chapters :
       \/ \E t \in Texts : Ingest(v, c, t)
       \/ \E t \in Texts \cup {None} : EditQuestion(v, c, t)
       \/ \E t \in Texts, p \in {"llm_decide", "never"} : EditVisual(v, c, t, p)
       \/ DeleteChapter(v, c)
  \/ \E v \in Versions : Approve(v) \/ Activate(v)
  \/ \E u, v \in Versions, migrate \in BOOLEAN : CreateDraft(u, v, migrate)

Work(w) ==
  \/ \E j \in jobs : Lease(w, j)
  \/ Begin(w) \/ EmbedWrite(w) \/ EmbedFails(w) \/ EmbedReturns(w)
  \/ MarkReady(w) \/ FindActive(w) \/ Promote(w) \/ TaskFails(w)

Next == Admin \/ \E w \in Workers : Work(w)

Spec == Init /\ [][Next]_vars

-----------------------------------------------------------------------------
(* Properties *)

\* An approval stands for what the reviewer saw: while it is live its version is
\* not being edited, and chunks, questions and display policies are those that
\* were approved (approve_qa, _invalidate_approvals and the invalidations of
\* import, promotion and deletion).
ApprovedContent ==
  \A v \in Versions : approval[v] # None =>
    status[v] \in {"qa_ready", "active", "superseded"} /\ approval[v] = ContentOf(v)

\* No version becomes ready for review, and none starts being served, also not by
\* rollback, with a row that has no vector.  Edits and imports reopen versions while
\* an embedding runs, and a failure reported late damages rows of a version that
\* was ready (mark_qa_ready, activate, the trigger phase3d_require_corpus_complete).
TransitionsComplete ==
  [][\A v \in Versions : status[v]' # status[v] /\ status[v]' \in {"qa_ready", "active"} =>
       \A c \in Chapters : Embedded(rows[v][c])]_vars

\* While a version is served, only the administrator's deletion takes a chapter
\* out of it: promoting one chapter leaves the others alone, and no chapter is
\* lost between the two versions (promote_chapter_from_temp_to_active).
ServedChaptersKept ==
  [][\A v \in Active \cap Active', c \in Chapters :
       Present(rows[v][c]) => Present(rows[v][c]') \/ edits' # edits]_vars

\* The version that get_active_corpus_version finds, if it is the only one.
ServedVersion ==
  LET A == Active
  IN  IF \E v \in A : A = {v} THEN CHOOSE v \in A : TRUE ELSE 0

Textbook == INSTANCE ServedTextbook WITH NoVersion <- 0, served <- ServedVersion

\* Once a version is served, exactly one is until the next activation replaces it:
\* imports, edits, drafts, workers that confirm or promote a chapter, and failures
\* reported late never leave students without a textbook or with two
\* (activate, mark_qa_ready, promote_chapter_from_temp_to_active).
ServesTextbook == Textbook!Spec
=============================================================================
