---------------------------- MODULE CorpusProofs ----------------------------
(***************************************************************************)
(* An approval stands for the content that was approved, versions become   *)
(* ready or served only with all their vectors, and promotion keeps the    *)
(* other chapters: for every number of versions, chapters, texts, workers, *)
(* imports and edits.  Students are served exactly one version from the    *)
(* first activation on.                                                    *)
(*                                                                         *)
(* ApprovedContent is inductive once the shape of the tables is known: an  *)
(* update of one row must leave the others, and a vector written to a row  *)
(* its text.  What the rows hold does not matter, so Shape says nothing of *)
(* it.                                                                     *)
(***************************************************************************)
EXTENDS CorpusLifecycle, TLAPS

IsRow(r) ==
  r = [id |-> r.id, chunk |-> r.chunk, question |-> r.question, policy |-> r.policy,
       chunkVector |-> r.chunkVector, questionVector |-> r.questionVector]

IsChapterTable(f) ==
  /\ f = [c \in Chapters |-> f[c]]
  /\ \A c \in Chapters : IsRow(f[c])

Shape ==
  /\ status = [v \in Versions |-> status[v]]
  /\ approval = [v \in Versions |-> approval[v]]
  /\ rows = [v \in Versions |-> rows[v]]
  /\ \A v \in Versions : IsChapterTable(rows[v])

\* The bound that counts the administrator's edits is a number.
EditsCount == edits \in Nat

-----------------------------------------------------------------------------
(* Rows *)

\* A new or missing row, a copied row and a row with another vector are rows.
LEMMA NewRowIsRow == \A v, n, t : IsRow(NewRow(v, n, t)) /\ IsRow(Absent)
BY DEF IsRow, NewRow, Absent

LEMMA CopiedIsRow ==
  ASSUME NEW r, IsRow(r), NEW v, NEW keep PROVE IsRow(Copied(r, v, keep))
<1>1. IsRow(Absent) BY NewRowIsRow
<1>. QED BY <1>1 DEF IsRow, Copied

\* Writing or dropping a vector leaves what a reviewer sees.
LEMMA VectorKeepsContent ==
  ASSUME NEW r, IsRow(r), NEW type, NEW x
  PROVE  /\ IsRow(VectorOf(r, type, x))
         /\ Content(VectorOf(r, type, x)) = Content(r)
         /\ VectorOf(r, type, x).id = r.id
BY DEF IsRow, VectorOf, Content

\* So is a row after an edit.
LEMMA EditedIsRow ==
  ASSUME NEW r, IsRow(r), NEW t, NEW p, NEW x
  PROVE  /\ IsRow([r EXCEPT !.question = t, !.questionVector = x])
         /\ IsRow([r EXCEPT !.chunk = t, !.policy = p, !.chunkVector = x])
<1>. DEFINE q == [r EXCEPT !.question = t]
            s == [r EXCEPT !.chunk = t]
            k == [s EXCEPT !.policy = p]
<1>1. IsRow(q) /\ IsRow(s) BY DEF IsRow
<1>2. IsRow([q EXCEPT !.questionVector = x])
  <2>. HIDE DEF q
  <2>. QED BY <1>1 DEF IsRow
<1>3. IsRow(k)
  <2>. HIDE DEF s
  <2>. QED BY <1>1 DEF IsRow
<1>4. IsRow([k EXCEPT !.chunkVector = x])
  <2>. HIDE DEF k
  <2>. QED BY <1>3 DEF IsRow
<1>. QED BY <1>2, <1>4

-----------------------------------------------------------------------------
(* The tables *)

LEMMA NewChapter ==
  ASSUME NEW f, IsChapterTable(f), NEW d \in Chapters, NEW r, IsRow(r)
  PROVE  IsChapterTable([f EXCEPT ![d] = r])
<1>1. [f EXCEPT ![d] = r] = [c \in Chapters |-> IF c = d THEN r ELSE f[c]]
  BY DEF IsChapterTable
<1>. QED BY <1>1 DEF IsChapterTable

\* One version's rows are replaced, the others stay.
LEMMA NewTable ==
  ASSUME Shape, NEW v \in Versions, NEW f, IsChapterTable(f),
         rows' = [rows EXCEPT ![v] = f]
  PROVE  /\ rows' = [u \in Versions |-> rows'[u]]
         /\ \A u \in Versions : IsChapterTable(rows'[u])
         /\ rows'[v] = f
         /\ \A u \in Versions \ {v} : rows'[u] = rows[u]
<1>1. rows' = [u \in Versions |-> IF u = v THEN f ELSE rows[u]]
  BY DEF Shape
<1>. QED BY <1>1 DEF Shape

IInv == Shape /\ ApprovedContent

\* An update of one version that is not approved afterwards, or was not before,
\* cannot make an approval lie.
LEMMA OneVersion ==
  ASSUME IInv, NEW v \in Versions,
         approval' = [u \in Versions |-> approval'[u]],
         status' = [u \in Versions |-> status'[u]],
         approval'[v] = None,
         \A u \in Versions \ {v} :
            approval'[u] = approval[u] /\ status'[u] = status[u] /\ rows'[u] = rows[u],
         rows' = [u \in Versions |-> rows'[u]],
         \A u \in Versions : IsChapterTable(rows'[u])
  PROVE  IInv'
<1>1. Shape' BY DEF Shape
<1>2. ApprovedContent'
  <2>. SUFFICES ASSUME NEW u \in Versions, approval'[u] # None
       PROVE  /\ status'[u] \in {"qa_ready", "active", "superseded"}
              /\ approval'[u] = [c \in Chapters |-> Content(rows'[u][c])]
    BY DEF ApprovedContent, ContentOf
  <2>. QED BY DEF IInv, ApprovedContent, ContentOf
<1>. QED BY <1>1, <1>2 DEF IInv

\* An update of vectors keeps what a reviewer sees of every version.
LEMMA SameContent ==
  ASSUME IInv, UNCHANGED <<status, approval>>,
         rows' = [u \in Versions |-> rows'[u]],
         \A u \in Versions : IsChapterTable(rows'[u]),
         \A u \in Versions, c \in Chapters : Content(rows'[u][c]) = Content(rows[u][c])
  PROVE  IInv'
<1>1. Shape' BY DEF IInv, Shape
<1>2. \A u \in Versions :
        [c \in Chapters |-> Content(rows'[u][c])] = [c \in Chapters |-> Content(rows[u][c])]
  OBVIOUS
<1>3. ApprovedContent' BY <1>2 DEF IInv, ApprovedContent, ContentOf
<1>. QED BY <1>1, <1>3 DEF IInv

-----------------------------------------------------------------------------
(* The steps *)

LEMMA IngestKeeps ==
  ASSUME IInv, NEW v \in Versions, NEW c \in Chapters, NEW t, Ingest(v, c, t)
  PROVE  IInv'
<1>. DEFINE chapter == [rows[v] EXCEPT ![c] = NewRow(v, ingests + 1, t)]
<1>1. IsChapterTable(chapter) BY NewChapter, NewRowIsRow DEF IInv, Shape
<1>2. rows' = [rows EXCEPT ![v] = chapter] BY DEF Ingest
<1>3. approval[v] # None => status[v] = "qa_ready"
  <2>1. status[v] \in {"none", "building", "qa_ready"}
    <3>1. IngestTarget(v) BY DEF Ingest
    <3>. QED BY <3>1 DEF IngestTarget, Fresh, IsLatest, InStatus
  <2>. QED BY <2>1 DEF IInv, ApprovedContent
<1>. QED BY <1>1, <1>2, <1>3, NewTable, OneVersion DEF IInv, Shape, Ingest

LEMMA EditKeeps ==
  ASSUME IInv, NEW v \in Versions, NEW c \in Chapters, NEW r, IsRow(r), Edit(v, c, r)
  PROVE  IInv'
<1>1. IsChapterTable([rows[v] EXCEPT ![c] = r]) BY NewChapter DEF IInv, Shape
<1>. QED BY <1>1, NewTable, OneVersion DEF IInv, Shape, Edit

LEMMA EditQuestionKeeps ==
  ASSUME IInv, NEW v \in Versions, NEW c \in Chapters, NEW t, EditQuestion(v, c, t)
  PROVE  IInv'
<1>. DEFINE r == [rows[v][c] EXCEPT !.question = t, !.questionVector = None]
<1>1. IsRow(rows[v][c]) BY DEF IInv, Shape, IsChapterTable
<1>2. IsRow(r) BY <1>1, EditedIsRow
<1>3. Edit(v, c, r) BY DEF EditQuestion
<1>. QED BY <1>2, <1>3, EditKeeps

LEMMA EditVisualKeeps ==
  ASSUME IInv, NEW v \in Versions, NEW c \in Chapters, NEW t, NEW p, EditVisual(v, c, t, p)
  PROVE  IInv'
<1>. DEFINE old == rows[v][c]
            r == [old EXCEPT !.chunk = t, !.policy = p,
                             !.chunkVector = IF t # old.chunk THEN None ELSE old.chunkVector]
<1>1. IsRow(old) BY DEF IInv, Shape, IsChapterTable
<1>2. IsRow(r) BY <1>1, EditedIsRow
<1>3. Edit(v, c, r) BY DEF EditVisual
<1>. QED BY <1>2, <1>3, EditKeeps

LEMMA ApproveKeeps ==
  ASSUME IInv, NEW v \in Versions, Approve(v) PROVE IInv'
<1>1. Shape' BY DEF IInv, Shape, Approve
<1>2. ApprovedContent' BY DEF IInv, Shape, ApprovedContent, ContentOf, Approve
<1>. QED BY <1>1, <1>2 DEF IInv

LEMMA CreateDraftKeeps ==
  ASSUME IInv, NEW u \in Versions, NEW v \in Versions, NEW migrate \in BOOLEAN,
         CreateDraft(u, v, migrate)
  PROVE  IInv'
<1>. DEFINE copy == [c \in Chapters |-> Copied(rows[u][c], v, ~migrate)]
<1>1. \A c \in Chapters : IsRow(rows[u][c]) BY DEF IInv, Shape, IsChapterTable
<1>2. \A c \in Chapters : IsRow(Copied(rows[u][c], v, ~migrate)) BY <1>1, CopiedIsRow
<1>3. IsChapterTable(copy) BY <1>2 DEF IsChapterTable
<1>4. approval[v] = None
  BY DEF CreateDraft, Fresh, IInv, ApprovedContent
<1>5. rows' = [rows EXCEPT ![v] = copy] BY DEF CreateDraft
<1>. QED BY <1>3, <1>4, <1>5, NewTable, OneVersion DEF IInv, Shape, CreateDraft

LEMMA DeleteChapterKeeps ==
  ASSUME IInv, NEW a \in Versions, NEW c \in Chapters, DeleteChapter(a, c)
  PROVE  IInv'
<1>1. IsChapterTable([rows[a] EXCEPT ![c] = Absent])
  BY NewChapter, NewRowIsRow DEF IInv, Shape
<1>. QED BY <1>1, NewTable, OneVersion DEF IInv, Shape, DeleteChapter

LEMMA ActivateKeeps ==
  ASSUME IInv, NEW v \in Versions, Activate(v) PROVE IInv'
<1>1. Shape' BY DEF IInv, Shape, Activate
<1>2. ApprovedContent'
  BY DEF IInv, Shape, ApprovedContent, ContentOf, Activate
<1>. QED BY <1>1, <1>2 DEF IInv

\* The embedding steps write vectors and nothing else.
LEMMA EmbedWriteKeeps ==
  ASSUME IInv, NEW w \in Workers, EmbedWrite(w) PROVE IInv'
<1>. DEFINE j == run[w].job
            Read(r) == {k \in run[w].work : k.id = r.id}
            New(r) == IF Read(r) = {} THEN r
                      ELSE VectorOf(r, j.type, (CHOOSE k \in Read(r) : TRUE).text)
            f == [c \in Chapters |-> New(rows[j.version][c])]
<1>1. \A u \in Versions, c \in Chapters : IsRow(rows[u][c])
  BY DEF IInv, Shape, IsChapterTable
<1>2. \A u \in Versions, c \in Chapters :
        /\ IsRow(New(rows[u][c]))
        /\ Content(New(rows[u][c])) = Content(rows[u][c])
  <2>. SUFFICES ASSUME NEW u \in Versions, NEW c \in Chapters
       PROVE  /\ IsRow(New(rows[u][c]))
              /\ Content(New(rows[u][c])) = Content(rows[u][c])
    OBVIOUS
  <2>1. IsRow(rows[u][c]) BY <1>1
  <2>2. CASE Read(rows[u][c]) = {} BY <2>1, <2>2
  <2>3. CASE Read(rows[u][c]) # {} BY <2>1, <2>3, VectorKeepsContent
  <2>. QED BY <2>2, <2>3
<1>. HIDE DEF New
<1>3. CASE rows' = rows
  <2>1. /\ rows' = [u \in Versions |-> rows'[u]]
        /\ \A u \in Versions : IsChapterTable(rows'[u])
    BY <1>3 DEF IInv, Shape
  <2>. QED BY <1>3, <2>1, SameContent DEF EmbedWrite
<1>4. CASE rows' = [rows EXCEPT ![j.version] = f] /\ j.version \in Versions
  <2>1. IsChapterTable(f) BY <1>2, <1>4 DEF IsChapterTable
  <2>2. \A c \in Chapters : f[c] = New(rows[j.version][c]) OBVIOUS
  <2>3. /\ rows' = [u \in Versions |-> rows'[u]]
        /\ \A u \in Versions : IsChapterTable(rows'[u])
        /\ rows'[j.version] = f
        /\ \A u \in Versions \ {j.version} : rows'[u] = rows[u]
    <3>. HIDE DEF f, j
    <3>. QED BY <1>4, <2>1, NewTable DEF IInv
  <2>4. \A u \in Versions, c \in Chapters : Content(rows'[u][c]) = Content(rows[u][c])
    BY <1>2, <1>4, <2>2, <2>3
  <2>. QED BY <2>3, <2>4, SameContent DEF EmbedWrite
<1>5. CASE rows' = [rows EXCEPT ![j.version] = f] /\ j.version \notin Versions
  <2>. HIDE DEF f, j
  <2>1. rows' = rows BY <1>5 DEF IInv, Shape
  <2>. QED BY <2>1, <1>3
<1>6. rows' = rows \/ rows' = [rows EXCEPT ![j.version] = f]
  BY DEF EmbedWrite, New
<1>. QED BY <1>3, <1>4, <1>5, <1>6

LEMMA EmbedFailsKeeps ==
  ASSUME IInv, NEW w \in Workers, EmbedFails(w) PROVE IInv'
<1>. DEFINE j == run[w].job
            Mark(r) == IF \E k \in run[w].work : k.id = r.id THEN VectorOf(r, j.type, None) ELSE r
<1>1. \A u \in Versions, c \in Chapters : IsRow(rows[u][c])
  BY DEF IInv, Shape, IsChapterTable
<1>2. \A u \in Versions, c \in Chapters :
        IsRow(Mark(rows[u][c])) /\ Content(Mark(rows[u][c])) = Content(rows[u][c])
  BY <1>1, VectorKeepsContent
<1>3. rows' = [v \in Versions |-> [c \in Chapters |-> Mark(rows[v][c])]]
  BY DEF EmbedFails
<1>4. \A u \in Versions : IsChapterTable(rows'[u])
  BY <1>2, <1>3 DEF IsChapterTable
<1>. QED BY <1>2, <1>3, <1>4, SameContent DEF EmbedFails

LEMMA MarkReadyKeeps ==
  ASSUME IInv, NEW w \in Workers, MarkReady(w) PROVE IInv'
<1>1. Shape' BY DEF IInv, Shape, MarkReady
<1>2. ApprovedContent'
  BY DEF IInv, Shape, ApprovedContent, ContentOf, MarkReady
<1>. QED BY <1>1, <1>2 DEF IInv

LEMMA PromoteKeeps ==
  ASSUME IInv, NEW w \in Workers, run[w].job.version \in Versions, Promote(w) PROVE IInv'
<1>. DEFINE j == run[w].job
            v == j.version
            a == run[w].target
            chapter == Promoted(rows[a], rows[v], j.promote)
            none == [c \in Chapters |-> Absent]
<1>1. CASE UNCHANGED <<status, rows, input, approval>>
  BY <1>1 DEF IInv, Shape, ApprovedContent, ContentOf
<1>2. CASE /\ {c \in Chapters : Present(rows[v][c])} = {j.promote}
           /\ rows' = [rows EXCEPT ![a] = chapter, ![v] = none]
           /\ approval' = [approval EXCEPT ![a] = None, ![v] = None]
           /\ status' = [status EXCEPT ![v] = "deleted"]
  <2>1. rows' = [u \in Versions |-> IF u = v THEN none ELSE IF u = a THEN chapter ELSE rows[u]]
    <3>. HIDE DEF v, a, chapter, none
    <3>. QED BY <1>2 DEF IInv, Shape
  <2>2. approval' = [u \in Versions |-> IF u = v \/ u = a THEN None ELSE approval[u]]
    <3>. HIDE DEF v, a
    <3>. QED BY <1>2 DEF IInv, Shape
  <2>3. status' = [u \in Versions |-> IF u = v THEN "deleted" ELSE status[u]]
    <3>. HIDE DEF v, a
    <3>. QED BY <1>2 DEF IInv, Shape
  <2>4. j.promote \in Chapters BY <1>2
  <2>5. a \in Versions => IsChapterTable(chapter)
    <3>1. IsRow(rows[v][j.promote]) BY <2>4 DEF IInv, Shape, IsChapterTable
    <3>. QED BY <2>4, <3>1, NewChapter DEF IInv, Shape, Promoted
  <2>6. IsChapterTable(none) BY NewRowIsRow DEF IsChapterTable
  <2>7. Shape'
    <3>. HIDE DEF v, a, chapter, none
    <3>. QED BY <2>1, <2>2, <2>3, <2>5, <2>6 DEF IInv, Shape
  <2>8. ApprovedContent'
    <3>. SUFFICES ASSUME NEW u \in Versions, approval'[u] # None
         PROVE  /\ status'[u] \in {"qa_ready", "active", "superseded"}
                /\ approval'[u] = [c \in Chapters |-> Content(rows'[u][c])]
      BY DEF ApprovedContent, ContentOf
    <3>1. u # v /\ u # a /\ approval[u] # None BY <2>2
    <3>2. status'[u] = status[u] /\ rows'[u] = rows[u] /\ approval'[u] = approval[u]
      <4>. HIDE DEF v, a, chapter, none
      <4>. QED BY <2>1, <2>2, <2>3, <3>1
    <3>. QED BY <3>1, <3>2 DEF IInv, ApprovedContent, ContentOf
  <2>. QED BY <2>7, <2>8 DEF IInv
<1>. QED BY <1>1, <1>2 DEF Promote, Promotable

-----------------------------------------------------------------------------
(* A job a worker holds is one of an existing version. *)

IsRun(r) == r = [pc |-> r.pc, job |-> r.job, work |-> r.work, target |-> r.target]

IsJob(j) ==
  /\ j.version \in Versions
  /\ j = [type |-> j.type, version |-> j.version, fp |-> j.fp, origin |-> j.origin,
          promote |-> j.promote, status |-> j.status]

JobsInv ==
  /\ \A j \in jobs : IsJob(j)
  /\ run = [w \in Workers |-> run[w]]
  /\ \A w \in Workers : IsRun(run[w])
  /\ \A w \in Workers : run[w].pc # "idle" => IsJob(run[w].job)

LEMMA NewJob ==
  \A type, v, fp, origin, promote : v \in Versions => IsJob(Job(type, v, fp, origin, promote))
BY DEF Job, IsJob

LEMMA OldJob == ASSUME NEW j, IsJob(j), NEW st PROVE IsJob([j EXCEPT !.status = st])
BY DEF IsJob

LEMMA IdleRun == IsRun(Idle) /\ Idle.pc = "idle"
BY DEF IsRun, Idle

\* What happens to one worker.
LEMMA OneRun ==
  ASSUME JobsInv, NEW w \in Workers, NEW r, IsRun(r), r.pc # "idle" => IsJob(r.job),
         run' = [run EXCEPT ![w] = r], \A j \in jobs' : IsJob(j)
  PROVE  JobsInv'
<1>1. run' = [x \in Workers |-> IF x = w THEN r ELSE run[x]] BY DEF JobsInv
<1>. QED BY <1>1 DEF JobsInv

LEMMA FinishKeeps ==
  ASSUME JobsInv, NEW w \in Workers, run[w].pc # "idle", NEW next,
         \A j \in next : IsJob(j), Finish(w, next)
  PROVE  JobsInv'
<1>1. IsJob([Mine(w) EXCEPT !.status = "succeeded"])
  BY OldJob DEF Mine, JobsInv
<1>2. \A j \in WithStatus(jobs, Mine(w), "succeeded") : IsJob(j)
  BY <1>1 DEF WithStatus, JobsInv
<1>3. \A j \in jobs' : IsJob(j)
  <2>1. CASE next = {} BY <1>2, <2>1 DEF Finish
  <2>2. CASE next # {}
    <3>1. IsJob(CHOOSE j \in next : TRUE) BY <2>2
    <3>. QED BY <1>2, <2>2, <3>1 DEF Finish, Enqueued
  <2>. QED BY <2>1, <2>2
<1>. QED BY <1>3, IdleRun, OneRun DEF Finish

LEMMA FailKeeps ==
  ASSUME JobsInv, NEW w \in Workers, run[w].pc # "idle", Fail(w) PROVE JobsInv'
<1>1. PICK st \in {"queued", "failed"} : jobs' = WithStatus(jobs, Mine(w), st)
  BY DEF Fail
<1>2. IsJob([Mine(w) EXCEPT !.status = st])
  BY OldJob DEF Mine, JobsInv
<1>3. \A j \in jobs' : IsJob(j)
  BY <1>1, <1>2 DEF WithStatus, JobsInv
<1>. QED BY <1>3, IdleRun, OneRun DEF Fail

LEMMA GotoKeeps ==
  ASSUME JobsInv, NEW w \in Workers, run[w].pc # "idle", NEW pc, Goto(w, pc), UNCHANGED jobs
  PROVE  JobsInv'
<1>. DEFINE r == [run[w] EXCEPT !.pc = pc]
<1>1. IsRun(r) /\ r.job = run[w].job BY DEF JobsInv, IsRun
<1>2. run' = [run EXCEPT ![w] = r] BY DEF Goto
<1>. HIDE DEF r
<1>. QED BY <1>1, <1>2, OneRun DEF JobsInv

\* The administrator's steps, also those that enqueue a job.
LEMMA AdminKeepsJobs == ASSUME JobsInv, Admin PROVE JobsInv'
<1>1. ASSUME UNCHANGED <<jobs, run>> PROVE JobsInv'
  BY <1>1 DEF JobsInv
<1>2. ASSUME NEW j, IsJob(j), jobs' = Enqueued(jobs, j), UNCHANGED run PROVE JobsInv'
  BY <1>2 DEF JobsInv, Enqueued
<1>3. ASSUME NEW v \in Versions, NEW c \in Chapters, NEW t, Ingest(v, c, t) PROVE JobsInv'
  BY <1>2, <1>3, NewJob DEF Ingest
<1>4. ASSUME NEW v \in Versions, NEW c \in Chapters, NEW t, EditQuestion(v, c, t) PROVE JobsInv'
  BY <1>2, <1>4, NewJob DEF EditQuestion, Edit
<1>5. ASSUME NEW v \in Versions, NEW c \in Chapters, NEW t, NEW p, EditVisual(v, c, t, p)
      PROVE  JobsInv'
  <2>1. CASE t # rows[v][c].chunk BY <1>2, <1>5, <2>1, NewJob DEF EditVisual, Edit
  <2>2. CASE t = rows[v][c].chunk BY <1>1, <1>5, <2>2 DEF EditVisual, Edit
  <2>. QED BY <2>1, <2>2
<1>6. ASSUME NEW v \in Versions, NEW c \in Chapters, DeleteChapter(v, c) PROVE JobsInv'
  BY <1>1, <1>6 DEF DeleteChapter
<1>7. ASSUME NEW v \in Versions, Approve(v) \/ Activate(v) PROVE JobsInv'
  BY <1>1, <1>7 DEF Approve, Activate
<1>8. ASSUME NEW u \in Versions, NEW v \in Versions, NEW migrate \in BOOLEAN,
             CreateDraft(u, v, migrate)
      PROVE  JobsInv'
  BY <1>1, <1>8 DEF CreateDraft
<1>. QED BY <1>3, <1>4, <1>5, <1>6, <1>7, <1>8 DEF Admin

LEMMA WorkKeepsJobs == ASSUME JobsInv, NEW w \in Workers, Work(w) PROVE JobsInv'
<1>1. ASSUME NEW j \in jobs, Lease(w, j) PROVE JobsInv'
  <2>. DEFINE q == [Idle EXCEPT !.pc = "start"]
              r == [q EXCEPT !.job = j]
  <2>1. IsRun(q) BY DEF Idle, IsRun
  <2>2. IsRun(r) /\ r.job = j
    <3>. HIDE DEF q
    <3>. QED BY <2>1 DEF IsRun
  <2>3. IsJob(j) BY DEF JobsInv
  <2>4. IsJob([j EXCEPT !.status = "running"]) BY <2>3, OldJob
  <2>5. \A k \in jobs' : IsJob(k) BY <1>1, <2>4 DEF Lease, WithStatus, JobsInv
  <2>6. run' = [run EXCEPT ![w] = r] BY <1>1 DEF Lease
  <2>. HIDE DEF r
  <2>. QED BY <2>2, <2>3, <2>5, <2>6, OneRun
<1>2. ASSUME Begin(w) PROVE JobsInv'
  <2>1. run[w].pc # "idle" BY <1>2 DEF Begin, At
  <2>2. CASE Finish(w, {}) BY <2>1, <2>2, FinishKeeps
  <2>3. CASE Fail(w) BY <2>1, <2>3, FailKeeps
  <2>4. CASE Goto(w, "mark") /\ UNCHANGED jobs BY <2>1, <2>4, GotoKeeps
  <2>5. ASSUME NEW work, run' = [run EXCEPT ![w].pc = "embed", ![w].work = work], UNCHANGED jobs
        PROVE  JobsInv'
    <3>. DEFINE q == [run[w] EXCEPT !.pc = "embed"]
                r == [q EXCEPT !.work = work]
    <3>1. IsRun(q) /\ q.job = run[w].job BY DEF JobsInv, IsRun
    <3>2. IsRun(r) /\ r.job = run[w].job
      <4>. HIDE DEF q
      <4>. QED BY <3>1 DEF IsRun
    <3>3. run' = [run EXCEPT ![w] = r] BY <2>5 DEF JobsInv
    <3>. HIDE DEF r
    <3>. QED BY <2>1, <2>5, <3>2, <3>3, OneRun DEF JobsInv
  <2>. QED BY <1>2, <2>2, <2>3, <2>4, <2>5 DEF Begin
<1>3. ASSUME EmbedWrite(w) PROVE JobsInv'
  <2>. DEFINE q == [run[w] EXCEPT !.pc = "written"]
              r == [q EXCEPT !.work = {}]
  <2>1. IsRun(q) /\ q.job = run[w].job BY DEF JobsInv, IsRun
  <2>2. IsRun(r) /\ r.job = run[w].job
    <3>. HIDE DEF q
    <3>. QED BY <2>1 DEF IsRun
  <2>3. run' = [run EXCEPT ![w] = r] BY <1>3 DEF EmbedWrite, JobsInv
  <2>4. run[w].pc # "idle" /\ UNCHANGED jobs BY <1>3 DEF EmbedWrite, At
  <2>. HIDE DEF r
  <2>. QED BY <2>2, <2>3, <2>4, OneRun DEF JobsInv
<1>4. ASSUME EmbedFails(w) PROVE JobsInv'
  BY <1>4, FailKeeps DEF EmbedFails, At
<1>5. ASSUME EmbedReturns(w) PROVE JobsInv'
  <2>. DEFINE j == run[w].job
              next == IF Current(w)
                      THEN {Job(NextStage(j.type), j.version, j.fp, Pipeline, j.promote)} ELSE {}
  <2>1. run[w].pc # "idle" /\ Finish(w, next) BY <1>5 DEF EmbedReturns, At
  <2>2. IsJob(j) BY <2>1 DEF JobsInv
  <2>3. j.version \in Versions BY <2>2 DEF IsJob
  <2>4. \A k \in next : IsJob(k)
    <3>. HIDE DEF j
    <3>. QED BY <2>3, NewJob
  <2>. QED BY <2>1, <2>4, FinishKeeps
<1>6. ASSUME MarkReady(w) PROVE JobsInv'
  BY <1>6, GotoKeeps, FailKeeps DEF MarkReady, At
<1>7. ASSUME FindActive(w) PROVE JobsInv'
  <2>1. run[w].pc # "idle" BY <1>7 DEF FindActive, At
  <2>2. CASE Finish(w, {}) BY <2>1, <2>2, FinishKeeps
  <2>3. ASSUME NEW target, run' = [run EXCEPT ![w].pc = "move", ![w].target = target],
               UNCHANGED jobs
        PROVE  JobsInv'
    <3>. DEFINE q == [run[w] EXCEPT !.pc = "move"]
                r == [q EXCEPT !.target = target]
    <3>1. IsRun(q) /\ q.job = run[w].job BY DEF JobsInv, IsRun
    <3>2. IsRun(r) /\ r.job = run[w].job
      <4>. HIDE DEF q
      <4>. QED BY <3>1 DEF IsRun
    <3>3. run' = [run EXCEPT ![w] = r] BY <2>3 DEF JobsInv
    <3>. HIDE DEF r
    <3>. QED BY <2>1, <2>3, <3>2, <3>3, OneRun DEF JobsInv
  <2>. QED BY <1>7, <2>2, <2>3 DEF FindActive
<1>8. ASSUME Promote(w) PROVE JobsInv'
  <2>1. run[w].pc # "idle" BY <1>8 DEF Promote, At
  <2>. QED BY <1>8, <2>1, FinishKeeps, FailKeeps DEF Promote
<1>9. ASSUME TaskFails(w) PROVE JobsInv'
  BY <1>9, FailKeeps DEF TaskFails, At
<1>. QED BY <1>1, <1>2, <1>3, <1>4, <1>5, <1>6, <1>7, <1>8, <1>9 DEF Work

-----------------------------------------------------------------------------
(* The theorems *)

LEMMA InitHolds == Init => IInv /\ JobsInv
<1>. SUFFICES ASSUME Init PROVE IInv /\ JobsInv
  OBVIOUS
<1>1. \A v \in Versions : IsChapterTable(rows[v])
  BY NewRowIsRow DEF Init, IsChapterTable
<1>2. IInv BY <1>1 DEF Init, IInv, Shape, ApprovedContent
<1>3. JobsInv BY IdleRun DEF Init, JobsInv
<1>. QED BY <1>2, <1>3

LEMMA StepKeeps == IInv /\ JobsInv /\ [Next]_vars => IInv' /\ JobsInv'
<1>. SUFFICES ASSUME IInv, JobsInv, [Next]_vars PROVE IInv' /\ JobsInv'
  OBVIOUS
<1>1. ASSUME UNCHANGED <<status, rows, approval>> PROVE IInv'
  BY <1>1 DEF IInv, Shape, ApprovedContent, ContentOf
<1>2. CASE Admin
  <2>1. JobsInv' BY <1>2, AdminKeepsJobs
  <2>2. IInv'
    BY <1>2, IngestKeeps, EditQuestionKeeps, EditVisualKeeps, ApproveKeeps, CreateDraftKeeps,
       DeleteChapterKeeps, ActivateKeeps DEF Admin
  <2>. QED BY <2>1, <2>2
<1>3. ASSUME NEW w \in Workers, Work(w) PROVE IInv' /\ JobsInv'
  <2>1. JobsInv' BY <1>3, WorkKeepsJobs
  <2>2. ASSUME NEW j \in jobs, Lease(w, j) PROVE IInv' BY <1>1, <2>2 DEF Lease
  <2>3. CASE Begin(w) BY <1>1, <2>1, <2>3 DEF Begin
  <2>4. CASE EmbedReturns(w) BY <1>1, <2>1, <2>4 DEF EmbedReturns
  <2>5. CASE FindActive(w) BY <1>1, <2>1, <2>5 DEF FindActive
  <2>6. CASE TaskFails(w) BY <1>1, <2>1, <2>6 DEF TaskFails
  <2>7. CASE Promote(w)
    <3>1. run[w].job.version \in Versions BY <2>7 DEF Promote, At, JobsInv, IsJob
    <3>. QED BY <2>1, <2>7, <3>1, PromoteKeeps
  <2>. QED
    BY <1>3, <2>1, <2>2, <2>3, <2>4, <2>5, <2>6, <2>7, EmbedWriteKeeps, EmbedFailsKeeps,
       MarkReadyKeeps DEF Work
<1>4. CASE UNCHANGED vars
  BY <1>1, <1>4 DEF vars, JobsInv
<1>. QED BY <1>2, <1>3, <1>4 DEF Next

LEMMA Invariance == Spec => [](IInv /\ JobsInv)
BY InitHolds, StepKeeps, PTL DEF Spec

\* A live approval is of the content its version has now, and its version is not
\* being edited (approve_qa and every invalidation of approvals).
THEOREM ApprovalsStand == Spec => []ApprovedContent
<1>1. IInv => ApprovedContent BY DEF IInv
<1>. QED BY <1>1, Invariance, PTL

\* Only mark_qa_ready and an activation make a version ready or active.
LEMMA StatusStep ==
  ASSUME IInv, [Next]_vars, NEW v \in Versions,
         status'[v] # status[v], status'[v] \in {"qa_ready", "active"}
  PROVE  Complete(v)
<1>1. CASE Admin
  <2>1. ASSUME NEW u \in Versions, Activate(u) PROVE Complete(v)
    BY <2>1 DEF Activate, IInv, Shape
  <2>2. ASSUME NEW u \in Versions, NEW c \in Chapters, NEW t, Ingest(u, c, t) PROVE FALSE
    BY <2>2 DEF Ingest, IInv, Shape
  <2>3. ASSUME NEW u \in Versions, NEW c \in Chapters, NEW r, Edit(u, c, r) PROVE FALSE
    BY <2>3 DEF Edit, IInv, Shape
  <2>4. ASSUME NEW u \in Versions, NEW x \in Versions, NEW m \in BOOLEAN, CreateDraft(u, x, m)
        PROVE FALSE
    BY <2>4 DEF CreateDraft, IInv, Shape
  <2>5. ASSUME NEW u \in Versions, NEW c \in Chapters, NEW t, EditQuestion(u, c, t) PROVE FALSE
    BY <2>3, <2>5 DEF EditQuestion
  <2>6. ASSUME NEW u \in Versions, NEW c \in Chapters, NEW t, NEW p, EditVisual(u, c, t, p)
        PROVE FALSE
    BY <2>3, <2>6 DEF EditVisual
  <2>7. ASSUME NEW u \in Versions, NEW c \in Chapters, DeleteChapter(u, c) PROVE FALSE
    BY <2>7 DEF DeleteChapter
  <2>8. ASSUME NEW u \in Versions, Approve(u) PROVE FALSE BY <2>8 DEF Approve
  <2>. QED BY <1>1, <2>1, <2>2, <2>4, <2>5, <2>6, <2>7, <2>8 DEF Admin
<1>2. ASSUME NEW w \in Workers, Work(w) PROVE Complete(v)
  <2>1. CASE MarkReady(w) BY <2>1 DEF MarkReady, IInv, Shape
  <2>2. ASSUME Promote(w) PROVE FALSE
    <3>. DEFINE x == run[w].job.version
    <3>1. status' = [status EXCEPT ![x] = "deleted"] BY <2>2 DEF Promote
    <3>. HIDE DEF x
    <3>. QED BY <3>1 DEF IInv, Shape
  <2>. QED
    BY <1>2, <2>1, <2>2 DEF Work, Lease, Begin, EmbedWrite, EmbedFails, EmbedReturns, FindActive,
       TaskFails
<1>3. CASE UNCHANGED vars BY <1>3 DEF vars
<1>. QED BY <1>1, <1>2, <1>3 DEF Next

\* No version becomes ready for review or starts being served with a row that has
\* no vector (mark_qa_ready, activate and the completeness trigger).
THEOREM TransitionsAreComplete == Spec => TransitionsComplete
<1>1. IInv /\ [Next]_vars =>
        [\A v \in Versions : status[v]' # status[v] /\ status[v]' \in {"qa_ready", "active"} =>
           \A c \in Chapters : Embedded(rows[v][c])]_vars
  BY StatusStep DEF Complete
<1>. QED BY <1>1, Invariance, PTL DEF Spec, TransitionsComplete

LEMMA EditsAreCounted == Spec => []EditsCount
<1>1. Init => EditsCount BY DEF Init, EditsCount
<1>2. EditsCount /\ [Next]_vars => EditsCount'
  <2>. SUFFICES ASSUME EditsCount, [Next]_vars PROVE EditsCount'
    OBVIOUS
  <2>1. ASSUME Admin PROVE edits' \in {edits, edits + 1}
    <3>1. ASSUME NEW v, NEW c, NEW t, Ingest(v, c, t) PROVE edits' = edits
      BY <3>1 DEF Ingest
    <3>2. ASSUME NEW v, NEW c, NEW r, Edit(v, c, r) PROVE edits' = edits + 1
      BY <3>2 DEF Edit
    <3>3. ASSUME NEW v, NEW c, NEW t, EditQuestion(v, c, t) PROVE edits' = edits + 1
      BY <3>2, <3>3 DEF EditQuestion
    <3>4. ASSUME NEW v, NEW c, NEW t, NEW p, EditVisual(v, c, t, p) PROVE edits' = edits + 1
      BY <3>2, <3>4 DEF EditVisual
    <3>5. ASSUME NEW v, NEW c, DeleteChapter(v, c) PROVE edits' = edits + 1
      BY <3>5 DEF DeleteChapter
    <3>6. ASSUME NEW v, Approve(v) \/ Activate(v) PROVE edits' = edits
      BY <3>6 DEF Approve, Activate
    <3>7. ASSUME NEW u, NEW v, NEW m, CreateDraft(u, v, m) PROVE edits' = edits
      BY <3>7 DEF CreateDraft
    <3>. QED BY <2>1, <3>1, <3>3, <3>4, <3>5, <3>6, <3>7 DEF Admin
  <2>2. ASSUME NEW w \in Workers, Work(w) PROVE edits' = edits
    BY <2>2 DEF Work, Lease, Begin, EmbedWrite, EmbedFails, EmbedReturns, MarkReady, FindActive,
       Promote, TaskFails
  <2>. QED BY <2>1, <2>2 DEF EditsCount, Next, vars
<1>. QED BY <1>1, <1>2, PTL DEF Spec

LEMMA KeptByAdmin ==
  ASSUME IInv, EditsCount, Admin, edits' = edits,
         NEW v \in Active \cap Active', NEW c \in Chapters, Present(rows[v][c])
  PROVE  Present(rows'[v][c])
<1>0. v \in Versions /\ status[v] = "active" /\ status'[v] = "active"
  BY DEF Active, InStatus
<1>1. ASSUME NEW u \in Versions, NEW d \in Chapters, NEW t, Ingest(u, d, t)
      PROVE  Present(rows'[v][c])
  <2>1. u # v BY <1>0, <1>1 DEF Ingest, IInv, Shape
  <2>. QED BY <1>0, <1>1, <2>1 DEF Ingest, IInv, Shape
<1>2. ASSUME NEW u \in Versions, NEW d \in Chapters, NEW r, Edit(u, d, r) PROVE FALSE
  BY <1>2 DEF Edit, EditsCount
<1>3. ASSUME NEW u \in Versions, NEW d \in Chapters, NEW t, EditQuestion(u, d, t) PROVE FALSE
  BY <1>2, <1>3 DEF EditQuestion
<1>4. ASSUME NEW u \in Versions, NEW d \in Chapters, NEW t, NEW p, EditVisual(u, d, t, p)
      PROVE  FALSE
  BY <1>2, <1>4 DEF EditVisual
<1>5. ASSUME NEW u \in Versions, NEW d \in Chapters, DeleteChapter(u, d) PROVE FALSE
  BY <1>5 DEF DeleteChapter, EditsCount
<1>6. ASSUME NEW u \in Versions, NEW x \in Versions, NEW m \in BOOLEAN, CreateDraft(u, x, m)
      PROVE  Present(rows'[v][c])
  <2>1. x # v BY <1>0, <1>6 DEF CreateDraft, Fresh
  <2>. QED BY <1>0, <1>6, <2>1 DEF CreateDraft, IInv, Shape
<1>7. ASSUME NEW u \in Versions, Approve(u) \/ Activate(u) PROVE Present(rows'[v][c])
  BY <1>7 DEF Approve, Activate
<1>. QED BY <1>1, <1>3, <1>4, <1>5, <1>6, <1>7 DEF Admin

LEMMA KeptByWorker ==
  ASSUME IInv, JobsInv, NEW w \in Workers, Work(w),
         NEW v \in Active \cap Active', NEW c \in Chapters, Present(rows[v][c])
  PROVE  Present(rows'[v][c])
<1>0. v \in Versions /\ status[v] = "active" /\ status'[v] = "active"
  BY DEF Active, InStatus
<1>1. IsRow(rows[v][c]) BY <1>0 DEF IInv, Shape, IsChapterTable
<1>2. CASE EmbedWrite(w)
  <2>. DEFINE j == run[w].job
  <2>1. status[j.version] # "building" => rows' = rows BY <1>2 DEF EmbedWrite
  <2>2. status[j.version] = "building" => rows'[v] = rows[v]
    <3>1. status[j.version] = "building" => j.version # v BY <1>0
    <3>2. status[j.version] = "building" =>
            \E f : rows' = [rows EXCEPT ![j.version] = f]
      BY <1>2 DEF EmbedWrite
    <3>. HIDE DEF j
    <3>. QED BY <1>0, <3>1, <3>2 DEF IInv, Shape
  <2>. QED BY <2>1, <2>2
<1>3. CASE EmbedFails(w)
  <2>1. \/ rows'[v][c] = rows[v][c]
        \/ rows'[v][c] = VectorOf(rows[v][c], run[w].job.type, None)
    BY <1>0, <1>3 DEF EmbedFails
  <2>. QED BY <1>1, <2>1, VectorKeepsContent DEF Present
<1>4. CASE Promote(w)
  <2>. DEFINE u == run[w].job.version
              a == run[w].target
              d == run[w].job.promote
              chapter == Promoted(rows[a], rows[u], d)
              none == [x \in Chapters |-> Absent]
  <2>1. CASE rows' = rows BY <2>1
  <2>2. CASE /\ rows' = [rows EXCEPT ![a] = chapter, ![u] = none]
             /\ status' = [status EXCEPT ![u] = "deleted"]
             /\ {x \in Chapters : Present(rows[u][x])} = {d}
    <3>1. u \in Versions BY <1>4 DEF Promote, At, JobsInv, IsJob
    <3>2. u # v
      <4>. HIDE DEF u, a, chapter, none
      <4>. QED BY <1>0, <2>2 DEF IInv, Shape
    <3>3. rows'[v] = IF v = a THEN chapter ELSE rows[v]
      <4>. HIDE DEF u, a, chapter, none
      <4>. QED BY <1>0, <2>2, <3>2 DEF IInv, Shape
    <3>4. d \in Chapters /\ Present(rows[u][d]) BY <2>2
    <3>5. v = a => chapter[c] = IF c = d THEN rows[u][d] ELSE rows[v][c]
      BY <1>0, <3>4 DEF Promoted, IInv, Shape, IsChapterTable
    <3>. QED BY <3>3, <3>4, <3>5
  <2>. QED BY <1>4, <2>1, <2>2 DEF Promote, Promotable
<1>. QED
  BY <1>2, <1>3, <1>4 DEF Work, Lease, Begin, EmbedReturns, MarkReady, FindActive, TaskFails

\* Only the administrator's deletion takes a chapter out of a served version
\* (promote_chapter_from_temp_to_active, replace_chapter_chunks).
THEOREM ServedChaptersAreKept == Spec => ServedChaptersKept
<1>1. IInv /\ JobsInv /\ EditsCount /\ [Next]_vars =>
        [\A v \in Active \cap Active', c \in Chapters :
           Present(rows[v][c]) => Present(rows[v][c]') \/ edits' # edits]_vars
  <2>. SUFFICES ASSUME IInv, JobsInv, EditsCount, Next, edits' = edits,
                       NEW v \in Active \cap Active', NEW c \in Chapters, Present(rows[v][c])
       PROVE  Present(rows'[v][c])
    OBVIOUS
  <2>. QED BY KeptByAdmin, KeptByWorker DEF Next
<1>. QED BY <1>1, Invariance, EditsAreCounted, PTL DEF Spec, ServedChaptersKept
-----------------------------------------------------------------------------
(* One textbook is served *)

\* At most one version is active, and a worker is about to move a chapter from a
\* version to another one.  So a version that has been activated since it was taken
\* for a temporary one is not deleted: its target is not the active version then.
OneActive ==
  \A u, v \in Versions : status[u] = "active" /\ status[v] = "active" => u = v

MovesApart ==
  \A w \in Workers : run[w].pc = "move" => run[w].target \in Versions \ {run[w].job.version}

ServeInv == OneActive /\ MovesApart

\* A step of a worker that is not going to move a chapter.
LEMMA NotMoving ==
  ASSUME JobsInv, MovesApart, NEW w \in Workers, NEW r, r.pc # "move",
         run' = [run EXCEPT ![w] = r]
  PROVE  MovesApart'
<1>1. run' = [x \in Workers |-> IF x = w THEN r ELSE run[x]] BY DEF JobsInv
<1>. QED BY <1>1 DEF MovesApart

\* Whatever a worker does, it moves only between two versions.
LEMMA WorkMovesApart ==
  ASSUME IInv, JobsInv, ServeInv, NEW w \in Workers, Work(w)
  PROVE  MovesApart'
<1>. USE DEF ServeInv
<1>1. Idle.pc # "move" BY DEF Idle
<1>2. ASSUME NEW j \in jobs, Lease(w, j) PROVE MovesApart'
  <2>. DEFINE r == [Idle EXCEPT !.pc = "start", !.job = j]
  <2>1. r.pc = "start" BY DEF Idle
  <2>2. run' = [run EXCEPT ![w] = r] BY <1>2 DEF Lease
  <2>. HIDE DEF r
  <2>. QED BY <2>1, <2>2, NotMoving
<1>3. ASSUME NEW next, Finish(w, next) PROVE MovesApart'
  BY <1>1, <1>3, NotMoving DEF Finish
<1>4. ASSUME Fail(w) PROVE MovesApart'
  BY <1>1, <1>4, NotMoving DEF Fail
<1>5. ASSUME NEW pc, pc # "move", Goto(w, pc) PROVE MovesApart'
  <2>. DEFINE r == [run[w] EXCEPT !.pc = pc]
  <2>1. r.pc = pc BY DEF JobsInv, IsRun
  <2>2. run' = [run EXCEPT ![w] = r] BY <1>5 DEF Goto
  <2>. HIDE DEF r
  <2>. QED BY <1>5, <2>1, <2>2, NotMoving
<1>6. ASSUME NEW pc, pc # "move", NEW work, run' = [run EXCEPT ![w].pc = pc, ![w].work = work]
      PROVE  MovesApart'
  <2>. DEFINE r == [run[w] EXCEPT !.pc = pc, !.work = work]
  <2>1. r.pc = pc BY DEF JobsInv, IsRun
  <2>2. run' = [run EXCEPT ![w] = r] BY <1>6 DEF JobsInv
  <2>. HIDE DEF r
  <2>. QED BY <1>6, <2>1, <2>2, NotMoving
<1>7. CASE Begin(w) BY <1>3, <1>4, <1>5, <1>6, <1>7 DEF Begin
<1>8. CASE EmbedWrite(w) BY <1>6, <1>8 DEF EmbedWrite
<1>9. CASE EmbedFails(w) BY <1>4, <1>9 DEF EmbedFails
<1>10. CASE EmbedReturns(w) BY <1>3, <1>10 DEF EmbedReturns
<1>11. CASE MarkReady(w) BY <1>4, <1>5, <1>11 DEF MarkReady
<1>12. CASE FindActive(w)
  <2>. DEFINE v == run[w].job.version
              a == CHOOSE u \in Active : TRUE
              q == [run[w] EXCEPT !.pc = "move"]
              r == [q EXCEPT !.target = a]
  <2>1. CASE Finish(w, {}) BY <1>3, <2>1
  <2>2. CASE ~(Active \subseteq {v}) /\ run' = [run EXCEPT ![w].pc = "move", ![w].target = a]
    <3>1. a \in Versions /\ a # v
      BY <2>2 DEF OneActive, Active, InStatus
    <3>2. IsRun(q) /\ q.job = run[w].job BY DEF JobsInv, IsRun
    <3>. HIDE DEF a
    <3>3. r.target = a /\ r.job = run[w].job
      <4>. HIDE DEF q
      <4>. QED BY <3>2 DEF IsRun
    <3>4. run' = [run EXCEPT ![w] = r] BY <2>2 DEF JobsInv
    <3>. HIDE DEF r
    <3>5. run' = [x \in Workers |-> IF x = w THEN r ELSE run[x]] BY <3>4 DEF JobsInv
    <3>. QED BY <3>1, <3>3, <3>5 DEF MovesApart
  <2>. QED BY <1>12, <2>1, <2>2 DEF FindActive
<1>13. CASE Promote(w) BY <1>3, <1>4, <1>13 DEF Promote
<1>14. CASE TaskFails(w) BY <1>4, <1>14 DEF TaskFails
<1>. QED
  BY <1>2, <1>7, <1>8, <1>9, <1>10, <1>11, <1>12, <1>13, <1>14 DEF Work

\* A step that changes the status of one version, from another status than active
\* to another one, changes nothing for the students.
LEMMA Unserved ==
  ASSUME IInv, NEW v \in Versions, status[v] # "active", NEW st, st # "active",
         status' = [status EXCEPT ![v] = st]
  PROVE  Active' = Active
BY DEF IInv, Shape, Active, InStatus

\* The administrator's steps but an activation.
LEMMA AdminServes ==
  ASSUME IInv, Admin, \A v \in Versions : ~Activate(v) PROVE Active' = Active
<1>1. ASSUME NEW v \in Versions, NEW c \in Chapters, NEW t, Ingest(v, c, t)
      PROVE  Active' = Active
  <2>1. status[v] # "active"
    BY <1>1 DEF Ingest, IngestTarget, Fresh, IsLatest, InStatus
  <2>. QED BY <1>1, <2>1, Unserved DEF Ingest
<1>2. ASSUME NEW v \in Versions, NEW c \in Chapters, NEW r, Edit(v, c, r)
      PROVE  Active' = Active
  BY <1>2, Unserved DEF Edit, Editable
<1>3. ASSUME NEW v \in Versions, NEW c \in Chapters, NEW t, EditQuestion(v, c, t)
      PROVE  Active' = Active
  BY <1>2, <1>3 DEF EditQuestion
<1>4. ASSUME NEW v \in Versions, NEW c \in Chapters, NEW t, NEW p, EditVisual(v, c, t, p)
      PROVE  Active' = Active
  BY <1>2, <1>4 DEF EditVisual
<1>5. ASSUME NEW v \in Versions, NEW c \in Chapters, DeleteChapter(v, c)
      PROVE  Active' = Active
  BY <1>5 DEF DeleteChapter, Active, InStatus
<1>6. ASSUME NEW v \in Versions, Approve(v) PROVE Active' = Active
  BY <1>6 DEF Approve, Active, InStatus
<1>7. ASSUME NEW u \in Versions, NEW v \in Versions, NEW m \in BOOLEAN, CreateDraft(u, v, m)
      PROVE  Active' = Active
  BY <1>7, Unserved DEF CreateDraft, Fresh
<1>. QED BY <1>1, <1>3, <1>4, <1>5, <1>6, <1>7 DEF Admin

\* A worker's steps: a promotion deletes a version that is not the active one.
LEMMA WorkServes ==
  ASSUME IInv, JobsInv, ServeInv, NEW w \in Workers, Work(w) PROVE Active' = Active
<1>1. ASSUME UNCHANGED status PROVE Active' = Active
  BY <1>1 DEF Active, InStatus
<1>2. CASE MarkReady(w)
  <2>. DEFINE v == run[w].job.version
  <2>1. v \in Versions BY <1>2 DEF MarkReady, At, JobsInv, IsJob
  <2>2. CASE status[v] = "building" /\ status' = [status EXCEPT ![v] = "qa_ready"]
    <3>. HIDE DEF v
    <3>. QED BY <2>1, <2>2, Unserved
  <2>. QED BY <1>1, <1>2, <2>2 DEF MarkReady
<1>3. CASE Promote(w)
  <2>. DEFINE v == run[w].job.version
              a == run[w].target
  <2>1. v \in Versions /\ a \in Versions /\ a # v
    BY <1>3 DEF Promote, At, JobsInv, IsJob, ServeInv, MovesApart
  <2>2. CASE status[a] = "active" /\ status' = [status EXCEPT ![v] = "deleted"]
    <3>. HIDE DEF v, a
    <3>1. status[v] # "active" BY <2>1, <2>2 DEF ServeInv, OneActive
    <3>. QED BY <2>1, <2>2, <3>1, Unserved
  <2>. QED BY <1>1, <1>3, <2>2 DEF Promote, Promotable
<1>. QED
  BY <1>1, <1>2, <1>3 DEF Work, Lease, Begin, EmbedWrite, EmbedFails, EmbedReturns, FindActive,
     TaskFails
\* Students see the work on a textbook as a stutter, or as an activation of another
\* version.
LEMMA ServeStep ==
  ASSUME IInv, JobsInv, ServeInv, [Next]_vars
  PROVE  ServeInv' /\ [Textbook!Next]_ServedVersion
<1>1. ASSUME Active' = Active PROVE OneActive' /\ ServedVersion' = ServedVersion
  <2>1. OneActive'
    <3>. SUFFICES ASSUME NEW u \in Versions, NEW v \in Versions,
                         status'[u] = "active", status'[v] = "active"
         PROVE  u = v
      BY DEF OneActive
    <3>1. u \in Active' /\ v \in Active' BY DEF Active, InStatus
    <3>2. u \in Active /\ v \in Active BY <1>1, <3>1
    <3>. QED BY <3>2 DEF ServeInv, OneActive, Active, InStatus
  <2>2. ServedVersion' = ServedVersion BY <1>1 DEF ServedVersion
  <2>. QED BY <2>1, <2>2
<1>2. ASSUME UNCHANGED run PROVE MovesApart'
  BY <1>2 DEF ServeInv, MovesApart
<1>3. ASSUME NEW v \in Versions, Activate(v)
      PROVE  OneActive' /\ ServedVersion # v /\ ServedVersion' = v
  <2>1. Active' = {v} /\ v \notin Active
    BY <1>3 DEF Activate, Active, InStatus
  <2>2. OneActive' BY <1>3 DEF Activate, OneActive
  <2>3. ServedVersion' = v BY <2>1 DEF ServedVersion
  <2>4. ServedVersion \in Active \cup {0} BY DEF ServedVersion
  <2>5. v # 0 BY DEF Versions
  <2>. QED BY <2>1, <2>2, <2>3, <2>4, <2>5
<1>4. CASE Admin
  <2>1. UNCHANGED run
    <3>1. ASSUME NEW v, NEW c, NEW t, Ingest(v, c, t) PROVE UNCHANGED run
      BY <3>1 DEF Ingest
    <3>2. ASSUME NEW v, NEW c, NEW r, Edit(v, c, r) PROVE UNCHANGED run
      BY <3>2 DEF Edit
    <3>3. ASSUME NEW v, NEW c, NEW t, EditQuestion(v, c, t) PROVE UNCHANGED run
      BY <3>2, <3>3 DEF EditQuestion
    <3>4. ASSUME NEW v, NEW c, NEW t, NEW p, EditVisual(v, c, t, p) PROVE UNCHANGED run
      BY <3>2, <3>4 DEF EditVisual
    <3>5. ASSUME NEW v, NEW c, DeleteChapter(v, c) PROVE UNCHANGED run
      BY <3>5 DEF DeleteChapter
    <3>6. ASSUME NEW v, Approve(v) \/ Activate(v) PROVE UNCHANGED run
      BY <3>6 DEF Approve, Activate
    <3>7. ASSUME NEW u, NEW v, NEW m, CreateDraft(u, v, m) PROVE UNCHANGED run
      BY <3>7 DEF CreateDraft
    <3>. QED BY <1>4, <3>1, <3>3, <3>4, <3>5, <3>6, <3>7 DEF Admin
  <2>2. ASSUME NEW v \in Versions, Activate(v)
        PROVE  OneActive' /\ [Textbook!Next]_ServedVersion
    BY <1>3, <2>2 DEF Textbook!Next, Textbook!Activate
  <2>3. ASSUME \A v \in Versions : ~Activate(v)
        PROVE  OneActive' /\ [Textbook!Next]_ServedVersion
    BY <1>1, <1>4, <2>3, AdminServes
  <2>. QED BY <1>2, <2>1, <2>2, <2>3 DEF ServeInv
<1>5. ASSUME NEW w \in Workers, Work(w) PROVE ServeInv' /\ ServedVersion' = ServedVersion
  BY <1>1, <1>5, WorkMovesApart, WorkServes DEF ServeInv
<1>6. CASE UNCHANGED vars
  <2>1. Active' = Active BY <1>6 DEF vars, Active, InStatus
  <2>. QED BY <1>1, <1>2, <1>6, <2>1 DEF vars, ServeInv
<1>. QED BY <1>4, <1>5, <1>6 DEF Next

\* The lifecycle of a corpus implements the textbook that its students are promised:
\* exactly one version from the first activation on, replaced by activations only.
THEOREM TextbookIsServed == Spec => ServesTextbook
<1>1. Init => ServeInv /\ Textbook!Init
  <2>. SUFFICES ASSUME Init PROVE ServeInv /\ Textbook!Init
    OBVIOUS
  <2>1. Active = {} BY DEF Init, Active, InStatus
  <2>2. ServeInv BY DEF Init, ServeInv, OneActive, MovesApart, Idle
  <2>3. ServedVersion = 0 BY <2>1 DEF ServedVersion
  <2>. QED BY <2>2, <2>3 DEF Textbook!Init
<1>2. IInv /\ JobsInv /\ ServeInv /\ [Next]_vars => ServeInv' /\ [Textbook!Next]_ServedVersion
  BY ServeStep
<1>. QED BY <1>1, <1>2, Invariance, PTL DEF Spec, ServesTextbook, Textbook!Spec
=============================================================================
