---------------------------- MODULE ServingProofs ----------------------------
(***************************************************************************)
(* Theorems about three parts that share nothing: the locks of the corpus, *)
(* the retention of student sources and the bank of approved questions.    *)
(*                                                                         *)
(* The corpus-first order excludes deadlocks between any number of         *)
(* transactions on a corpus with any number of versions, as long as only   *)
(* operations that follow it run.                                          *)
(*                                                                         *)
(* A cleanup pass works on copies of rows it claimed earlier.  The         *)
(* invariant says why they never mislead it: a row that may be claimed     *)
(* stays one that may go, and an object that is gone stays gone or comes   *)
(* back late.                                                              *)
(*                                                                         *)
(* The bank's theorems hold for any number of revisions, candidates,       *)
(* import keys and reviewers.                                              *)
(***************************************************************************)
EXTENDS CorpusLocks, SourceRetention, QuestionBank, FiniteSetTheorems, TLAPS

-----------------------------------------------------------------------------
(* Locks *)

\* The operations whose locks follow the documented order.
Ordered == Operations \subseteq {"import", "activate", "delete_chapter"}

Rows == VersionRows \cup {Corpus}

LockTypeOK ==
  /\ todo \in [Transactions -> Seq(Rows)]
  /\ held \in [Transactions -> SUBSET Rows]

\* A row lock has one holder.
Exclusive == \A t, u \in Transactions : t # u => held[t] \cap held[u] = {}

\* A transaction that wants more than one row locks the corpus first and keeps it.
CorpusFirst ==
  \A t \in Transactions : todo[t] # <<>> =>
    \/ Corpus \in held[t]
    \/ held[t] = {} /\ (Head(todo[t]) = Corpus \/ Tail(todo[t]) = <<>>)

LockInv == LockTypeOK /\ Exclusive /\ CorpusFirst

\* Under the order, the lock list of an operation starts with the corpus or has one row.
LEMMA LocksInOrder ==
  ASSUME Ordered, NEW op \in Operations, NEW locks \in Locks(op)
  PROVE  /\ locks \in Seq(Rows)
         /\ locks # <<>> => Head(locks) = Corpus \/ Tail(locks) = <<>>
<1>1. op \in {"import", "activate", "delete_chapter"}
  BY DEF Ordered
<1>2. CASE op = "import"
  <2>1. locks = <<Corpus>> \/ \E v \in VersionRows : locks = <<Corpus, v>>
    BY <1>2 DEF Locks
  <2>2. CASE locks = <<Corpus>>
    BY <2>2 DEF Rows
  <2>3. ASSUME NEW v \in VersionRows, locks = <<Corpus, v>>
        PROVE  locks \in Seq(Rows) /\ Head(locks) = Corpus
    BY <2>3 DEF Rows
  <2> QED
    BY <2>1, <2>2, <2>3
<1>3. CASE op = "activate"
  <2>1. PICK order \in SetToSeqs(VersionRows) : locks = <<Corpus>> \o order
    BY <1>3 DEF Locks
  <2>2. Cardinality(VersionRows) \in Nat
    BY LockAssumption, FS_CardinalityType
  <2>3. order \in Seq(VersionRows)
    BY <2>2 DEF SetToSeqs
  <2>4. order \in Seq(Rows) /\ <<Corpus>> \in Seq(Rows)
    BY <2>3 DEF Rows
  <2> QED
    BY <2>1, <2>4
<1>4. CASE op = "delete_chapter"
  <2>1. \E v \in VersionRows : locks = <<v>>
    BY <1>4 DEF Locks
  <2>2. ASSUME NEW v \in VersionRows, locks = <<v>>
        PROVE  locks \in Seq(Rows) /\ Tail(locks) = <<>>
    BY <2>2 DEF Rows
  <2> QED
    BY <2>1, <2>2
<1> QED
  BY <1>1, <1>2, <1>3, <1>4

\* Row locks stay exclusive and in order through every step.
LEMMA LockInvKept == ASSUME Ordered, LockInv, [LockNext]_lockVars PROVE LockInv'
<1> USE DEF LockInv, LockTypeOK, Exclusive, CorpusFirst
<1>1. ASSUME NEW t \in Transactions, Begin(t) PROVE LockInv'
  <2>1. PICK op \in Operations : \E locks \in Locks(op) : todo' = [todo EXCEPT ![t] = locks]
    BY <1>1 DEF Begin
  <2>2. PICK locks \in Locks(op) : todo' = [todo EXCEPT ![t] = locks]
    BY <2>1
  <2>3. /\ locks \in Seq(Rows)
        /\ locks # <<>> => Head(locks) = Corpus \/ Tail(locks) = <<>>
    BY LocksInOrder
  <2>4. held[t] = {} /\ held' = held
    BY <1>1 DEF Begin
  <2> QED
    BY <2>2, <2>3, <2>4
<1>2. ASSUME NEW t \in Transactions, LockRow(t) PROVE LockInv'
  <2>1. /\ todo[t] \in Seq(Rows) /\ todo[t] # <<>>
        /\ \A u \in Transactions \ {t} : Head(todo[t]) \notin held[u]
        /\ todo' = [todo EXCEPT ![t] = Tail(todo[t])]
        /\ held' = [held EXCEPT ![t] = held[t] \cup {Head(todo[t])}]
    BY <1>2 DEF LockRow
  <2>2. Head(todo[t]) \in Rows /\ Tail(todo[t]) \in Seq(Rows)
    BY <2>1
  <2>3. LockTypeOK' /\ Exclusive'
    BY <2>1, <2>2
  <2>4. CorpusFirst'
    BY <2>1, <2>2
  <2> QED
    BY <2>3, <2>4
<1>3. ASSUME NEW t \in Transactions, End(t) PROVE LockInv'
  BY <1>3 DEF End
<1>4. CASE UNCHANGED lockVars
  BY <1>4 DEF lockVars
<1> QED
  BY <1>1, <1>2, <1>3, <1>4 DEF LockNext

\* If every operation locks the corpus before any second row, no set of
\* transactions ever waits for each other in a circle.
THEOREM OrderPreventsDeadlock == ASSUME Ordered PROVE LockSpec => []NoLockCycle
<1>1. LockInit => LockInv
  BY DEF LockInit, LockInv, LockTypeOK, Exclusive, CorpusFirst
<1>2. LockInv /\ [LockNext]_lockVars => LockInv'
  BY LockInvKept, Ordered
<1>3. LockInv => NoLockCycle
  <2> SUFFICES ASSUME LockInv, NEW S \in (SUBSET Transactions) \ {{}},
                      \A t \in S : /\ todo[t] # <<>>
                                   /\ \E u \in S \ {t} : Head(todo[t]) \in held[u]
               PROVE  FALSE
    BY DEF NoLockCycle
  <2>1. \A t \in S : held[t] # {} => Corpus \in held[t]
    BY DEF LockInv, CorpusFirst
  <2>2. PICK t \in S : TRUE
    OBVIOUS
  <2>3. PICK u \in S \ {t} : Head(todo[t]) \in held[u]
    BY <2>2
  <2>4. PICK v \in S \ {u} : Head(todo[u]) \in held[v]
    BY <2>3
  <2>5. Corpus \in held[u] /\ Corpus \in held[v]
    BY <2>1, <2>3, <2>4
  <2> QED
    BY <2>3, <2>4, <2>5 DEF LockInv, Exclusive
<1> QED
  BY <1>1, <1>2, <1>3, PTL DEF LockSpec

-----------------------------------------------------------------------------
(* Retention *)

\* A row that a cleanup pass may take away: its upload is over, and a batch that was
\* made of it has had its day.
Removable(s) ==
  /\ "capability" \in upload[s].passed
  /\ upload[s].status # "none"
  /\ upload[s].status = "finalized" => "raw_source" \in upload[s].passed

\* A row whose object is gone for good: what arrives now arrives late.
Emptied(s) == s \notin stored \ late /\ "capability" \in upload[s].passed

UploadTypeOK ==
  /\ upload \in [Uploads -> [status : {"none", "created", "finalized", "raw_source_purged",
                                       "deleted"},
                             key : BOOLEAN, passed : SUBSET Deadlines]]
  /\ batch \in [Uploads -> {"none", "open", "finished", "deleted"}]
  /\ stored \subseteq Uploads

Entries == [id : Uploads, key : BOOLEAN]

CleaningTypeOK ==
  cleaning \in [Cleaners -> [stage : {"jobs", "unfinalized", "raw_sources"},
                             todo : Seq(Entries),
                             answer : {"none", "deleted", "failed"}]]

DeadlinesInOrder ==
  \A s \in Uploads :
    /\ "retention" \in upload[s].passed => "raw_source" \in upload[s].passed
    /\ "raw_source" \in upload[s].passed => "capability" \in upload[s].passed
    /\ upload[s].status = "none" => upload[s].passed = {}

OpenHasKey ==
  \A s \in Uploads :
    upload[s].status # "none" /\ "capability" \notin upload[s].passed => upload[s].key

BatchHasSession == \A s \in Uploads : batch[s] = "deleted" => upload[s].status = "deleted"

\* What worker w has in hand, on whatever stale rows its pass works.
PassIsSafe(w) ==
  /\ \A i \in DOMAIN cleaning[w].todo :
       /\ Removable(cleaning[w].todo[i].id)
       /\ cleaning[w].todo[i].key \/ Emptied(cleaning[w].todo[i].id)
  /\ cleaning[w].answer # "none" => cleaning[w].todo # <<>>
  /\ cleaning[w].answer = "deleted" => Emptied(Head(cleaning[w].todo).id)

RetentionInv ==
  /\ UploadTypeOK /\ CleaningTypeOK
  /\ DeadlinesInOrder /\ OpenHasKey /\ BatchHasSession /\ NothingForgotten
  /\ \A w \in Cleaners : PassIsSafe(w)

\* The elements, head and tail of a sequence.
LEMMA ElementsOfSeq ==
  ASSUME NEW S, NEW q \in Seq(S)
  PROVE  /\ \A i \in DOMAIN q : q[i] \in S
         /\ q # <<>> => /\ Head(q) = q[1] /\ 1 \in DOMAIN q /\ Tail(q) \in Seq(S)
                        /\ \A i \in DOMAIN Tail(q) : i + 1 \in DOMAIN q /\ Tail(q)[i] = q[i + 1]
<1> QED
  OBVIOUS

\* A pass that takes no step stays safe if the rows keep what it relies on.
LEMMA OtherPasses ==
  ASSUME RetentionInv, NEW w \in Cleaners, cleaning'[w] = cleaning[w],
         \A s \in Uploads : (Removable(s) => Removable(s)') /\ (Emptied(s) => Emptied(s)')
  PROVE  PassIsSafe(w)'
<1>1. cleaning[w].todo \in Seq(Entries)
  BY DEF RetentionInv, CleaningTypeOK
<1>2. \A i \in DOMAIN cleaning[w].todo : cleaning[w].todo[i].id \in Uploads
  <2>1. \A i \in DOMAIN cleaning[w].todo : cleaning[w].todo[i] \in Entries
    BY <1>1, ElementsOfSeq
  <2> QED
    BY <2>1 DEF Entries
<1>3. cleaning[w].todo # <<>> => Head(cleaning[w].todo) = cleaning[w].todo[1]
                                 /\ 1 \in DOMAIN cleaning[w].todo
  BY <1>1, ElementsOfSeq
<1>4. PassIsSafe(w)
  BY DEF RetentionInv
<1>5. (\A i \in DOMAIN cleaning[w].todo :
         /\ Removable(cleaning[w].todo[i].id)
         /\ cleaning[w].todo[i].key \/ Emptied(cleaning[w].todo[i].id))'
  BY <1>2, <1>4 DEF PassIsSafe
<1>6. (cleaning[w].answer = "deleted" => Emptied(Head(cleaning[w].todo).id))'
  BY <1>2, <1>3, <1>4 DEF PassIsSafe
<1> QED
  BY <1>4, <1>5, <1>6 DEF PassIsSafe

\* What a pass goes on with after it has settled the first of its rows.
LEMMA RestOfPass ==
  ASSUME RetentionInv, NEW w \in Cleaners, cleaning[w].todo # <<>>, Rest(w),
         \A s \in Uploads : (Removable(s) => Removable(s)') /\ (Emptied(s) => Emptied(s)')
  PROVE  CleaningTypeOK' /\ \A v \in Cleaners : PassIsSafe(v)'
<1>1. cleaning[w].todo \in Seq(Entries) /\ PassIsSafe(w) /\ CleaningTypeOK
  BY DEF RetentionInv, CleaningTypeOK
<1>2. /\ Tail(cleaning[w].todo) \in Seq(Entries)
      /\ \A i \in DOMAIN Tail(cleaning[w].todo) :
           /\ i + 1 \in DOMAIN cleaning[w].todo
           /\ Tail(cleaning[w].todo)[i] = cleaning[w].todo[i + 1]
           /\ cleaning[w].todo[i + 1] \in Entries
  BY <1>1, ElementsOfSeq
<1>3. /\ cleaning'[w].todo = Tail(cleaning[w].todo)
      /\ cleaning'[w].answer = "none"
      /\ cleaning' = [cleaning EXCEPT ![w] =
                        [cleaning[w] EXCEPT !.todo = Tail(cleaning[w].todo), !.answer = "none"]]
  BY <1>1 DEF Rest, CleaningTypeOK
<1>4. CleaningTypeOK'
  BY <1>1, <1>2, <1>3 DEF CleaningTypeOK
<1>5. PassIsSafe(w)'
  <2>1. ASSUME NEW i \in DOMAIN Tail(cleaning[w].todo)
        PROVE  LET s == Tail(cleaning[w].todo)[i]
               IN  /\ s.id \in Uploads
                   /\ Removable(s.id)
                   /\ s.key \/ Emptied(s.id)
    BY <1>1, <1>2 DEF PassIsSafe, Entries
  <2> QED
    BY <1>3, <2>1 DEF PassIsSafe
<1>6. ASSUME NEW v \in Cleaners \ {w} PROVE PassIsSafe(v)'
  <2>1. cleaning'[v] = cleaning[v]
    BY <1>1, <1>3 DEF CleaningTypeOK
  <2> QED
    BY <2>1, OtherPasses
<1> QED
  BY <1>4, <1>5, <1>6

\* A pass that ends relies on nothing.
LEMMA EndOfPass ==
  ASSUME RetentionInv, NEW w \in Cleaners, EndPass(w),
         \A s \in Uploads : (Removable(s) => Removable(s)') /\ (Emptied(s) => Emptied(s)')
  PROVE  CleaningTypeOK' /\ \A v \in Cleaners : PassIsSafe(v)'
<1>1. CleaningTypeOK
  BY DEF RetentionInv
<1>2. <<>> \in Seq(Entries)
  OBVIOUS
<1>3. cleaning'[w] = NoPass /\ CleaningTypeOK'
  BY <1>1, <1>2 DEF EndPass, CleaningTypeOK, NoPass
<1>4. PassIsSafe(w)'
  BY <1>3 DEF PassIsSafe, NoPass
<1>5. ASSUME NEW v \in Cleaners \ {w} PROVE PassIsSafe(v)'
  <2>1. cleaning'[v] = cleaning[v]
    BY <1>1 DEF EndPass, CleaningTypeOK
  <2> QED
    BY <2>1, OtherPasses
<1> QED
  BY <1>3, <1>4, <1>5

\* The row that a pass has in hand.
LEMMA RowInHand ==
  ASSUME RetentionInv, NEW w \in Cleaners, cleaning[w].todo # <<>>
  PROVE  /\ Head(cleaning[w].todo) \in Entries
         /\ Removable(Head(cleaning[w].todo).id)
         /\ Head(cleaning[w].todo).key \/ Emptied(Head(cleaning[w].todo).id)
<1>1. cleaning[w].todo \in Seq(Entries) /\ PassIsSafe(w)
  BY DEF RetentionInv, CleaningTypeOK
<1>2. /\ Head(cleaning[w].todo) = cleaning[w].todo[1] /\ 1 \in DOMAIN cleaning[w].todo
      /\ cleaning[w].todo[1] \in Entries
  BY <1>1, ElementsOfSeq
<1> QED
  BY <1>1, <1>2 DEF PassIsSafe

\* The student's steps and the passing of time keep the invariant.
LEMMA RowStepsKeepInv ==
  ASSUME RetentionInv, NEW s \in Uploads,
         \/ OpenSession(s) \/ UploadObject(s) \/ FinalizeSession(s) \/ SaveMcqResult(s)
         \/ FinishBatch(s) \/ (\E deadline \in Deadlines : DeadlinePasses(s, deadline))
         \/ (\E kind \in ClaimKinds : ClaimExpires(kind, s))
  PROVE  RetentionInv'
<1> USE DEF RetentionInv, Removable, Emptied
<1>1. /\ UploadTypeOK /\ DeadlinesInOrder /\ OpenHasKey /\ BatchHasSession /\ NothingForgotten
      /\ cleaning' = cleaning /\ CleaningTypeOK
  BY DEF OpenSession, UploadObject, FinalizeSession, SaveMcqResult, FinishBatch, DeadlinePasses,
         ClaimExpires
<1>2. SUFFICES /\ UploadTypeOK' /\ DeadlinesInOrder' /\ OpenHasKey' /\ BatchHasSession'
               /\ NothingForgotten'
               /\ \A t \in Uploads : (Removable(t) => Removable(t)') /\ (Emptied(t) => Emptied(t)')
  <2>1. CleaningTypeOK'
    BY <1>1 DEF CleaningTypeOK
  <2>2. (\A w \in Cleaners : PassIsSafe(w))'
    BY <1>1, <1>2, OtherPasses
  <2> QED
    BY <1>2, <2>1, <2>2
<1> USE <1>1 DEF UploadTypeOK, DeadlinesInOrder, OpenHasKey, BatchHasSession, NothingForgotten
<1>3. CASE OpenSession(s)
  BY <1>3 DEF OpenSession
<1>4. CASE UploadObject(s)
  BY <1>4 DEF UploadObject
<1>5. CASE FinalizeSession(s)
  BY <1>5 DEF FinalizeSession, Finalizable
<1>6. CASE SaveMcqResult(s)
  BY <1>6 DEF SaveMcqResult
<1>7. CASE FinishBatch(s)
  BY <1>7 DEF FinishBatch
<1>8. ASSUME NEW deadline \in Deadlines, DeadlinePasses(s, deadline)
      PROVE  /\ UploadTypeOK' /\ DeadlinesInOrder' /\ OpenHasKey' /\ BatchHasSession'
             /\ NothingForgotten'
             /\ \A t \in Uploads : (Removable(t) => Removable(t)') /\ (Emptied(t) => Emptied(t)')
  BY <1>8 DEF DeadlinePasses, Deadlines
<1>9. ASSUME NEW kind \in ClaimKinds, ClaimExpires(kind, s)
      PROVE  /\ UploadTypeOK' /\ DeadlinesInOrder' /\ OpenHasKey' /\ BatchHasSession'
             /\ NothingForgotten'
             /\ \A t \in Uploads : (Removable(t) => Removable(t)') /\ (Emptied(t) => Emptied(t)')
  BY <1>9 DEF ClaimExpires
<1> QED
  BY <1>3, <1>4, <1>5, <1>6, <1>7, <1>8, <1>9

\* A claim takes up only rows that may go, with what they hold.
LEMMA ClaimKeepsInv ==
  ASSUME RetentionInv, NEW w \in Cleaners, ClaimDue(w) PROVE RetentionInv'
<1> DEFINE stage == NextStage(cleaning[w].stage)
           Entry(s) == [id |-> s, key |-> upload[s].key]
<1>1. PICK due \in SetToSeqs(Due(stage)) :
        cleaning' = [cleaning EXCEPT ![w] =
          [stage |-> stage, answer |-> "none", todo |-> [i \in DOMAIN due |-> Entry(due[i])]]]
  BY DEF ClaimDue
<1>2. CleaningTypeOK /\ stage \in {"jobs", "unfinalized", "raw_sources"}
  BY DEF RetentionInv, CleaningTypeOK, NextStage
<1>3. Due(stage) \subseteq Uploads
  BY DEF Due
<1>4. Cardinality(Due(stage)) \in Nat
  BY <1>3, RetentionAssumption, FS_Subset, FS_CardinalityType
<1>5. due \in [1..Cardinality(Due(stage)) -> Due(stage)]
  BY <1>1 DEF SetToSeqs
<1>6. ASSUME NEW s \in Due(stage)
      PROVE  Removable(s) /\ Entry(s) \in Entries /\ (Entry(s).key \/ Emptied(s))
  <2>1. s \in Uploads /\ upload[s].key \in BOOLEAN
    BY <1>3 DEF RetentionInv, UploadTypeOK
  <2>2. Removable(s)
    BY <1>2, <2>1 DEF Due, RetentionInv, DeadlinesInOrder, Removable
  <2>3. upload[s].key \/ Emptied(s)
    BY <2>1, <2>2 DEF RetentionInv, NothingForgotten, Removable, Emptied
  <2> QED
    BY <2>1, <2>2, <2>3 DEF Entries
<1> DEFINE rows == [i \in DOMAIN due |-> Entry(due[i])]
<1>7. /\ DOMAIN rows = 1..Cardinality(Due(stage))
      /\ \A i \in DOMAIN rows : due[i] \in Due(stage) /\ rows[i] = Entry(due[i])
  BY <1>5
<1>8. rows \in Seq(Entries)
  <2>1. \A i \in 1..Cardinality(Due(stage)) : rows[i] \in Entries
    BY <1>6, <1>7
  <2>2. rows \in [1..Cardinality(Due(stage)) -> Entries]
    BY <1>7, <2>1
  <2> HIDE DEF rows
  <2> QED
    BY <1>4, <2>2
<1>9. UNCHANGED <<upload, stored, late, batch>>
  BY DEF ClaimDue
<1>10. /\ cleaning'[w] = [stage |-> stage, answer |-> "none", todo |-> rows]
       /\ \A v \in Cleaners \ {w} : cleaning'[v] = cleaning[v]
  BY <1>1, <1>2 DEF CleaningTypeOK
<1>11. CleaningTypeOK'
  <2> HIDE DEF rows, stage
  <2>1. [stage |-> stage, answer |-> "none", todo |-> rows] \in
          [stage : {"jobs", "unfinalized", "raw_sources"}, todo : Seq(Entries),
           answer : {"none", "deleted", "failed"}]
    BY <1>2, <1>8
  <2>2. cleaning' = [cleaning EXCEPT ![w] = [stage |-> stage, answer |-> "none", todo |-> rows]]
    BY <1>1 DEF rows
  <2> QED
    BY <1>2, <2>1, <2>2 DEF CleaningTypeOK
<1>12. PassIsSafe(w)'
  <2>1. \A i \in DOMAIN rows :
          Removable(rows[i].id) /\ (rows[i].key \/ Emptied(rows[i].id))
    BY <1>6, <1>7
  <2> HIDE DEF rows, stage
  <2>2. cleaning'[w].todo = rows /\ cleaning'[w].answer = "none"
    BY <1>10
  <2> QED
    BY <1>9, <2>1, <2>2 DEF PassIsSafe, Removable, Emptied
<1>13. ASSUME NEW v \in Cleaners \ {w} PROVE PassIsSafe(v)'
  BY <1>9, <1>10, OtherPasses DEF Removable, Emptied
<1> QED
  BY <1>9, <1>11, <1>12, <1>13
     DEF RetentionInv, UploadTypeOK, DeadlinesInOrder, OpenHasKey, BatchHasSession,
           NothingForgotten

\* Once the storage has said that it deleted an object, only a late one can be there.
LEMMA DeletionKeepsInv ==
  ASSUME RetentionInv, NEW w \in Cleaners, DeleteObject(w) PROVE RetentionInv'
<1> DEFINE s == Head(cleaning[w].todo)
<1>1. cleaning[w].todo # <<>> /\ CleaningTypeOK
  BY DEF DeleteObject, RetentionInv
<1>2. s \in Entries /\ Removable(s.id) /\ (s.key \/ Emptied(s.id))
  BY <1>1, RowInHand
<1>3. PICK answer \in {"deleted", "failed"} :
        /\ cleaning' = [cleaning EXCEPT ![w].answer = answer]
        /\ answer = "deleted" => stored' = IF s.key THEN stored \ {s.id} ELSE stored
  BY DEF DeleteObject
<1>4. stored' \subseteq stored /\ UNCHANGED <<upload, late, batch>>
  BY DEF DeleteObject
<1>5. \A t \in Uploads : (Removable(t) => Removable(t)') /\ (Emptied(t) => Emptied(t)')
  BY <1>4 DEF Removable, Emptied
<1>6. /\ cleaning'[w].todo = cleaning[w].todo /\ cleaning'[w].answer = answer
      /\ \A v \in Cleaners \ {w} : cleaning'[v] = cleaning[v]
      /\ CleaningTypeOK'
  BY <1>1, <1>3 DEF CleaningTypeOK
<1>7. PassIsSafe(w)'
  <2>1. \A i \in DOMAIN cleaning[w].todo : cleaning[w].todo[i] \in Entries
    BY <1>1, ElementsOfSeq DEF CleaningTypeOK
  <2>2. (\A i \in DOMAIN cleaning[w].todo :
           /\ Removable(cleaning[w].todo[i].id)
           /\ cleaning[w].todo[i].key \/ Emptied(cleaning[w].todo[i].id))'
    BY <1>5, <1>6, <2>1 DEF PassIsSafe, RetentionInv, Entries
  <2>3. answer = "deleted" => Emptied(s.id)'
    BY <1>2, <1>3, <1>4 DEF Removable, Emptied
  <2> QED
    BY <1>1, <1>6, <2>2, <2>3 DEF PassIsSafe
<1>8. \A v \in Cleaners \ {w} : PassIsSafe(v)'
  BY <1>5, <1>6, OtherPasses
<1> QED
  BY <1>4, <1>6, <1>7, <1>8
     DEF RetentionInv, UploadTypeOK, DeadlinesInOrder, OpenHasKey, BatchHasSession,
           NothingForgotten

\* Settling a row keeps the invariant: its key is given up only when its object is gone.
LEMMA SettlingKeepsInv ==
  ASSUME RetentionInv, NEW w \in Cleaners, KeepRow(w) \/ PurgeSource(w) \/ DeleteRows(w)
  PROVE  RetentionInv'
<1> DEFINE s == Head(cleaning[w].todo).id
<1>1. cleaning[w].todo # <<>> /\ PassIsSafe(w)
  BY DEF KeepRow, PurgeSource, DeleteRows, RetentionInv, PassIsSafe
<1>2. s \in Uploads /\ Removable(s)
  BY <1>1, RowInHand DEF Entries
<1>3. Rest(w) \/ EndPass(w)
  BY DEF KeepRow, PurgeSource, DeleteRows
<1>4. /\ UploadTypeOK' /\ DeadlinesInOrder' /\ OpenHasKey' /\ BatchHasSession'
      /\ NothingForgotten'
      /\ \A t \in Uploads : (Removable(t) => Removable(t)') /\ (Emptied(t) => Emptied(t)')
  <2> USE <1>2 DEF RetentionInv, Removable, Emptied, UploadTypeOK, DeadlinesInOrder,
                   OpenHasKey, BatchHasSession, NothingForgotten
  <2>1. CASE UNCHANGED <<upload, stored, late, batch>>
    BY <2>1
  <2>2. CASE PurgeSource(w) /\ upload[s].status # "deleted"
    <3>1. Emptied(s)
      BY <1>1, <2>2 DEF PurgeSource, PassIsSafe
    <3>2. /\ upload' = [upload EXCEPT ![s] = [upload[s] EXCEPT !.status = "raw_source_purged",
                                                             !.key = FALSE]]
          /\ UNCHANGED <<stored, late, batch>>
      BY <2>2 DEF PurgeSource
    <3> HIDE DEF s
    <3> QED
      BY <2>2, <3>1, <3>2
  <2>3. CASE DeleteRows(w) /\ upload[s].status # "deleted" /\ s \notin mcqResults
    <3>1. Emptied(s)
      BY <1>1, <2>3 DEF DeleteRows, Gone, PassIsSafe
    <3>2. /\ upload' = [upload EXCEPT ![s] = [upload[s] EXCEPT !.status = "deleted", !.key = FALSE]]
          /\ batch' = [batch EXCEPT ![s] = IF batch[s] = "none" THEN "none" ELSE "deleted"]
          /\ UNCHANGED <<stored, late>>
      BY <2>3 DEF DeleteRows
    <3> HIDE DEF s
    <3> QED
      BY <2>3, <3>1, <3>2
  <2> QED
    BY <2>1, <2>2, <2>3 DEF KeepRow, PurgeSource, DeleteRows
<1>5. CleaningTypeOK' /\ \A v \in Cleaners : PassIsSafe(v)'
  BY <1>1, <1>3, <1>4, RestOfPass, EndOfPass
<1> QED
  BY <1>4, <1>5 DEF RetentionInv

LEMMA RetentionInvKept == ASSUME RetentionInv, [RetentionNext]_retentionVars PROVE RetentionInv'
<1>1. ASSUME NEW w \in Cleaners, PassStops(w) PROVE RetentionInv'
  <2>1. /\ \A t \in Uploads : (Removable(t) => Removable(t)') /\ (Emptied(t) => Emptied(t)')
        /\ UNCHANGED <<upload, stored, late, batch>> /\ EndPass(w)
    BY <1>1 DEF PassStops, Removable, Emptied
  <2>2. CleaningTypeOK' /\ \A v \in Cleaners : PassIsSafe(v)'
    BY <2>1, EndOfPass
  <2> QED
    BY <2>1, <2>2
       DEF RetentionInv, UploadTypeOK, DeadlinesInOrder, OpenHasKey, BatchHasSession,
           NothingForgotten
<1>2. ASSUME NEW w \in Cleaners, CleanUp(w) PROVE RetentionInv'
  BY <1>2, ClaimKeepsInv, DeletionKeepsInv, SettlingKeepsInv DEF CleanUp
<1>3. CASE UNCHANGED retentionVars
  BY <1>3 DEF retentionVars, RetentionInv, UploadTypeOK, CleaningTypeOK, DeadlinesInOrder,
              OpenHasKey, BatchHasSession, NothingForgotten, PassIsSafe, Removable, Emptied
<1> QED
  BY <1>1, <1>2, <1>3, RowStepsKeepInv DEF RetentionNext

LEMMA RetentionInvHolds == RetentionSpec => []RetentionInv
<1>1. RetentionInit => RetentionInv
  <2> SUFFICES ASSUME RetentionInit PROVE RetentionInv
    OBVIOUS
  <2>1. <<>> \in Seq(Entries)
    OBVIOUS
  <2>2. CleaningTypeOK /\ \A w \in Cleaners : PassIsSafe(w)
    BY <2>1 DEF RetentionInit, CleaningTypeOK, NoPass, PassIsSafe
  <2> QED
    BY <2>2 DEF RetentionInit, RetentionInv, UploadTypeOK, DeadlinesInOrder, OpenHasKey,
                BatchHasSession, NothingForgotten
<1> QED
  BY <1>1, RetentionInvKept, PTL DEF RetentionSpec

\* For any number of sessions and workers, a session row has the key of every object
\* that came in time, whatever the storage answers and wherever passes end.
THEOREM SourcesAreKnown == RetentionSpec => []NothingForgotten
<1>1. RetentionInv => NothingForgotten
  BY DEF RetentionInv
<1> QED
  BY <1>1, RetentionInvHolds, PTL

\* No pass, however old its claim, takes the source or the rows of a submitted batch
\* before their day is over.
THEOREM SourcesAreKept == RetentionSpec => SourceKeptForItsDay
<1> DEFINE Kept(s) == upload[s].status = "finalized" /\ "raw_source" \notin upload[s].passed =>
                        /\ s \in stored => s \in stored'
                        /\ upload'[s].status = "finalized" /\ batch'[s] # "deleted"
<1>1. ASSUME RetentionInv, [RetentionNext]_retentionVars
      PROVE  [\A s \in Uploads : Kept(s)]_retentionVars
  <2> SUFFICES ASSUME RetentionNext, NEW s \in Uploads,
                      upload[s].status = "finalized", "raw_source" \notin upload[s].passed
               PROVE  /\ s \in stored => s \in stored'
                      /\ upload'[s].status = "finalized" /\ batch'[s] # "deleted"
    BY <1>1
  <2>1. UploadTypeOK /\ batch[s] # "deleted" /\ ~Removable(s)
    BY <1>1 DEF RetentionInv, BatchHasSession, Removable
  <2> USE <2>1 DEF UploadTypeOK
  <2>2. ASSUME NEW t \in Uploads,
               \/ OpenSession(t) \/ UploadObject(t) \/ FinalizeSession(t) \/ SaveMcqResult(t)
               \/ FinishBatch(t) \/ (\E deadline \in Deadlines : DeadlinePasses(t, deadline))
               \/ (\E kind \in ClaimKinds : ClaimExpires(kind, t))
        PROVE  s \in stored => s \in stored'
    BY <2>2 DEF OpenSession, UploadObject, FinalizeSession, SaveMcqResult, FinishBatch,
                DeadlinePasses, ClaimExpires
  <2>3. ASSUME NEW t \in Uploads,
               \/ OpenSession(t) \/ UploadObject(t) \/ FinalizeSession(t) \/ SaveMcqResult(t)
               \/ FinishBatch(t) \/ (\E deadline \in Deadlines : DeadlinePasses(t, deadline))
               \/ (\E kind \in ClaimKinds : ClaimExpires(kind, t))
        PROVE  upload'[s].status = "finalized" /\ batch'[s] # "deleted"
    BY <2>3 DEF OpenSession, UploadObject, FinalizeSession, SaveMcqResult, FinishBatch,
                DeadlinePasses, ClaimExpires, Finalizable
  <2>4. ASSUME NEW w \in Cleaners, cleaning[w].todo # <<>>
        PROVE  Head(cleaning[w].todo).id # s
    BY <1>1, <2>1, <2>4, RowInHand
  <2>5. ASSUME NEW w \in Cleaners, CleanUp(w) \/ PassStops(w)
        PROVE  /\ s \in stored => s \in stored'
               /\ upload'[s].status = "finalized" /\ batch'[s] # "deleted"
    <3>1. CASE UNCHANGED <<upload, stored, batch>>
      BY <3>1
    <3>2. CASE DeleteObject(w)
      BY <2>4, <3>2 DEF DeleteObject
    <3>3. CASE PurgeSource(w) \/ DeleteRows(w)
      <4>1. cleaning[w].todo # <<>>
        BY <1>1, <3>3 DEF PurgeSource, DeleteRows, RetentionInv, PassIsSafe
      <4>2. Head(cleaning[w].todo).id # s
        BY <2>4, <4>1
      <4> QED
        BY <3>3, <4>2 DEF PurgeSource, DeleteRows
    <3> QED
      BY <2>5, <3>1, <3>2, <3>3 DEF CleanUp, PassStops, ClaimDue, KeepRow
  <2> QED
    BY <2>2, <2>3, <2>5 DEF RetentionNext
<1> QED
  BY <1>1, RetentionInvHolds, PTL DEF RetentionSpec, SourceKeptForItsDay

-----------------------------------------------------------------------------
(* The bank of approved questions *)

Vectors == {"none", "pending", "embedded"}

RevisionRows ==
  [status : {"none", "approved", "archived", "deleted"},
   source : {"none", "admin_authored", "admin_import", "generated_candidate"},
   embedding : Vectors]

CandidateRows ==
  [status : {"pending", "approved", "rejected", "deleted"},
   revision : Revisions \cup {NoRevision}, expires : BOOLEAN]

JobStates == {"none", "queued", "running", "failed", "succeeded"}

BankTypeOK ==
  /\ revision \in [Revisions -> RevisionRows]
  /\ candidate \in [Candidates -> CandidateRows]
  /\ review \in [Reviewers -> SUBSET Candidates]
  /\ bankJob \in [Revisions -> [Kinds -> JobStates]]
  /\ embedder.pc # "idle" => embedder.job \in Revisions \X Kinds

-----------------------------------------------------------------------------
(* How steps write rows *)

\* One field of a revision's row.
LEMMA SetEmbedding ==
  ASSUME BankTypeOK, NEW r \in Revisions, NEW v \in Vectors,
         revision' = [revision EXCEPT ![r].embedding = v]
  PROVE  /\ revision' \in [Revisions -> RevisionRows]
         /\ \A s \in Revisions : /\ s # r => revision'[s] = revision[s]
                                 /\ revision'[s].status = revision[s].status
                                 /\ revision'[s].source = revision[s].source
         /\ revision'[r].embedding = v
<1> DEFINE row == [revision[r] EXCEPT !.embedding = v]
<1>1. /\ row \in RevisionRows /\ row.embedding = v
      /\ row.status = revision[r].status /\ row.source = revision[r].source
  BY DEF BankTypeOK, RevisionRows
<1>2. revision' = [revision EXCEPT ![r] = row]
  OBVIOUS
<1> HIDE DEF row
<1> QED
  BY <1>1, <1>2 DEF BankTypeOK

\* A new revision's row, under an id that no row has yet.
LEMMA CreateRow ==
  ASSUME BankTypeOK, NEW r \in Revisions,
         NEW source \in {"admin_authored", "admin_import", "generated_candidate"},
         revision' = Created(r, source)
  PROVE  /\ revision' \in [Revisions -> RevisionRows]
         /\ \A s \in Revisions : s # r => revision'[s] = revision[s]
         /\ revision'[r].status = "approved" /\ revision'[r].source = source
         /\ revision'[r].embedding = "pending"
BY DEF Created, BankTypeOK, RevisionRows, Vectors

\* An archived revision keeps its origin.
LEMMA ArchiveRow ==
  ASSUME BankTypeOK, NEW r \in Revisions, revision' = [revision EXCEPT ![r].status = "archived"]
  PROVE  /\ revision' \in [Revisions -> RevisionRows]
         /\ \A s \in Revisions : /\ s # r => revision'[s] = revision[s]
                                 /\ revision'[s].source = revision[s].source
         /\ revision'[r].status = "archived"
<1> DEFINE row == [revision[r] EXCEPT !.status = "archived"]
<1>1. row \in RevisionRows /\ row.status = "archived" /\ row.source = revision[r].source
  BY DEF BankTypeOK, RevisionRows
<1>2. revision' = [revision EXCEPT ![r] = row]
  OBVIOUS
<1> HIDE DEF row
<1> QED
  BY <1>1, <1>2 DEF BankTypeOK

\* The deletion of a chapter's generated revisions clears every reference to one.
LEMMA CleanupRows ==
  ASSUME BankTypeOK, CleanupChapter
  PROVE  /\ revision' \in [Revisions -> RevisionRows]
         /\ candidate' \in [Candidates -> CandidateRows]
         /\ \A r \in Revisions : IF revision[r].source = "generated_candidate"
              THEN revision'[r].status = "deleted" /\ revision'[r].source = "none"
              ELSE revision'[r] = revision[r]
         /\ \A c \in Candidates :
              /\ candidate'[c].status = candidate[c].status
              /\ \/ candidate'[c].revision = NoRevision
                 \/ /\ candidate'[c].revision = candidate[c].revision
                    /\ \A r \in Revisions : revision[r].source = "generated_candidate" =>
                                            candidate[c].revision # r
<1> DEFINE gone == {r \in Revisions : revision[r].source = "generated_candidate"}
<1>1. /\ revision' = [r \in Revisions |-> IF r \in gone
           THEN [status |-> "deleted", source |-> "none", embedding |-> "none"] ELSE revision[r]]
      /\ candidate' = [c \in Candidates |-> IF candidate[c].revision \in gone
           THEN [candidate[c] EXCEPT !.revision = NoRevision] ELSE candidate[c]]
  BY DEF CleanupChapter
<1>2. revision' \in [Revisions -> RevisionRows]
  BY <1>1 DEF BankTypeOK, RevisionRows, Vectors
<1>3. ASSUME NEW c \in Candidates
      PROVE  /\ candidate'[c] \in CandidateRows
             /\ candidate'[c].status = candidate[c].status
             /\ \/ candidate'[c].revision = NoRevision
                \/ /\ candidate'[c].revision = candidate[c].revision
                   /\ candidate[c].revision \notin gone
  <2>1. candidate[c] \in CandidateRows
    BY DEF BankTypeOK
  <2>2. CASE candidate[c].revision \in gone
    <3>1. candidate'[c] = [candidate[c] EXCEPT !.revision = NoRevision]
      BY <1>1, <2>2
    <3> QED
      BY <2>1, <3>1 DEF CandidateRows
  <2>3. CASE candidate[c].revision \notin gone
    BY <1>1, <2>1, <2>3
  <2> QED
    BY <2>2, <2>3
<1>4. candidate' \in [Candidates -> CandidateRows]
  BY <1>1, <1>3
<1> QED
  BY <1>1, <1>2, <1>3, <1>4

\* What an approval writes.
LEMMA ApproveRows ==
  ASSUME BankTypeOK, NEW a \in Reviewers, NEW r \in Revisions, Approve(a, r)
  PROVE  \E c \in Candidates :
           /\ revision[r].status = "none" /\ candidate[c].status = "pending"
           /\ candidate' \in [Candidates -> CandidateRows]
           /\ candidate'[c].status = "approved" /\ candidate'[c].revision = r
           /\ \A d \in Candidates : d # c => candidate'[d] = candidate[d]
<1>1. PICK c \in review[a] :
        /\ revision[r].status = "none" /\ candidate[c].status = "pending"
        /\ candidate' = [candidate EXCEPT ![c] = [status |-> "approved", revision |-> r, expires |-> FALSE]]
  BY DEF Approve, CreateApproved
<1>2. c \in Candidates
  BY DEF BankTypeOK
<1> QED
  BY <1>1, <1>2 DEF BankTypeOK, CandidateRows

\* What a rejection or the retention pass writes.
LEMMA DecideRow ==
  ASSUME BankTypeOK, NEW c \in Candidates, NEW st \in {"rejected", "deleted"},
         candidate' = [candidate EXCEPT ![c].status = st]
  PROVE  /\ candidate' \in [Candidates -> CandidateRows]
         /\ \A d \in Candidates : /\ d # c => candidate'[d] = candidate[d]
                                  /\ candidate'[d].revision = candidate[d].revision
<1> DEFINE row == [candidate[c] EXCEPT !.status = st]
<1>1. row \in CandidateRows /\ row.revision = candidate[c].revision
  BY DEF BankTypeOK, CandidateRows
<1>2. candidate' = [candidate EXCEPT ![c] = row]
  OBVIOUS
<1> HIDE DEF row
<1> QED
  BY <1>1, <1>2 DEF BankTypeOK

\* Enqueueing keeps every job that exists.
LEMMA EnqueueRow ==
  ASSUME BankTypeOK, NEW r \in Revisions, NEW k \in Kinds, EnqueueEmbedding(r, k)
  PROVE  /\ bankJob' \in [Revisions -> [Kinds -> JobStates]]
         /\ \A s \in Revisions, h \in Kinds :
              bankJob'[s][h] = IF s = r /\ h = k /\ bankJob[r][k] = "none" THEN "queued" ELSE bankJob[s][h]
<1>1. bankJob[r] \in [Kinds -> JobStates]
  BY DEF BankTypeOK
<1>2. CASE bankJob[r][k] = "none"
  <2> DEFINE row == [bankJob[r] EXCEPT ![k] = "queued"]
  <2>1. row \in [Kinds -> JobStates] /\ \A h \in Kinds : row[h] = IF h = k THEN "queued" ELSE bankJob[r][h]
    BY <1>1 DEF JobStates
  <2>2. bankJob' = [bankJob EXCEPT ![r] = row]
    BY <1>2 DEF EnqueueEmbedding
  <2> HIDE DEF row
  <2> QED
    BY <1>2, <2>1, <2>2 DEF BankTypeOK
<1>3. CASE bankJob[r][k] # "none"
  BY <1>3 DEF EnqueueEmbedding, BankTypeOK
<1> QED
  BY <1>2, <1>3

\* The queue's own writes.
LEMMA JobRow ==
  ASSUME BankTypeOK, NEW r \in Revisions, NEW k \in Kinds, NEW st \in JobStates,
         bankJob' = [bankJob EXCEPT ![r][k] = st]
  PROVE  /\ bankJob' \in [Revisions -> [Kinds -> JobStates]]
         /\ \A s \in Revisions, h \in Kinds :
              bankJob'[s][h] = IF s = r /\ h = k THEN st ELSE bankJob[s][h]
<1> DEFINE row == [bankJob[r] EXCEPT ![k] = st]
<1>1. row \in [Kinds -> JobStates] /\ \A h \in Kinds : row[h] = IF h = k THEN st ELSE bankJob[r][h]
  BY DEF BankTypeOK
<1>2. bankJob' = [bankJob EXCEPT ![r] = row]
  OBVIOUS
<1> HIDE DEF row
<1> QED
  BY <1>1, <1>2 DEF BankTypeOK

-----------------------------------------------------------------------------
(* Types *)

\* Every operation keeps the rows in their domains, and a running embedding names its job.
LEMMA BankTypeKept == ASSUME BankTypeOK, [BankNext]_bankVars PROVE BankTypeOK'
<1> DEFINE RevOK == revision' \in [Revisions -> RevisionRows]
           CandOK == candidate' \in [Candidates -> CandidateRows]
           ReviewOK == review' \in [Reviewers -> SUBSET Candidates]
           JobOK == bankJob' \in [Revisions -> [Kinds -> JobStates]]
           EmbOK == embedder'.pc # "idle" => embedder'.job \in Revisions \X Kinds
<1>0. "revision" \in Kinds /\ "variation" \in Kinds /\ "pending" \in Vectors /\ "embedded" \in Vectors
  BY DEF Kinds, Vectors
<1>a. /\ UNCHANGED revision => RevOK
      /\ UNCHANGED candidate => CandOK
      /\ UNCHANGED review => ReviewOK
      /\ UNCHANGED bankJob => JobOK
      /\ UNCHANGED embedder => EmbOK
  BY DEF BankTypeOK
<1>b. ASSUME NEW a \in Reviewers, NEW S \in SUBSET Candidates, review' = [review EXCEPT ![a] = S]
      PROVE  ReviewOK
  BY <1>b DEF BankTypeOK
<1> SUFFICES RevOK /\ CandOK /\ ReviewOK /\ JobOK /\ EmbOK
  BY DEF BankTypeOK
<1> HIDE DEF RevOK, CandOK, ReviewOK, JobOK, EmbOK
<1> DEFINE Typed == RevOK /\ CandOK /\ ReviewOK /\ JobOK /\ EmbOK
<1>1. ASSUME NEW r \in Revisions, BankCreate(r) \/ \E i \in ImportKeys : BankImport(i, r)
      PROVE  Typed
  <2>1. PICK source \in {"admin_authored", "admin_import"} :
          /\ revision' = Created(r, source) /\ EnqueueEmbedding(r, "revision")
          /\ UNCHANGED <<candidate, review, embedder>>
    BY <1>1 DEF BankCreate, BankImport, CreateApproved
  <2> QED
    BY <1>0, <1>a, <2>1, CreateRow, EnqueueRow DEF RevOK, JobOK
<1>2. ASSUME NEW r \in Revisions, NEW a \in Reviewers, Approve(a, r) PROVE Typed
  <2>1. /\ revision' = Created(r, "generated_candidate") /\ EnqueueEmbedding(r, "revision")
        /\ review' = [review EXCEPT ![a] = {}] /\ UNCHANGED embedder
    BY <1>2 DEF Approve, CreateApproved
  <2>2. RevOK
    BY <2>1, CreateRow DEF RevOK
  <2>3. JobOK
    BY <1>0, <2>1, EnqueueRow DEF JobOK
  <2>4. CandOK
    BY <1>2, ApproveRows DEF CandOK
  <2>5. ReviewOK
    BY <1>b, <2>1
  <2> QED
    BY <1>a, <2>1, <2>2, <2>3, <2>4, <2>5
<1>3. ASSUME NEW a \in Reviewers, Reject(a) \/ ReviewFails(a) \/ \E c \in Candidates : Inspect(a, c)
      PROVE  Typed
  <2>1. UNCHANGED <<revision, bankJob, embedder>> /\ \E S \in SUBSET Candidates : review' = [review EXCEPT ![a] = S]
    BY <1>3 DEF Reject, ReviewFails, Inspect
  <2>2. \/ UNCHANGED candidate
        \/ \E c \in review[a] : candidate' = [candidate EXCEPT ![c].status = "rejected"]
    BY <1>3 DEF Reject, ReviewFails, Inspect
  <2>3. review[a] \subseteq Candidates
    BY DEF BankTypeOK
  <2> QED
    BY <1>a, <1>b, <2>1, <2>2, <2>3, DecideRow DEF CandOK
<1>4. ASSUME NEW c \in Candidates, RetentionCleanup(c) PROVE Typed
  BY <1>4, <1>a, DecideRow DEF RetentionCleanup, CandOK
<1>5. ASSUME NEW r \in Revisions, Archive(r) PROVE Typed
  BY <1>5, <1>a, ArchiveRow DEF Archive, RevOK
<1>6. ASSUME NEW r \in Revisions, AddVariation(r) \/ \E v \in BOOLEAN : SetVariationActive(r, v)
      PROVE  Typed
  BY <1>0, <1>6, <1>a, EnqueueRow DEF AddVariation, SetVariationActive, JobOK
<1>7. ASSUME NEW r \in Revisions, NEW k \in Kinds, RequeueEmbedding(r, k) PROVE Typed
  BY <1>0, <1>7, <1>a, EnqueueRow, SetEmbedding DEF RequeueEmbedding, JobOK, RevOK
<1>8. CASE CleanupChapter
  BY <1>8, <1>a, CleanupRows DEF CleanupChapter, RevOK, CandOK
<1>9. ASSUME NEW r \in Revisions, NEW k \in Kinds, LeaseEmbedding(r, k) PROVE Typed
  BY <1>9, <1>a, JobRow DEF LeaseEmbedding, JobOK, EmbOK, JobStates
<1>10. CASE ReadPending
  BY <1>10, <1>a DEF ReadPending, EmbOK, BankTypeOK
<1>11. CASE WriteVectors
  <2>1. embedder.job[1] \in Revisions
    BY <1>11 DEF WriteVectors, BankTypeOK
  <2>2. EmbOK
    BY <1>11 DEF WriteVectors, EmbOK, BankTypeOK
  <2> QED
    BY <1>0, <1>11, <1>a, <2>1, <2>2, SetEmbedding DEF WriteVectors, RevOK
<1>12. ASSUME NEW st \in JobStates, embedder.pc # "idle", EndJob(st) PROVE Typed
  <2>1. embedder.job[1] \in Revisions /\ embedder.job[2] \in Kinds
    BY <1>12 DEF BankTypeOK
  <2>2. EmbOK
    BY <1>12 DEF EndJob, EmbOK, NoEmbedder
  <2> QED
    BY <1>12, <1>a, <2>1, <2>2, JobRow DEF EndJob, JobOK
<1>13. CASE UNCHANGED bankVars
  BY <1>13, <1>a DEF bankVars
<1>14. EmbeddingFails \/ EmbeddingDone => \E st \in JobStates : embedder.pc # "idle" /\ EndJob(st)
  BY DEF EmbeddingFails, EmbeddingDone, JobStates
<1> QED
  BY <1>1, <1>2, <1>3, <1>4, <1>5, <1>6, <1>7, <1>8, <1>9, <1>10, <1>11, <1>12, <1>13, <1>14 DEF BankNext

-----------------------------------------------------------------------------
(* Approvals *)

\* A revision made from a candidate and the approved candidate refer to each
\* other, one to one; ids of rows that do not exist are free.
ApprovalInv ==
  /\ \A r \in Revisions : revision[r].status = "none" => revision[r].source = "none"
  /\ \A c \in Candidates : candidate[c].revision # NoRevision =>
       /\ candidate[c].status = "approved"
       /\ revision[candidate[c].revision].source = "generated_candidate"
  /\ \A r \in Revisions : revision[r].source = "generated_candidate" =>
       \E c \in Candidates : candidate[c].revision = r
  /\ \A c, d \in Candidates :
       candidate[c].revision = candidate[d].revision /\ candidate[c].revision # NoRevision => c = d

\* What every step but an approval and the cleanup of the chapter does: nothing
\* becomes or ceases to be generated, and only a candidate without a revision is decided.
References ==
  /\ \A r \in Revisions :
       /\ revision'[r].source = "generated_candidate" <=> revision[r].source = "generated_candidate"
       /\ revision'[r].status = "none" =>
            revision[r].status = "none" /\ revision'[r].source = revision[r].source
  /\ \A c \in Candidates :
       /\ candidate'[c].revision = candidate[c].revision
       /\ candidate'[c].status = candidate[c].status \/ candidate[c].revision = NoRevision

\* Approval is the only step that refers a candidate to a revision, and it finds
\* the candidate undecided and the revision's id unused; the others leave
\* references alone, or decide or delete a candidate that has none.
LEMMA ApprovalKept == ASSUME BankTypeOK, ApprovalInv, [BankNext]_bankVars PROVE ApprovalInv'
<1>0. \A c \in Candidates : candidate[c].revision \in Revisions \cup {NoRevision}
  BY DEF BankTypeOK, CandidateRows
<1>a. NoRevision \notin Revisions
  BY BankAssumption
<1>k. References => ApprovalInv'
  BY <1>0 DEF References, ApprovalInv
<1>1. ASSUME NEW r \in Revisions, BankCreate(r) \/ \E i \in ImportKeys : BankImport(i, r)
      PROVE  ApprovalInv'
  <2>1. PICK source \in {"admin_authored", "admin_import"} :
          revision' = Created(r, source) /\ revision[r].status = "none" /\ UNCHANGED candidate
    BY <1>1 DEF BankCreate, BankImport, CreateApproved
  <2>2. /\ \A s \in Revisions : s # r => revision'[s] = revision[s]
        /\ revision'[r].status = "approved" /\ revision'[r].source = source
    BY <2>1, CreateRow
  <2>3. revision[r].source = "none"
    BY <2>1 DEF ApprovalInv
  <2>4. References
    BY <2>1, <2>2, <2>3 DEF References
  <2> QED
    BY <1>k, <2>4
<1>2. ASSUME NEW r \in Revisions, NEW a \in Reviewers, Approve(a, r) PROVE ApprovalInv'
  <2>1. PICK c \in Candidates :
           /\ revision[r].status = "none" /\ candidate[c].status = "pending"
           /\ candidate'[c].status = "approved" /\ candidate'[c].revision = r
           /\ \A d \in Candidates : d # c => candidate'[d] = candidate[d]
    BY <1>2, ApproveRows
  <2>2. /\ \A s \in Revisions : s # r => revision'[s] = revision[s]
        /\ revision'[r].status = "approved" /\ revision'[r].source = "generated_candidate"
    BY <1>2, CreateRow DEF Approve, CreateApproved
  <2>3. candidate[c].revision = NoRevision /\ \A d \in Candidates : candidate[d].revision # r
    BY <1>a, <2>1 DEF ApprovalInv
  <2>4. \A s \in Revisions : revision'[s].status = "none" => revision'[s].source = "none"
    BY <2>2 DEF ApprovalInv
  <2>5. \A d \in Candidates : candidate'[d].revision # NoRevision =>
          /\ candidate'[d].status = "approved"
          /\ revision'[candidate'[d].revision].source = "generated_candidate"
    BY <1>0, <2>1, <2>2, <2>3 DEF ApprovalInv
  <2>6. \A s \in Revisions : revision'[s].source = "generated_candidate" =>
          \E d \in Candidates : candidate'[d].revision = s
    BY <1>a, <2>1, <2>2, <2>3 DEF ApprovalInv
  <2>7. \A d, e \in Candidates :
          candidate'[d].revision = candidate'[e].revision /\ candidate'[d].revision # NoRevision => d = e
    BY <2>1, <2>3 DEF ApprovalInv
  <2> QED
    BY <2>4, <2>5, <2>6, <2>7 DEF ApprovalInv
<1>3. ASSUME NEW a \in Reviewers, Reject(a) PROVE ApprovalInv'
  <2>1. PICK c \in review[a] : /\ candidate[c].status = "pending"
                               /\ candidate' = [candidate EXCEPT ![c].status = "rejected"]
                               /\ UNCHANGED revision
    BY <1>3 DEF Reject
  <2>2. c \in Candidates /\ candidate[c].revision = NoRevision
    BY <2>1 DEF BankTypeOK, ApprovalInv
  <2>3. \A d \in Candidates : /\ d # c => candidate'[d] = candidate[d]
                               /\ candidate'[d].revision = candidate[d].revision
    BY <2>1, <2>2, DecideRow
  <2>4. References
    BY <2>1, <2>2, <2>3 DEF References
  <2> QED
    BY <1>k, <2>4
<1>4. ASSUME NEW c \in Candidates, RetentionCleanup(c) PROVE ApprovalInv'
  <2>1. /\ candidate[c].revision = NoRevision /\ UNCHANGED revision
        /\ candidate' = [candidate EXCEPT ![c].status = "deleted"]
    BY <1>4 DEF RetentionCleanup
  <2>2. \A d \in Candidates : /\ d # c => candidate'[d] = candidate[d]
                               /\ candidate'[d].revision = candidate[d].revision
    BY <2>1, DecideRow
  <2>3. References
    BY <2>1, <2>2 DEF References
  <2> QED
    BY <1>k, <2>3
<1>5. ASSUME NEW r \in Revisions, Archive(r) PROVE ApprovalInv'
  <2>1. /\ revision' = [revision EXCEPT ![r].status = "archived"]
        /\ UNCHANGED candidate
    BY <1>5 DEF Archive
  <2>2. References
    BY <2>1, ArchiveRow DEF References
  <2> QED
    BY <1>k, <2>2
<1>6. ASSUME NEW r \in Revisions, NEW v \in Vectors, revision' = [revision EXCEPT ![r].embedding = v],
             UNCHANGED candidate
      PROVE  ApprovalInv'
  <2>1. \A s \in Revisions : /\ revision'[s].status = revision[s].status
                             /\ revision'[s].source = revision[s].source
    BY <1>6, SetEmbedding
  <2>2. References
    BY <1>6, <2>1 DEF References
  <2> QED
    BY <1>k, <2>2
<1>7. CASE CleanupChapter
  <2>1. \A c \in Candidates : candidate'[c].revision = NoRevision
    BY <1>0, <1>7, CleanupRows DEF ApprovalInv
  <2>2. \A r \in Revisions : /\ revision'[r].source # "generated_candidate"
                             /\ revision'[r].status = "none" => revision'[r].source = "none"
    BY <1>7, CleanupRows DEF ApprovalInv
  <2> QED
    BY <2>1, <2>2 DEF ApprovalInv
<1>8. ASSUME UNCHANGED <<revision, candidate>> PROVE ApprovalInv'
  BY <1>8, <1>k DEF References
<1>9. ASSUME NEW r \in Revisions, NEW k \in Kinds, RequeueEmbedding(r, k) PROVE ApprovalInv'
  <2>1. "pending" \in Vectors
    BY DEF Vectors
  <2>2. UNCHANGED candidate /\ \/ revision' = [revision EXCEPT ![r].embedding = "pending"]
                               \/ UNCHANGED revision
    BY <1>9 DEF RequeueEmbedding
  <2> QED
    BY <1>6, <1>8, <2>1, <2>2
<1>10. CASE WriteVectors
  <2>1. embedder.job[1] \in Revisions /\ "embedded" \in Vectors
    BY <1>10 DEF WriteVectors, BankTypeOK, Vectors
  <2>2. UNCHANGED candidate /\ \/ revision' = [revision EXCEPT ![embedder.job[1]].embedding = "embedded"]
                               \/ UNCHANGED revision
    BY <1>10 DEF WriteVectors
  <2> QED
    BY <1>6, <1>8, <2>1, <2>2
<1> QED
  BY <1>1, <1>2, <1>3, <1>4, <1>5, <1>7, <1>8, <1>9, <1>10
     DEF BankNext, ReviewFails, Inspect, AddVariation, SetVariationActive, LeaseEmbedding,
         ReadPending, EmbeddingFails, EmbeddingDone, EndJob, bankVars

\* However reviews, retention, imports, and the cleanup of the chapter overlap, a
\* generated revision in the bank belongs to exactly one approved candidate.
THEOREM ApprovalsAreUnique == BankSpec => []GeneratedWasApprovedOnce
<1>1. BankInit => BankTypeOK /\ ApprovalInv
  BY BankAssumption
     DEF BankInit, BankTypeOK, ApprovalInv, RevisionRows, CandidateRows, Vectors, JobStates, Kinds, NoEmbedder
<1>2. BankTypeOK /\ ApprovalInv /\ [BankNext]_bankVars => (BankTypeOK /\ ApprovalInv)'
  BY BankTypeKept, ApprovalKept
<1>3. ApprovalInv => GeneratedWasApprovedOnce
  <2> SUFFICES ASSUME ApprovalInv PROVE GeneratedWasApprovedOnce
    OBVIOUS
  <2>1. ASSUME NEW r \in Revisions, revision[r].source = "generated_candidate"
        PROVE  Cardinality({c \in Candidates : candidate[c].revision = r}) = 1
    <3>1. PICK c \in Candidates : candidate[c].revision = r
      BY <2>1 DEF ApprovalInv
    <3>2. {d \in Candidates : candidate[d].revision = r} = {c}
      BY <3>1, BankAssumption DEF ApprovalInv
    <3> QED
      BY <3>2, FS_Singleton
  <2> QED
    BY <2>1 DEF ApprovalInv, GeneratedWasApprovedOnce
<1> QED
  BY <1>1, <1>2, <1>3, PTL DEF BankSpec

-----------------------------------------------------------------------------
(* Embedding jobs *)

\* An id without a row has no job; a running embedding's job says so; and once a
\* revision's own job has read its rows, a revision still pending is among them.
EmbeddingInv ==
  /\ embedder \in [pc : {"idle", "read", "write", "complete"},
                   job : (Revisions \X Kinds) \cup {<<>>}, rows : SUBSET Kinds]
  /\ \A r \in Revisions : revision[r].status = "none" => bankJob[r]["revision"] = "none"
  /\ embedder.pc # "idle" => bankJob[embedder.job[1]][embedder.job[2]] = "running"
  /\ FirstEmbeddingHasJob
  /\ \A r \in Approved \ requeued :
       /\ revision[r].embedding = "pending"
       /\ embedder.pc \in {"write", "complete"}
       /\ embedder.job = <<r, "revision">>
       => embedder.pc = "write" /\ "revision" \in embedder.rows

\* What every step outside the embedding jobs does: a revision becomes pending with
\* a new job of its own, or because an administrator reset it.
JobsFollow ==
  /\ UNCHANGED embedder
  /\ requeued \subseteq requeued'
  /\ \A r \in Revisions :
       /\ revision'[r].status = "none" => revision[r].status = "none"
       /\ r \in Approved' \ requeued' /\ revision'[r].embedding = "pending" =>
            \/ r \in Approved /\ revision[r].embedding = "pending"
            \/ bankJob[r]["revision"] = "none" /\ bankJob'[r]["revision"] = "queued"
  /\ \A r \in Revisions, k \in Kinds :
       \/ bankJob'[r][k] = bankJob[r][k]
       \/ bankJob[r][k] = "none" /\ bankJob'[r][k] = "queued" /\ revision'[r].status # "none"

\* Steps outside the embedding jobs keep the invariant.
LEMMA EmbeddingFramed ==
  ASSUME BankTypeOK, EmbeddingInv, JobsFollow
  PROVE  EmbeddingInv'
<1>0. "revision" \in Kinds
  BY DEF Kinds
<1>1. embedder.pc # "idle" => /\ embedder.job \in Revisions \X Kinds
                              /\ bankJob'[embedder.job[1]][embedder.job[2]] = "running"
  BY DEF BankTypeOK, EmbeddingInv, JobsFollow
<1>2. \A r \in Revisions : revision'[r].status = "none" => bankJob'[r]["revision"] = "none"
  BY <1>0 DEF EmbeddingInv, JobsFollow
<1>3. FirstEmbeddingHasJob'
  BY <1>0 DEF EmbeddingInv, JobsFollow, FirstEmbeddingHasJob, Approved
<1>4. ASSUME NEW r \in Approved' \ requeued', revision'[r].embedding = "pending",
             embedder.pc \in {"write", "complete"}, embedder.job = <<r, "revision">>
      PROVE  embedder.pc = "write" /\ "revision" \in embedder.rows
  <2>1. r \in Revisions /\ bankJob[r]["revision"] = "running"
    BY <1>4 DEF Approved, EmbeddingInv
  <2>2. r \in Approved \ requeued /\ revision[r].embedding = "pending"
    BY <1>4, <2>1 DEF JobsFollow
  <2> QED
    BY <1>4, <2>2 DEF EmbeddingInv
<1> QED
  BY <1>1, <1>2, <1>3, <1>4 DEF EmbeddingInv, JobsFollow

\* Of the embedding jobs' own steps, only a completion closes a job, and it finds
\* that the revision's vector was written.
LEMMA EmbeddingKept == ASSUME BankTypeOK, EmbeddingInv, [BankNext]_bankVars PROVE EmbeddingInv'
<1>0. "revision" \in Kinds /\ "variation" \in Kinds /\ "pending" \in Vectors /\ "embedded" \in Vectors
  BY DEF Kinds, Vectors
<1>1. ASSUME NEW r \in Revisions, NEW source \in {"admin_authored", "admin_import", "generated_candidate"},
             revision[r].status = "none", revision' = Created(r, source), EnqueueEmbedding(r, "revision"),
             UNCHANGED <<embedder, requeued>>
      PROVE  EmbeddingInv'
  <2>1. bankJob[r]["revision"] = "none"
    BY <1>1 DEF EmbeddingInv
  <2>2. /\ \A s \in Revisions : s # r => revision'[s] = revision[s]
        /\ revision'[r].status = "approved"
    BY <1>1, CreateRow
  <2>3. \A s \in Revisions, h \in Kinds :
          bankJob'[s][h] = IF s = r /\ h = "revision" THEN "queued" ELSE bankJob[s][h]
    BY <1>0, <1>1, <2>1, EnqueueRow
  <2>4. JobsFollow
    BY <1>0, <1>1, <2>1, <2>2, <2>3 DEF JobsFollow, Approved
  <2> QED
    BY <2>4, EmbeddingFramed
<1>2. ASSUME UNCHANGED <<revision, bankJob, embedder, requeued>> PROVE EmbeddingInv'
  BY <1>2, EmbeddingFramed DEF JobsFollow, Approved
<1>3. ASSUME NEW r \in Revisions, Archive(r) PROVE EmbeddingInv'
  <2>1. revision' = [revision EXCEPT ![r].status = "archived"] /\ UNCHANGED <<bankJob, embedder, requeued>>
    BY <1>3 DEF Archive
  <2>2. \A s \in Revisions : /\ s # r => revision'[s] = revision[s]
                             /\ revision'[r].status = "archived"
    BY <2>1, ArchiveRow
  <2>3. JobsFollow
    BY <2>1, <2>2 DEF JobsFollow, Approved
  <2> QED
    BY <2>3, EmbeddingFramed
<1>4. ASSUME NEW r \in Revisions, AddVariation(r) PROVE EmbeddingInv'
  <2>1. /\ UNCHANGED <<revision, embedder, requeued>> /\ EnqueueEmbedding(r, "variation")
        /\ revision[r].status = "approved"
    BY <1>4 DEF AddVariation, Approved
  <2>2. \A s \in Revisions, h \in Kinds : bankJob'[s][h] =
          IF s = r /\ h = "variation" /\ bankJob[r]["variation"] = "none" THEN "queued" ELSE bankJob[s][h]
    BY <1>0, <2>1, EnqueueRow
  <2>3. JobsFollow
    BY <1>0, <2>1, <2>2 DEF JobsFollow, Approved
  <2> QED
    BY <2>3, EmbeddingFramed
<1>5. ASSUME NEW r \in Revisions, NEW k \in Kinds, RequeueEmbedding(r, k) PROVE EmbeddingInv'
  <2>1. /\ UNCHANGED embedder /\ EnqueueEmbedding(r, k) /\ requeued' = requeued \cup {r}
        /\ revision[r].status = "approved"
        /\ revision' = [revision EXCEPT ![r].embedding = "pending"] \/ UNCHANGED revision
    BY <1>5 DEF RequeueEmbedding, Approved
  <2>2. \A s \in Revisions : /\ s # r => revision'[s] = revision[s]
                             /\ revision'[s].status = revision[s].status
    BY <1>0, <2>1, SetEmbedding
  <2>3. \A s \in Revisions, h \in Kinds :
          bankJob'[s][h] = IF s = r /\ h = k /\ bankJob[r][k] = "none" THEN "queued" ELSE bankJob[s][h]
    BY <2>1, EnqueueRow
  <2>4. JobsFollow
    BY <1>0, <2>1, <2>2, <2>3 DEF JobsFollow, Approved
  <2> QED
    BY <2>4, EmbeddingFramed
<1>6. CASE CleanupChapter
  <2>1. \A r \in Revisions : revision'[r] = revision[r] \/ revision'[r].status = "deleted"
    BY <1>6, CleanupRows
  <2>2. UNCHANGED <<bankJob, embedder, requeued>>
    BY <1>6 DEF CleanupChapter
  <2>3. JobsFollow
    BY <2>1, <2>2 DEF JobsFollow, Approved
  <2> QED
    BY <2>3, EmbeddingFramed
<1>7. ASSUME NEW r \in Revisions, NEW k \in Kinds, LeaseEmbedding(r, k) PROVE EmbeddingInv'
  <2>1. /\ bankJob[r][k] = "queued" /\ bankJob' = [bankJob EXCEPT ![r][k] = "running"]
        /\ embedder' = [pc |-> "read", job |-> <<r, k>>, rows |-> {}]
        /\ UNCHANGED <<revision, requeued>>
    BY <1>7 DEF LeaseEmbedding
  <2>2. \A s \in Revisions, h \in Kinds :
          bankJob'[s][h] = IF s = r /\ h = k THEN "running" ELSE bankJob[s][h]
    <3>1. "running" \in JobStates
      BY DEF JobStates
    <3> QED
      BY <2>1, <3>1, JobRow
  <2>3. \A s \in Revisions : revision[s].status = "none" => bankJob'[s]["revision"] = "none"
    BY <1>0, <2>1, <2>2 DEF EmbeddingInv
  <2>4. FirstEmbeddingHasJob'
    BY <1>0, <2>1, <2>2 DEF EmbeddingInv, FirstEmbeddingHasJob, Approved
  <2> QED
    BY <2>1, <2>2, <2>3, <2>4 DEF EmbeddingInv
<1>8. CASE ReadPending
  <2>1. PICK rows \in SUBSET Kinds : embedder' = [embedder EXCEPT !.pc = "write", !.rows = rows]
    BY <1>8 DEF ReadPending
  <2>2. embedder.pc = "read" /\ UNCHANGED <<revision, bankJob, requeued>>
    BY <1>8 DEF ReadPending
  <2>3. embedder'.pc = "write" /\ embedder'.job = embedder.job
    BY <2>1 DEF EmbeddingInv
  <2>4. embedder' \in [pc : {"idle", "read", "write", "complete"},
                       job : (Revisions \X Kinds) \cup {<<>>}, rows : SUBSET Kinds]
    BY <2>1 DEF EmbeddingInv
  <2>5. ASSUME NEW r \in Approved, revision[r].embedding = "pending", embedder.job = <<r, "revision">>
        PROVE  "revision" \in embedder'.rows
    BY <1>0, <1>8, <2>5 DEF ReadPending, EmbeddingInv
  <2>6. FirstEmbeddingHasJob'
    BY <2>2 DEF EmbeddingInv, FirstEmbeddingHasJob, Approved
  <2> QED
    BY <2>2, <2>3, <2>4, <2>5, <2>6 DEF EmbeddingInv, Approved
<1>9. CASE WriteVectors
  <2> DEFINE r == embedder.job[1]
  <2>1. r \in Revisions /\ embedder.job = <<r, embedder.job[2]>> /\ embedder.job[2] \in Kinds
    BY <1>9 DEF WriteVectors, BankTypeOK
  <2>2. /\ embedder.pc = "write" /\ UNCHANGED <<bankJob, requeued>>
        /\ embedder' = [embedder EXCEPT !.pc = "complete"]
        /\ revision' = IF "revision" \in embedder.rows /\ revision[r].status # "deleted"
                         THEN [revision EXCEPT ![r].embedding = "embedded"] ELSE revision
    BY <1>9 DEF WriteVectors
  <2> HIDE DEF r
  <2>3. \A s \in Revisions : /\ s # r => revision'[s] = revision[s]
                             /\ revision'[s].status = revision[s].status
                             /\ revision'[s].embedding \in {revision[s].embedding, "embedded"}
    BY <1>0, <2>1, <2>2, SetEmbedding
  <2>4. ASSUME "revision" \in embedder.rows, revision[r].status = "approved"
        PROVE  revision'[r].embedding = "embedded"
    BY <1>0, <2>1, <2>2, <2>4, SetEmbedding
  <2>5. /\ embedder' \in [pc : {"idle", "read", "write", "complete"},
                          job : (Revisions \X Kinds) \cup {<<>>}, rows : SUBSET Kinds]
        /\ embedder'.pc = "complete" /\ embedder'.job = embedder.job
    BY <2>2 DEF EmbeddingInv
  <2>6. FirstEmbeddingHasJob'
    BY <2>2, <2>3 DEF EmbeddingInv, FirstEmbeddingHasJob, Approved
  <2>7. ASSUME NEW s \in Approved' \ requeued, revision'[s].embedding = "pending",
               embedder.job = <<s, "revision">>
        PROVE  FALSE
    <3>1. s \in Approved /\ s = r /\ revision[s].embedding = "pending"
      BY <2>1, <2>3, <2>7 DEF Approved
    <3>2. "revision" \in embedder.rows
      BY <2>2, <2>7, <3>1 DEF EmbeddingInv
    <3> QED
      BY <2>4, <2>7, <3>1, <3>2 DEF Approved
  <2> QED
    BY <2>2, <2>3, <2>5, <2>6, <2>7 DEF EmbeddingInv
<1>10. ASSUME NEW st \in {"queued", "failed", "succeeded"}, embedder.pc # "idle", EndJob(st),
              st = "succeeded" => embedder.pc = "complete"
       PROVE  EmbeddingInv'
  <2>1. PICK r \in Revisions, k \in Kinds : embedder.job = <<r, k>>
    BY <1>10 DEF BankTypeOK
  <2>2. \A s \in Revisions, h \in Kinds : bankJob'[s][h] = IF s = r /\ h = k THEN st ELSE bankJob[s][h]
    <3>1. st \in JobStates
      BY <1>10 DEF JobStates
    <3>2. bankJob' = [bankJob EXCEPT ![r][k] = st]
      BY <1>10, <2>1 DEF EndJob
    <3> QED
      BY <3>1, <3>2, JobRow
  <2>3. /\ UNCHANGED <<revision, requeued>> /\ bankJob[r][k] = "running"
        /\ embedder' = [pc |-> "idle", job |-> <<>>, rows |-> {}]
    BY <1>10, <2>1 DEF EndJob, NoEmbedder, EmbeddingInv
  <2>4. \A s \in Revisions : revision[s].status = "none" => bankJob'[s]["revision"] = "none"
    BY <1>0, <2>2, <2>3 DEF EmbeddingInv
  <2>5. FirstEmbeddingHasJob'
    <3>1. SUFFICES ASSUME NEW s \in Approved \ requeued, revision[s].embedding = "pending"
                   PROVE  bankJob'[s]["revision"] \in {"queued", "running", "failed"}
      BY <2>3 DEF FirstEmbeddingHasJob, Approved
    <3>2. s \in Revisions /\ bankJob[s]["revision"] \in {"queued", "running", "failed"}
      BY <3>1 DEF EmbeddingInv, FirstEmbeddingHasJob, Approved
    <3>3. CASE s = r /\ k = "revision"
      <4>1. st # "succeeded"
        BY <1>10, <2>1, <3>1, <3>3 DEF EmbeddingInv
      <4> QED
        BY <1>0, <2>2, <3>3, <4>1
    <3>4. CASE ~(s = r /\ k = "revision")
      BY <1>0, <2>2, <3>2, <3>4
    <3> QED
      BY <3>3, <3>4
  <2> QED
    BY <2>3, <2>4, <2>5 DEF EmbeddingInv
<1>11. ASSUME NEW r \in Revisions,
              BankCreate(r) \/ (\E i \in ImportKeys : BankImport(i, r)) \/ \E a \in Reviewers : Approve(a, r)
       PROVE  EmbeddingInv'
  <2>1. \E source \in {"admin_authored", "admin_import", "generated_candidate"} :
          /\ revision[r].status = "none" /\ revision' = Created(r, source) /\ EnqueueEmbedding(r, "revision")
          /\ UNCHANGED <<embedder, requeued>>
    BY <1>11 DEF BankCreate, BankImport, Approve, CreateApproved
  <2> QED
    BY <1>1, <2>1
<1>12. ASSUME \/ \E a \in Reviewers : Reject(a) \/ ReviewFails(a) \/ \E c \in Candidates : Inspect(a, c)
              \/ \E c \in Candidates : RetentionCleanup(c)
              \/ \E r \in Revisions, v \in BOOLEAN : SetVariationActive(r, v)
              \/ UNCHANGED bankVars
       PROVE  EmbeddingInv'
  BY <1>2, <1>12 DEF Reject, ReviewFails, Inspect, RetentionCleanup, SetVariationActive, bankVars
<1>13. CASE EmbeddingFails \/ EmbeddingDone
  BY <1>10, <1>13 DEF EmbeddingFails, EmbeddingDone
<1> QED
  BY <1>3, <1>4, <1>5, <1>6, <1>7, <1>8, <1>9, <1>11, <1>12, <1>13 DEF BankNext

\* However often the embedding jobs fail, are run again or take a revision's
\* variation along, an approved question that waits for its first vector has its
\* own job open or visibly failed.
THEOREM PendingHasJob == BankSpec => []FirstEmbeddingHasJob
<1>1. BankInit => BankTypeOK
  BY DEF BankInit, BankTypeOK, RevisionRows, CandidateRows, Vectors, JobStates, Kinds, NoEmbedder
<1>2. BankInit => EmbeddingInv
  BY DEF BankInit, EmbeddingInv, FirstEmbeddingHasJob, Approved, Kinds, NoEmbedder
<1>3. BankTypeOK /\ EmbeddingInv /\ [BankNext]_bankVars => (BankTypeOK /\ EmbeddingInv)'
  BY BankTypeKept, EmbeddingKept
<1>4. EmbeddingInv => FirstEmbeddingHasJob
  BY DEF EmbeddingInv
<1> QED
  BY <1>1, <1>2, <1>3, <1>4, PTL DEF BankSpec
=============================================================================
