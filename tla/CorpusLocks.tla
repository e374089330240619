----------------------------- MODULE CorpusLocks ----------------------------
(***************************************************************************)
(* The row locks of the transactions on one corpus: its row in rag_corpora *)
(* and the rows of its versions, which imports, edits, drafts, activations *)
(* and promotions lock in an order of their own                            *)
(* (app/repositories/rag_repository.py, app/services/local_admin.py).      *)
(*                                                                         *)
(* A transaction is the order of its locks; what it does with the rows is  *)
(* in CorpusLifecycle.  A version that the transaction inserts itself is   *)
(* left out, since nobody else can lock it.                                *)
(***************************************************************************)
EXTENDS SequencesExt

CONSTANTS
  Corpus,       \* the row of rag_corpora
  VersionRows,  \* rows of rag_corpus_versions
  Transactions, \* connections
  Operations    \* which operations run

ASSUME LockAssumption ==
  /\ Corpus \notin VersionRows
  /\ IsFiniteSet(VersionRows)
  /\ Operations \subseteq {"import", "edit", "create_draft", "activate", "promote", "delete_chapter"}

VARIABLES
  todo, \* per connection: the rows its transaction has still to lock
  held  \* the rows it holds until it ends

lockVars == <<todo, held>>

\* Mutant: an import locks its version before the corpus.
LocksVersionFirst(op) ==
  CASE op = "import" -> {<<v, Corpus>> : v \in VersionRows}
    [] op = "activate" -> {<<Corpus>> \o order : order \in SetToSeqs(VersionRows)}
    [] op \in {"edit", "create_draft"} -> {<<v, Corpus>> : v \in VersionRows}
    [] op = "promote" -> {<<v, w>> : v, w \in VersionRows}
    [] op = "delete_chapter" -> {<<v>> : v \in VersionRows}

\* get_or_create_building_corpus_version and replace_chapter_chunks: the corpus, then
\* a version that exists already, if any.  activate: the corpus, then its versions
\* as the scan finds them.  _version_for_scope of edits, approvals and drafts: FOR
\* UPDATE of a join locks the version and then the corpus.
\* promote_chapter_from_temp_to_active: the temporary version, then the active one.
Locks(op) ==
  CASE op = "import" -> {<<Corpus>>} \cup {<<Corpus, v>> : v \in VersionRows}
    [] op = "activate" -> {<<Corpus>> \o order : order \in SetToSeqs(VersionRows)}
    [] op \in {"edit", "create_draft"} -> {<<v, Corpus>> : v \in VersionRows}
    [] op = "promote" -> {<<v, w>> : v, w \in VersionRows}
    [] op = "delete_chapter" -> {<<v>> : v \in VersionRows}

LockInit ==
  /\ todo = [t \in Transactions |-> <<>>]
  /\ held = [t \in Transactions |-> {}]

Begin(t) ==
  /\ todo[t] = <<>> /\ held[t] = {}
  /\ \E op \in Operations : \E locks \in Locks(op) : todo' = [todo EXCEPT ![t] = locks]
  /\ UNCHANGED held

\* SELECT ... FOR UPDATE of the next row returns.
LockRow(t) ==
  /\ todo[t] # <<>>
  /\ \A u \in Transactions \ {t} : Head(todo[t]) \notin held[u]
  /\ todo' = [todo EXCEPT ![t] = Tail(@)]
  /\ held' = [held EXCEPT ![t] = @ \cup {Head(todo[t])}]

\* The end of the transaction: COMMIT once it has its locks, ROLLBACK at any error.
End(t) ==
  /\ held[t] # {}
  /\ todo' = [todo EXCEPT ![t] = <<>>]
  /\ held' = [held EXCEPT ![t] = {}]

LockNext == \E t \in Transactions : Begin(t) \/ LockRow(t) \/ End(t)

LockSpec == LockInit /\ [][LockNext]_lockVars

-----------------------------------------------------------------------------
(* Property *)

\* No transactions wait for each other in a circle, so that PostgreSQL never has to
\* abort one as the victim of a deadlock: what the strict lock order of the
\* architecture, corpus first and versions second, is there for.
NoLockCycle ==
  \A S \in (SUBSET Transactions) \ {{}} :
    \E t \in S : todo[t] = <<>> \/ \A u \in S \ {t} : Head(todo[t]) \notin held[u]
=============================================================================
