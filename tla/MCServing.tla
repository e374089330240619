----------------------------- MODULE MCServing ------------------------------
(* Small instances of the parts that answer one question: the Single Ask     *)
(* request, the retrieval of evidence, the bank of approved questions, and   *)
(* the locks under which the textbook's versions change.  They share no      *)
(* variable, so that a run takes one part at a time instead of all their     *)
(* combinations; the same few values name the actors and the rows.           *)
EXTENDS SingleAsk, Retrieval, QuestionBank, CorpusLocks, TLC

CONSTANTS x, y, z, r1, r2, Parts

VARIABLE part \* the part that takes the steps of this behaviour

ServingInit ==
  /\ part \in Parts
  /\ Init /\ RetrievalInit /\ BankInit /\ LockInit

ServingNext ==
  /\ UNCHANGED part
  /\ \/ part = "ask" /\ Next /\ UNCHANGED <<retrievalVars, bankVars, lockVars>>
     \/ part = "retrieval" /\ RetrievalNext /\ UNCHANGED <<vars, bankVars, lockVars>>
     \/ part = "bank" /\ BankNext /\ UNCHANGED <<vars, retrievalVars, lockVars>>
     \/ part = "locks" /\ LockNext /\ UNCHANGED <<vars, retrievalVars, bankVars>>

allVars == <<part, vars, retrievalVars, bankVars, lockVars>>

ServingSpec == ServingInit /\ [][ServingNext]_allVars

\* Two actors and two rows may change places.
ServingSymmetry == Permutations({x, y}) \cup Permutations({r1, r2})
=============================================================================
