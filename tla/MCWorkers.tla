----------------------------- MODULE MCWorkers ------------------------------
(* Small instances of what the worker processes do: the queue they lease     *)
(* from, and the retention pass that some of them run beside their jobs.     *)
(* The two share no variable, so that a behaviour takes the steps of one.    *)
EXTENDS JobQueue, SourceRetention, TLC

CONSTANTS j1, j2, j3, w1, w2, w3, u1, u2, Parts

VARIABLE part \* the part that takes the steps of this behaviour

WorkersInit == part \in Parts /\ Init /\ RetentionInit

WorkersNext ==
  /\ UNCHANGED part
  /\ \/ part = "queue" /\ Next /\ UNCHANGED retentionVars
     \/ part = "retention" /\ RetentionNext /\ UNCHANGED vars

WorkersSpec == WorkersInit /\ [][WorkersNext]_<<part, vars, retentionVars>>

FairQueueSpec == WorkersSpec /\ Fairness

FairRetentionSpec == WorkersSpec /\ RetentionFairness

\* A stage, the stage its handler may hand over to, and an owned type without a
\* handler.
ChainTypes ==
  [j \in Jobs |-> CASE j = j1 -> "embed_chunks" [] j = j2 -> "embed_questions"
                    [] j = j3 -> "ingestion_job"]
ChainNext == [j \in Jobs |-> IF j = j1 THEN {j2} ELSE {}]

\* One job of either mode; w2 is the only worker of its mode.
MixedTypes == (j1 :> "embed_chunks") @@ (j2 :> "multiple_ask_extract")
MixedNext == (j1 :> {}) @@ (j2 :> {})
MixedModes == [w \in Workers |-> IF w = w2 THEN "railway_public" ELSE "local_admin"]

AdminModes == [w \in Workers |-> "local_admin"]

\* Workers of one mode may change places, and uploads.
WorkersSymmetry == Permutations(Cleaners) \cup Permutations(Uploads)
=============================================================================
