-------------------------- MODULE SingleAskProofs ---------------------------
(***************************************************************************)
(* Proofs about one question: that the invariants of SingleAsk hold for    *)
(* any number of calls, and those of Retrieval for any number of versions  *)
(* and of citations.                                                       *)
(*                                                                         *)
(* The quota properties are about rows only, but they hold because of what *)
(* the call that owns the request knows: its row is pending until its own  *)
(* commit, and only it may ask the provider.  WorkInv says so, and is the  *)
(* strengthening that makes the conjunction inductive.                     *)
(*                                                                         *)
(* Fusion is exact because Scale is a multiple of every denominator, and   *)
(* its order exists because Before is linear; both are facts about any     *)
(* number of ranks, shown by the least number for which they would fail.   *)
(***************************************************************************)
EXTENDS SingleAsk, Retrieval, FiniteSetTheorems, FunctionTheorems, WellFoundedInduction,
        TLAPS

\* Before its own transaction commits, the owner's row is pending; what needs
\* the provider has called it; the provider is called by the owner only, and after
\* its search; and whose insert met a row will read one.
WorkInv ==
  /\ \A c \in Calls : pc[c] \in Owning \ {"fail"} => status = "pending"
  /\ \A c \in Calls : pc[c] = "fail" => status # "none"
  /\ \A c \in Calls : pc[c] \in {"generate", "save_none"} => c \in started
  /\ \A c \in Calls : pc[c] = "search" => started = {}
  /\ \A c \in started, d \in Calls : pc[d] \in Owning => c = d
  /\ \A c \in Calls : pc[c] = "lookup" => status # "none"
  /\ status = "none" => answer = None /\ started = {}

IInv ==
  /\ TypeOK
  /\ WorkInv
  /\ GeneratedOnce
  /\ QuotaAgrees
  /\ ChargeIsEarned
  /\ PendingIsOwned

-----------------------------------------------------------------------------
\* What every move of a call keeps: the domains, from the new row values.
LEMMA StepType ==
  ASSUME TypeOK, NEW c \in Calls, Step(c)
  PROVE  TypeOK'
<1> USE CallsAssumption DEF TypeOK, Goto, Return, rows
<1> DEFINE Moved == pc' \in [Calls -> PCs] /\ cancelled' \subseteq Calls
                    /\ reply' \in [Calls -> Replies]
<1>1. ASSUME NEW p \in PCs, Goto(c, p) PROVE Moved
  BY <1>1
<1>2. ASSUME NEW r \in Replies, Return(c, r) PROVE Moved
  BY <1>2 DEF PCs
<1>3. CASE FirstLook(c) \/ Denied(c) \/ Lookup(c)
  BY <1>3 DEF FirstLook, Denied, Lookup, Replay, PCs, Replies
<1>4. CASE ReservePending(c)
  BY <1>4 DEF ReservePending, PCs, Owning, Statuses, Reservations
<1>5. CASE Search(c) \/ Generate(c)
  BY <1>5 DEF Search, Generate, PCs, Owning
<1>6. CASE SaveAnswer(c) \/ SaveNoAnswer(c)
  BY <1>6 DEF SaveAnswer, SaveNoAnswer, Committed, CommitUsage, PCs, Owning,
              Replies, Statuses, Reservations
<1>7. CASE RaiseUnowned(c) \/ RaiseOwned(c) \/ Die(c)
  BY <1>7 DEF RaiseUnowned, RaiseOwned, Die, PCs, Owning, Replies
<1>8. CASE Fail(c)
  BY <1>8 DEF Fail, FailedRow, PCs, Replies, Statuses, Reservations
<1> QED
  BY <1>3, <1>4, <1>5, <1>6, <1>7, <1>8 DEF Step

\* A call that owns nothing and writes nothing disturbs nothing.
LEMMA IdleStep ==
  ASSUME IInv, NEW c \in Calls, UNCHANGED <<status, answer, reservation, started>>,
         pc[c] \notin Owning \cup {"dead"},
         NEW p \in {"reserve", "done", "dead"}, pc' = [pc EXCEPT ![c] = p]
  PROVE  WorkInv' /\ GeneratedOnce' /\ QuotaAgrees' /\ ChargeIsEarned' /\ PendingIsOwned'
<1> USE DEF IInv, TypeOK, Owning
<1>1. WorkInv'
  BY DEF WorkInv
<1>2. GeneratedOnce'
  BY DEF GeneratedOnce
<1>3. QuotaAgrees' /\ ChargeIsEarned'
  BY DEF QuotaAgrees, ChargeIsEarned
<1>4. PendingIsOwned'
  BY DEF PendingIsOwned
<1> QED
  BY <1>1, <1>2, <1>3, <1>4

\* The transaction that reserves: the row and its unit appear together, and
\* only the call that inserted the row goes on to answer it.
LEMMA ReserveStep ==
  ASSUME IInv, NEW c \in Calls, ReservePending(c)
  PROVE  WorkInv' /\ GeneratedOnce' /\ QuotaAgrees' /\ ChargeIsEarned' /\ PendingIsOwned'
<1> USE DEF IInv, TypeOK, ReservePending, NewlyCreated, Goto
<1>1. WorkInv'
  BY DEF WorkInv, Owning, Statuses
<1>2. GeneratedOnce'
  BY DEF GeneratedOnce, WorkInv, Owning
<1>3. QuotaAgrees' /\ ChargeIsEarned'
  BY DEF QuotaAgrees, ChargeIsEarned, WorkInv, Statuses, Reservations
<1>4. PendingIsOwned'
  BY DEF PendingIsOwned, Owning
<1> QED
  BY <1>1, <1>2, <1>3, <1>4

\* The owner works: the row waits for it.
LEMMA WorkStep ==
  ASSUME IInv, NEW c \in Calls, Search(c) \/ Generate(c) \/ RaiseOwned(c)
  PROVE  WorkInv' /\ GeneratedOnce' /\ QuotaAgrees' /\ ChargeIsEarned' /\ PendingIsOwned'
<1> USE DEF IInv, TypeOK, Search, Generate, RaiseOwned, Goto, rows
<1>1. WorkInv'
  BY DEF WorkInv, GeneratedOnce, Owning
<1>2. GeneratedOnce'
  BY DEF GeneratedOnce, WorkInv, Owning
<1>3. QuotaAgrees' /\ ChargeIsEarned'
  BY DEF QuotaAgrees, ChargeIsEarned
<1>4. PendingIsOwned'
  BY DEF PendingIsOwned, Owning
<1> QED
  BY <1>1, <1>2, <1>3, <1>4

\* The owner's transaction commits the answer, or that there is none.
LEMMA SaveStep ==
  ASSUME IInv, NEW c \in Calls, SaveAnswer(c) \/ SaveNoAnswer(c)
  PROVE  WorkInv' /\ GeneratedOnce' /\ QuotaAgrees' /\ ChargeIsEarned' /\ PendingIsOwned'
<1> USE CallsAssumption DEF IInv, TypeOK, SaveAnswer, SaveNoAnswer
<1>1. status = "pending" /\ reservation = "reserved"
  BY DEF WorkInv, QuotaAgrees, Owning
<1>2. status' \in {"completed", "no_answer"} /\ reservation' = "committed"
  BY <1>1 DEF CommitUsage
<1>3. /\ pc[c] \in Owning \ {"fail"}
      /\ \E p \in {"done", "fail"} : pc' = [pc EXCEPT ![c] = p]
  BY DEF Committed, Return, Owning
<1>4. WorkInv'
  BY <1>2, <1>3 DEF WorkInv, GeneratedOnce, Owning
<1>5. GeneratedOnce'
  BY <1>3 DEF GeneratedOnce, Owning
<1>6. QuotaAgrees' /\ PendingIsOwned'
  BY <1>2 DEF QuotaAgrees, PendingIsOwned
<1>7. ChargeIsEarned'
  BY DEF ChargeIsEarned, WorkInv
<1> QED
  BY <1>4, <1>5, <1>6, <1>7

\* The failure handler ends the row and settles its unit.
LEMMA FailStep ==
  ASSUME IInv, NEW c \in Calls, Fail(c)
  PROVE  WorkInv' /\ GeneratedOnce' /\ QuotaAgrees' /\ ChargeIsEarned' /\ PendingIsOwned'
<1> USE DEF IInv, TypeOK, Fail, FailedRow, Return
<1>1. status # "none" /\ pc[c] \in Owning
  BY DEF WorkInv, Owning
<1>2. WorkInv'
  BY <1>1 DEF WorkInv, GeneratedOnce, Owning
<1>3. GeneratedOnce'
  BY DEF GeneratedOnce, Owning
<1>4. QuotaAgrees'
  BY <1>1 DEF QuotaAgrees, Statuses, Reservations
<1>5. ChargeIsEarned' /\ PendingIsOwned'
  BY DEF ChargeIsEarned, PendingIsOwned, StillCharged
<1> QED
  BY <1>2, <1>3, <1>4, <1>5

\* A killed owner leaves its row as it is.
LEMMA DieStep ==
  ASSUME IInv, NEW c \in Calls, Die(c)
  PROVE  WorkInv' /\ GeneratedOnce' /\ QuotaAgrees' /\ ChargeIsEarned' /\ PendingIsOwned'
<1> USE DEF IInv, TypeOK, Die, Goto, rows
<1>1. WorkInv' /\ GeneratedOnce'
  BY DEF WorkInv, GeneratedOnce, Owning
<1>2. QuotaAgrees' /\ ChargeIsEarned' /\ PendingIsOwned'
  BY DEF QuotaAgrees, ChargeIsEarned, PendingIsOwned
<1> QED
  BY <1>1, <1>2

-----------------------------------------------------------------------------
\* The strengthened invariant holds of the first state and of every step.
LEMMA Inductive == Spec => []IInv
<1>1. Init => IInv
  BY CallsAssumption
  DEF Init, IInv, TypeOK, WorkInv, GeneratedOnce, QuotaAgrees, ChargeIsEarned,
      PendingIsOwned, Owning, PCs, Statuses, Reservations, Replies
<1>2. IInv /\ [Next]_vars => IInv'
  <2>1. ASSUME IInv, NEW c \in Calls, Step(c) PROVE IInv'
    <3> USE <2>1
    <3> DEFINE Rest == WorkInv' /\ GeneratedOnce' /\ QuotaAgrees' /\ ChargeIsEarned'
                       /\ PendingIsOwned'
    <3>1. TypeOK'
      BY StepType DEF IInv
    <3>2. CASE FirstLook(c) \/ Denied(c) \/ Lookup(c) \/ RaiseUnowned(c)
      <4>1. /\ pc[c] \notin Owning \cup {"dead"}
            /\ UNCHANGED <<status, answer, reservation, started>>
            /\ \E p \in {"reserve", "done", "dead"} : pc' = [pc EXCEPT ![c] = p]
        BY <3>2 DEF FirstLook, Denied, Lookup, RaiseUnowned, Goto, Return, rows, Owning
      <4>2. Rest
        BY <4>1, IdleStep
      <4> QED
        BY <3>1, <4>2 DEF IInv
    <3>3. Rest
      BY <3>2, ReserveStep, WorkStep, SaveStep, FailStep, DieStep DEF Step, IInv
    <3> QED
      BY <3>1, <3>3 DEF IInv
  <2>2. ASSUME IInv, UNCHANGED vars PROVE IInv'
    BY <2>2 DEF vars, rows, IInv, TypeOK, WorkInv, GeneratedOnce, QuotaAgrees,
                ChargeIsEarned, PendingIsOwned
  <2> QED
    BY <2>1, <2>2 DEF Next
<1> QED
  BY <1>1, <1>2, PTL DEF Spec

\* ask() keeps every column and every local variable in its domain.
THEOREM TypeCorrect == Spec => []TypeOK
<1>1. IInv => TypeOK
  BY DEF IInv
<1> QED
  BY Inductive, <1>1, PTL

\* However many times a request is sent, create_pending's insert lets one call
\* at most ask the provider for it.
THEOREM OneGeneration == Spec => []GeneratedOnce
<1>1. IInv => GeneratedOnce
  BY DEF IInv
<1> QED
  BY Inductive, <1>1, PTL

\* The request row and its usage reservation agree after every transaction of
\* ask(), whichever calls fail, are cancelled or are killed.
THEOREM QuotaFollowsRequest == Spec => []QuotaAgrees
<1>1. IInv => QuotaAgrees
  BY DEF IInv
<1> QED
  BY Inductive, <1>1, PTL

\* A unit is committed only for a stored answer or for a call to the provider.
THEOREM ChargesAreEarned == Spec => []ChargeIsEarned
<1>1. IInv => ChargeIsEarned
  BY DEF IInv
<1> QED
  BY Inductive, <1>1, PTL

\* A request stays pending without anybody working on it only if its owner was
\* killed or missed the reply to its commit.
THEOREM PendingHasOwner == Spec => []PendingIsOwned
<1>1. IInv => PendingIsOwned
  BY DEF IInv
<1> QED
  BY Inductive, <1>1, PTL
-----------------------------------------------------------------------------
(* The contract *)

\* A call has told nobody anything before it returns.
ReplyInv == \A c \in Calls : pc[c] # "done" => reply[c] = "none"

\* What a return adds to what has been told.
LEMMA ReturnTells ==
  ASSUME TypeOK, ReplyInv, NEW c \in Calls, pc[c] # "done", NEW r \in Replies \ {"none"},
         Return(c, r)
  PROVE  Told' = Told \cup {r}
<1>1. reply' = [d \in Calls |-> IF d = c THEN r ELSE reply[d]]
  BY DEF Return, TypeOK
<1>2. reply[c] = "none"
  BY DEF ReplyInv
<1>3. {reply'[d] : d \in Calls} \ {"none"} = ({reply[d] : d \in Calls} \ {"none"}) \cup {r}
  BY <1>1, <1>2
<1> QED
  BY <1>3 DEF Told

\* A call that goes on tells nothing.
LEMMA GoingOnTellsNothing ==
  ASSUME UNCHANGED reply
  PROVE  Told' = Told
BY DEF Told

\* Every step of a call is a step of the contract or invisible in it.
LEMMA ContractStep ==
  ASSUME IInv, ReplyInv, NEW c \in Calls, Step(c)
  PROVE  [Contract!Next]_(Contract!vars)
<1> USE DEF IInv, Contract!vars
<1> DEFINE Same == UNCHANGED <<status, reservation, started>>
<1>1. ASSUME UNCHANGED <<status, reservation, started, reply>>
      PROVE  UNCHANGED Contract!vars
  BY <1>1, GoingOnTellsNothing
<1>2. ASSUME NEW r \in {"answer", "no_answer", "in_progress", "denied", "error"},
             pc[c] # "done", Return(c, r), UNCHANGED <<status, reservation, started>>,
             r = "answer" => status = "completed", r = "no_answer" => status = "no_answer",
             r = "in_progress" => status \in {"pending", "failed"}
      PROVE  Contract!Next
  <2>1. Told' = Told \cup {r}
    BY <1>2, ReturnTells DEF Replies
  <2>2. Contract!Tell(r)
    BY <1>2, <2>1 DEF Contract!Tell
  <2> QED
    BY <2>2 DEF Contract!Next
<1>3. ASSUME pc[c] \in {"new", "lookup"}, status # "none", Return(c, Replay),
             UNCHANGED <<rows, started>>
      PROVE  Contract!Next
  <2>1. Replay \in {"answer", "no_answer", "in_progress"}
    BY DEF Replay
  <2>2. /\ Replay = "answer" => status = "completed"
        /\ Replay = "no_answer" => status = "no_answer"
        /\ Replay = "in_progress" => status \in {"pending", "failed"}
    BY <1>3 DEF Replay, TypeOK, Statuses
  <2> HIDE DEF IInv
  <2> QED
    BY <1>2, <1>3, <2>1, <2>2 DEF rows
<1>4. CASE FirstLook(c)
  <2>1. CASE status = "none"
    BY <1>1, <1>4, <2>1 DEF FirstLook, Goto, rows
  <2>2. CASE status # "none"
    BY <1>3, <1>4, <2>2 DEF FirstLook
  <2> QED
    BY <2>1, <2>2
<1>5. CASE Denied(c)
  BY <1>2, <1>5 DEF Denied, rows
<1>6. CASE ReservePending(c)
  <2>1. UNCHANGED <<started, reply>>
    BY <1>6 DEF ReservePending, Goto
  <2>2. Told' = Told
    BY <2>1, GoingOnTellsNothing
  <2>3. CASE status = "none"
    <3>1. reservation = "none"
      BY <2>3 DEF QuotaAgrees
    <3>2. Contract!Open
      BY <1>6, <2>1, <2>2, <2>3, <3>1 DEF ReservePending, Contract!Open
    <3> QED
      BY <3>2 DEF Contract!Next
  <2>4. CASE status # "none"
    <3>1. reservation # "none"
      BY <2>4 DEF QuotaAgrees
    <3> QED
      BY <1>1, <1>6, <2>1, <2>4, <3>1 DEF ReservePending
  <2> QED
    BY <2>3, <2>4
<1>7. CASE Lookup(c)
  BY <1>3, <1>7 DEF Lookup, WorkInv
<1>8. CASE Search(c)
  <2>1. CASE UNCHANGED started
    BY <1>1, <1>8, <2>1 DEF Search, Goto, rows
  <2>2. CASE started' = started \cup {c}
    <3>1. status = "pending" /\ started = {} /\ started' # {}
      BY <1>8, <2>2 DEF Search, WorkInv, Owning
    <3>2. Told' = Told
      BY <1>8, GoingOnTellsNothing DEF Search, Goto
    <3>3. Contract!AskProvider
      BY <1>8, <3>1, <3>2 DEF Search, rows, Contract!AskProvider
    <3> QED
      BY <3>3 DEF Contract!Next
  <2> QED
    BY <1>8, <2>1, <2>2 DEF Search
<1>9. CASE Generate(c)
  BY <1>1, <1>9 DEF Generate, Goto, rows
<1>10. ASSUME NEW r \in {"answer", "no_answer"}, pc[c] # "done", Committed(c, r)
       PROVE  Contract!MayTell(r)
  <2>1. CASE Return(c, r)
    BY <1>10, <2>1, ReturnTells DEF Contract!MayTell, Replies
  <2>2. CASE UNCHANGED reply
    BY <2>2, GoingOnTellsNothing DEF Contract!MayTell
  <2> QED
    BY <1>10, <2>1, <2>2 DEF Committed
<1>11. CASE SaveAnswer(c)
  <2>1. status = "pending" /\ reservation = "reserved"
    BY <1>11 DEF SaveAnswer, WorkInv, QuotaAgrees, Owning
  <2>2. Contract!MayTell("answer")
    BY <1>10, <1>11 DEF SaveAnswer
  <2>3. Contract!Answer
    BY <1>11, <2>1, <2>2 DEF SaveAnswer, CommitUsage, Contract!Answer
  <2> QED
    BY <2>3 DEF Contract!Next
<1>12. CASE SaveNoAnswer(c)
  <2>1. status = "pending" /\ reservation = "reserved" /\ started # {}
    BY <1>12 DEF SaveNoAnswer, WorkInv, QuotaAgrees, Owning
  <2>2. Contract!MayTell("no_answer")
    BY <1>10, <1>12 DEF SaveNoAnswer
  <2>3. Contract!FindNoAnswer
    BY <1>12, <2>1, <2>2 DEF SaveNoAnswer, CommitUsage, Contract!FindNoAnswer
  <2> QED
    BY <2>3 DEF Contract!Next
<1>13. CASE RaiseUnowned(c)
  BY <1>2, <1>13 DEF RaiseUnowned, rows
<1>14. CASE RaiseOwned(c)
  BY <1>1, <1>14 DEF RaiseOwned, rows
<1>15. CASE Fail(c)
  <2>1. Told' = Told \cup {"error"}
    BY <1>15, ReturnTells DEF Fail, Replies
  <2>2. Contract!MayTell("error")
    BY <2>1 DEF Contract!MayTell
  <2>3. CASE status = "pending"
    <3>1. Contract!GiveUp
      BY <1>15, <2>2, <2>3 DEF Fail, FailedRow, StillCharged, QuotaAgrees, Contract!GiveUp
    <3> QED
      BY <3>1 DEF Contract!Next
  <2>4. CASE status \in {"completed", "no_answer"}
    <3>1. Contract!Hide
      BY <1>15, <2>2, <2>4 DEF Fail, FailedRow, QuotaAgrees, Contract!Hide
    <3> QED
      BY <3>1 DEF Contract!Next
  <2>5. CASE status = "failed"
    <3>1. UNCHANGED <<status, reservation, started>>
      BY <1>15, <2>5 DEF Fail, FailedRow, QuotaAgrees
    <3> QED
      BY <1>2, <1>15, <2>5, <3>1 DEF Fail
  <2> QED
    BY <1>15, <2>3, <2>4, <2>5 DEF Fail, WorkInv, TypeOK, Statuses
<1>16. CASE Die(c)
  BY <1>1, <1>16 DEF Die, Goto, rows
<1> HIDE DEF IInv, Contract!vars
<1> QED
  BY <1>4, <1>5, <1>6, <1>7, <1>8, <1>9, <1>11, <1>12, <1>13, <1>14, <1>15, <1>16 DEF Step

\* No call replies before its last step.
LEMMA RepliesComeLast == Spec => []ReplyInv
<1>1. Init => ReplyInv
  BY DEF Init, ReplyInv
<1>2. TypeOK /\ ReplyInv /\ [Next]_vars => ReplyInv'
  <2>1. ASSUME TypeOK, ReplyInv, NEW c \in Calls, Step(c) PROVE ReplyInv'
    <3>1. ASSUME NEW r, Return(c, r) PROVE ReplyInv'
      BY <2>1, <3>1 DEF Return, TypeOK, ReplyInv
    <3>2. ASSUME UNCHANGED reply, pc[c] # "done", NEW p, pc' = [pc EXCEPT ![c] = p]
          PROVE  ReplyInv'
      BY <2>1, <3>2 DEF TypeOK, ReplyInv
    <3>3. CASE FirstLook(c) \/ Denied(c) \/ Lookup(c) \/ RaiseUnowned(c) \/ Fail(c)
      BY <3>1, <3>2, <3>3 DEF FirstLook, Denied, Lookup, RaiseUnowned, Fail, Goto
    <3>4. CASE ReservePending(c) \/ Search(c) \/ Generate(c) \/ RaiseOwned(c) \/ Die(c)
      BY <3>2, <3>4 DEF ReservePending, Search, Generate, RaiseOwned, Die, Goto, Owning
    <3>5. CASE SaveAnswer(c) \/ SaveNoAnswer(c)
      BY <3>1, <3>2, <3>5 DEF SaveAnswer, SaveNoAnswer, Committed
    <3> QED
      BY <2>1, <3>3, <3>4, <3>5 DEF Step
  <2>2. ASSUME ReplyInv, UNCHANGED vars PROVE ReplyInv'
    BY <2>2 DEF vars, ReplyInv
  <2> QED
    BY <2>1, <2>2 DEF Next
<1> QED
  BY <1>1, <1>2, TypeCorrect, PTL DEF Spec

\* ask() implements the contract, for any number of sendings of a request: its races,
\* cancellations, crashes and lost commit replies are invisible to the student but
\* for what they do to the outcome.
THEOREM ContractKept == Spec => KeepsContract
<1>1. Init => Contract!Init
  BY DEF Init, Contract!Init, Told
<1>2. IInv /\ ReplyInv /\ [Next]_vars => [Contract!Next]_(Contract!vars)
  <2>1. ASSUME UNCHANGED vars PROVE UNCHANGED Contract!vars
    BY <2>1 DEF vars, rows, Told, Contract!vars
  <2> QED
    BY <2>1, ContractStep DEF Next
<1> QED
  BY <1>1, <1>2, Inductive, RepliesComeLast, PTL DEF Spec, KeepsContract, Contract!Spec

\* Once one of the verdicts has been told, the outcome is that verdict or hidden.
VerdictInv ==
  /\ Contract!NeverContradicted
  /\ "answer" \in Told => status \in {"completed", "failed"}
  /\ "no_answer" \in Told => status \in {"no_answer", "failed"}
  /\ status \in {"completed", "no_answer"} => reservation = "committed"

\* From the contract alone: the sendings of one request are never told an answer and
\* that there is none, and whoever was told either has been charged.
THEOREM VerdictsAgree == Spec => []Contract!NeverContradicted
<1> USE DEF VerdictInv, Contract!NeverContradicted
<1>1. Contract!Init => VerdictInv
  BY DEF Contract!Init
<1>2. VerdictInv /\ [Contract!Next]_(Contract!vars) => VerdictInv'
  <2> SUFFICES ASSUME VerdictInv, [Contract!Next]_(Contract!vars)
               PROVE  VerdictInv'
    OBVIOUS
  <2>1. CASE UNCHANGED Contract!vars
    BY <2>1 DEF Contract!vars
  <2>2. CASE Contract!Open \/ Contract!AskProvider
    BY <2>2 DEF Contract!Open, Contract!AskProvider
  <2>3. CASE Contract!Answer
    BY <2>3 DEF Contract!Answer, Contract!MayTell
  <2>4. CASE Contract!FindNoAnswer
    BY <2>4 DEF Contract!FindNoAnswer, Contract!MayTell
  <2>5. CASE Contract!GiveUp
    BY <2>5 DEF Contract!GiveUp, Contract!MayTell
  <2>6. CASE Contract!Hide
    BY <2>6 DEF Contract!Hide, Contract!MayTell
  <2>7. ASSUME NEW r \in {"answer", "no_answer", "in_progress", "denied", "error"},
               Contract!Tell(r)
        PROVE  VerdictInv'
    BY <2>7 DEF Contract!Tell
  <2> QED
    BY <2>1, <2>2, <2>3, <2>4, <2>5, <2>6, <2>7 DEF Contract!Next
<1>3. VerdictInv => Contract!NeverContradicted
  OBVIOUS
<1> QED
  BY <1>1, <1>2, <1>3, ContractKept, PTL DEF KeepsContract, Contract!Spec

-----------------------------------------------------------------------------
(* Retrieval: orders and products *)

\* A nonempty set of naturals has a least element: what follows for every number of
\* ranks is shown by its least counterexample.
LEMMA LeastNumber ==
  ASSUME NEW T \in SUBSET Nat, T # {}
  PROVE  \E n \in T : \A m \in T : n <= m
<1>1. PICK n \in T : \A m \in T : ~(<<m, n>> \in OpToRel(<, Nat))
  BY NatLessThanWellFounded, WFMin
<1>2. \A m \in T : ~(m < n)
  BY <1>1 DEF OpToRel
<1> QED
  BY <1>2

\* A finite set under a strict linear order R has a sorted sequence: an element goes
\* where the number of the elements below it says.
LEMMA LinearOrderSorts ==
  ASSUME NEW S, IsFiniteSet(S), NEW R,
         \A b \in S : <<b, b>> \notin R,
         \A b, c \in S : b # c => <<b, c>> \in R \/ <<c, b>> \in R,
         \A b, c, d \in S : <<b, c>> \in R /\ <<c, d>> \in R => <<b, d>> \in R
  PROVE  \E s \in SetToSeqs(S) : \A i, j \in DOMAIN s : i < j => <<s[i], s[j]>> \in R
<1> DEFINE N == Cardinality(S)
           Below(c) == {b \in S : <<b, c>> \in R}
           place == [c \in S |-> Cardinality(Below(c)) + 1]
<1>1. N \in Nat
  BY FS_CardinalityType
<1>2. ASSUME NEW c \in S
      PROVE  Cardinality(Below(c)) \in Nat /\ Cardinality(Below(c)) < N /\ IsFiniteSet(Below(c))
  <2>1. Below(c) \in SUBSET S /\ Below(c) # S
    OBVIOUS
  <2> HIDE DEF Below
  <2>2. IsFiniteSet(Below(c)) /\ Cardinality(Below(c)) <= N /\ Cardinality(Below(c)) # N
    BY <2>1, FS_Subset
  <2>3. Cardinality(Below(c)) \in Nat
    BY <2>2, FS_CardinalityType
  <2> QED
    BY <1>1, <2>2, <2>3
<1>3. ASSUME NEW b \in S, NEW c \in S, <<b, c>> \in R
      PROVE  Cardinality(Below(b)) < Cardinality(Below(c))
  <2>1. Below(b) \in SUBSET Below(c) /\ Below(b) # Below(c)
    <3>1. b \in Below(c) /\ b \notin Below(b)
      BY <1>3
    <3>2. \A d \in Below(b) : d \in Below(c)
      BY <1>3
    <3> QED
      BY <3>1, <3>2
  <2>2. IsFiniteSet(Below(c)) /\ Cardinality(Below(c)) \in Nat /\ Cardinality(Below(b)) \in Nat
    BY <1>2
  <2> HIDE DEF Below
  <2>3. Cardinality(Below(b)) <= Cardinality(Below(c)) /\ Cardinality(Below(b)) # Cardinality(Below(c))
    BY <2>1, <2>2, FS_Subset
  <2> QED
    BY <2>2, <2>3
<1> HIDE DEF Below
<1>4. place \in [S -> 1..N]
  BY <1>1, <1>2
<1>5. \A b, c \in S : <<b, c>> \in R => place[b] < place[c]
  BY <1>2, <1>3
<1> HIDE DEF place
<1>6. \A b, c \in S : place[b] = place[c] => b = c
  <2> SUFFICES ASSUME NEW b \in S, NEW c \in S, b # c
               PROVE  place[b] # place[c]
    OBVIOUS
  <2>1. place[b] \in Int /\ place[c] \in Int
    BY <1>4
  <2>2. place[b] < place[c] \/ place[c] < place[b]
    BY <1>5
  <2> QED
    BY <2>1, <2>2
<1>7. \A i \in 1..N : \E c \in S : place[c] = i
  <2>1. place \in Injection(S, 1..N)
    BY <1>4, <1>6, Fun_IsInj
  <2>2. IsFiniteSet(1..N) /\ Cardinality(1..N) = N
    BY <1>1, FS_Interval
  <2>3. place \in Surjection(S, 1..N)
    BY <2>1, <2>2, FS_Injection
  <2> QED
    BY <2>3, Fun_SurjectionProperties
<1> DEFINE s == [i \in 1..N |-> CHOOSE c \in S : place[c] = i]
<1>8. s \in [1..N -> S] /\ \A i \in 1..N : place[s[i]] = i
  BY <1>7
<1>9. s \in SetToSeqs(S)
  BY <1>8 DEF SetToSeqs
<1>10. \A i, j \in 1..N : i < j => <<s[i], s[j]>> \in R
  <2> HIDE DEF s
  <2> SUFFICES ASSUME NEW i \in 1..N, NEW j \in 1..N, i < j
               PROVE  <<s[i], s[j]>> \in R
    OBVIOUS
  <2>1. s[i] \in S /\ s[j] \in S /\ place[s[i]] = i /\ place[s[j]] = j
    BY <1>8
  <2>2. s[i] # s[j]
    BY <2>1
  <2>3. <<s[j], s[i]>> \notin R
    BY <1>5, <2>1
  <2> QED
    BY <2>1, <2>2, <2>3
<1> QED
  BY <1>8, <1>9, <1>10

-----------------------------------------------------------------------------
\* g is the product of 60 + i over the sets of ranks in D, as FoldSet takes it.
First(s) == CHOOSE i \in s : TRUE
IsProduct(g, D) ==
  g = [s \in D |-> IF s = {} THEN 1 ELSE (RRF_K + First(s)) * g[s \ {First(s)}]]
Ranks == 1..Cardinality(Citations)

\* A finite set of ranks has a product: the least number of ranks without one.
LEMMA ProductExists == \E g : IsProduct(g, SUBSET Ranks)
<1> DEFINE N == Cardinality(Citations)
           Sets(n) == {s \in SUBSET Ranks : Cardinality(s) <= n}
           Missing == {n \in Nat : ~\E g : IsProduct(g, Sets(n))}
<1>1. N \in Nat /\ IsFiniteSet(Ranks) /\ Cardinality(Ranks) = N
  BY RetrievalAssumption, FS_CardinalityType, FS_Interval DEF Ranks
<1>2. \A s \in SUBSET Ranks : IsFiniteSet(s) /\ Cardinality(s) \in Nat /\ Cardinality(s) <= N
  BY <1>1, FS_Subset, FS_CardinalityType
<1>3. ASSUME NEW s \in SUBSET Ranks, s # {}
      PROVE  /\ s \ {First(s)} \in SUBSET Ranks
             /\ Cardinality(s \ {First(s)}) = Cardinality(s) - 1
  BY <1>2, <1>3, FS_RemoveElement DEF First
<1>4. Missing = {}
  <2> SUFFICES ASSUME Missing # {}
               PROVE  FALSE
    OBVIOUS
  <2>1. PICK n \in Missing : \A m \in Missing : n <= m
    BY LeastNumber
  <2>2. CASE n = 0
    <3>1. Sets(n) = {{}}
      BY <1>2, <2>2, FS_EmptySet
    <3>2. IsProduct([s \in Sets(n) |-> 1], Sets(n))
      BY <3>1 DEF IsProduct
    <3> QED
      BY <3>2
  <2>3. CASE n # 0
    <3>0. n \in Nat
      OBVIOUS
    <3>1. n - 1 \in Nat /\ n - 1 \notin Missing
      <4> HIDE DEF Missing
      <4> QED
        BY <2>1, <2>3, <3>0
    <3>2. PICK g : IsProduct(g, Sets(n - 1))
      BY <3>1
    <3> DEFINE h == [s \in Sets(n) |-> IF s = {} THEN 1
                                      ELSE (RRF_K + First(s)) * g[s \ {First(s)}]]
    <3>3. \A s \in Sets(n - 1) : s \in Sets(n)
      BY <1>2, <3>0
    <3>4. \A s \in Sets(n) : s # {} => s \ {First(s)} \in Sets(n - 1)
      BY <1>2, <1>3, <3>0
    <3>5. IsProduct(h, Sets(n))
      <4> HIDE DEF Sets, Missing
      <4>1. \A s \in Sets(n - 1) : h[s] = g[s]
        BY <3>2, <3>3 DEF IsProduct
      <4>2. \A s \in Sets(n) :
              h[s] = IF s = {} THEN 1 ELSE (RRF_K + First(s)) * h[s \ {First(s)}]
        BY <3>4, <4>1
      <4> QED
        BY <4>2 DEF IsProduct
    <3> QED
      BY <3>5
  <2> QED
    BY <2>2, <2>3
<1>5. Sets(N) = SUBSET Ranks
  BY <1>2
<1> QED
  BY <1>1, <1>4, <1>5

\* The common denominator is a multiple of every denominator.
LEMMA ScaleDivides ==
  /\ Scale \in Nat \ {0}
  /\ \A i \in Ranks : \E q \in Nat : Scale = (RRF_K + i) * q
<1> DEFINE Product == CHOOSE g : IsProduct(g, SUBSET Ranks)
           Holds(s) == /\ Product[s] \in Nat \ {0}
                       /\ \A i \in s : \E q \in Nat : Product[s] = (RRF_K + i) * q
           Failing == {n \in Nat : \E s \in SUBSET Ranks : Cardinality(s) = n /\ ~Holds(s)}
<1>1. Scale = Product[Ranks]
  BY DEF Scale, FoldSet, MapThenFoldSet, Ranks, IsProduct, First
<1>2. IsProduct(Product, SUBSET Ranks)
  BY ProductExists
<1> HIDE DEF Product
<1>3. IsFiniteSet(Ranks)
  BY RetrievalAssumption, FS_CardinalityType, FS_Interval DEF Ranks
<1>4. \A s \in SUBSET Ranks : IsFiniteSet(s) /\ Cardinality(s) \in Nat
  BY <1>3, FS_Subset, FS_CardinalityType
<1>5. Failing = {}
  <2> SUFFICES ASSUME Failing # {}
               PROVE  FALSE
    OBVIOUS
  <2>1. PICK n \in Failing : \A m \in Failing : n <= m
    BY LeastNumber
  <2>2. PICK s \in SUBSET Ranks : Cardinality(s) = n /\ ~Holds(s)
    BY <2>1
  <2>3. CASE s = {}
    BY <1>2, <2>2, <2>3 DEF IsProduct
  <2>4. CASE s # {}
    <3> DEFINE x == First(s)
               r == s \ {x}
    <3>1. x \in s /\ x \in Nat /\ r \in SUBSET Ranks
      <4>1. x \in s
        BY <2>4 DEF First
      <4>2. r \in SUBSET Ranks
        OBVIOUS
      <4> HIDE DEF x, r
      <4>3. x \in Nat
        BY <4>1 DEF Ranks
      <4> QED
        BY <4>1, <4>2, <4>3
    <3>2. Cardinality(r) = n - 1 /\ n \in Nat /\ n - 1 \in Nat
      <4>1. Cardinality(r) = Cardinality(s) - 1
        BY <1>4, <3>1, FS_RemoveElement
      <4> QED
        BY <1>4, <2>2, <3>1, <4>1
    <3>3. Product[s] = (RRF_K + x) * Product[r]
      BY <1>2, <2>4 DEF IsProduct
    <3> HIDE DEF x
    <3> HIDE DEF r
    <3>4. Holds(r)
      <4>1. n - 1 \notin Failing
        <5> HIDE DEF Failing
        <5> QED
          BY <2>1, <3>2
      <4> QED
        BY <3>1, <3>2, <4>1
    <3>5. Product[s] \in Nat \ {0}
      BY <3>1, <3>3, <3>4 DEF RRF_K
    <3>6. ASSUME NEW i \in s
          PROVE  \E q \in Nat : Product[s] = (RRF_K + i) * q
      <4>1. CASE i = x
        BY <3>3, <3>4, <4>1
      <4>2. CASE i # x
        <5>1. i \in r /\ i \in Nat
          BY <3>6, <4>2 DEF r, Ranks
        <5>2. PICK q \in Nat : Product[r] = (RRF_K + i) * q
          BY <3>4, <5>1
        <5>3. (RRF_K + x) * q \in Nat /\ Product[s] = (RRF_K + i) * ((RRF_K + x) * q)
          BY <3>1, <3>3, <5>1, <5>2 DEF RRF_K
        <5> QED
          BY <5>3
      <4> QED
        BY <4>1, <4>2
    <3> QED
      BY <2>2, <3>5, <3>6
  <2> QED
    BY <2>3, <2>4
<1>6. Holds(Ranks)
  BY <1>3, <1>4, <1>5
<1> QED
  BY <1>1, <1>6

\* A better rank has a larger share.
LEMMA ShareDecreases ==
  /\ \A i \in Ranks : Scale \div (RRF_K + i) \in Nat \ {0}
  /\ \A i, j \in Ranks : i < j => Scale \div (RRF_K + i) > Scale \div (RRF_K + j)
<1>1. ASSUME NEW d \in Nat \ {0}, NEW q \in Nat
      PROVE  (d * q) \div d = q
  OBVIOUS
<1>2. ASSUME NEW i \in Ranks
      PROVE  Scale \div (RRF_K + i) \in Nat \ {0} /\ Scale = (RRF_K + i) * (Scale \div (RRF_K + i))
  <2>1. PICK q \in Nat : Scale = (RRF_K + i) * q
    BY ScaleDivides
  <2>2. RRF_K + i \in Nat \ {0}
    BY DEF Ranks, RRF_K
  <2>3. Scale \div (RRF_K + i) = q
    BY <1>1, <2>1, <2>2
  <2>4. q # 0
    BY <2>1, <2>2, ScaleDivides
  <2> QED
    BY <2>1, <2>3, <2>4
<1>3. ASSUME NEW i \in Ranks, NEW j \in Ranks, i < j
      PROVE  Scale \div (RRF_K + i) > Scale \div (RRF_K + j)
  <2>1. ASSUME NEW p \in Nat \ {0}, NEW q \in Nat \ {0}, (60 + i) * p = (60 + j) * q
        PROVE  p > q
    BY <1>3, <2>1 DEF Ranks
  <2> QED
    BY <1>2, <2>1 DEF RRF_K
<1> QED
  BY <1>2, <1>3

-----------------------------------------------------------------------------
(* Retrieval: fusion *)

\* A channel's hits are distinct citations at the ranks 1, 2, ...
LEMMA RankingShape ==
  ASSUME NEW ranking \in Rankings
  PROVE  /\ DOMAIN ranking \in SUBSET Ranks
         /\ ToSet(ranking) \in SUBSET Citations
         /\ \A i, j \in DOMAIN ranking : i # j => ranking[i] # ranking[j]
<1>1. PICK S \in SUBSET Citations : ranking \in SetToSeqs(S)
  BY DEF Rankings
<1>2. /\ Cardinality(S) \in Nat /\ Cardinality(Citations) \in Nat
      /\ Cardinality(S) <= Cardinality(Citations)
  BY RetrievalAssumption, FS_Subset, FS_CardinalityType
<1>3. DOMAIN ranking = 1..Cardinality(S)
  BY <1>1 DEF SetToSeqs
<1>4. DOMAIN ranking \in SUBSET Ranks
  BY <1>2, <1>3 DEF Ranks
<1>5. ToSet(ranking) \in SUBSET Citations
  BY <1>1 DEF SetToSeqs, ToSet
<1> QED
  BY <1>1, <1>4, <1>5 DEF SetToSeqs

\* The rank that fusion reads off a channel is one of them, or 0.
LEMMA RankInRanks ==
  ASSUME NEW hits \in [Channels -> Rankings], NEW k \in Channels, NEW c
  PROVE  Rank(hits, k, c) \in Ranks \cup {0}
<1>1. DOMAIN hits[k] \in SUBSET Ranks
  BY RankingShape
<1>2. CASE c \in ToSet(hits[k])
  <2>1. \E i \in DOMAIN hits[k] : hits[k][i] = c
    BY <1>2 DEF ToSet
  <2> QED
    BY <1>1, <1>2, <2>1 DEF Rank
<1> QED
  BY <1>2 DEF Rank

\* A channel adds more for a citation that it ranks before another one.
LEMMA ShareByRankOrder ==
  ASSUME NEW hits \in [Channels -> Rankings], NEW k \in Channels, NEW b, NEW c
  PROVE  LET rb == Rank(hits, k, b)
             rc == Rank(hits, k, c)
         IN  /\ Share(hits, k, b) \in Nat
             /\ rc = 0 \/ (rb # 0 /\ rb <= rc) => Share(hits, k, b) >= Share(hits, k, c)
             /\ rb # 0 /\ (rc = 0 \/ rb < rc) => Share(hits, k, b) > Share(hits, k, c)
<1> DEFINE rb == Rank(hits, k, b)
           rc == Rank(hits, k, c)
           part(r) == IF r = 0 THEN 0 ELSE Scale \div (RRF_K + r)
<1>1. rb \in Ranks \cup {0} /\ rc \in Ranks \cup {0}
  BY RankInRanks
<1>2. Share(hits, k, b) = part(rb) /\ Share(hits, k, c) = part(rc)
  BY DEF Share
<1>3. \A i \in Ranks : i \in Nat \ {0} /\ part(i) \in Nat \ {0}
  BY ShareDecreases DEF Ranks
<1>4. \A i, j \in Ranks : i < j => part(i) > part(j)
  BY <1>3, ShareDecreases
<1>5. part(0) = 0
  OBVIOUS
<1> HIDE DEF part, rb, rc
<1>6. part(rb) \in Nat /\ part(rc) \in Nat
  BY <1>1, <1>3, <1>5
<1>7. rc = 0 \/ (rb # 0 /\ rb <= rc) => part(rb) >= part(rc)
  BY <1>1, <1>3, <1>4, <1>5
<1>8. rb # 0 /\ (rc = 0 \/ rb < rc) => part(rb) > part(rc)
  BY <1>1, <1>3, <1>4, <1>5
<1> QED
  BY <1>2, <1>6, <1>7, <1>8 DEF rb, rc

\* Weights can be compared.
LEMMA WeightIsNat ==
  ASSUME NEW hits \in [Channels -> Rankings], NEW c
  PROVE  Weight(hits, c) \in Nat
<1>1. \A k \in Channels : Share(hits, k, c) \in Nat
  BY ShareByRankOrder
<1> QED
  BY <1>1 DEF Weight, Channels

\* Before is a linear order, so that the fused ranking exists.
LEMMA FusedRankingSorted ==
  ASSUME NEW hits \in [Channels -> Rankings]
  PROVE  /\ FusedRanking(hits) \in SetToSeqs(Found(hits))
         /\ \A i, j \in DOMAIN FusedRanking(hits) :
              i < j => Before(hits, FusedRanking(hits)[i], FusedRanking(hits)[j])
<1> DEFINE S == Found(hits)
           R == {p \in S \X S : Before(hits, p[1], p[2])}
<1>1. S \in SUBSET Citations
  BY RankingShape DEF Found
<1>2. IsFiniteSet(S)
  BY <1>1, RetrievalAssumption, FS_Subset
<1>3. \A c \in S : c \in Nat /\ Weight(hits, c) \in Nat
  BY <1>1, RetrievalAssumption, WeightIsNat
<1>4. \A b, c \in S : <<b, c>> \in R <=> Before(hits, b, c)
  OBVIOUS
<1> HIDE DEF R, S
<1>5. \A b \in S : <<b, b>> \notin R
  BY <1>3, <1>4 DEF Before
<1>6. \A b, c \in S : b # c => <<b, c>> \in R \/ <<c, b>> \in R
  BY <1>3, <1>4 DEF Before
<1>7. \A b, c, d \in S : <<b, c>> \in R /\ <<c, d>> \in R => <<b, d>> \in R
  BY <1>3, <1>4 DEF Before
<1>8. PICK s \in SetToSeqs(S) : \A i, j \in DOMAIN s : i < j => <<s[i], s[j]>> \in R
  BY <1>2, <1>5, <1>6, <1>7, LinearOrderSorts
<1>9. \A i \in DOMAIN s : s[i] \in S
  BY DEF SetToSeqs
<1>10. \A i, j \in DOMAIN s : i < j => Before(hits, s[i], s[j])
  BY <1>4, <1>8, <1>9
<1> QED
  BY <1>10 DEF FusedRanking, S

\* What is fused is a sequence of citations.
LEMMA FusedRankingInSeq ==
  ASSUME NEW hits \in [Channels -> Rankings]
  PROVE  FusedRanking(hits) \in Seq(Citations)
<1>1. Found(hits) \in SUBSET Citations
  BY RankingShape DEF Found
<1>2. Cardinality(Found(hits)) \in Nat
  BY <1>1, RetrievalAssumption, FS_Subset, FS_CardinalityType
<1>3. FusedRanking(hits) \in [1..Cardinality(Found(hits)) -> Found(hits)]
  BY FusedRankingSorted DEF SetToSeqs
<1> QED
  BY <1>1, <1>2, <1>3

\* Nothing found is nothing fused.
LEMMA NothingFused ==
  ASSUME NEW hits \in [Channels -> Rankings], \A k \in Channels : hits[k] = <<>>
  PROVE  FusedRanking(hits) = <<>>
<1>1. Found(hits) = {}
  BY DEF Found, ToSet
<1>2. FusedRanking(hits) \in [1..0 -> {}]
  BY <1>1, FusedRankingSorted, FS_EmptySet DEF SetToSeqs
<1> QED
  BY <1>2

-----------------------------------------------------------------------------
(* Retrieval: a request while versions change *)

\* The domains of the request.
Versions == CorpusVersions \cup {NoVersion}
RetrievalPCs == Channels \cup {"idle", "resolve", "cache", "fuse", "answered"}

RetrievalTypeOK ==
  /\ servedVersion \in Versions
  /\ cachedVersion \in Versions
  /\ query \in [pc : RetrievalPCs, version : Versions, hits : [Channels -> Rankings],
                from : SUBSET Versions, evidence : Seq(Citations),
                strength : {"none", "weak", "strong"}, seen : SUBSET Versions]

\* Whatever has been served since the request began is recorded, nothing is found
\* before a version is known, and an answer's evidence is the fusion of its hits.
RetrievalInv ==
  /\ RetrievalTypeOK
  /\ query.pc # "idle" => servedVersion \in query.seen
  /\ EvidenceWasServed
  /\ query.pc \in {"resolve", "cache"} => \A k \in Channels : query.hits[k] = <<>>
  /\ query.pc = "answered" => query.evidence = FusedRanking(query.hits)
  /\ query.pc \notin {"fuse", "answered"} => query.evidence = <<>>

\* A channel may find nothing.
LEMMA NoRanking == <<>> \in Rankings
  BY FS_EmptySet DEF Rankings, SetToSeqs

\* A request that ended leaves nothing behind.
LEMMA IdleQueryInv ==
  ASSUME RetrievalTypeOK, query' = IdleQuery, UNCHANGED <<servedVersion, cachedVersion>>
  PROVE  RetrievalInv'
BY NoRanking DEF IdleQuery, RetrievalInv, RetrievalTypeOK, EvidenceWasServed, Versions,
                 RetrievalPCs

\* The invariant holds of the first state.
LEMMA RetrievalStart == RetrievalInit => RetrievalInv
BY NoRanking DEF RetrievalInit, IdleQuery, RetrievalInv, RetrievalTypeOK, EvidenceWasServed,
                 Versions, RetrievalPCs

\* And of every step, one case per action.
LEMMA RetrievalStep == RetrievalInv /\ [RetrievalNext]_retrievalVars => RetrievalInv'
<1> SUFFICES ASSUME RetrievalInv, [RetrievalNext]_retrievalVars
             PROVE  RetrievalInv'
  OBVIOUS
<1> USE DEF RetrievalInv, RetrievalTypeOK, EvidenceWasServed
<1>1. CASE UNCHANGED retrievalVars
  BY <1>1 DEF retrievalVars
<1>2. ASSUME NEW v \in CorpusVersions, ActivateVersion(v)
      PROVE  RetrievalInv'
  BY <1>2 DEF ActivateVersion, Textbook!Activate, Versions
<1>3. CASE InvalidateVersion
  BY <1>3 DEF InvalidateVersion, Versions
<1>4. CASE ReadCachedVersion
  <2>1. PICK v \in Versions : query' = [IdleQuery EXCEPT
                                          !.pc = IF v = NoVersion THEN "resolve" ELSE "dense",
                                          !.version = v, !.seen = {servedVersion}]
    BY <1>4 DEF ReadCachedVersion, Versions
  <2>2. query' = [pc |-> IF v = NoVersion THEN "resolve" ELSE "dense", version |-> v,
                  hits |-> [k \in Channels |-> <<>>], from |-> {}, evidence |-> <<>>,
                  strength |-> "none", seen |-> {servedVersion}]
    BY <2>1 DEF IdleQuery
  <2>3. servedVersion' = servedVersion /\ cachedVersion' = cachedVersion
    BY <1>4 DEF ReadCachedVersion
  <2> QED
    BY <2>2, <2>3, NoRanking DEF Versions, RetrievalPCs, Channels
<1>5. CASE ResolveVersion
  BY <1>5, NothingFused DEF ResolveVersion, Versions, RetrievalPCs
<1>6. CASE CacheVersion
  BY <1>6 DEF CacheVersion, Versions, RetrievalPCs, Channels
<1>7. CASE RejectChapter
  BY <1>7, IdleQueryInv DEF RejectChapter
<1>8. ASSUME NEW k \in Channels, SearchChannel(k)
      PROVE  RetrievalInv'
  <2>1. PICK ranking \in Rankings :
          /\ ranking # <<>> => query.version = servedVersion
          /\ query' = [query EXCEPT !.pc = Following(k), !.hits[k] = ranking,
                                   !.from = IF ranking = <<>> THEN @ ELSE @ \cup {query.version}]
    BY <1>8, NoRanking DEF SearchChannel, Searchable
  <2> DEFINE next == Following(k)
             hits == [query.hits EXCEPT ![k] = ranking]
             from == IF ranking = <<>> THEN query.from ELSE query.from \cup {query.version}
  <2>2. query' = [query EXCEPT !.pc = next, !.hits = hits, !.from = from]
    BY <2>1
  <2>3. next \in RetrievalPCs \ {"idle", "resolve", "cache", "answered"}
    BY DEF Following, Channels, RetrievalPCs
  <2>4. hits \in [Channels -> Rankings]
    OBVIOUS
  <2>5. query.pc = k /\ servedVersion' = servedVersion /\ cachedVersion' = cachedVersion
    BY <1>8 DEF SearchChannel
  <2>6. query.pc \notin {"idle", "fuse", "answered"}
    BY <2>5 DEF Channels
  <2>7. from \in SUBSET Versions /\ from \subseteq query.seen
    BY <2>1, <2>6
  <2> HIDE DEF next, hits, from
  <2> QED
    BY <2>2, <2>3, <2>4, <2>5, <2>6, <2>7
<1>9. CASE Fuse
  <2> DEFINE ranking == FusedRanking(query.hits)
             strength == Strength(query.hits, ranking)
  <2>1. query' = [query EXCEPT !.pc = "answered", !.evidence = ranking, !.strength = strength]
    BY <1>9 DEF Fuse
  <2>2. query.pc = "fuse" /\ servedVersion' = servedVersion /\ cachedVersion' = cachedVersion
    BY <1>9 DEF Fuse
  <2>3. ranking \in Seq(Citations)
    BY FusedRankingInSeq
  <2>4. strength \in {"none", "weak", "strong"}
    BY DEF Strength
  <2>5. query'.hits = query.hits
    BY <2>1
  <2> HIDE DEF strength
  <2>6. ranking = FusedRanking(query'.hits)
    BY <2>5
  <2> HIDE DEF ranking
  <2> QED
    BY <2>1, <2>2, <2>3, <2>4, <2>6 DEF RetrievalPCs
<1>10. CASE NextQuery
  BY <1>10, IdleQueryInv DEF NextQuery
<1> QED
  BY <1>1, <1>2, <1>3, <1>4, <1>5, <1>6, <1>7, <1>8, <1>9, <1>10 DEF RetrievalNext

\* No interleaving of a request with activations, rollbacks and the loss of cache
\* entries makes retrieval quote a version that was active at no moment of the request.
THEOREM EvidenceServed == RetrievalSpec => []EvidenceWasServed
<1>1. RetrievalInv => EvidenceWasServed
  BY DEF RetrievalInv
<1> QED
  BY RetrievalStart, RetrievalStep, <1>1, PTL DEF RetrievalSpec

\* Of two citations in the wrong order one would be heavier, and Before orders the
\* evidence by weight.
LEMMA FusionOrders == RetrievalInv => FusionRespectsChannels
<1> SUFFICES ASSUME RetrievalInv, query.pc = "answered",
                    NEW i \in DOMAIN query.evidence, NEW j \in DOMAIN query.evidence,
                    \A k \in Channels : AtLeast(query.evidence[i], query.evidence[j], k),
                    \E k \in Channels : ~AtLeast(query.evidence[j], query.evidence[i], k)
             PROVE  i < j
  BY DEF FusionRespectsChannels
<1> DEFINE hits == query.hits
           b == query.evidence[i]
           c == query.evidence[j]
<1>1. hits \in [Channels -> Rankings]
  BY DEF RetrievalInv, RetrievalTypeOK
<1>2. query.evidence = FusedRanking(hits)
  BY DEF RetrievalInv
<1>3. /\ DOMAIN query.evidence = 1..Cardinality(Found(hits))
      /\ \A m, n \in DOMAIN query.evidence :
           m < n => Before(hits, query.evidence[m], query.evidence[n])
  BY <1>1, <1>2, FusedRankingSorted DEF SetToSeqs
<1>4. \A k \in Channels : /\ Share(hits, k, b) \in Nat /\ Share(hits, k, c) \in Nat
                          /\ Share(hits, k, b) >= Share(hits, k, c)
  BY <1>1, ShareByRankOrder DEF AtLeast
<1>5. \E k \in Channels : Share(hits, k, b) > Share(hits, k, c)
  <2>1. PICK k \in Channels : ~AtLeast(c, b, k)
    OBVIOUS
  <2> DEFINE rb == Rank(hits, k, b)
             rc == Rank(hits, k, c)
  <2>2. rb \in Int /\ rc \in Int
    BY <1>1, RankInRanks DEF Ranks
  <2>3. rb # 0 /\ (rc = 0 \/ ~(rc <= rb))
    BY <2>1 DEF AtLeast
  <2>4. rb # 0 /\ (rc = 0 \/ rb < rc)
    <3> HIDE DEF rb, rc
    <3> QED
      BY <2>2, <2>3
  <2> QED
    BY <1>1, <2>4, ShareByRankOrder
<1>6. Weight(hits, b) > Weight(hits, c)
  BY <1>4, <1>5 DEF Weight, Channels
<1>7. Weight(hits, b) \in Nat /\ Weight(hits, c) \in Nat
  BY <1>1, WeightIsNat
<1>8. ~Before(hits, c, b)
  BY <1>6, <1>7 DEF Before
<1>9. b # c
  BY <1>6, <1>7
<1>10. i # j /\ ~(j < i)
  BY <1>3, <1>8, <1>9
<1>11. i \in Int /\ j \in Int
  BY <1>3
<1> QED
  BY <1>10, <1>11

\* fuse_ranked_hits never ranks a citation below one that no channel prefers to it,
\* for any number of citations and any three rankings of them.
THEOREM FusionIsMonotone == RetrievalSpec => []FusionRespectsChannels
BY RetrievalStart, RetrievalStep, FusionOrders, PTL DEF RetrievalSpec

\* Fusion loses nothing that a channel found, adds nothing and repeats nothing: the
\* ranking that its sort looks for always exists.
THEOREM EvidenceIsComplete ==
  RetrievalSpec => [](query.pc = "answered" => query.evidence \in SetToSeqs(Found(query.hits)))
<1>1. RetrievalInv =>
        (query.pc = "answered" => query.evidence \in SetToSeqs(Found(query.hits)))
  BY FusedRankingSorted DEF RetrievalInv, RetrievalTypeOK
<1> QED
  BY RetrievalStart, RetrievalStep, <1>1, PTL DEF RetrievalSpec
=============================================================================
