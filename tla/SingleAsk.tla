----------------------------- MODULE SingleAsk ------------------------------
(***************************************************************************)
(* Single Ask: app/services/answers/generate.py for one request id of one  *)
(* student, with the rows of ai_requests, ai_answers and                   *)
(* usage_reservations that carry this id.                                  *)
(*                                                                         *)
(* The student's client may send the request several times; every sending  *)
(* is a call of ask().  One step of a call is one database statement or    *)
(* one explicit transaction with the Python up to the next one; bank       *)
(* search, retrieval and the provider happen in between.  Whether the      *)
(* quota admits the request is a choice here; UsageQuota has the counters. *)
(* The retention pass deletes the row after 90 days and is not modelled.   *)
(***************************************************************************)
CONSTANTS
  Calls,       \* executions of ask() for the request id
  None,
  Interrupts   \* calls whose process may be killed, whose own failure handler
               \* may fail, or that may miss the reply to a COMMIT

ASSUME CallsAssumption ==
  /\ None \notin Calls
  /\ Interrupts \subseteq Calls

VARIABLES
  status,       \* ai_requests.status, "none" without a row
  answer,       \* the call that stored the ai_answers row, or None
  reservation,  \* usage_reservations.status, "none" without a row
  started,      \* calls that have set provider_started
  pc,           \* where each call is
  cancelled,    \* calls that handle CancelledError
  reply         \* what each call returned

rows == <<status, answer, reservation>>
vars == <<rows, started, pc, cancelled, reply>>

Statuses == {"none", "pending", "completed", "no_answer", "failed"}
Reservations == {"none", "reserved", "committed", "refunded"}
Replies == {"none", "answer", "no_answer", "in_progress", "denied", "error"}

\* ai_request is set exactly here.
Owning == {"search", "generate", "save", "save_none", "fail"}
PCs == {"new", "reserve", "lookup", "done", "dead"} \cup Owning

Init ==
  /\ status = "none"
  /\ answer = None
  /\ reservation = "none"
  /\ started = {}
  /\ pc = [c \in Calls |-> "new"]
  /\ cancelled = {}
  /\ reply = [c \in Calls |-> "none"]

Goto(c, p) == pc' = [pc EXCEPT ![c] = p] /\ UNCHANGED <<cancelled, reply>>

Return(c, r) ==
  /\ pc' = [pc EXCEPT ![c] = "done"]
  /\ reply' = [reply EXCEPT ![c] = r]
  /\ UNCHANGED cancelled

-----------------------------------------------------------------------------
(* Replay and reservation *)

\* What a call that does not own the row returns from what it reads.
Replay ==
  CASE status = "completed" -> "answer"
    [] status = "no_answer" -> "no_answer"
    [] OTHER -> "in_progress"

\* by_client_request_id, before anything else.
FirstLook(c) ==
  /\ pc[c] = "new"
  /\ IF status = "none" THEN Goto(c, "reserve") ELSE Return(c, Replay)
  /\ UNCHANGED <<rows, started>>

Denied(c) ==
  /\ pc[c] = "reserve"
  /\ Return(c, "denied")
  /\ UNCHANGED <<rows, started>>

\* Mutant: the pending row of another call is taken for this call's own.
NewlyCreatedMutant == TRUE

\* create_pending inserted the row.
NewlyCreated == status = "none"

\* The first transaction: reserve() keeps an existing reservation, and
\* create_pending an existing row.  A call that misses its commit's reply does
\* not know that it owns the row.
ReservePending(c) ==
  /\ pc[c] = "reserve"
  /\ reservation' = IF reservation = "none" THEN "reserved" ELSE reservation
  /\ status' = IF status = "none" THEN "pending" ELSE status
  /\ \/ NewlyCreated /\ Goto(c, "search")
     \/ ~NewlyCreated /\ Goto(c, "lookup")
     \/ c \in Interrupts /\ Goto(c, "dead")
  /\ UNCHANGED <<answer, started>>

\* The second by_client_request_id, of a call whose insert met a row.
Lookup(c) ==
  /\ pc[c] = "lookup"
  /\ Return(c, Replay)
  /\ UNCHANGED <<rows, started>>

-----------------------------------------------------------------------------
(* Answering *)

\* An approved bank answer, or the provider after retrieval.
Search(c) ==
  /\ pc[c] = "search"
  /\ \/ Goto(c, "save") /\ UNCHANGED started
     \/ Goto(c, "generate") /\ started' = started \cup {c}
  /\ UNCHANGED rows

\* The generated document has blocks, or neither blocks nor citations.
Generate(c) ==
  /\ pc[c] = "generate"
  /\ Goto(c, "save") \/ Goto(c, "save_none")
  /\ UNCHANGED <<rows, started>>

\* The transaction committed: its call returns, or an exception follows.
Committed(c, r) ==
  \/ Return(c, r)
  \/ /\ c \in Interrupts
     /\ pc' = [pc EXCEPT ![c] = "fail"]
     /\ cancelled' \in {cancelled, cancelled \cup {c}}
     /\ UNCHANGED reply

\* Mutant: the usage is not committed with the answer.
CommitUsageForgotten == UNCHANGED reservation

\* UsageService.commit.
CommitUsage == reservation' = IF reservation = "reserved" THEN "committed" ELSE reservation

\* AskRepository.complete, which keeps a stored answer, and the usage commit.
SaveAnswer(c) ==
  /\ pc[c] = "save"
  /\ answer' = IF answer = None THEN c ELSE answer
  /\ status' = "completed"
  /\ CommitUsage
  /\ Committed(c, "answer")
  /\ UNCHANGED started

SaveNoAnswer(c) ==
  /\ pc[c] = "save_none"
  /\ status' = "no_answer"
  /\ CommitUsage
  /\ Committed(c, "no_answer")
  /\ UNCHANGED <<answer, started>>

-----------------------------------------------------------------------------
(* Failure *)

\* An exception before ai_request is set; a transaction in progress rolls back.
RaiseUnowned(c) ==
  /\ pc[c] \in {"new", "reserve", "lookup"}
  /\ Return(c, "error")
  /\ UNCHANGED <<rows, started>>

\* Mutant: the handler is written for Exception, which CancelledError is not.
RaiseOwnedException(c) ==
  /\ pc[c] \in Owning \ {"fail"}
  /\ \/ Goto(c, "fail")
     \/ Return(c, "error")
  /\ UNCHANGED <<rows, started>>

\* An exception, cancellation included, of the call that owns the row; a
\* transaction in progress rolls back.
RaiseOwned(c) ==
  /\ pc[c] \in Owning \ {"fail"}
  /\ pc' = [pc EXCEPT ![c] = "fail"]
  /\ cancelled' \in {cancelled, cancelled \cup {c}}
  /\ UNCHANGED <<rows, started, reply>>

\* Mutant: a cancelled call is charged whether or not the provider was called.
ChargedAnyway(c) == c \in cancelled

\* The one failure that is charged: cancelled after the provider was called.
StillCharged(c) == c \in started /\ c \in cancelled

\* AskRepository.fail, whatever the row's status is.
FailedRow == status' = "failed"

\* The exception handler's transaction.
Fail(c) ==
  /\ pc[c] = "fail"
  /\ FailedRow
  /\ reservation' = IF reservation = "reserved"
                      THEN IF StillCharged(c) THEN "committed" ELSE "refunded"
                      ELSE reservation
  /\ Return(c, "error")
  /\ UNCHANGED <<answer, started>>

\* Killed, or the exception handler itself failed: nobody owns the row any more.
Die(c) ==
  /\ c \in Interrupts
  /\ pc[c] \notin {"new", "done", "dead"}
  /\ Goto(c, "dead")
  /\ UNCHANGED <<rows, started>>

-----------------------------------------------------------------------------
Step(c) ==
  \/ FirstLook(c) \/ Denied(c) \/ ReservePending(c) \/ Lookup(c)
  \/ Search(c) \/ Generate(c) \/ SaveAnswer(c) \/ SaveNoAnswer(c)
  \/ RaiseUnowned(c) \/ RaiseOwned(c) \/ Fail(c) \/ Die(c)

Next == \E c \in Calls : Step(c)

Spec == Init /\ [][Next]_vars

-----------------------------------------------------------------------------
(* Properties *)

\* Every column and every local variable stays in its domain.
TypeOK ==
  /\ status \in Statuses
  /\ answer \in Calls \cup {None}
  /\ reservation \in Reservations
  /\ started \subseteq Calls
  /\ pc \in [Calls -> PCs]
  /\ cancelled \subseteq Calls
  /\ reply \in [Calls -> Replies]

\* However often a request is sent, one call at most asks the provider for it
\* and answers it.
GeneratedOnce ==
  /\ \A c, d \in Calls : pc[c] \in Owning /\ pc[d] \in Owning => c = d
  /\ \A c, d \in started : c = d

\* The request row and its reservation agree whatever is interrupted: they
\* appear together, a pending request holds a unit, an answered one has paid
\* for it, and a unit is given back only for a request that failed unanswered.
QuotaAgrees ==
  /\ status = "none" <=> reservation = "none"
  /\ status = "pending" <=> reservation = "reserved"
  /\ status \in {"completed", "no_answer"} \/ answer # None => reservation = "committed"
  /\ reservation = "refunded" => status = "failed" /\ answer = None

\* A student pays only for a stored answer or for a call to the provider.
ChargeIsEarned == reservation = "committed" => answer # None \/ started # {}

\* A pending request, which turns every retry away, is being worked on, unless
\* the call that owned it was killed or missed its commit.
PendingIsOwned ==
  status = "pending" => \E c \in Calls : pc[c] \in Owning \cup {"dead"}

Told == {reply[c] : c \in Calls} \ {"none"}

Contract == INSTANCE AskContract WITH outcome <- status, unit <- reservation,
                                      asked <- started # {}, told <- Told

\* All the sendings of a request, with their races, cancellations, crashes and lost
\* commit replies, keep to the contract: one provider call at most and only while
\* the request is open and its unit reserved, unit and outcome settled in one step,
\* and every reply true when it is given (ask() as a whole).
KeepsContract == Contract!Spec

=============================================================================
