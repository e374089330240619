---------------------------- MODULE AskContract -----------------------------
(***************************************************************************)
(* What a student and the ledger may rely on for one request id of Single  *)
(* Ask, however often the client sends it (app/services/answers/           *)
(* generate.py): the request is opened with a unit of the day's quota, the *)
(* provider is asked once at most and only while it is open, the unit is   *)
(* settled together with the outcome, and whatever a sending is told was   *)
(* true when it was told.  Calls, crashes and lost replies are invisible   *)
(* here; SingleAsk implements it with them.                                *)
(***************************************************************************)
VARIABLES
  outcome,  \* ai_requests.status
  unit,     \* usage_reservations.status
  asked,    \* whether the provider has been asked
  told      \* what the sendings have been told so far

vars == <<outcome, unit, asked, told>>

Init ==
  /\ outcome = "none"
  /\ unit = "none"
  /\ asked = FALSE
  /\ told = {}

\* Mentioned to the sending that caused the step, or lost on its way there.
MayTell(r) == told' \in {told, told \cup {r}}

Open ==
  /\ outcome = "none"
  /\ outcome' = "pending"
  /\ unit' = "reserved"
  /\ UNCHANGED <<asked, told>>

AskProvider ==
  /\ outcome = "pending"
  /\ ~asked
  /\ asked' = TRUE
  /\ UNCHANGED <<outcome, unit, told>>

\* The answer, perhaps an approved one of the bank, is paid for.
Answer ==
  /\ outcome = "pending"
  /\ outcome' = "completed"
  /\ unit' = "committed"
  /\ MayTell("answer")
  /\ UNCHANGED asked

\* Only the provider can say that there is no answer.
FindNoAnswer ==
  /\ outcome = "pending"
  /\ asked
  /\ outcome' = "no_answer"
  /\ unit' = "committed"
  /\ MayTell("no_answer")
  /\ UNCHANGED asked

\* A failure gives the unit back, unless the provider had been asked.
GiveUp ==
  /\ outcome = "pending"
  /\ outcome' = "failed"
  /\ unit' \in {"refunded"} \cup (IF asked THEN {"committed"} ELSE {})
  /\ MayTell("error")
  /\ UNCHANGED asked

\* A failure after the outcome was stored hides it, and the unit stays spent.
Hide ==
  /\ outcome \in {"completed", "no_answer"}
  /\ outcome' = "failed"
  /\ MayTell("error")
  /\ UNCHANGED <<unit, asked>>

\* A sending that is told what the request's row says, or only about itself.
Tell(r) ==
  /\ r = "answer" => outcome = "completed"
  /\ r = "no_answer" => outcome = "no_answer"
  /\ r = "in_progress" => outcome \in {"pending", "failed"}
  /\ told' = told \cup {r}
  /\ UNCHANGED <<outcome, unit, asked>>

Next ==
  \/ Open \/ AskProvider \/ Answer \/ FindNoAnswer \/ GiveUp \/ Hide
  \/ \E r \in {"answer", "no_answer", "in_progress", "denied", "error"} : Tell(r)

Spec == Init /\ [][Next]_vars

-----------------------------------------------------------------------------
(* What follows from the contract alone *)

\* The sendings of one request never contradict each other, and who was told an
\* answer, or that there is none, has been charged for it.
NeverContradicted ==
  /\ ~({"answer", "no_answer"} \subseteq told)
  /\ told \cap {"answer", "no_answer"} # {} => unit = "committed"
=============================================================================
