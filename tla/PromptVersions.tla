--------------------------- MODULE PromptVersions ---------------------------
(***************************************************************************)
(* The editable prompts of one family (prompt key and answer mode): their  *)
(* versions in PostgreSQL, administrators who edit, activate and roll back *)
(* concurrently, and students' requests that resolve the active prompt     *)
(* through the shared cache (app/services/prompts/service.py,              *)
(* app/repositories/prompt_repository.py, prompt_cache.py).                *)
(*                                                                         *)
(* A transaction takes effect at its commit; the rows it locks before are  *)
(* recorded.  The copy of the generation in Redis is left out: no value    *)
(* read from it is ever used.  A cache entry that expired and a Redis that *)
(* does not answer are a lookup that misses.                               *)
(***************************************************************************)
EXTENDS Naturals, Sequences

CONSTANTS
  Prompts,        \* rows of prompt_versions
  ScopeOf,        \* scope of each row
  StudentScopes,  \* full board/class/subject scopes of students
  SubjectScope,   \* the subject-wide scope, the fallback of all of them
  PromptTexts, NoPrompt,
  Admins, Readers,
  MaxGeneration   \* bound: activations and rollbacks

ASSUME PromptAssumption ==
  /\ ScopeOf \in [Prompts -> StudentScopes \cup {SubjectScope}]
  /\ MaxGeneration \in Nat \ {0}
  /\ NoPrompt \notin Prompts

VARIABLES
  promptStatus,     \* of each row: "none" (not inserted), "draft", "active", "retired"
  content,
  promptGeneration, \* cache_generations of the family
  promptCache,      \* Redis: per generation and requested scope, a record or NoPrompt
  admin,            \* what each administrator's request is doing
  reader            \* what each student's request is doing

promptVars == <<promptStatus, content, promptGeneration, promptCache, admin, reader>>

Generations == 1..MaxGeneration

PromptRecord(p) == [id |-> p, content |-> content[p]]

ActiveIn(s) == {p \in Prompts : ScopeOf[p] = s /\ promptStatus[p] = "active"}

\* find_active in one scope.
FindActive(s) == IF ActiveIn(s) = {} THEN NoPrompt ELSE PromptRecord(CHOOSE p \in ActiveIn(s) : TRUE)

\* resolution_chain: class-wide and global prompts are never candidates.
Chain(s) == <<s, SubjectScope>>

IdleAdmin == [pc |-> "idle", target |-> NoPrompt, draft |-> FALSE, current |-> NoPrompt]
IdleReader == [pc |-> "idle", scope |-> SubjectScope, generation |-> 0, at |-> 0,
               record |-> NoPrompt, seen |-> {}]

PromptInit ==
  /\ promptStatus = [p \in Prompts |-> "none"]
  /\ content = [p \in Prompts |-> NoPrompt]
  /\ promptGeneration = 1
  /\ promptCache = [g \in Generations |-> [s \in StudentScopes |-> NoPrompt]]
  /\ admin = [a \in Admins |-> IdleAdmin]
  /\ reader = [r \in Readers |-> IdleReader]

-----------------------------------------------------------------------------
(* PromptService, the administrators *)

\* create_draft.
CreateDraft(p, t) ==
  /\ promptStatus[p] = "none"
  /\ promptStatus' = [promptStatus EXCEPT ![p] = "draft"]
  /\ content' = [content EXCEPT ![p] = t]
  /\ UNCHANGED <<promptGeneration, promptCache, admin, reader>>

\* The service's own look at the row, in no transaction: update_draft and
\* activate want a draft, rollback wants anything else.
CheckPrompt(a, p, op) ==
  /\ admin[a].pc = "idle"
  /\ promptStatus[p] \in IF op = "rollback" THEN {"active", "retired"} ELSE {"draft"}
  /\ admin' = [admin EXCEPT ![a] =
       [IdleAdmin EXCEPT !.pc = IF op = "update" THEN "update" ELSE "lock",
                         !.target = p, !.draft = (op # "rollback")]]
  /\ UNCHANGED <<promptStatus, content, promptGeneration, promptCache, reader>>

\* The rows an administrator's transaction holds FOR UPDATE.
Locked(a) ==
  IF admin[a].pc \in {"find", "wait"} THEN {admin[a].target}
  ELSE IF admin[a].pc = "commit" THEN {admin[a].target, admin[a].current} \ {NoPrompt}
  ELSE {}

Free(p) == \A a \in Admins : p \notin Locked(a)

LeaveAdmin(a) == admin' = [admin EXCEPT ![a] = IdleAdmin]

\* Mutant: the transaction trusts the service's check.
UpdateDraftUnchecked(a, t) ==
  LET p == admin[a].target
  IN  /\ admin[a].pc = "update" /\ Free(p)
      /\ content' = [content EXCEPT ![p] = t]
      /\ LeaveAdmin(a)
      /\ UNCHANGED <<promptStatus, promptGeneration, promptCache, reader>>

\* update_draft: the status is checked again under the row's lock.
UpdateDraft(a, t) ==
  LET p == admin[a].target
  IN  /\ admin[a].pc = "update"
      /\ Free(p)
      /\ content' = IF promptStatus[p] = "draft" THEN [content EXCEPT ![p] = t] ELSE content
      /\ LeaveAdmin(a)
      /\ UNCHANGED <<promptStatus, promptGeneration, promptCache, reader>>

\* _activate_target: SELECT ... FOR UPDATE of the target, and its status.
LockTarget(a) ==
  LET p == admin[a].target
      allowed == IF admin[a].draft THEN {"draft"} ELSE {"retired", "active"}
  IN  /\ admin[a].pc = "lock"
      /\ Free(p)
      /\ IF promptStatus[p] \in allowed THEN admin' = [admin EXCEPT ![a].pc = "find"] ELSE LeaveAdmin(a)
      /\ UNCHANGED <<promptStatus, content, promptGeneration, promptCache, reader>>

\* The other active row, as the snapshot of the statement has it.
FindCurrent(a) ==
  LET others == ActiveIn(ScopeOf[admin[a].target]) \ {admin[a].target}
  IN  /\ admin[a].pc = "find"
      /\ admin' = [admin EXCEPT
           ![a].pc = IF others = {} THEN "commit" ELSE "wait",
           ![a].current = IF others = {} THEN NoPrompt ELSE CHOOSE p \in others : TRUE]
      /\ UNCHANGED <<promptStatus, content, promptGeneration, promptCache, reader>>

\* Its lock is granted: a row retired in the meantime no longer matches, and the
\* row that took its place was not in the snapshot.
LockCurrent(a) ==
  LET p == admin[a].current
  IN  /\ admin[a].pc = "wait"
      /\ Free(p)
      /\ admin' = [admin EXCEPT ![a].pc = "commit",
                                ![a].current = IF promptStatus[p] = "active" THEN p ELSE NoPrompt]
      /\ UNCHANGED <<promptStatus, content, promptGeneration, promptCache, reader>>

StatusAfter(a) ==
  [p \in Prompts |-> IF p = admin[a].target THEN "active"
                     ELSE IF p = admin[a].current THEN "retired" ELSE promptStatus[p]]

\* Mutant: without the index idx_prompt_one_active_scope.
NoConflict(a) == TRUE

\* The unique index: a second active row of the scope aborts the transaction.
NoIndexConflict(a) ==
  ActiveIn(ScopeOf[admin[a].target]) \subseteq {admin[a].target, admin[a].current}

\* What a request of each scope may rightly answer with at this moment.
ActiveOf ==
  [s \in StudentScopes \cup {SubjectScope} |-> {FindActive(s), FindActive(SubjectScope)} \ {NoPrompt}]

\* The commit: the new active row, the retired one, the new generation.
CommitActivation(a) ==
  /\ admin[a].pc = "commit"
  /\ UNCHANGED content
  /\ IF NoIndexConflict(a)
       THEN /\ promptGeneration < MaxGeneration
            /\ promptStatus' = StatusAfter(a)
            /\ promptGeneration' = promptGeneration + 1
            /\ reader' = [r \in Readers |->
                 [reader[r] EXCEPT !.seen = @ \cup ActiveOf'[reader[r].scope]]]
       ELSE UNCHANGED <<promptStatus, promptGeneration, reader>>
  /\ LeaveAdmin(a)
  /\ UNCHANGED promptCache

-----------------------------------------------------------------------------
(* resolve_active, the students' requests *)

\* SharedPromptCache.get reads the generation first.
AskPrompt(r, s) ==
  /\ reader[r].pc = "idle"
  /\ reader' = [reader EXCEPT ![r] =
       [IdleReader EXCEPT !.pc = "lookup", !.scope = s, !.generation = promptGeneration,
                          !.seen = ActiveOf[s]]]
  /\ UNCHANGED <<promptStatus, content, promptGeneration, promptCache, admin>>

LookupPrompt(r) ==
  LET found == promptCache[reader[r].generation][reader[r].scope]
  IN  /\ reader[r].pc = "lookup"
      /\ \/ reader' = [reader EXCEPT ![r].pc = "find", ![r].at = 1]
         \/ found # NoPrompt /\ reader' = [reader EXCEPT ![r].pc = "answered", ![r].record = found]
      /\ UNCHANGED <<promptStatus, content, promptGeneration, promptCache, admin>>

\* One statement per scope of the chain; PromptConfigurationError at its end.
FindPrompt(r) ==
  LET found == FindActive(Chain(reader[r].scope)[reader[r].at])
      last == reader[r].at = Len(Chain(reader[r].scope))
  IN  /\ reader[r].pc = "find"
      /\ reader' =
           IF found # NoPrompt THEN [reader EXCEPT ![r].pc = "regenerate", ![r].record = found]
           ELSE IF last THEN [reader EXCEPT ![r] = IdleReader]
           ELSE [reader EXCEPT ![r].at = @ + 1]
      /\ UNCHANGED <<promptStatus, content, promptGeneration, promptCache, admin>>

\* SharedPromptCache.set reads the generation once more.
Regenerate(r) ==
  /\ reader[r].pc = "regenerate"
  /\ reader' = [reader EXCEPT ![r].pc = "store", ![r].generation = promptGeneration]
  /\ UNCHANGED <<promptStatus, content, promptGeneration, promptCache, admin>>

StorePrompt(r) ==
  /\ reader[r].pc = "store"
  /\ \/ promptCache' = [promptCache EXCEPT ![reader[r].generation][reader[r].scope] = reader[r].record]
     \/ UNCHANGED promptCache
  /\ reader' = [reader EXCEPT ![r].pc = "answered"]
  /\ UNCHANGED <<promptStatus, content, promptGeneration, admin>>

\* The next request of this client.
NextRequest(r) ==
  /\ reader[r].pc = "answered"
  /\ reader' = [reader EXCEPT ![r] = IdleReader]
  /\ UNCHANGED <<promptStatus, content, promptGeneration, promptCache, admin>>

-----------------------------------------------------------------------------
PromptNext ==
  \/ \E p \in Prompts, t \in PromptTexts : CreateDraft(p, t)
  \/ \E a \in Admins :
       \/ \E p \in Prompts, op \in {"update", "activate", "rollback"} : CheckPrompt(a, p, op)
       \/ \E t \in PromptTexts : UpdateDraft(a, t)
       \/ LockTarget(a) \/ FindCurrent(a) \/ LockCurrent(a) \/ CommitActivation(a)
  \/ \E r \in Readers :
       \/ \E s \in StudentScopes : AskPrompt(r, s)
       \/ LookupPrompt(r) \/ FindPrompt(r) \/ Regenerate(r) \/ StorePrompt(r) \/ NextRequest(r)

PromptSpec == PromptInit /\ [][PromptNext]_promptVars

-----------------------------------------------------------------------------
(* Properties *)

\* A scope never has two active prompts, whatever activations and rollbacks of it
\* overlap: one that waited for a row retired meanwhile finds no current prompt and
\* would add a second active one (_activate_target and its unique index).
OneActivePerScope ==
  \A p, q \in Prompts :
    promptStatus[p] = "active" /\ promptStatus[q] = "active" /\ ScopeOf[p] = ScopeOf[q] => p = q

\* Students are never answered with a text nobody can find again: a record that is
\* cached or being answered with has been activated and has the text of its row,
\* also when an edit of the draft overlaps its activation (update_draft).
ServedTextIsStored ==
  LET AsStored(x) == x # NoPrompt => promptStatus[x.id] \in {"active", "retired"} /\ x.content = content[x.id]
  IN  /\ \A g \in Generations, s \in StudentScopes : AsStored(promptCache[g][s])
      /\ \A r \in Readers : AsStored(reader[r].record)

\* "guarantees activation affects the next request" (prompt_cache.py): the answer
\* is a prompt that was active at some moment since the request began.
ActivationAffectsNextRequest ==
  \A r \in Readers : reader[r].pc = "answered" => reader[r].record \in reader[r].seen
=============================================================================
