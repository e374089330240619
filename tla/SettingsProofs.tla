---------------------------- MODULE SettingsProofs ---------------------------
(***************************************************************************)
(* Theorems about what administrators may change while the system answers: *)
(* a usage policy and its per-process caches, for any number of processes, *)
(* calls, limits and changes; and the prompts of one family with the       *)
(* shared cache, for any number of prompts, scopes, administrators and     *)
(* students' requests.                                                     *)
(***************************************************************************)
EXTENDS PolicyCache, PromptVersions, TLAPS

-----------------------------------------------------------------------------
(* The policy cache *)

Looking == {"check", "acquire", "read", "store", "returned"}

PolicyTypeOK ==
  /\ daily_limit \in Limits
  /\ policyGeneration \in Nat \ {0}
  /\ entry \in [Processes -> [value : Limits, generation : Nat]]
  /\ lookup \in [PolicyCalls ->
       [pc : {"idle"} \cup Looking, generation : Nat, value : Limits, seen : SUBSET Limits]]

\* A value that is filed under a generation, or about to be, was stored at or
\* after that generation, so that everyone who asked with it may have it.
Rightly(v, g) ==
  /\ g <= policyGeneration
  /\ g = policyGeneration => v = daily_limit
  /\ \A c \in PolicyCalls : lookup[c].pc \in Looking /\ lookup[c].generation = g => v \in lookup[c].seen

PolicyInv ==
  /\ \A p \in Processes : Rightly(entry[p].value, entry[p].generation)
  /\ \A c \in PolicyCalls :
       /\ lookup[c].generation <= policyGeneration
       /\ lookup[c].pc \in Looking => daily_limit \in lookup[c].seen
       /\ lookup[c].pc = "store" => Rightly(lookup[c].value, lookup[c].generation)
       /\ lookup[c].pc = "returned" => lookup[c].value \in lookup[c].seen

\* Every step keeps the policy's variables in their domains.
LEMMA PolicyTypeKept == PolicyTypeOK /\ [PolicyNext]_policyVars => PolicyTypeOK'
<1> SUFFICES ASSUME PolicyTypeOK, [PolicyNext]_policyVars PROVE PolicyTypeOK'
  OBVIOUS
<1> USE PolicyAssumption DEF PolicyTypeOK, Looking
<1>1. ASSUME NEW c \in PolicyCalls, ReadGeneration(c) PROVE PolicyTypeOK'
  BY <1>1 DEF ReadGeneration
<1>h. ASSUME NEW c \in PolicyCalls, Hit(c, "returned") PROVE lookup' \in [PolicyCalls ->
       [pc : {"idle"} \cup Looking, generation : Nat, value : Limits, seen : SUBSET Limits]]
  <2>1. ProcessOf[c] \in Processes /\ Entry(c).value \in Limits
    BY DEF Entry
  <2>2. lookup' = [lookup EXCEPT ![c] = [lookup[c] EXCEPT !.pc = "returned", !.value = Entry(c).value]]
    BY <1>h DEF Hit
  <2> QED
    BY <2>1, <2>2
<1>2. ASSUME NEW c \in PolicyCalls, CheckEntry(c) PROVE PolicyTypeOK'
  BY <1>2, <1>h DEF CheckEntry
<1>3. ASSUME NEW c \in PolicyCalls, AcquireLock(c) PROVE PolicyTypeOK'
  BY <1>3, <1>h DEF AcquireLock
<1>4. ASSUME NEW c \in PolicyCalls, ReadRow(c) PROVE PolicyTypeOK'
  BY <1>4 DEF ReadRow
<1>5. ASSUME NEW c \in PolicyCalls, StoreEntry(c) PROVE PolicyTypeOK'
  BY <1>5 DEF StoreEntry
<1>6. ASSUME NEW c \in PolicyCalls, NextLookup(c) PROVE PolicyTypeOK'
  BY <1>6 DEF NextLookup, IdleLookup
<1>7. ASSUME NEW v \in Limits, SetLimit(v) PROVE PolicyTypeOK'
  BY <1>7 DEF SetLimit
<1>8. CASE UNCHANGED policyVars
  BY <1>8 DEF policyVars
<1> QED
  BY <1>1, <1>2, <1>3, <1>4, <1>5, <1>6, <1>7, <1>8 DEF PolicyNext

\* No interleaving of lookups, stores and changes files a value wrongly.
LEMMA PolicyInvKept ==
  ASSUME PolicyTypeOK, PolicyTypeOK', PolicyInv, [PolicyNext]_policyVars PROVE PolicyInv'
<1> USE PolicyAssumption DEF PolicyTypeOK
\* A lookup that goes on with what it has, or with what it may have.
<1>k. ASSUME UNCHANGED <<daily_limit, policyGeneration, entry>>,
             \A d \in PolicyCalls :
               /\ lookup'[d].seen = lookup[d].seen /\ lookup'[d].generation = lookup[d].generation
               /\ lookup'[d].pc \in Looking => lookup[d].pc \in Looking
               /\ lookup'[d].pc = "store" => lookup[d].pc = "store" /\ lookup'[d].value = lookup[d].value
               /\ lookup'[d].pc = "returned" => lookup'[d].value \in lookup[d].seen
      PROVE  PolicyInv'
  <2>1. \A v, g : Rightly(v, g) => Rightly(v, g)'
    BY <1>k DEF Rightly
  <2> QED
    BY <1>k, <2>1 DEF PolicyInv
<1>h. ASSUME NEW c \in PolicyCalls, lookup[c].pc \in Looking, Hit(c, "returned"),
             UNCHANGED <<daily_limit, policyGeneration, entry>>
      PROVE  PolicyInv'
  <2>1. ProcessOf[c] \in Processes /\ Entry(c).value \in lookup[c].seen
    BY <1>h DEF Entry, Hit, PolicyInv, Rightly
  <2>2. lookup' = [lookup EXCEPT ![c] = [lookup[c] EXCEPT !.pc = "returned", !.value = Entry(c).value]]
    BY <1>h DEF Hit
  <2>3. /\ \A d \in PolicyCalls : d # c => lookup'[d] = lookup[d]
        /\ lookup'[c] = [lookup[c] EXCEPT !.pc = "returned", !.value = Entry(c).value]
    BY <2>2
  <2>4. /\ lookup'[c].seen = lookup[c].seen /\ lookup'[c].generation = lookup[c].generation
        /\ lookup'[c].pc = "returned" /\ lookup'[c].value = Entry(c).value
    BY <2>3
  <2> QED
    BY <1>h, <1>k, <2>1, <2>3, <2>4 DEF PolicyInv
<1>2. ASSUME NEW c \in PolicyCalls, CheckEntry(c) PROVE PolicyInv'
  <2>1. CASE Hit(c, "returned")
    BY <1>2, <1>h, <2>1 DEF CheckEntry, Looking
  <2>2. CASE lookup' = [lookup EXCEPT ![c].pc = "acquire"]
    BY <1>2, <1>k, <2>2 DEF CheckEntry, Looking, PolicyInv
  <2> QED
    BY <1>2, <2>1, <2>2 DEF CheckEntry
<1>3. ASSUME NEW c \in PolicyCalls, AcquireLock(c) PROVE PolicyInv'
  <2>1. CASE Hit(c, "returned")
    BY <1>3, <1>h, <2>1 DEF AcquireLock, Looking
  <2>2. CASE lookup' = [lookup EXCEPT ![c].pc = "read"]
    BY <1>3, <1>k, <2>2 DEF AcquireLock, Looking, PolicyInv
  <2> QED
    BY <1>3, <2>1, <2>2 DEF AcquireLock
<1>7. ASSUME NEW v \in Limits, SetLimit(v) PROVE PolicyInv'
  <2>1. /\ daily_limit' = v /\ policyGeneration' = policyGeneration + 1 /\ entry' = entry
        /\ \A d \in PolicyCalls : /\ lookup'[d].seen = lookup[d].seen \cup {v}
                                  /\ lookup'[d].generation = lookup[d].generation
                                  /\ lookup'[d].pc = lookup[d].pc
                                  /\ lookup'[d].value = lookup[d].value
    BY <1>7 DEF SetLimit
  <2>2. \A u, g : g \in Nat /\ Rightly(u, g) => Rightly(u, g)'
    BY <2>1 DEF Rightly
  <2>3. \A p \in Processes : entry[p].generation \in Nat
    OBVIOUS
  <2>4. \A c \in PolicyCalls : lookup[c].generation \in Nat
    OBVIOUS
  <2> QED
    BY <2>1, <2>2, <2>3, <2>4 DEF PolicyInv
<1> USE DEF PolicyInv, Rightly, Looking
<1>1. ASSUME NEW c \in PolicyCalls, ReadGeneration(c) PROVE PolicyInv'
  BY <1>1 DEF ReadGeneration
<1>4. ASSUME NEW c \in PolicyCalls, ReadRow(c) PROVE PolicyInv'
  BY <1>4 DEF ReadRow
<1>5. ASSUME NEW c \in PolicyCalls, StoreEntry(c) PROVE PolicyInv'
  BY <1>5 DEF StoreEntry
<1>6. ASSUME NEW c \in PolicyCalls, NextLookup(c) PROVE PolicyInv'
  BY <1>6 DEF NextLookup, IdleLookup
<1>8. CASE UNCHANGED policyVars
  BY <1>8 DEF policyVars
<1> QED
  BY <1>1, <1>2, <1>3, <1>4, <1>5, <1>6, <1>7, <1>8 DEF PolicyNext

\* However lookups, stores and changes of the policy interleave, in any number of
\* processes, get() returns a limit that was in force at some moment of the call.
THEOREM LimitsAreFresh == PolicySpec => []FreshLimit
<1>1. PolicyInit => PolicyTypeOK /\ PolicyInv
  BY PolicyAssumption
     DEF PolicyInit, PolicyTypeOK, PolicyInv, Rightly, Looking, IdleLookup
<1>2. PolicyTypeOK /\ PolicyInv /\ [PolicyNext]_policyVars => (PolicyTypeOK /\ PolicyInv)'
  BY PolicyTypeKept, PolicyInvKept
<1>3. PolicyInv => FreshLimit
  BY DEF PolicyInv, FreshLimit
<1> QED
  BY <1>1, <1>2, <1>3, PTL DEF PolicySpec

-----------------------------------------------------------------------------
(* The prompts *)

Served == {"active", "retired"}

Records == [id : Prompts, content : PromptTexts \cup {NoPrompt}] \cup {NoPrompt}

Requests ==
  [pc : {"idle", "lookup", "find", "regenerate", "store", "answered"},
   scope : StudentScopes \cup {SubjectScope}, generation : Nat, at : Nat,
   record : Records, seen : SUBSET Records]

\* A request under way asks for a student's scope, with a generation.
Placed(q) == q.pc # "idle" => q.generation \in Generations /\ q.scope \in StudentScopes

PromptTypeOK ==
  /\ promptStatus \in [Prompts -> {"none", "draft"} \cup Served]
  /\ content \in [Prompts -> PromptTexts \cup {NoPrompt}]
  /\ promptGeneration \in Generations
  /\ promptCache \in [Generations -> [StudentScopes -> Records]]
  /\ reader \in [Readers -> Requests]
  /\ \A r \in Readers : Placed(reader[r])

\* A record of a prompt that has been activated, with the text of its row.
Stored(x) == x = NoPrompt \/ \E p \in Prompts : promptStatus[p] \in Served /\ x = PromptRecord(p)

ServedInv ==
  /\ \A g \in Generations, s \in StudentScopes : Stored(promptCache[g][s])
  /\ \A r \in Readers : Stored(reader[r].record)

PromptInv == PromptTypeOK /\ ServedInv /\ OneActivePerScope

\* What find_active returns is a record of an active row.
LEMMA FoundIsStored ==
  ASSUME PromptTypeOK, NEW s PROVE FindActive(s) \in Records /\ Stored(FindActive(s))
<1>1. CASE ActiveIn(s) = {}
  BY <1>1 DEF FindActive, Records, Stored
<1>2. CASE ActiveIn(s) # {}
  <2>1. PICK p \in ActiveIn(s) : FindActive(s) = PromptRecord(p)
    BY <1>2 DEF FindActive
  <2> QED
    BY <2>1 DEF ActiveIn, PromptRecord, Records, Stored, Served, PromptTypeOK
<1> QED
  BY <1>1, <1>2

\* An edit changes drafts only, and an activated row never becomes a draft again:
\* every record that was right stays right.
LEMMA StoredStays ==
  ASSUME PromptTypeOK, [PromptNext]_promptVars, NEW x, Stored(x) PROVE Stored(x)'
<1>1. ASSUME NEW p \in Prompts, promptStatus[p] \in Served
      PROVE  promptStatus'[p] \in Served /\ content'[p] = content[p]
  <2> USE DEF PromptTypeOK
  <2>1. ASSUME NEW q \in Prompts, NEW t \in PromptTexts, CreateDraft(q, t)
        PROVE  promptStatus'[p] \in Served /\ content'[p] = content[p]
    BY <1>1, <2>1 DEF CreateDraft, Served
  <2>2. ASSUME NEW a \in Admins, NEW t \in PromptTexts, UpdateDraft(a, t)
        PROVE  promptStatus'[p] \in Served /\ content'[p] = content[p]
    BY <1>1, <2>2 DEF UpdateDraft, Served
  <2>3. ASSUME NEW a \in Admins, CommitActivation(a)
        PROVE  promptStatus'[p] \in Served /\ content'[p] = content[p]
    BY <1>1, <2>3 DEF CommitActivation, StatusAfter, Served
  <2>4. ASSUME UNCHANGED <<promptStatus, content>>
        PROVE  promptStatus'[p] \in Served /\ content'[p] = content[p]
    BY <1>1, <2>4
  <2> QED
    BY <2>1, <2>2, <2>3, <2>4
       DEF PromptNext, CheckPrompt, LockTarget, FindCurrent, LockCurrent, AskPrompt, LookupPrompt,
           FindPrompt, Regenerate, StorePrompt, NextRequest, promptVars
<1> QED
  BY <1>1 DEF Stored, PromptRecord

\* What a step makes of a request is a request.
LEMMA RequestSteps ==
  ASSUME NEW q \in Requests, NEW found \in Records, NEW seen \in SUBSET Records
  PROVE  /\ [q EXCEPT !.seen = @ \cup seen] \in Requests
         /\ Placed(q) => Placed([q EXCEPT !.seen = @ \cup seen])
         /\ Placed(q) /\ q.pc # "idle" =>
              \A p \in {[q EXCEPT !.pc = "find", !.at = 1], [q EXCEPT !.at = @ + 1],
                       [q EXCEPT !.pc = "answered"], [q EXCEPT !.pc = "answered", !.record = found],
                       [q EXCEPT !.pc = "regenerate", !.record = found]} :
                p \in Requests /\ Placed(p)
         /\ \A g \in Generations : Placed(q) /\ q.pc # "idle" =>
              LET p == [q EXCEPT !.pc = "store", !.generation = g] IN p \in Requests /\ Placed(p)
         /\ \A g \in Generations, s \in StudentScopes :
              LET p == [IdleReader EXCEPT !.pc = "lookup", !.scope = s, !.generation = g, !.seen = seen]
              IN  p \in Requests /\ Placed(p)
<1>1. \A g \in Generations : g \in Nat
  BY PromptAssumption DEF Generations
<1>2. NoPrompt \in Records
  BY DEF Records
<1> USE DEF Requests, Placed
<1>3. [q EXCEPT !.seen = @ \cup seen] \in Requests
  OBVIOUS
<1>4. Placed(q) => Placed([q EXCEPT !.seen = @ \cup seen])
  OBVIOUS
<1>5. ASSUME Placed(q), q.pc # "idle"
      PROVE  /\ [q EXCEPT !.pc = "find", !.at = 1] \in Requests
             /\ Placed([q EXCEPT !.pc = "find", !.at = 1])
  BY <1>5
<1>6. ASSUME Placed(q), q.pc # "idle"
      PROVE  [q EXCEPT !.at = @ + 1] \in Requests /\ Placed([q EXCEPT !.at = @ + 1])
  BY <1>6
<1>7. ASSUME Placed(q), q.pc # "idle"
      PROVE  [q EXCEPT !.pc = "answered"] \in Requests /\ Placed([q EXCEPT !.pc = "answered"])
  BY <1>7
<1>8. ASSUME Placed(q), q.pc # "idle", NEW pc \in {"answered", "regenerate"}
      PROVE  /\ [q EXCEPT !.pc = pc, !.record = found] \in Requests
             /\ Placed([q EXCEPT !.pc = pc, !.record = found])
  BY <1>8
<1>9. ASSUME NEW g \in Generations, Placed(q), q.pc # "idle"
      PROVE  /\ [q EXCEPT !.pc = "store", !.generation = g] \in Requests
             /\ Placed([q EXCEPT !.pc = "store", !.generation = g])
  BY <1>1, <1>9
<1>10. ASSUME NEW g \in Generations, NEW s \in StudentScopes
       PROVE  LET p == [IdleReader EXCEPT !.pc = "lookup", !.scope = s, !.generation = g, !.seen = seen]
              IN  p \in Requests /\ Placed(p)
  BY <1>1, <1>2 DEF IdleReader
<1> HIDE DEF Requests, Placed
<1> QED
  BY <1>3, <1>4, <1>5, <1>6, <1>7, <1>8, <1>9, <1>10

\* Every step keeps the prompts' variables in their domains; a request that is
\* being answered has a generation and a student's scope.
LEMMA PromptTypeKept == ASSUME PromptTypeOK, [PromptNext]_promptVars PROVE PromptTypeOK'
<1> USE PromptAssumption DEF PromptTypeOK, Served, Generations
<1>i. \A r \in Readers : reader[r] \in Requests /\ Placed(reader[r])
  OBVIOUS
<1>n. NoPrompt \in Records /\ IdleReader \in Requests /\ Placed(IdleReader)
  BY DEF Records, Requests, Placed, IdleReader
<1>1. ASSUME NEW p \in Prompts, NEW t \in PromptTexts, CreateDraft(p, t) PROVE PromptTypeOK'
  BY <1>1 DEF CreateDraft
<1>2. ASSUME NEW a \in Admins, NEW t \in PromptTexts, UpdateDraft(a, t) PROVE PromptTypeOK'
  BY <1>2 DEF UpdateDraft
<1>3. ASSUME NEW a \in Admins, CommitActivation(a) PROVE PromptTypeOK'
  <2>1. StatusAfter(a) \in [Prompts -> {"none", "draft"} \cup Served]
    BY DEF StatusAfter
  <2>2. /\ promptStatus' \in [Prompts -> {"none", "draft"} \cup Served]
        /\ promptGeneration' \in Generations /\ UNCHANGED <<content, promptCache>>
    BY <1>3, <2>1 DEF CommitActivation
  <2>3. \A s : FindActive(s)' \in Records
    <3>1. \A s : FindActive(s)' # NoPrompt => \E p \in Prompts : FindActive(s)' = PromptRecord(p)'
      BY DEF FindActive, ActiveIn
    <3> QED
      BY <2>2, <3>1 DEF PromptRecord, Records
  <2>4. CASE UNCHANGED reader
    BY <2>2, <2>4
  <2>5. CASE reader' = [r \in Readers |-> [reader[r] EXCEPT !.seen = @ \cup ActiveOf'[reader[r].scope]]]
    <3>1. \A s \in StudentScopes \cup {SubjectScope} : ActiveOf'[s] \in SUBSET Records
      BY <2>3 DEF ActiveOf
    <3>2. \A r \in Readers : reader[r] \in Requests /\ ActiveOf'[reader[r].scope] \in SUBSET Records
      BY <3>1 DEF Requests
    <3>3. ASSUME NEW r \in Readers PROVE reader'[r] \in Requests /\ Placed(reader'[r])
      <4> DEFINE seen == ActiveOf'[reader[r].scope]
      <4>1. reader'[r] = [reader[r] EXCEPT !.seen = @ \cup seen]
        BY <2>5
      <4>2. reader[r] \in Requests /\ Placed(reader[r]) /\ seen \in SUBSET Records
        BY <3>2, <1>i
      <4> HIDE DEF seen, PromptTypeOK
      <4>3. \A q \in Requests : /\ [q EXCEPT !.seen = @ \cup seen] \in Requests
                                /\ Placed(q) => Placed([q EXCEPT !.seen = @ \cup seen])
        BY <1>n, <4>2, RequestSteps
      <4> QED
        BY <4>1, <4>2, <4>3
    <3> QED
      BY <2>2, <2>5, <3>3
  <2> QED
    BY <1>3, <2>4, <2>5 DEF CommitActivation
\* A step of one request.
<1>r. ASSUME NEW r \in Readers, NEW q \in Requests, Placed(q), reader' = [reader EXCEPT ![r] = q],
             UNCHANGED <<promptStatus, content, promptGeneration>>,
             promptCache' \in [Generations -> [StudentScopes -> Records]]
      PROVE  PromptTypeOK'
  BY <1>r DEF Placed
<1>4. ASSUME NEW r \in Readers, NEW s \in StudentScopes, AskPrompt(r, s) PROVE PromptTypeOK'
  <2>1. ActiveOf[s] \in SUBSET Records
    BY FoundIsStored DEF ActiveOf
  <2> DEFINE q == [IdleReader EXCEPT !.pc = "lookup", !.scope = s, !.generation = promptGeneration,
                                     !.seen = ActiveOf[s]]
  <2>2. q \in Requests /\ Placed(q)
    BY <1>n, <2>1, RequestSteps
  <2> QED
    BY <1>4, <1>r, <2>2 DEF AskPrompt
<1>5. ASSUME NEW r \in Readers, LookupPrompt(r) PROVE PromptTypeOK'
  <2> DEFINE found == promptCache[reader[r].generation][reader[r].scope]
             q1 == [reader[r] EXCEPT !.pc = "find", !.at = 1]
             q2 == [reader[r] EXCEPT !.pc = "answered", !.record = found]
  <2>1. found \in Records
    BY <1>5 DEF LookupPrompt, Placed
  <2>2. q1 \in Requests /\ Placed(q1) /\ q2 \in Requests /\ Placed(q2)
    <3> HIDE DEF found
    <3> QED
      BY <1>5, <1>i, <2>1, RequestSteps DEF LookupPrompt
  <2>3. reader' = [reader EXCEPT ![r] = q1] \/ reader' = [reader EXCEPT ![r] = q2]
    BY <1>5 DEF LookupPrompt
  <2> HIDE DEF q1, q2
  <2> QED
    BY <1>5, <1>r, <2>2, <2>3 DEF LookupPrompt
<1>6. ASSUME NEW r \in Readers, FindPrompt(r) PROVE PromptTypeOK'
  <2> DEFINE found == FindActive(Chain(reader[r].scope)[reader[r].at])
             q1 == [reader[r] EXCEPT !.pc = "regenerate", !.record = found]
             q2 == [reader[r] EXCEPT !.at = @ + 1]
  <2>1. found \in Records
    BY FoundIsStored
  <2>2. q1 \in Requests /\ Placed(q1) /\ q2 \in Requests /\ Placed(q2)
    <3> HIDE DEF found
    <3> QED
      BY <1>6, <1>i, <2>1, RequestSteps DEF FindPrompt
  <2>3. \/ reader' = [reader EXCEPT ![r] = q1] \/ reader' = [reader EXCEPT ![r] = q2]
        \/ reader' = [reader EXCEPT ![r] = IdleReader]
    BY <1>6 DEF FindPrompt
  <2> HIDE DEF q1, q2
  <2> QED
    BY <1>6, <1>n, <1>r, <2>2, <2>3 DEF FindPrompt
<1>7. ASSUME NEW r \in Readers, Regenerate(r) \/ NextRequest(r) PROVE PromptTypeOK'
  <2> DEFINE q == [reader[r] EXCEPT !.pc = "store", !.generation = promptGeneration]
  <2>1. Regenerate(r) => q \in Requests /\ Placed(q)
    BY <1>i, <1>n, RequestSteps DEF Regenerate
  <2>2. \/ Regenerate(r) /\ reader' = [reader EXCEPT ![r] = q]
        \/ reader' = [reader EXCEPT ![r] = IdleReader]
    BY <1>7 DEF Regenerate, NextRequest
  <2> HIDE DEF q
  <2> QED
    BY <1>7, <1>n, <1>r, <2>1, <2>2 DEF Regenerate, NextRequest
<1>8. ASSUME NEW r \in Readers, StorePrompt(r) PROVE PromptTypeOK'
  <2> DEFINE q == [reader[r] EXCEPT !.pc = "answered"]
  <2>1. q \in Requests /\ Placed(q)
    BY <1>8, <1>i, <1>n, RequestSteps DEF StorePrompt
  <2>a. /\ reader[r].record \in Records
        /\ reader[r].generation \in Generations /\ reader[r].scope \in StudentScopes
    BY <1>8, <1>i DEF Requests, Placed, StorePrompt
  <2>2. promptCache' \in [Generations -> [StudentScopes -> Records]]
    <3> DEFINE x == reader[r].record
               g == reader[r].generation
               s == reader[r].scope
    <3>1. CASE promptCache' = [promptCache EXCEPT ![g] = [promptCache[g] EXCEPT ![s] = x]]
      <4> HIDE DEF x, g, s
      <4>1. [promptCache[g] EXCEPT ![s] = x] \in [StudentScopes -> Records]
        BY <2>a DEF x, g
      <4> QED
        BY <3>1, <4>1
    <3>2. CASE UNCHANGED promptCache
      BY <3>2
    <3> QED
      BY <1>8, <3>1, <3>2 DEF StorePrompt
  <2>3. reader' = [reader EXCEPT ![r] = q]
    BY <1>8 DEF StorePrompt
  <2> HIDE DEF q
  <2> QED
    BY <1>8, <1>r, <2>1, <2>2, <2>3 DEF StorePrompt
<1>9. ASSUME UNCHANGED <<promptStatus, content, promptGeneration, promptCache, reader>>
      PROVE  PromptTypeOK'
  BY <1>9
<1> QED
  BY <1>1, <1>2, <1>3, <1>4, <1>5, <1>6, <1>7, <1>8, <1>9
     DEF PromptNext, CheckPrompt, LockTarget, FindCurrent, LockCurrent, promptVars

\* What is cached and what is answered with comes from a row that was active.
LEMMA ServedInvKept ==
  ASSUME PromptTypeOK, ServedInv, [PromptNext]_promptVars PROVE ServedInv'
<1>1. \A x : Stored(x) => Stored(x)'
  BY StoredStays
<1>2. Stored(NoPrompt)'
  BY DEF Stored
<1>k. ASSUME \A g \in Generations, s \in StudentScopes : promptCache'[g][s] = promptCache[g][s],
             \A r \in Readers : reader'[r].record = reader[r].record \/ Stored(reader[r].record)'
      PROVE  ServedInv'
  BY <1>1, <1>k DEF ServedInv
<1> USE DEF PromptTypeOK
<1>3. ASSUME NEW a \in Admins, CommitActivation(a) PROVE ServedInv'
  <2>1. \A r \in Readers : reader'[r].record = reader[r].record
    BY <1>3 DEF CommitActivation, Requests
  <2> QED
    BY <1>3, <1>k, <2>1 DEF CommitActivation
<1>4. ASSUME NEW r \in Readers,
             (\E s \in StudentScopes : AskPrompt(r, s)) \/ NextRequest(r)
      PROVE  ServedInv'
  <2>1. \A q \in Readers : q # r => reader'[q] = reader[q]
    BY <1>4 DEF AskPrompt, NextRequest
  <2>2. reader'[r].record = NoPrompt
    <3>1. CASE NextRequest(r)
      BY <3>1 DEF NextRequest, IdleReader
    <3>2. ASSUME NEW s \in StudentScopes, AskPrompt(r, s) PROVE reader'[r].record = NoPrompt
      <4> DEFINE seen == ActiveOf[s]
      <4>1. reader'[r] = [IdleReader EXCEPT !.pc = "lookup", !.scope = s,
                                            !.generation = promptGeneration, !.seen = seen]
        BY <3>2 DEF AskPrompt
      <4> HIDE DEF seen
      <4> QED
        BY <4>1 DEF IdleReader
    <3> QED
      BY <1>4, <3>1, <3>2
  <2> QED
    BY <1>2, <1>4, <1>k, <2>1, <2>2 DEF AskPrompt, NextRequest
<1>5. ASSUME NEW r \in Readers, LookupPrompt(r) PROVE ServedInv'
  <2> DEFINE found == promptCache[reader[r].generation][reader[r].scope]
  <2>1. Stored(found)
    BY <1>5 DEF ServedInv, LookupPrompt, Placed
  <2>2. \A q \in Readers : q # r => reader'[q] = reader[q]
    BY <1>5 DEF LookupPrompt
  <2>3. reader'[r].record \in {reader[r].record, found}
    BY <1>5 DEF LookupPrompt, Requests
  <2> HIDE DEF found
  <2> QED
    BY <1>1, <1>5, <1>k, <2>1, <2>2, <2>3 DEF LookupPrompt
<1>6. ASSUME NEW r \in Readers, FindPrompt(r) PROVE ServedInv'
  <2> DEFINE found == FindActive(Chain(reader[r].scope)[reader[r].at])
  <2>1. Stored(found)
    BY FoundIsStored
  <2>2. \A q \in Readers : q # r => reader'[q] = reader[q]
    BY <1>6 DEF FindPrompt
  <2>3. reader'[r].record \in {reader[r].record, found, NoPrompt}
    <3> HIDE DEF found
    <3>1. reader[r] \in Requests
      OBVIOUS
    <3>2. \/ reader' = [reader EXCEPT ![r] = [reader[r] EXCEPT !.pc = "regenerate", !.record = found]]
          \/ reader' = [reader EXCEPT ![r] = [reader[r] EXCEPT !.at = @ + 1]]
          \/ reader' = [reader EXCEPT ![r] = IdleReader]
      BY <1>6 DEF FindPrompt, found
    <3>3. CASE reader'[r] = [reader[r] EXCEPT !.pc = "regenerate", !.record = found]
      BY <3>1, <3>3 DEF Requests
    <3>4. CASE reader'[r] = [reader[r] EXCEPT !.at = @ + 1]
      BY <3>1, <3>4 DEF Requests
    <3>5. CASE reader'[r] = IdleReader
      BY <3>5 DEF IdleReader
    <3> QED
      BY <3>2, <3>3, <3>4, <3>5
  <2> HIDE DEF found
  <2> QED
    BY <1>1, <1>2, <1>6, <1>k, <2>1, <2>2, <2>3 DEF FindPrompt
<1>7. ASSUME NEW r \in Readers, Regenerate(r) PROVE ServedInv'
  <2>1. \A q \in Readers : reader'[q].record = reader[q].record
    BY <1>7 DEF Regenerate, Requests
  <2> QED
    BY <1>7, <1>k, <2>1 DEF Regenerate
<1>8. ASSUME NEW r \in Readers, StorePrompt(r) PROVE ServedInv'
  <2>1. \A q \in Readers : reader'[q].record = reader[q].record
    BY <1>8 DEF StorePrompt, Requests
  <2>2. Stored(reader[r].record)
    BY DEF ServedInv
  <2>3. \A g \in Generations, s \in StudentScopes :
          promptCache'[g][s] \in {promptCache[g][s], reader[r].record}
    <3>1. CASE UNCHANGED promptCache
      BY <3>1
    <3>2. CASE promptCache' = [promptCache EXCEPT
                 ![reader[r].generation] =
                   [promptCache[reader[r].generation] EXCEPT ![reader[r].scope] = reader[r].record]]
      <4> DEFINE g0 == reader[r].generation
                 row == [promptCache[g0] EXCEPT ![reader[r].scope] = reader[r].record]
      <4>1. \A s \in StudentScopes : g0 \in Generations =>
              row[s] \in {promptCache[g0][s], reader[r].record}
        OBVIOUS
      <4> HIDE DEF row, g0
      <4>2. promptCache' = [promptCache EXCEPT ![g0] = row]
        BY <3>2 DEF row, g0
      <4> QED
        BY <4>1, <4>2
    <3> QED
      BY <1>8, <3>1, <3>2 DEF StorePrompt
  <2> QED
    BY <1>1, <2>1, <2>2, <2>3 DEF ServedInv
<1>9. ASSUME UNCHANGED <<promptCache, reader>> PROVE ServedInv'
  BY <1>9, <1>k
<1> QED
  BY <1>3, <1>4, <1>5, <1>6, <1>7, <1>8, <1>9
     DEF PromptNext, CreateDraft, UpdateDraft, CheckPrompt, LockTarget, FindCurrent, LockCurrent, promptVars

\* However activations overlap, the commit leaves one active prompt in its scope.
LEMMA OneActiveKept ==
  ASSUME PromptTypeOK, OneActivePerScope, [PromptNext]_promptVars PROVE OneActivePerScope'
<1> USE DEF OneActivePerScope, PromptTypeOK
<1>1. ASSUME NEW p \in Prompts, NEW t \in PromptTexts, CreateDraft(p, t) PROVE OneActivePerScope'
  BY <1>1 DEF CreateDraft
<1>2. ASSUME NEW a \in Admins, CommitActivation(a) PROVE OneActivePerScope'
  <2>1. CASE NoIndexConflict(a)
    <3>1. \A p \in Prompts : promptStatus'[p] = "active" /\ p # admin[a].target =>
            promptStatus[p] = "active" /\ p # admin[a].current
      <4>1. promptStatus' = StatusAfter(a)
        BY <1>2, <2>1 DEF CommitActivation
      <4> QED
        BY <4>1 DEF StatusAfter
    <3>2. \A p \in Prompts : promptStatus'[p] = "active" /\ p # admin[a].target =>
            ScopeOf[p] # ScopeOf[admin[a].target]
      BY <2>1, <3>1 DEF NoIndexConflict, ActiveIn
    <3> QED
      BY <3>1, <3>2
  <2>2. CASE ~NoIndexConflict(a)
    BY <1>2, <2>2 DEF CommitActivation
  <2> QED
    BY <2>1, <2>2
<1>3. CASE UNCHANGED promptStatus
  BY <1>3
<1> QED
  BY <1>1, <1>2, <1>3
     DEF PromptNext, UpdateDraft, CheckPrompt, LockTarget, FindCurrent, LockCurrent, AskPrompt,
         LookupPrompt, FindPrompt, Regenerate, StorePrompt, NextRequest, promptVars

\* Every reachable state satisfies the inductive invariant of the prompts.
LEMMA PromptInvHolds == PromptSpec => []PromptInv
<1>1. PromptInit => PromptInv
  BY PromptAssumption
     DEF PromptInit, PromptInv, PromptTypeOK, ServedInv, OneActivePerScope, Stored, Records, Requests,
         Placed, Generations, IdleReader
<1>2. PromptInv /\ [PromptNext]_promptVars => PromptInv'
  BY PromptTypeKept, ServedInvKept, OneActiveKept DEF PromptInv
<1> QED
  BY <1>1, <1>2, PTL DEF PromptSpec

\* Two prompts of one scope are never active at once, for any number of
\* administrators who activate and roll back concurrently.
THEOREM ActiveIsUnique == PromptSpec => []OneActivePerScope
<1>1. PromptInv => OneActivePerScope
  BY DEF PromptInv
<1> QED
  BY <1>1, PromptInvHolds, PTL

\* Every cached record and every answer carries the text of a row that has been
\* activated: an edit that overlaps the activation cannot change it afterwards.
THEOREM ServedTextsAreStored == PromptSpec => []ServedTextIsStored
<1>1. PromptInv => ServedTextIsStored
  <2>1. ASSUME PromptTypeOK, NEW x, Stored(x), x # NoPrompt
        PROVE  promptStatus[x.id] \in {"active", "retired"} /\ x.content = content[x.id]
    BY <2>1 DEF Stored, Served, PromptRecord
  <2> QED
    BY <2>1 DEF PromptInv, ServedInv, ServedTextIsStored
<1> QED
  BY <1>1, PromptInvHolds, PTL
=============================================================================
