----------------------------- MODULE PolicyCache ----------------------------
(***************************************************************************)
(* One usage policy (feature and account tier): its row in PostgreSQL, the *)
(* administrators who change it through the runtime settings, and the      *)
(* cache every service process keeps of it (app/services/usage/limits.py,  *)
(* app/services/runtime_settings.py).                                      *)
(*                                                                         *)
(* Coroutines of one process share its entry and its asyncio lock and      *)
(* interleave at every await.  A setting's transaction takes effect at its *)
(* commit.                                                                 *)
(***************************************************************************)
EXTENDS Naturals

CONSTANTS
  Processes,
  PolicyCalls,   \* calls of UsagePolicyCache.get
  ProcessOf,     \* the process each call runs in
  Limits,        \* daily limits the registry's bounds admit
  SeededLimit,   \* the one of the migration
  NoCall,
  MaxPolicyGeneration  \* bound: changes of the policy

ASSUME PolicyAssumption ==
  /\ ProcessOf \in [PolicyCalls -> Processes]
  /\ SeededLimit \in Limits
  /\ NoCall \notin PolicyCalls
  /\ MaxPolicyGeneration \in Nat \ {0}

VARIABLES
  daily_limit,      \* usage_policies.daily_limit
  policyGeneration, \* cache_generations of the policy
  entry,            \* per process: the cached value and its generation, 0 before any
  lockHolder,       \* per process: the call that holds the lock, or NoCall
  lookup            \* what each call of get() is doing

policyVars == <<daily_limit, policyGeneration, entry, lockHolder, lookup>>

IdleLookup(v) == [pc |-> "idle", generation |-> 0, value |-> v, seen |-> {}]

PolicyInit ==
  /\ daily_limit = SeededLimit
  /\ policyGeneration = 1
  /\ entry = [p \in Processes |-> [value |-> SeededLimit, generation |-> 0]]
  /\ lockHolder = [p \in Processes |-> NoCall]
  /\ lookup = [c \in PolicyCalls |-> IdleLookup(SeededLimit)]

-----------------------------------------------------------------------------
(* UsagePolicyCache.get *)

Entry(c) == entry[ProcessOf[c]]

ReadGeneration(c) ==
  /\ lookup[c].pc = "idle"
  /\ lookup' = [lookup EXCEPT ![c] =
       [@ EXCEPT !.pc = "check", !.generation = policyGeneration, !.seen = {daily_limit}]]
  /\ UNCHANGED <<daily_limit, policyGeneration, entry, lockHolder>>

\* A live entry of the generation that was read; it may always have expired.
Hit(c, next) ==
  /\ Entry(c).generation = lookup[c].generation
  /\ lookup' = [lookup EXCEPT ![c].pc = next, ![c].value = Entry(c).value]

CheckEntry(c) ==
  /\ lookup[c].pc = "check"
  /\ Hit(c, "returned") \/ lookup' = [lookup EXCEPT ![c].pc = "acquire"]
  /\ UNCHANGED <<daily_limit, policyGeneration, entry, lockHolder>>

\* Under the lock the entry is looked at once more, for the same generation.
AcquireLock(c) ==
  LET p == ProcessOf[c]
  IN  /\ lookup[c].pc = "acquire"
      /\ lockHolder[p] = NoCall
      /\ \/ Hit(c, "returned") /\ UNCHANGED lockHolder
         \/ /\ lookup' = [lookup EXCEPT ![c].pc = "read"]
            /\ lockHolder' = [lockHolder EXCEPT ![p] = c]
      /\ UNCHANGED <<daily_limit, policyGeneration, entry>>

ReadRow(c) ==
  /\ lookup[c].pc = "read"
  /\ lookup' = [lookup EXCEPT ![c].pc = "store", ![c].value = daily_limit]
  /\ UNCHANGED <<daily_limit, policyGeneration, entry, lockHolder>>

\* Mutant: the entry is filed under the generation of the moment it is stored.
StoreEntryUnderNewest(c) ==
  LET p == ProcessOf[c]
  IN  /\ lookup[c].pc = "store"
      /\ entry' = [entry EXCEPT ![p] = [value |-> lookup[c].value, generation |-> policyGeneration]]
      /\ lockHolder' = [lockHolder EXCEPT ![p] = NoCall]
      /\ lookup' = [lookup EXCEPT ![c].pc = "returned"]
      /\ UNCHANGED <<daily_limit, policyGeneration>>

\* The entry keeps the generation that was read before the row.
StoreEntry(c) ==
  LET p == ProcessOf[c]
  IN  /\ lookup[c].pc = "store"
      /\ entry' = [entry EXCEPT ![p] = [value |-> lookup[c].value, generation |-> lookup[c].generation]]
      /\ lockHolder' = [lockHolder EXCEPT ![p] = NoCall]
      /\ lookup' = [lookup EXCEPT ![c].pc = "returned"]
      /\ UNCHANGED <<daily_limit, policyGeneration>>

NextLookup(c) ==
  /\ lookup[c].pc = "returned"
  /\ lookup' = [lookup EXCEPT ![c] = IdleLookup(@.value)]
  /\ UNCHANGED <<daily_limit, policyGeneration, entry, lockHolder>>

-----------------------------------------------------------------------------
(* RuntimeSettingsService.set *)

\* The row and its new generation are one transaction; its audit rows are left out.
SetLimit(v) ==
  /\ policyGeneration < MaxPolicyGeneration
  /\ daily_limit' = v
  /\ policyGeneration' = policyGeneration + 1
  /\ lookup' = [c \in PolicyCalls |-> [lookup[c] EXCEPT !.seen = @ \cup {v}]]
  /\ UNCHANGED <<entry, lockHolder>>

-----------------------------------------------------------------------------
PolicyNext ==
  \/ \E c \in PolicyCalls :
       \/ ReadGeneration(c) \/ CheckEntry(c) \/ AcquireLock(c)
       \/ ReadRow(c) \/ StoreEntry(c) \/ NextLookup(c)
  \/ \E v \in Limits : SetLimit(v)

PolicySpec == PolicyInit /\ [][PolicyNext]_policyVars

-----------------------------------------------------------------------------
(* Properties *)

\* A changed limit counts from the next reservation on, in every process: what
\* get() returns was the stored limit at some moment since the call began, although
\* the generation, the entry and the row are read one after the other and other
\* calls replace the entry meanwhile.
FreshLimit ==
  \A c \in PolicyCalls : lookup[c].pc = "returned" => lookup[c].value \in lookup[c].seen
=============================================================================
