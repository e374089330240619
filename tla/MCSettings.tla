----------------------------- MODULE MCSettings -----------------------------
(* Small instances of the parts that administrators steer: the daily quota,  *)
(* the cached policy behind it, and the prompts.  They share no variable, so *)
(* that a run takes one part at a time instead of all their combinations;    *)
(* the same few values name the actors and the rows of each.                 *)
EXTENDS UsageQuota, PolicyCache, PromptVersions, TLC

CONSTANTS x, y, z, r1, r2, r3, r4, s1, s2, Parts

VARIABLE part \* the part that takes the steps of this behaviour

\* Three prompts of a board's class and subject, one of the whole subject.
MCScopeOf == (r1 :> "own") @@ (r2 :> "own") @@ (r3 :> "own") @@ (r4 :> SubjectScope)

\* Two calls in one process and one in another.
MCProcessOf == (x :> s1) @@ (y :> s1) @@ (z :> s2)

SettingsInit == part \in Parts /\ Init /\ PolicyInit /\ PromptInit

SettingsNext ==
  /\ UNCHANGED part
  /\ \/ part = "quota" /\ Next /\ UNCHANGED <<policyVars, promptVars>>
     \/ part = "policy" /\ PolicyNext /\ UNCHANGED <<vars, promptVars>>
     \/ part = "prompts" /\ PromptNext /\ UNCHANGED <<vars, policyVars>>

SettingsSpec == SettingsInit /\ [][SettingsNext]_<<part, vars, policyVars, promptVars>>

\* Two actors and three rows may change places.
SettingsSymmetry == Permutations({x, y}) \cup Permutations({r1, r2, r3})
=============================================================================
