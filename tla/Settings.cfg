\* Three requests, two concurrent calls, a limit of one, across midnight; three
\* calls, two of one process; two administrators and a student at four prompts.
SPECIFICATION SettingsSpec
CONSTANTS
  Parts = {"quota", "policy", "prompts"}
  x = x
  y = y
  z = z
  r1 = r1
  r2 = r2
  r3 = r3
  r4 = r4
  s1 = s1
  s2 = s2
  Requests = {r1, r2, r3}
  Calls = {x, y}
  Limit = 1
  LastDay = 2
  Processes = {s1, s2}
  PolicyCalls = {x, y, z}
  ProcessOf <- MCProcessOf
  Limits = {1, 2}
  SeededLimit = 1
  NoCall = NoCall
  MaxPolicyGeneration = 3
  Prompts = {r1, r2, r3, r4}
  ScopeOf <- MCScopeOf
  StudentScopes = {"own"}
  SubjectScope = "subject"
  PromptTexts = {a, b}
  NoPrompt = NoPrompt
  Admins = {x, y}
  Readers = {z}
  MaxGeneration = 3
SYMMETRY SettingsSymmetry
CHECK_DEADLOCK FALSE
INVARIANTS
  TypeOK LedgerBalances WithinLimit RedisCountsKeys
  FreshLimit OneActivePerScope ServedTextIsStored
PROPERTIES ChargedOnce
