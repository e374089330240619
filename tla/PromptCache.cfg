\* A student at the prompt cache while an administrator activates.
SPECIFICATION SettingsSpec
CONSTANTS
  Parts = {"prompts"}
  x = x
  y = y
  z = z
  r1 = r1
  r2 = r2
  r3 = r3
  r4 = r4
  s1 = s1
  s2 = s2
  Requests = {r1, r2, r3}
  Calls = {x, y}
  Limit = 1
  LastDay = 2
  Processes = {s1, s2}
  PolicyCalls = {x, y, z}
  ProcessOf <- MCProcessOf
  Limits = {1, 2}
  SeededLimit = 1
  NoCall = NoCall
  MaxPolicyGeneration = 3
  Prompts = {r1, r2, r3, r4}
  ScopeOf <- MCScopeOf
  StudentScopes = {"own"}
  SubjectScope = "subject"
  PromptTexts = {a, b}
  NoPrompt = NoPrompt
  Admins = {x, y}
  Readers = {z}
  MaxGeneration = 3
SYMMETRY SettingsSymmetry
CHECK_DEADLOCK FALSE
INVARIANTS ActivationAffectsNextRequest
