\* Answers that overlap, fail and die; three items, one multiple choice.
SPECIFICATION Spec
CONSTANTS
  Tasks = {t1, t2}
  None = None
  NItems = 3
  Mcq = {1}
  BatchSize = 1
  MaxAttempts = 2
  Outlives = FALSE
  Faulty = {"answer"}
  Overlap = TRUE
  MayCrash = {t1, t2}
SYMMETRY TaskSymmetry
INVARIANTS OutcomeMatchesItems AnsweringHasJob
PROPERTIES ItemsAreFinal KeepsDelivery
CHECK_DEADLOCK FALSE
