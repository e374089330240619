\* Validation and extraction that overlap, fail and die; one item.
SPECIFICATION Spec
CONSTANTS
  Tasks = {t1, t2}
  None = None
  NItems = 1
  Mcq = {}
  BatchSize = 1
  MaxAttempts = 2
  Outlives = TRUE
  Faulty = {"validate", "extract"}
  Overlap = TRUE
  MayCrash = {t1, t2}
SYMMETRY TaskSymmetry
INVARIANTS ChargedBeforeWork RefundRecorded AnswersStartOnce
CHECK_DEADLOCK FALSE
