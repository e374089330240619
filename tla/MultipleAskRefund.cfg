\* A validation that dies after it scheduled the extraction.
SPECIFICATION Spec
CONSTANTS
  Tasks = {t1, t2}
  None = None
  NItems = 1
  Mcq = {}
  BatchSize = 1
  MaxAttempts = 2
  Outlives = FALSE
  Faulty = {"validate"}
  Overlap = FALSE
  MayCrash = {t1}
INVARIANTS RefundedIsOver
CHECK_DEADLOCK FALSE
