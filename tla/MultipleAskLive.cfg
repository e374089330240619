\* Fair tasks that may fail at every step; one multiple choice item.
SPECIFICATION FairSpec
CONSTANTS
  Tasks = {t1, t2}
  None = None
  NItems = 1
  Mcq = {1}
  BatchSize = 1
  MaxAttempts = 2
  Outlives = FALSE
  Faulty = {"validate", "extract", "answer"}
  Overlap = FALSE
  MayCrash = {}
PROPERTIES BatchSettles
CHECK_DEADLOCK FALSE
