\* Workers that crash at any point but otherwise keep their leases; two uploads and
\* two workers that clean up, with a storage that fails and passes that end early.
SPECIFICATION WorkersSpec
CONSTANTS
  j1 = j1
  j2 = j2
  j3 = j3
  w1 = w1
  w2 = w2
  w3 = w3
  u1 = u1
  u2 = u2
  None = None
  Parts = {"queue", "retention"}
  Jobs = {j1, j2, j3}
  Workers = {w1, w2, w3}
  JobType <- ChainTypes
  Mode <- AdminModes
  NextJobs <- ChainNext
  MaxAttempts = 2
  HeartbeatLoss = FALSE
  MayCrash = {w1, w2, w3}
  MayShutDown = {}
  Uploads = {u1, u2}
  Cleaners = {w1, w2}
  StorageMayFail = TRUE
  MayStop = TRUE
SYMMETRY WorkersSymmetry
INVARIANTS AttemptsWithinMax NoDualExecution SuccessorAfterSuccess NothingForgotten
PROPERTIES SucceededIsFinal KeepsPromise SourceKeptForItsDay
CHECK_DEADLOCK FALSE
