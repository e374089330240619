\* Fair workers of both modes; leases may lapse, and one of the two local-admin
\* workers may be killed or shut down.
SPECIFICATION FairQueueSpec
CONSTANTS
  j1 = j1
  j2 = j2
  j3 = j3
  w1 = w1
  w2 = w2
  w3 = w3
  u1 = u1
  u2 = u2
  None = None
  Parts = {"queue"}
  Jobs = {j1, j2}
  Workers = {w1, w2, w3}
  JobType <- MixedTypes
  Mode <- MixedModes
  NextJobs <- MixedNext
  MaxAttempts = 2
  HeartbeatLoss = TRUE
  MayCrash = {w1}
  MayShutDown = {w1}
  Uploads = {u1}
  Cleaners = {w1}
  StorageMayFail = FALSE
  MayStop = FALSE
INVARIANTS LeaseHasHolder AttemptsBounded
PROPERTIES JobsSettle FailureReported
CHECK_DEADLOCK FALSE
