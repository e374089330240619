\* A draft is taken of the active version while another one is activated.
SPECIFICATION ServingSpec
CONSTANTS
  Parts = {"locks"}
  x = x
  y = y
  z = z
  r1 = r1
  r2 = r2
  Calls = {x, y, z}
  None = None
  Interrupts = {x, y, z}
  CorpusVersions = {r1, r2}
  Citations = {1, 2, 3}
  NoVersion = NoVersion
  MaxActivations = 2
  Revisions = {r1, r2}
  Candidates = {k}
  ImportKeys = {i}
  Reviewers = {x, y}
  NoRevision = NoRevision
  MaxRequeues = 2
  Corpus = Corpus
  VersionRows = {r1, r2}
  Transactions = {x, y, z}
  Operations = {"activate", "create_draft"}
SYMMETRY ServingSymmetry
CHECK_DEADLOCK FALSE
INVARIANTS NoLockCycle
