\* A request sent three times, three citations in two versions, two revisions and
\* two reviewers at the bank, three transactions on two versions.
SPECIFICATION ServingSpec
CONSTANTS
  Parts = {"ask", "retrieval", "bank", "locks"}
  x = x
  y = y
  z = z
  r1 = r1
  r2 = r2
  Calls = {x, y, z}
  None = None
  Interrupts = {x, y, z}
  CorpusVersions = {r1, r2}
  Citations = {1, 2, 3}
  NoVersion = NoVersion
  MaxActivations = 2
  Revisions = {r1, r2}
  Candidates = {k}
  ImportKeys = {i}
  Reviewers = {x, y}
  NoRevision = NoRevision
  MaxRequeues = 2
  Corpus = Corpus
  VersionRows = {r1, r2}
  Transactions = {x, y, z}
  Operations = {"import", "activate", "delete_chapter"}
SYMMETRY ServingSymmetry
CHECK_DEADLOCK FALSE
INVARIANTS
  GeneratedOnce QuotaAgrees PendingIsOwned
  EvidenceWasServed FusionRespectsChannels
  GeneratedWasApprovedOnce FirstEmbeddingHasJob NoLockCycle
PROPERTIES KeepsContract
