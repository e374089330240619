\* Two local-admin workers, one of which may hold a job whose lease has lapsed; two
\* chapters, one active version and one temporary version or draft.
SPECIFICATION Spec
CONSTANTS
  MaxVersions = 2
  Chapters = {c1, c2}
  Texts = {a, b}
  None = None
  Workers = {w1, w2}
  MaxIngests = 2
  MaxEdits = 1
SYMMETRY CorpusSymmetry
CHECK_DEADLOCK FALSE
INVARIANTS ApprovedContent
PROPERTIES  ServedChaptersKept ServesTextbook
