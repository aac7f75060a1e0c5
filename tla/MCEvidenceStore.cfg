SPECIFICATION Spec
CONSTANTS
  d1 = d1
  d2 = d2
  p = p
  q = q
  Documents = {d1, d2}
  Plans <- MCPlans
  Openings = {r1}
  Batches = {b1}
  People = {p, q}
  PurposeIds = {u1}
INVARIANTS
  FilesAreIndexed
  UploadsShareBytes
PROPERTY
  EveryDocumentEnds
CHECK_DEADLOCK FALSE
