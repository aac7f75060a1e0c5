CONSTANTS
  p1 = p1
  p2 = p2
  u1 = u1
  Persons = {p1, p2}
  Purposes = {u1}
  Drafts = {d1, d2, d3}
  Systems = {s1}
  Papers <- PapersOfTwo
  Similar = {}
  MaxMergeDepth = 3
  MaxDay = 2
  None = None
SPECIFICATION Spec
CHECK_DEADLOCK FALSE
INVARIANT FormNeverResurrects
