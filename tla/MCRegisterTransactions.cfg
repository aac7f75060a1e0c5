CONSTANTS
  p1 = p1
  p2 = p2
  p3 = p3
  u1 = u1
  u2 = u2
  d0 = d0
  d1 = d1
  d2 = d2
  d3 = d3
  d4 = d4
  d5 = d5
  d6 = d6
  t1 = t1
  t2 = t2
  t3 = t3
  Persons = {p1, p2, p3}
  Purposes = {u1, u2}
  Drafts = {d0, d1, d2, d3, d4, d5, d6}
  Systems = {s1}
  Papers <- AllPapers
  Similar <- Alike
  MaxMergeDepth = 2
  MaxDay = 2
  None = None
  Txns = {t1, t2, t3}
  PurposeId <- Ids
  Workloads <- AllWorkloads
  Filed <- OnFileTwo
  Waiting <- StackOfForms
  Today = 2
SPECIFICATION FairSpec
CHECK_DEADLOCK FALSE
INVARIANTS
  AcknowledgedOnce
  CommitsNeverDeadlock
  LiveConsentFollowsStops
PROPERTIES
  SerialEffect
  EveryRequestEnds
