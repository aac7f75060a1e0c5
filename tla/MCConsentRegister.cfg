CONSTANTS
  p1 = p1
  p2 = p2
  p3 = p3
  u1 = u1
  Persons = {p1, p2, p3}
  Purposes = {u1}
  Drafts = {d1, d2, d3}
  Systems = {s1}
  Papers <- PapersOfThree
  Similar <- AlikePair
  MaxMergeDepth = 2
  MaxDay = 2
  None = None
SPECIFICATION Spec
SYMMETRY DraftSymmetry
CHECK_DEADLOCK FALSE
INVARIANTS
  TypeOK
  RecordsExplained
  StoppedAfterSigned
  UnmergedNeverRevived
  FirstStopHolds
  LatestSignatureStands
  StoppingIsOwed
  EveryoneResolves
PROPERTIES
  WithdrawalStands
  KeepsPromise
