CONSTANTS
  asha = asha
  aasha = aasha
  ravi = ravi
  phone = phone
  short = short
  long = long
  calls = calls
  letters = letters
  Reviewers = {v1, v2}
  Drafts = {d1, d2}
  Queued = {d1}
  Imported <- Rows
  Legible = {asha, phone}
  Dates = {"past", "undated", "undecided"}
  Names = {asha, aasha, ravi}
  Contacts = {phone}
  Close <- AlikeNames
  OnFile <- AshaOnFile
  Notices = {short, long}
  Purposes = {calls, letters}
  Printed <- PrintedOn
  Bounds <- SavesOrScan
  None = None
SYMMETRY Staff
SPECIFICATION DeskSpec
CHECK_DEADLOCK FALSE
INVARIANTS
  NothingInvalidFiled
  NobodyFusedUnasked
  BoxesHaveGrounds
PROPERTY TypingStands
