CONSTANTS
  asha = asha
  aasha = aasha
  ravi = ravi
  phone = phone
  short = short
  long = long
  calls = calls
  letters = letters
  Reviewers = {v1}
  Drafts = {d1, d2}
  Queued = {d1}
  Imported <- Rows
  Legible = {asha, phone}
  Dates = {"past", "undated"}
  Names = {asha, aasha}
  Contacts = {phone}
  Close <- AlikeNames
  OnFile <- AshaOnFile
  Notices = {short, long}
  Purposes = {calls, letters}
  Printed <- PrintedOn
  Bounds <- ToOutrank
  None = None
SPECIFICATION DeskSpec
CHECK_DEADLOCK FALSE
PROPERTY ReviewerOutranksScan
