CONSTANTS
  p = p
  q = q
  u = u
  v = v
  Purposes = {u, v}
  Persons = {p, q}
  Similar <- MCSimilar
  Known = {}
  Rows = {1, 2}
  Sheets <- MCSheets
  Mappings <- MCMappings
  Readings <- MCReadings
  MaxEdits = 1
  MapCalls = {m1, m2}
  CommitCalls = {k1, k2}
  MaxCalls = 3
  None = None
SYMMETRY Requests
SPECIFICATION Spec
CHECK_DEADLOCK FALSE
INVARIANTS
  BatchNeverGuesses
  
  ReadyRowsSettle
