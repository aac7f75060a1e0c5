CONSTANTS
  Persons = {p, q, r}
  Desks = {d1, d2}
  Items = {i1, i2, i3}
  Addresses = {ip}
  Queues = {"lookups", "tasks", "notices"}
  PerAddress = 1
  Unaddressed = 1
  InFlight = 2
  PageSize = 1
  ResolveDepth = 2
  MemberDepth = 2
  MaxDay = 1
  MaxTrail = 3
  MaxForms = 2
  Carried = {"printed_on_form", "unknown"}
  NoIp = NoIp
  None = None
SYMMETRY Alike
SPECIFICATION Spec
CHECK_DEADLOCK FALSE
INVARIANTS
  TrailTellsTheStory
  FilingsBounded
  PaperFollowsSurvivor
PROPERTIES
  DebtStands
