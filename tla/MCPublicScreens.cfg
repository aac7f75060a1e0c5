SPECIFICATION PublicSpec
CONSTANTS
  Visitors = {ann, bea}
  NoOne = NoOne
  IdleLimit = 3
  ThanksLimit = 2
  MaxForms = 2
  p1 = p1
  p2 = p2
  u1 = u1
  u2 = u2
  Declined <- MCDeclined
  Identities = {p1, p2}
  Purposes = {u1, u2}
  MaxCalls = 5
  MaxAtOnce = 2
  MaxOutside = 2
  Nothing = Nothing
CHECK_DEADLOCK FALSE
INVARIANTS
  PeopleKeptApart
  ConfirmationIsTrue
PROPERTIES
  LeftAloneClears
