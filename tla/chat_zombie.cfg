SPECIFICATION Spec
CONSTANTS
  a = a
  b = b
  Client = {a, b, c}
  Nickname = {alice, bob, carol}
  None = None
  Lines <- OneSplitLine
  Faulty = {}
  Capacity = 4
  MaxLines = 1
PROPERTY
  RosterIsCurrent
CHECK_DEADLOCK FALSE
