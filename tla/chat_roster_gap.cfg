SPECIFICATION Spec
CONSTANTS
  a = a
  b = b
  Client = {a, b}
  Nickname = {alice, bob, carol}
  None = None
  Lines <- Silence
  Faulty = {}
  Capacity = 4
  MaxLines = 1
INVARIANT
  EveryoneKnowsTheRoster
CHECK_DEADLOCK FALSE
