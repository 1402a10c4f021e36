SPECIFICATION Spec
CONSTANTS
  a = a
  b = b
  Client = {a, b}
  Nickname = {alice, bob}
  None = None
  Lines <- PoliteAndRude
  Faulty = {b}
  Capacity = 1
  MaxLines = 1
INVARIANTS
  TypeOK
  UniqueNicknames
  PostsInOrder
  OneKnowsTheOther
PROPERTIES
  HangUpFreesNickname
  SessionsCatchUp
CHECK_DEADLOCK FALSE
