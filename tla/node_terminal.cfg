SPECIFICATION FairSpec
CONSTANTS
  Banner = 1
  FirstHeight = 4
  Height = {3}
  HelpLines = 2
  StoreSize = {0, 1}
  Word <- SomeWords
  MaxInput = 2
  MaxLines = 5
  MaxOffset = 5
  MaxStatus = 1
  MaxLogs = 1
CHECK_DEADLOCK FALSE
INVARIANTS
  TypeOK
  AsciiEditsNeverPanic
PROPERTIES
  WindowKeepsItsPlace
  UserIsServed
  StatusBarFollows
  DeafWorkerEnds
