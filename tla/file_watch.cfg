SPECIFICATION FairSpec
CONSTANTS
  MaxLine = 2
  MaxFile = 2
  MaxDamage = 2
  MaxRepeat = 1
  MaxError = 1
CHECK_DEADLOCK FALSE
INVARIANTS
  TypeOK
  TailIsExact
  NoLineTwice
PROPERTIES
  PanicsOnlyOnLoss
  EveryLineIsPrinted
  LatestIsPrinted
