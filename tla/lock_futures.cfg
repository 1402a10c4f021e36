SPECIFICATION FairSpec
CONSTANTS
  inc = inc
  dec = dec
  incAsync = incAsync
  decAsync = decAsync
  e1 = e1
  e2 = e2
  e3 = e3
  f1 = f1
  a = a
  b = b
  main = main
  l1 = l1
  l2 = l2
  l3 = l3
  l4 = l4
  l5 = l5
  None = None
  Task = {inc, dec, incAsync, decAsync, e1, e2, e3, f1, a, b, main}
  Lock = {l1, l2, l3, l4, l5}
  LockOf <- Locks
  Rounds <- ThreeRounds
  After <- Order
  Spinning = {inc, dec, e1, e2, e3, f1}
  Sleeping = {a, b}
  Reading = {main}
  Fallible = {e1, e2, e3, f1}
  Abandonable = {b}
  Program <- Programs
CHECK_DEADLOCK FALSE
INVARIANTS
  TypeOK
  OneOwner
PROPERTIES
  UpdatesAreAtomic
  TasksFinish
