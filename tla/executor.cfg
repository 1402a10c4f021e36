SPECIFICATION Spec
CONSTANTS
  t1 = t1
  t2 = t2
  t3 = t3
  t4 = t4
  Task = {t1, t2, t3, t4}
  Program <- FourTasks
  Order <- MixedOrder
  Polls <- MixedPolls
  SelfWaking = {t2}
  Panicking = {t3}
  Endless = {t4}
  HighWorker = {h1, h2}
  LowWorker = {l1}
  None = None
INVARIANTS
  TypeOK
  OneRunnable
  NeverStranded
  OwnQueue
PROPERTIES
  TasksFinish
