SPECIFICATION Spec
CONSTANTS
  t1 = t1
  t2 = t2
  t3 = t3
  Threads = {t1, t2, t3}
  NoThread = NoThread
  Procs = {1, 2}
  MAX_BIT = 1
  Uses <- OneToAll
INVARIANTS
  LockHasOneOwner
  WaitersAreSeen
  WaitsAreInOrder
  WokenHasAll
  NobodyIsForgotten
PROPERTY
  QueueIsServedInOrder
