SPECIFICATION FairSpec
CONSTANTS
  Managed = {m1}
  Unmanaged = {u1}
  Consumer = c
  Marker = Marker
  Null = Null
  El = {1, 2}
  MaxManaged = 2
  MaxUnmanaged = 1
  DequeueCleanOps = 1
  SchedCleanOps = 2
  CleanReachedHead = 2
  FiniDeqOps = 1
CHECK_DEADLOCK FALSE
INVARIANT NoUseAfterFree
INVARIANT NothingLeaks
PROPERTY ImplementsFifo
PROPERTY EverythingIsDelivered
PROPERTY GarbageIsReclaimed
