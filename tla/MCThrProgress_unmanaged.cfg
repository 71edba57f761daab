SPECIFICATION FairSpec
CONSTANTS
  Quarter = 8
  NoManaged = 1
  Askers = {}
  Delayers = {d1}
  Requesters = {r1}
  None = None
  MaxProgress = 3
INVARIANT DelayCounterIsWatched
PROPERTY UnmanagedIsWoken
