SPECIFICATION Spec
CONSTANTS
  Quarter = 8
  NoManaged = 1
  Askers = {0}
  Delayers = {d1, d2}
  Requesters = {}
  None = None
  MaxProgress = 5
INVARIANT DelayIsRespected
