SPECIFICATION Spec
CONSTANTS
  Quarter = 8
  NoManaged = 2
  Askers = {1}
  Delayers = {d1}
  Requesters = {}
  None = None
  MaxProgress = 3
INVARIANT NoStall
