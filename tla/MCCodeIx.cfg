CONSTANTS
  p1 = p1
  p2 = p2
  Procs = {p1, p2}
  NoProc = NoProc
  MaxChanges = 3
SPECIFICATION FairSpec
INVARIANTS
  TypeOK
  PermissionIsExclusive
  ReadIndexIsNeverStaged
  ReadTablesAreComplete
  NoChangeIsLost
  NoUseAfterFree
  NoLostWakeup
PROPERTIES
  NoBifSpansTwoCommits
  WaiterIsResumed
  StagedChangeCommits
