SPECIFICATION FairSpec
CONSTANTS
  NoManaged = 2
  MaxBlocks = 4
  MaxNesting = 2
INVARIANT BlockIsExclusive
INVARIANT CountIsExact
PROPERTY BlockIsGranted
PROPERTY StoppedGoOn
