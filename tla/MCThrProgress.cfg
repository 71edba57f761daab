SPECIFICATION FairSpec
CONSTANTS
  Quarter = 8
  NoManaged = 2
  Askers = {1}
  Delayers = {}
  Requesters = {}
  None = None
  MaxProgress = 6
INVARIANT AtMostOneLeader
INVARIANT RunningThreadsAreTracked
INVARIANT RequestsMeetTheirValue
PROPERTY ImplementsGracePeriod
PROPERTY ManagedIsWoken
