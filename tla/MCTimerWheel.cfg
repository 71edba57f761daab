SPECIFICATION FairSpec
CONSTANTS
  Timers = {t1, t2}
  Schedulers = {s1, s2}
  NoTimer = NoTimer
  TIW_SIZE = 2
  Timeouts = {0, 1, 4}
  MaxBacklog = 4
INVARIANT NeverLate
INVARIANT MinIsExact
PROPERTY ImplementsCountdown
PROPERTY TimersTimeOut
