SPECIFICATION Spec
CONSTANTS
  s1 = s1
  s2 = s2
  w1 = w1
  Schedulers = {s1, s2}
  Wakers = {w1}
  NoSched = NoSched
  MaxPending = 1
  AuxPieces = 2
INVARIANT NoLostWakeup
