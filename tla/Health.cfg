\* Every configuration, two errors, three timers that are armed or have fired, a call of the database checker.
SPECIFICATION ApplicationSpec
CONSTANTS
  e1 = e1
  e2 = e2
  a = a
  b = b
  c = c
  p = p
  Errors = {e1, e2}
  NoError = NoError
  Timers = {a, b, c}
  NoTimer = NoTimer
  Checks = {p}
INVARIANT ErrorExpires
INVARIANT NoStrayTimer
INVARIANT CheckersAreComplete
PROPERTY Recovers
PROPERTY EveryCheckEnds
CHECK_DEADLOCK FALSE
