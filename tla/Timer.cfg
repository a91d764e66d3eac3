CONSTANTS
  Sleepers = {1, 2}
  Lsb = 4
  Msb = 2
  Delays = {2}
  MaxClock = 10
  MaxLag = 1
  MaxEvents = 1
  Window = FALSE
SPECIFICATION Spec
INVARIANT TimeIsRight
INVARIANT NoMissedDeadline
INVARIANT SleepIsBounded
PROPERTY AlarmSpec
CHECK_DEADLOCK FALSE
