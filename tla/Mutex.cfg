CONSTANTS
  NTasks = 3
  MaxWork = 5
SPECIFICATION FairSpec
INVARIANT NoSleepOnFreeMutex
INVARIANT WorkKept
PROPERTY LockSpec
PROPERTY Granted
CHECK_DEADLOCK FALSE
