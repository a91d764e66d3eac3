CONSTANTS
  NTasks = 3
  Custom = {"a", "b"}
  MaxPosts = 4
  SyncPosts = FALSE
SPECIFICATION FairSpec
INVARIANT NoLostWakeup
INVARIANT NoStaleTimer
PROPERTY EventsReceived
CHECK_DEADLOCK FALSE
