SPECIFICATION HookFairSpec
CONSTANTS N = 2  HOOK_TICK_INTERVAL = 3  WordSize = 4  HookDelays = {0, 1, 4}  MaxCalls = 2  MaxTime = 6
INVARIANTS SleepsNotPast
PROPERTIES NotEarly Called
CHECK_DEADLOCK FALSE
