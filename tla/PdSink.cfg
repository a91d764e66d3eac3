SPECIFICATION Spec
CONSTANTS PD_HARD_RESET_COUNT = 2  MaxCommands = 1  MaxEvents = 1
INVARIANTS TimerArmed LimitOff
CHECK_DEADLOCK FALSE
