SPECIFICATION FairSpec
CONSTANTS PD_HARD_RESET_COUNT = 2  MaxCommands = 0  MaxEvents = 1
PROPERTIES FewResets  ResetSent
CHECK_DEADLOCK FALSE
