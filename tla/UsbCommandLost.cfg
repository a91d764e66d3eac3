SPECIFICATION FairSpec
CONSTANTS NCommands = 2  Packet = 2  TxSize = 4  MaxPrint = 1  MaxOthers = 1  MaxResets = 1
PROPERTIES CommandAnswered
CHECK_DEADLOCK FALSE
