SPECIFICATION FairSpec
CONSTANTS NCommands = 2  Packet = 2  TxSize = 4  MaxPrint = 5  MaxOthers = 1  MaxResets = 2
INVARIANTS OneExchange AnswerMatches HandledOnce
PROPERTIES AnswerCompletes
CHECK_DEADLOCK FALSE
