SPECIFICATION FairSpec
CONSTANTS PD_RETRY_COUNT = 2  NIds = 2  PartnerTries = 2  MaxTx = 2  MaxRx = 2  MaxConn = 3
INVARIANTS SuccessIsReceived NothingLost
PROPERTIES AckedIsHandled HearsAgain
CHECK_DEADLOCK FALSE
