CONSTANTS
  Channels <- OneChannel
  NSub = 1
  SeqMod = 2
  MaxChunks <- ChunksLapAndHalf
  MaxResets = 1
  Timely = FALSE
  Enumerated = TRUE
SPECIFICATION FairSpec
PROPERTY PhaseKept
PROPERTY OverrunDetected
PROPERTY Drained
