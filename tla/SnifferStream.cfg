CONSTANTS
  Channels <- BothChannels
  NSub = 2
  SeqMod = 4
  MaxChunks <- ChunksWrapAndHalf
  MaxResets = 0
  Timely = TRUE
  Enumerated = TRUE
SPECIFICATION FairSpec
INVARIANT HeaderDescribesData
INVARIANT NoTornTransmission
PROPERTY StreamSafety
PROPERTY StreamSpec
