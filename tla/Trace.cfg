SPECIFICATION FairSpec
CONSTANTS NSlots = 3  MaxRx = 2  MaxSamples = 1  MaxModes = 4  Masks = {{1}, {0, 1}}
INVARIANTS NotDeaf Intact CaptureRestored
PROPERTIES ReadInOrder TraceStops Delivered
CHECK_DEADLOCK FALSE
