----------------------------- MODULE MCSniffer -----------------------------
(* Sniffer on small instances: values of the constants that a .cfg cannot   *)
(* write.                                                                   *)
EXTENDS Sniffer

BothChannels == {0, 1}
OneChannel   == {0}

\* One channel wraps around its buffer once, the other one fills a half.
ChunksWrapAndHalf == [c \in {0, 1} |-> IF c = 0 THEN 6 ELSE 2]
ChunksPastLap     == [c \in {0} |-> 6]
ChunksLapAndHalf  == [c \in {0} |-> 3]
ChunksOneLap      == [c \in {0} |-> 4]
=============================================================================
