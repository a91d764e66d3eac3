---------------------------- MODULE CaptureStream ----------------------------
(***************************************************************************)
(* What the capture pipeline of the sniffer promises to the host: each     *)
(* chunk of edges of a channel arrives exactly once (in what order the two *)
(* halves of a buffer are read is not promised: the header of a packet     *)
(* tells where it belongs).  A chunk is available to the host when the     *)
(* block (half of the sample buffer) it belongs to is complete, and every  *)
(* available chunk is eventually delivered.                                *)
(***************************************************************************)
EXTENDS Integers, Sequences

CONSTANTS Channels,  \* the captured channels
          Block,     \* chunks in a block
          Limit      \* bound on the chunks of each channel

VARIABLES captured,  \* chunks captured so far, per channel
          delivered  \* channel and number of the chunks the host has, as they came

Init == captured = [c \in Channels |-> 0] /\ delivered = << >>

Capture(c) ==
  /\ captured[c] < Limit[c]
  /\ captured' = [captured EXCEPT ![c] = @ + 1]
  /\ UNCHANGED delivered

Available(c) == (captured[c] \div Block) * Block

Deliver(c) ==
  /\ \E n \in 1 .. Available(c) :
       /\ \A i \in 1 .. Len(delivered) : delivered[i] # <<c, n>>
       /\ delivered' = Append(delivered, <<c, n>>)
  /\ UNCHANGED captured

Next == \E c \in Channels : Capture(c) \/ Deliver(c)

Safety == Init /\ [][Next]_<<captured, delivered>>
Spec   == /\ Safety
          /\ \A c \in Channels : WF_<<captured, delivered>>(Deliver(c))
=============================================================================
