-------------------------- MODULE Sniffer_proofs ---------------------------
(***************************************************************************)
(* Theorems about the capture pipeline, for every number of sub-buffers    *)
(* and every bound: the state keeps its types, the two sides of the USB    *)
(* double buffer stay in phase between bus resets, in phase the task only  *)
(* writes into free buffers, an overrun is detected, the packets the host  *)
(* receives describe the chunks in them, and no chunk is received twice.   *)
(***************************************************************************)
EXTENDS Sniffer, TLAPS

\* A chunk lives in a sub-buffer of its channel.
LEMMA SlotType ==
  ASSUME NEW c \in Channels, NEW n \in Nat
  PROVE  Slot(c, n) \in Slots
<1>1. NSub \in Nat /\ NSub > 0
  BY SizesAssumption
<1>2. ((n - 1) \div NSub) \in Int
  BY <1>1
<1>3. ((n - 1) \div NSub) % 2 \in {0, 1}
  BY <1>2
<1>4. (n - 1) % NSub \in 0 .. NSub - 1
  BY <1>1
<1> QED
  BY <1>3, <1>4 DEF Slot, Slots

\* The sub-buffer after a sub-buffer is a sub-buffer.
LEMMA NextSlotType ==
  ASSUME NEW s \in Slots
  PROVE  NextSlot(s) \in Slots
<1>1. /\ s[1] \in Channels /\ s[2] \in {0, 1} /\ s[3] \in 0 .. NSub - 1
      /\ NSub \in Nat /\ NSub > 0
  BY SizesAssumption DEF Slots
<1>2. s[3] + 1 < NSub => s[3] + 1 \in 0 .. NSub - 1
  BY <1>1
<1>3. 0 \in 0 .. NSub - 1
  BY <1>1
<1> QED
  BY <1>1, <1>2, <1>3 DEF NextSlot, Slots

\* The number of the chunk in a sub-buffer is a natural number.
LEMMA SamplesType ==
  ASSUME NEW s \in Slots, captured \in [Channels -> Nat]
  PROVE  Samples(s) \in Nat
<1> DEFINE last == captured[s[1]]
           pos  == s[2] * NSub + s[3]
           n    == last - ((last - 1 - pos) % (2 * NSub))
<1>1. /\ s[1] \in Channels /\ s[2] \in {0, 1} /\ s[3] \in Nat
      /\ NSub \in Nat /\ NSub > 0
  BY SizesAssumption DEF Slots
<1>2. pos \in Int /\ last \in Int
  BY <1>1
<1>3. 2 * NSub \in Nat /\ 2 * NSub > 0
  BY <1>1
<1>4. n \in Int
  <2> HIDE DEF pos, last
  <2> QED BY <1>2, <1>3
<1> HIDE DEF n
<1>5. (IF n < 1 \/ Slot(s[1], last + 1) = s THEN 0 ELSE n) \in Nat
  BY <1>4
<1> QED
  BY <1>5 DEF Samples, n, pos, last

-----------------------------------------------------------------------------
(* Types.                                                                  *)

LEMMA TypeInit == Init => TypeOK
<1> SUFFICES ASSUME Init PROVE TypeOK
  OBVIOUS
<1>1. NSub \in Nat /\ NSub > 0 /\ SeqMod \in Nat /\ SeqMod > 0
  BY SizesAssumption
<1>2. FirstSlot \in Slots
  <2>1. 0 \in 0 .. NSub - 1
    BY <1>1
  <2> QED BY <2>1, ChannelsAssumption DEF FirstSlot, Slots
<1>3. Junk \in Packet
  BY <1>1 DEF Junk, NoHeader, Packet
<1> QED
  BY <1>1, <1>2, <1>3 DEF Init, TypeOK, FillSteps, EP_BUF_SIZE

LEMMA TypeNext == TypeOK /\ [Next]_vars => TypeOK'
<1> SUFFICES ASSUME TypeOK, [Next]_vars PROVE TypeOK'
  OBVIOUS
<1> USE DEF TypeOK, dmaVars, isrVars, taskVars, epVars, taskRest, usbRest
<1>0. NSub \in Nat /\ NSub > 0 /\ SeqMod \in Nat /\ SeqMod > 0
  BY SizesAssumption
<1>1. ASSUME NEW c \in Channels, Capture(c) PROVE TypeOK'
  BY <1>0, <1>1 DEF Capture
<1>2. ASSUME NEW c \in Channels, TimDmaHandler(c) PROVE TypeOK'
  <2>1. HalfDone(c) \in {0, 1} /\ <<c, HalfDone(c)>> \in Halves
    BY DEF HalfDone, Halves
  <2>2. NextSeq \in 0 .. SeqMod - 1
    BY <1>0 DEF NextSeq
  <2>3. Overflows(c, HalfDone(c)) \in BOOLEAN
    BY DEF Overflows
  <2>4. events' \subseteq 0 .. 18
    BY <1>2 DEF TimDmaHandler, TASK_EVENT_CUSTOM
  <2>5. sampleTs' \in [Halves -> Nat]
    BY <1>2, <2>1 DEF TimDmaHandler, TimRx, Clock
  <2>6. sampleSeq' \in [Halves -> [seq: 0 .. SeqMod - 1, oflow: BOOLEAN]]
    <3> DEFINE new == [seq |-> seq, oflow |-> Overflows(c, HalfDone(c))]
    <3>1. new \in [seq: 0 .. SeqMod - 1, oflow: BOOLEAN]
      BY <2>3
    <3>2. sampleSeq' = [sampleSeq EXCEPT ![<<c, HalfDone(c)>>] = new]
      BY <1>2 DEF TimDmaHandler, TimRx
    <3> HIDE DEF new
    <3> QED BY <3>1, <3>2, <2>1
  <2>7. /\ seq' \in 0 .. SeqMod - 1 /\ oflow' \in Nat /\ filled' \subseteq Slots
        /\ flags' \in [Channels -> SUBSET {"HT", "TC"}]
    BY <1>2, <2>2 DEF TimDmaHandler, TimRx
  <2> QED
    BY <1>2, <2>4, <2>5, <2>6, <2>7 DEF TimDmaHandler
<1>3. ASSUME SnifferTask PROVE TypeOK'
  <2>1. CASE Wake
    BY <2>1 DEF Wake, FillSteps
  <2>2. CASE Loop
    BY <2>2 DEF Loop, FillSteps
  <2>3. CASE Scan
    BY <2>3, NextSlotType DEF Scan, FillSteps
  <2>4. CASE Header
    <3>1. HalfOf(d) \in Halves /\ d[3] \in 0 .. NSub - 1
      BY DEF HalfOf, Halves, Slots
    <3> DEFINE hdr == [half |-> HalfOf(d), seq |-> sampleSeq[HalfOf(d)].seq,
                       oflow |-> sampleSeq[HalfOf(d)].oflow, sub |-> d[3]]
    <3>2. hdr \in [half: Halves \cup {<<0, 0>>}, seq: 0 .. SeqMod - 1,
                   oflow: BOOLEAN, sub: 0 .. NSub - 1]
      BY <3>1
    <3>3. epBuf' = [epBuf EXCEPT ![u].hdr = hdr]
      BY <2>4 DEF Header
    <3>4. [epBuf[u] EXCEPT !.hdr = hdr] \in Packet
      <4> HIDE DEF hdr
      <4> QED BY <3>2 DEF Packet
    <3>5. epBuf' \in [{0, 1} -> Packet]
      <4> HIDE DEF hdr
      <4> QED BY <3>3, <3>4
    <3> QED BY <2>4, <3>5 DEF Header, FillSteps
  <2>5. CASE Stamp
    <3>1. sampleTs[HalfOf(d)] \in Nat
      BY DEF HalfOf, Halves, Slots
    <3>2. [epBuf[u] EXCEPT !.ts = sampleTs[HalfOf(d)]] \in Packet
      BY <3>1 DEF Packet
    <3>3. epBuf' \in [{0, 1} -> Packet]
      BY <2>5, <3>2 DEF Stamp
    <3> QED BY <2>5, <3>3 DEF Stamp, FillSteps
  <2>6. CASE Copy
    <3>1. Samples(d) \in Nat
      BY SamplesType
    <3>2. [epBuf[u] EXCEPT !.data = Samples(d)] \in Packet
      BY <3>1 DEF Packet
    <3>3. epBuf' \in [{0, 1} -> Packet]
      BY <2>6, <3>2 DEF Copy
    <3> QED BY <2>6, <3>3 DEF Copy, FillSteps
  <2>7. CASE Release
    BY <2>7 DEF Release, OtherBuffer, FillSteps
  <2>8. CASE Consume
    BY <2>8 DEF Consume, FilledAfter, FillSteps
  <2> QED
    BY <1>3, <2>1, <2>2, <2>3, <2>4, <2>5, <2>6, <2>7, <2>8 DEF SnifferTask
<1>4. CASE HostIn
  <2>1. host' \in Seq(Packet)
    BY <1>4 DEF HostIn
  <2> QED BY <1>4, <2>1 DEF HostIn
<1>5. CASE EpTx
  <2>1. events' \subseteq 0 .. 18
    BY <1>5 DEF EpTx, WakeUp
  <2>2. /\ freeUsb' \subseteq {0, 1} /\ b' \in {0, 1} /\ txAddr' \in {0, 1}
        /\ txCount' \in {0, EP_BUF_SIZE}
    BY <1>5 DEF EpTx, TxCount
  <2>3. txValid' \in BOOLEAN /\ txIrq' \in BOOLEAN
    BY <1>5 DEF EpTx
  <2> QED BY <1>5, <2>1, <2>2, <2>3 DEF EpTx
<1>6. CASE EpReset
  <2>1. resets' \in Nat
    BY <1>6 DEF EpReset
  <2>3. /\ txAddr' \in {0, 1} /\ txCount' \in {0, EP_BUF_SIZE}
        /\ txValid' \in BOOLEAN /\ txIrq' \in BOOLEAN
    BY <1>6, Zenon DEF EpReset
  <2>2. UNCHANGED <<dmaVars, isrVars, filled, taskVars, freeUsb, events, b, host>>
    BY <1>6 DEF EpReset
  <2> QED BY <2>1, <2>2, <2>3
<1>7. CASE UNCHANGED vars
  BY <1>7 DEF vars
<1> QED
  BY <1>1, <1>2, <1>3, <1>4, <1>5, <1>6, <1>7 DEF Next

\* The state keeps its types: in particular the sequence number never runs into
\* the channel bits of the header, and the DMA interrupt posts no unknown event.
THEOREM TypeCorrect == Spec => []TypeOK
BY TypeInit, TypeNext, PTL DEF Spec

-----------------------------------------------------------------------------
(* The double buffer.                                                      *)

(***************************************************************************)
(* Phase is inductive only with the fact that some buffer is free while    *)
(* the task is between the test of its loop and the release of the buffer: *)
(* interrupts only ever add to free_usb.                                   *)
(***************************************************************************)
SomeFree == pc \in {"scan"} \cup FillSteps => freeUsb # {}
DataInv  == TypeOK /\ SomeFree

LEMMA SomeFreeNext == TypeOK /\ SomeFree /\ [Next]_vars => SomeFree'
<1> SUFFICES ASSUME TypeOK, SomeFree, [Next]_vars PROVE SomeFree'
  OBVIOUS
<1> USE DEF SomeFree, FillSteps, dmaVars, isrVars, taskVars, epVars, taskRest,
            usbRest
<1>1. ASSUME NEW c \in Channels, Capture(c) PROVE SomeFree'
  BY <1>1 DEF Capture
<1>2. ASSUME NEW c \in Channels, TimDmaHandler(c) PROVE SomeFree'
  BY <1>2 DEF TimDmaHandler
<1>3. ASSUME SnifferTask PROVE SomeFree'
  BY <1>3 DEF SnifferTask, Wake, Loop, Scan, Header, Stamp, Copy, Release, Consume
<1>4. CASE HostIn
  BY <1>4 DEF HostIn
<1>5. CASE EpTx
  BY <1>5 DEF EpTx
<1>6. CASE EpReset
  BY <1>6 DEF EpReset
<1>7. CASE UNCHANGED vars
  BY <1>7 DEF vars
<1> QED
  BY <1>1, <1>2, <1>3, <1>4, <1>5, <1>6, <1>7 DEF Next

LEMMA PhaseNext ==
  ASSUME TypeOK, SomeFree, InPhase, [Next]_vars, resets' = resets
  PROVE  InPhase'
<1> USE DEF InPhase, dmaVars, isrVars, taskVars, epVars, taskRest, usbRest
<1>1. ASSUME NEW c \in Channels, Capture(c) PROVE InPhase'
  BY <1>1 DEF Capture
<1>2. ASSUME NEW c \in Channels, TimDmaHandler(c) PROVE InPhase'
  BY <1>2 DEF TimDmaHandler
<1>3. ASSUME SnifferTask PROVE InPhase'
  <2>1. CASE Release
    <3>1. freeUsb # {} /\ freeUsb \subseteq {0, 1} /\ u \in {0, 1} /\ b \in {0, 1}
      BY <2>1 DEF Release, SomeFree, FillSteps, TypeOK
    <3>2. freeUsb' = freeUsb \ {u} /\ u' = 1 - u
      BY <2>1 DEF Release, OtherBuffer
    <3>3. UNCHANGED <<b, txAddr, txCount, txValid, txIrq>>
      BY <2>1 DEF Release
    <3>4. freeUsb = {0, 1} \/ freeUsb = {0} \/ freeUsb = {1}
      BY <3>1
    <3> QED BY <3>1, <3>2, <3>3, <3>4
  <2>2. CASE ~Release
    BY <1>3, <2>2 DEF SnifferTask, Wake, Loop, Scan, Header, Stamp, Copy, Consume
  <2> QED BY <2>1, <2>2
<1>4. CASE HostIn
  BY <1>4 DEF HostIn
<1>5. CASE EpTx
  <2>1. freeUsb \subseteq {0, 1} /\ u \in {0, 1} /\ b \in {0, 1}
    BY DEF TypeOK
  <2>2. freeUsb \in {{}, {0}, {1}, {0, 1}}
    BY <2>1
  <2>3. txValid' /\ ~txIrq' /\ u' = u
    BY <1>5 DEF EpTx
  <2>4. CASE txCount # 0
    <3>1. freeUsb' = freeUsb \cup {b} /\ b' = 1 - b /\ txAddr' = 1 - b
      BY <1>5, <2>4 DEF EpTx
    <3>2. txCount' # 0 => b' \notin freeUsb'
      BY <1>5, <2>4 DEF EpTx, TxCount
    <3> QED BY <2>1, <2>2, <2>3, <2>4, <3>1, <3>2
  <2>5. CASE txCount = 0
    <3>1. freeUsb' = freeUsb /\ b' = b /\ txAddr' = txAddr
      BY <1>5, <2>5 DEF EpTx
    <3>2. txCount' # 0 => b' \notin freeUsb'
      BY <1>5, <2>5 DEF EpTx, TxCount
    <3> QED BY <2>1, <2>2, <2>3, <2>5, <3>1, <3>2
  <2> QED BY <2>4, <2>5
<1>6. CASE EpReset
  BY <1>6 DEF EpReset, TypeOK
<1>7. CASE UNCHANGED vars
  BY <1>7 DEF vars
<1> QED
  BY <1>1, <1>2, <1>3, <1>4, <1>5, <1>6, <1>7 DEF Next

LEMMA DataInvariant == Spec => []DataInv
<1>1. Init => DataInv
  BY TypeInit DEF Init, DataInv, SomeFree, FillSteps
<1>2. DataInv /\ [Next]_vars => DataInv'
  BY TypeNext, SomeFreeNext DEF DataInv
<1> QED
  BY <1>1, <1>2, PTL DEF Spec

\* Between bus resets the two sides of the double buffer stay in phase once they
\* are: ep_tx and sniffer_task toggle indices of their own, and neither tests the
\* other's.
THEOREM PhaseIsKept == Spec => PhaseKept
<1>1. DataInv /\ [Next]_vars => [InPhase /\ resets' = resets => InPhase']_vars
  BY PhaseNext DEF DataInv
<1> QED
  BY <1>1, DataInvariant, PTL DEF Spec, PhaseKept

(***************************************************************************)
(* Without a bus reset, from an idle endpoint, the two sides are always in *)
(* phase; hence the task writes only into free buffers, and never into the *)
(* one the controller sends.                                               *)
(***************************************************************************)
NoReset == Enumerated /\ MaxResets = 0

LEMMA AlwaysInPhase == ASSUME NoReset PROVE Spec => [](DataInv /\ InPhase)
<1>1. Init => DataInv /\ InPhase
  BY TypeInit, NoReset
  DEF Init, DataInv, SomeFree, FillSteps, InPhase, NoReset
<1>2. DataInv /\ InPhase /\ [Next]_vars => (DataInv /\ InPhase)'
  <2>1. ASSUME DataInv, [Next]_vars PROVE resets' = resets \/ resets < MaxResets
    BY <2>1
    DEF Next, Capture, TimDmaHandler, SnifferTask, Wake, Loop, Scan, Header,
        Stamp, Copy, Release, Consume, HostIn, EpTx, EpReset, taskRest, vars
  <2>2. ASSUME DataInv, resets < MaxResets PROVE FALSE
    BY <2>2, NoReset DEF DataInv, TypeOK, NoReset
  <2> QED
    BY <2>1, <2>2, TypeNext, SomeFreeNext, PhaseNext DEF DataInv
<1> QED
  BY <1>1, <1>2, PTL DEF Spec

THEOREM NeverTorn ==
  ASSUME NoReset
  PROVE  Spec => [](FillsFreeBuffer /\ NoTornTransmission)
<1>1. DataInv /\ InPhase => FillsFreeBuffer /\ NoTornTransmission
  <2> SUFFICES ASSUME DataInv, InPhase, pc \in FillSteps
               PROVE  u \in freeUsb /\ ~(txCount # 0 /\ txAddr = u)
    BY DEF FillsFreeBuffer, NoTornTransmission
  <2>1. freeUsb \subseteq {0, 1} /\ freeUsb # {} /\ u \in {0, 1} /\ b \in {0, 1}
    BY DEF DataInv, TypeOK, SomeFree
  <2>2. freeUsb \in {{0}, {1}, {0, 1}}
    BY <2>1
  <2> QED BY <2>1, <2>2 DEF InPhase
<1> QED
  BY <1>1, AlwaysInPhase, PTL

-----------------------------------------------------------------------------
(* Positions in the circular buffer.                                       *)

\* Quotient and remainder, and what determines them.
LEMMA DivMod ==
  ASSUME NEW m \in Nat, m > 0, NEW a \in Int
  PROVE  /\ a \div m \in Int /\ a % m \in 0 .. m - 1
         /\ a = m * (a \div m) + (a % m)
         /\ a >= 0 => a \div m >= 0
OBVIOUS

LEMMA DivUnique ==
  ASSUME NEW m \in Nat, m > 0, NEW k \in Int, NEW r \in 0 .. m - 1
  PROVE  (m * k + r) \div m = k /\ (m * k + r) % m = r
OBVIOUS

\* One more chunk is the next sub-buffer of the half, or the first of the other.
LEMMA NextChunk ==
  ASSUME NEW m \in Nat, m > 0, NEW a \in Nat
  PROVE  \/ /\ a % m < m - 1 /\ (a + 1) % m = (a % m) + 1
            /\ (a + 1) \div m = a \div m
         \/ /\ a % m = m - 1 /\ (a + 1) % m = 0
            /\ (a + 1) \div m = (a \div m) + 1
<1> DEFINE k == a \div m
           r == a % m
<1>1. k \in Int /\ r \in 0 .. m - 1 /\ a = m * k + r
  BY DivMod
<1>2. CASE r < m - 1
  <2>1. a + 1 = m * k + (r + 1) /\ r + 1 \in 0 .. m - 1
    BY <1>1, <1>2
  <2> HIDE DEF k, r
  <2>2. (a + 1) \div m = k /\ (a + 1) % m = r + 1
    BY <1>1, <2>1, DivUnique
  <2> QED BY <1>2, <2>2 DEF k, r
<1>3. CASE r = m - 1
  <2>1. a + 1 = m * (k + 1) + 0 /\ 0 \in 0 .. m - 1 /\ k + 1 \in Int
    BY <1>1, <1>3
  <2> HIDE DEF k, r
  <2>2. (a + 1) \div m = k + 1 /\ (a + 1) % m = 0
    BY <2>1, DivUnique
  <2> QED BY <1>3, <2>2 DEF k, r
<1> QED BY <1>1, <1>2, <1>3

\* A remainder by two halves is the parity of the half and the place in it.
LEMMA TwoHalves ==
  ASSUME NEW m \in Nat, m > 0, NEW k \in Int, NEW r \in 0 .. m - 1
  PROVE  (m * k + r) % (2 * m) = m * (k % 2) + r
<1> DEFINE q == k \div 2
           h == k % 2
           l == 2 * m
           o == m * h + r
<1>1. q \in Int /\ h \in {0, 1} /\ k = 2 * q + h
  OBVIOUS
<1> HIDE DEF q, h
<1>2. m * h \in {0, m} /\ m * k = l * q + m * h
  BY <1>1
<1>3. l \in Nat /\ l > 0 /\ o \in 0 .. l - 1
  BY <1>1, <1>2
<1>4. m * k + r = l * q + o
  BY <1>1, <1>2, <1>3
<1> HIDE DEF l, o
<1>5. (l * q + o) % l = o
  BY <1>1, <1>3, DivUnique
<1> QED BY <1>4, <1>5 DEF l, o, h

\* Chunks of complete blocks of NSub, and chunks of the block being written.
Block(c)    == captured[c] \div NSub
Position(c) == captured[c] % NSub

LEMMA BlockType ==
  ASSUME TypeOK, NEW c \in Channels
  PROVE  /\ NSub \in Nat /\ NSub > 0 /\ captured[c] \in Nat
         /\ Block(c) \in Nat /\ Position(c) \in 0 .. NSub - 1
         /\ captured[c] = NSub * Block(c) + Position(c)
<1>1. NSub \in Nat /\ NSub > 0 /\ captured[c] \in Nat
  BY SizesAssumption DEF TypeOK
<1> DEFINE a == captured[c]
<1>2. /\ a \div NSub \in Nat /\ a % NSub \in 0 .. NSub - 1
      /\ a = NSub * (a \div NSub) + (a % NSub)
  <2>1. a \in Nat
    BY <1>1
  <2> HIDE DEF a
  <2> QED BY <1>1, <2>1, DivMod
<1> HIDE DEF a
<1>3. Block(c) = a \div NSub /\ Position(c) = a % NSub /\ captured[c] = a
  BY DEF Block, Position, a
<1> QED BY <1>1, <1>2, <1>3

\* The sub-buffer the DMA engine writes.
LEMMA EngineSlot ==
  ASSUME NEW c \in Channels, NEW n \in Nat
  PROVE  Slot(c, n + 1) = <<c, (n \div NSub) % 2, n % NSub>>
<1>1. (n + 1) - 1 = n
  OBVIOUS
<1> QED BY <1>1 DEF Slot

\* The flag of the half that block k fills.
HalfFlags(k) == IF k % 2 = 1 THEN {"HT"} ELSE {"TC"}

\* What one more chunk does to the position and to the flags.
LEMMA CaptureEffect ==
  ASSUME TypeOK, NEW c \in Channels, Capture(c)
  PROVE  \/ /\ Position(c) < NSub - 1
            /\ Block(c)' = Block(c) /\ Position(c)' = Position(c) + 1
            /\ flags'[c] = flags[c]
         \/ /\ Position(c) = NSub - 1
            /\ Block(c)' = Block(c) + 1 /\ Position(c)' = 0
            /\ flags[c] = {} /\ flags'[c] = HalfFlags(Block(c)')
<1> DEFINE n == captured[c] + 1
<1>1. /\ NSub \in Nat /\ NSub > 0 /\ captured[c] \in Nat /\ Block(c) \in Nat
      /\ 2 * NSub \in Nat
  BY BlockType
<1>2. captured'[c] = n
  BY DEF Capture, TypeOK
<1>3. \/ /\ captured[c] % NSub < NSub - 1 /\ n % NSub = (captured[c] % NSub) + 1
         /\ n \div NSub = captured[c] \div NSub
      \/ /\ captured[c] % NSub = NSub - 1 /\ n % NSub = 0
         /\ n \div NSub = (captured[c] \div NSub) + 1
  BY <1>1, NextChunk
<1>4. CASE captured[c] % NSub < NSub - 1
  <2>1. n % NSub # 0 /\ n % NSub = (captured[c] % NSub) + 1
        /\ n \div NSub = captured[c] \div NSub
    BY <1>1, <1>3, <1>4, DivMod
  <2>2. flags' = [flags EXCEPT ![c] = @ \cup {}]
    BY <2>1 DEF Capture
  <2>3. flags'[c] = flags[c]
    BY <2>2 DEF TypeOK
  <2> QED BY <1>2, <1>4, <2>1, <2>3 DEF Block, Position
<1>5. CASE captured[c] % NSub = NSub - 1
  <2>1. n % NSub = 0 /\ n \div NSub = (captured[c] \div NSub) + 1
    BY <1>1, <1>3, <1>5
  <2>2. n % (2 * NSub) = NSub * ((n \div NSub) % 2) + 0
    <3>1. n \in Int /\ n \div NSub \in Int /\ n = NSub * (n \div NSub) + 0
      BY <1>1, <2>1, DivMod
    <3> DEFINE k == n \div NSub
    <3>2. 0 \in 0 .. NSub - 1
      BY <1>1
    <3>3. (NSub * k + 0) % (2 * NSub) = NSub * (k % 2) + 0
      <4> HIDE DEF k, n
      <4> QED BY <1>1, <3>1, <3>2, TwoHalves DEF k
    <3> QED BY <3>1, <3>3
  <2>3. (n \div NSub) % 2 \in {0, 1}
    BY <1>1, <2>1 DEF Block
  <2>4. n % (2 * NSub) = 0 <=> (n \div NSub) % 2 # 1
    <3> DEFINE h == (n \div NSub) % 2
    <3>1. h \in {0, 1} /\ n % (2 * NSub) = NSub * h + 0
      BY <2>2, <2>3
    <3>2. NSub * 0 = 0 /\ NSub * 1 = NSub
      BY <1>1
    <3> HIDE DEF h, n
    <3>3. n % (2 * NSub) = 0 <=> h # 1
      BY <1>1, <3>1, <3>2
    <3> QED BY <3>3 DEF h
  <2> DEFINE done == IF n % (2 * NSub) = 0 THEN {"TC"} ELSE {"HT"}
  <2>5. done = HalfFlags(n \div NSub) /\ done # {}
    BY <2>4 DEF HalfFlags
  <2>6. flags[c] = {} /\ flags' = [flags EXCEPT ![c] = @ \cup done]
    BY <2>1, <2>5 DEF Capture
  <2>7. flags'[c] = HalfFlags(n \div NSub)
    <3> HIDE DEF done
    <3> QED BY <2>5, <2>6 DEF TypeOK
  <2> QED BY <1>2, <1>5, <2>1, <2>6, <2>7 DEF Block, Position
<1>6. captured[c] % NSub \in Int
  BY <1>1
<1> QED BY <1>3, <1>4, <1>5, <1>6

-----------------------------------------------------------------------------
(* Overruns are detected.                                                  *)

(***************************************************************************)
(* A pending flag is that of the block completed last.  As long as no      *)
(* overflow was counted, a half whose first sub-buffer is unread is the    *)
(* one served last: its number is that of the last block, or of the one    *)
(* before while the interrupt of the last block is pending.                *)
(***************************************************************************)
Marked(c, h) == <<c, h, 0>> \in filled
ServedLast(c, h) ==
  IF flags[c] = {} THEN Block(c) >= 1 /\ h = (Block(c) - 1) % 2
                   ELSE Block(c) >= 2 /\ h = Block(c) % 2

FlagInv == \A c \in Channels :
             flags[c] # {} => Block(c) >= 1 /\ flags[c] = HalfFlags(Block(c))
NoOverflow == oflow = 0 =>
  \A c \in Channels, h \in {0, 1} : Marked(c, h) => ServedLast(c, h)

\* The half that an interrupt marks is that of the block completed last.
LEMMA HalfDoneIs ==
  ASSUME TypeOK, FlagInv, NEW c \in Channels, flags[c] # {}
  PROVE  /\ Block(c) >= 1 /\ HalfDone(c) = (Block(c) - 1) % 2
         /\ 1 - HalfDone(c) = Block(c) % 2
<1>1. Block(c) \in Nat
  BY BlockType
<1>2. Block(c) >= 1 /\ flags[c] = HalfFlags(Block(c))
  BY DEF FlagInv
<1>3. HalfDone(c) = IF Block(c) % 2 = 1 THEN 0 ELSE 1
  BY <1>2 DEF HalfDone, HalfFlags
<1> QED BY <1>1, <1>2, <1>3

\* What the other steps leave alone.
LEMMA PositionsKept ==
  ASSUME TypeOK, [Next]_vars, NEW c \in Channels, ~Capture(c), ~TimDmaHandler(c)
  PROVE  /\ captured'[c] = captured[c] /\ flags'[c] = flags[c]
         /\ Block(c)' = Block(c) /\ Position(c)' = Position(c)
<1> USE DEF dmaVars, taskRest, usbRest
<1>1. ASSUME NEW e \in Channels, Capture(e)
      PROVE  captured'[c] = captured[c] /\ flags'[c] = flags[c]
  <2>1. e # c
    BY <1>1
  <2> QED BY <1>1, <2>1 DEF Capture, TypeOK
<1>2. ASSUME NEW e \in Channels, TimDmaHandler(e)
      PROVE  captured'[c] = captured[c] /\ flags'[c] = flags[c]
  <2>1. e # c
    BY <1>2
  <2> QED BY <1>2, <2>1 DEF TimDmaHandler, TimRx, TypeOK
<1>3. ASSUME SnifferTask \/ HostIn \/ EpTx \/ EpReset \/ UNCHANGED vars
      PROVE  captured'[c] = captured[c] /\ flags'[c] = flags[c]
  BY <1>3 DEF SnifferTask, Wake, Loop, Scan, Header, Stamp, Copy, Release,
              Consume, HostIn, EpTx, EpReset, vars
<1>4. captured'[c] = captured[c] /\ flags'[c] = flags[c]
  BY <1>1, <1>2, <1>3 DEF Next
<1> QED BY <1>4 DEF Block, Position

LEMMA HandlerEffect ==
  ASSUME TypeOK, NEW c \in Channels, TimDmaHandler(c)
  PROVE  /\ flags[c] # {} /\ flags'[c] = {} /\ captured' = captured
         /\ Block(c)' = Block(c) /\ Position(c)' = Position(c)
         /\ filled' = filled \cup {s \in Slots : HalfOf(s) = <<c, HalfDone(c)>>}
<1>1. /\ flags[c] # {} /\ flags' = [flags EXCEPT ![c] = {}] /\ captured' = captured
      /\ filled' = filled \cup {s \in Slots : HalfOf(s) = <<c, HalfDone(c)>>}
  BY DEF TimDmaHandler, TimRx
<1>2. flags'[c] = {}
  BY <1>1 DEF TypeOK
<1> QED BY <1>1, <1>2 DEF Block, Position

\* What a step other than the interrupt's does to the set of unread sub-buffers.
LEMMA FilledShrinks ==
  ASSUME [Next]_vars, \A e \in Channels : ~TimDmaHandler(e)
  PROVE  filled' \subseteq filled /\ oflow' = oflow
         /\ sampleTs' = sampleTs /\ sampleSeq' = sampleSeq
<1> USE DEF isrVars, taskRest, usbRest, FilledAfter
<1>1. CASE \E e \in Channels : Capture(e)
  BY <1>1 DEF Capture
<1>2. CASE SnifferTask
  BY <1>2 DEF SnifferTask, Wake, Loop, Scan, Header, Stamp, Copy, Release, Consume
<1>3. CASE HostIn \/ EpTx \/ EpReset \/ UNCHANGED vars
  BY <1>3 DEF HostIn, EpTx, EpReset, vars
<1> QED BY <1>1, <1>2, <1>3 DEF Next

LEMMA FlagNext == TypeOK /\ FlagInv /\ [Next]_vars => FlagInv'
<1> SUFFICES ASSUME TypeOK, FlagInv, [Next]_vars, NEW c \in Channels,
                    flags'[c] # {}
             PROVE  Block(c)' >= 1 /\ flags'[c] = HalfFlags(Block(c)')
  BY DEF FlagInv
<1>1. CASE Capture(c)
  BY <1>1, CaptureEffect, BlockType DEF FlagInv
<1>2. CASE TimDmaHandler(c)
  BY <1>2, HandlerEffect
<1>3. CASE ~Capture(c) /\ ~TimDmaHandler(c)
  BY <1>3, PositionsKept DEF FlagInv
<1> QED BY <1>1, <1>2, <1>3

LEMMA NoOverflowNext ==
  TypeOK /\ FlagInv /\ NoOverflow /\ [Next]_vars => NoOverflow'
<1> SUFFICES ASSUME TypeOK, FlagInv, NoOverflow, [Next]_vars, oflow' = 0,
                    NEW c \in Channels, NEW h \in {0, 1}, Marked(c, h)'
             PROVE  ServedLast(c, h)'
  BY DEF NoOverflow
<1>0. Block(c) \in Nat
  BY BlockType
<1>1. ASSUME NEW e \in Channels, TimDmaHandler(e) PROVE ServedLast(c, h)'
  <2>1. oflow \in Nat /\ (Overflows(e, HalfDone(e)) => oflow' = oflow + 1)
        /\ (~Overflows(e, HalfDone(e)) => oflow' = oflow)
    BY <1>1 DEF TimDmaHandler, TimRx, TypeOK
  <2>2. oflow = 0 /\ ~Overflows(e, HalfDone(e))
    BY <2>1
  <2>3. CASE e = c
    <3>1. h = HalfDone(c)
      <4>1. CASE Marked(c, h)
        <5>1. ServedLast(c, h)
          BY <2>2, <4>1 DEF NoOverflow
        <5>2. h = 1 - HalfDone(c)
          BY <5>1, <1>1, <2>3, HandlerEffect, HalfDoneIs DEF ServedLast
        <5> QED BY <5>2, <2>2, <2>3, <4>1 DEF Overflows, Marked
      <4>2. CASE ~Marked(c, h)
        BY <4>2, <1>1, <2>3, HandlerEffect DEF Marked, HalfOf
      <4> QED BY <4>1, <4>2
    <3> QED BY <3>1, <1>1, <2>3, HandlerEffect, HalfDoneIs DEF ServedLast
  <2>4. CASE e # c
    <3>1. ~Capture(c) /\ ~TimDmaHandler(c)
      <4>1. captured'[c] = captured[c] /\ flags'[c] = flags[c] /\ captured[c] \in Nat
        BY <1>1, <2>4 DEF TimDmaHandler, TimRx, TypeOK
      <4>2. Capture(c) => captured'[c] = captured[c] + 1
        BY DEF Capture, TypeOK
      <4>3. TimDmaHandler(c) => flags'[c] = {} /\ flags[c] # {}
        BY HandlerEffect
      <4> QED BY <4>1, <4>2, <4>3
    <3>2. Marked(c, h)
      BY <1>1, <2>4, HandlerEffect DEF Marked, HalfOf
    <3>3. ServedLast(c, h)
      BY <3>2, <2>2 DEF NoOverflow
    <3> QED BY <3>1, <3>3, PositionsKept DEF ServedLast
  <2> QED BY <2>3, <2>4
<1>2. ASSUME \A e \in Channels : ~TimDmaHandler(e) PROVE ServedLast(c, h)'
  <2>1. Marked(c, h) /\ oflow = 0
    BY <1>2, FilledShrinks DEF Marked
  <2>2. ServedLast(c, h)
    BY <2>1 DEF NoOverflow
  <2>3. CASE Capture(c)
    <3>1. CASE Block(c)' = Block(c) /\ flags'[c] = flags[c]
      BY <3>1, <2>2 DEF ServedLast
    <3>2. CASE Block(c)' = Block(c) + 1 /\ flags[c] = {}
                /\ flags'[c] = HalfFlags(Block(c)')
      <4>1. flags'[c] # {}
        BY <3>2 DEF HalfFlags
      <4>2. Block(c) >= 1 /\ h = (Block(c) - 1) % 2
        BY <2>2, <3>2 DEF ServedLast
      <4>3. (Block(c) + 1) % 2 = (Block(c) - 1) % 2
        BY <1>0
      <4> QED BY <1>0, <3>2, <4>1, <4>2, <4>3 DEF ServedLast
    <3> QED BY <3>1, <3>2, <2>3, CaptureEffect
  <2>4. CASE ~Capture(c)
    BY <2>2, <2>4, <1>2, PositionsKept DEF ServedLast
  <2> QED BY <2>3, <2>4
<1> QED BY <1>1, <1>2

LEMMA MarksInvariant == Spec => [](TypeOK /\ FlagInv /\ NoOverflow)
<1>1. Init => TypeOK /\ FlagInv /\ NoOverflow
  BY TypeInit DEF Init, FlagInv, NoOverflow, Marked
<1>2. TypeOK /\ FlagInv /\ NoOverflow /\ [Next]_vars
      => (TypeOK /\ FlagInv /\ NoOverflow)'
  BY TypeNext, FlagNext, NoOverflowNext
<1> QED BY <1>1, <1>2, PTL DEF Spec

\* When an interrupt marks a half of which the first sub-buffer is still unread,
\* an overflow is counted, by it or earlier: the interrupt itself only tests the
\* other half (sniffer.c, filled_dma & next).
THEOREM OverrunIsDetected == Spec => OverrunDetected
<1>1. ASSUME TypeOK, FlagInv, NoOverflow, [Next]_vars,
             NEW c \in Channels, NEW h \in {0, 1},
             flags[c] # {}, flags'[c] = {}, <<c, h, 0>> \in filled,
             sampleTs'[<<c, h>>] # sampleTs[<<c, h>>]
      PROVE  oflow' > 0
  <2>1. PICK e \in Channels : TimDmaHandler(e)
    BY <1>1, FilledShrinks
  <2>2. sampleTs' = [sampleTs EXCEPT ![<<e, HalfDone(e)>>] = Clock(e)]
        /\ sampleTs \in [Halves -> Nat] /\ <<c, h>> \in Halves
    BY <1>1, <2>1 DEF TimDmaHandler, TimRx, TypeOK, Halves
  <2>3. <<e, HalfDone(e)>> = <<c, h>>
    BY <1>1, <2>2
  <2>4. e = c /\ h = HalfDone(c)
    BY <2>3
  <2>5. /\ oflow \in Nat
        /\ oflow' = IF Overflows(c, h) THEN oflow + 1 ELSE oflow
    BY <1>1, <2>1, <2>4 DEF TimDmaHandler, TimRx, TypeOK
  <2>6. oflow # 0
    <3>1. SUFFICES ASSUME oflow = 0 PROVE FALSE
      OBVIOUS
    <3>2. ServedLast(c, h)
      BY <1>1, <3>1 DEF NoOverflow, Marked
    <3>3. Block(c) >= 1 /\ h = (Block(c) - 1) % 2 /\ 1 - h = Block(c) % 2
      BY <1>1, <2>4, HalfDoneIs
    <3> QED BY <1>1, <3>2, <3>3, BlockType DEF ServedLast
  <2> QED BY <2>5, <2>6
<1>2. TypeOK /\ FlagInv /\ NoOverflow /\ [Next]_vars =>
      [\A c \in Channels, h \in {0, 1} :
       (flags[c] # {} /\ flags'[c] = {} /\ <<c, h, 0>> \in filled
        /\ sampleTs'[<<c, h>>] # sampleTs[<<c, h>>]) => oflow' > 0]_vars
  BY <1>1
<1> QED BY <1>2, MarksInvariant, PTL DEF Spec, OverrunDetected

-----------------------------------------------------------------------------
(* What the header says about the data.                                    *)

(***************************************************************************)
(* While the DMA engine never reaches an unread sub-buffer, one that is    *)
(* marked filled belongs to the block completed last, whose interrupt has  *)
(* run, or to the block before, and then lies ahead of the engine.         *)
(***************************************************************************)
BlockOf(s) ==
  IF (Block(s[1]) - 1) % 2 = s[2] THEN Block(s[1]) - 1 ELSE Block(s[1]) - 2
Fresh(s) ==
  /\ s[2] = (Block(s[1]) - 1) % 2 /\ Block(s[1]) >= 1 /\ flags[s[1]] = {}
Ahead(s) ==
  /\ s[2] = Block(s[1]) % 2 /\ Block(s[1]) >= 2 /\ Position(s[1]) < s[3]
ChunkIn(s) == NSub * BlockOf(s) + s[3] + 1

\* The clock in the interrupt of a block: before the next block is complete.
ClockOf(k) == NSub * (k + 1) .. NSub * (k + 1) + NSub - 1

FilledInv == \A s \in filled : Fresh(s) \/ Ahead(s)
StampInv  == \A s \in filled : /\ sampleTs[HalfOf(s)] \in ClockOf(BlockOf(s))
                               /\ ~sampleSeq[HalfOf(s)].oflow

\* A marked sub-buffer holds the chunk of its block.
LEMMA ChunkIsIn ==
  ASSUME TypeOK, NEW s \in Slots, Fresh(s) \/ Ahead(s)
  PROVE  /\ BlockOf(s) \in Nat /\ BlockOf(s) % 2 = s[2]
         /\ Samples(s) = ChunkIn(s)
<1> DEFINE c == s[1]
           k == BlockOf(s)
           B == Block(c)
           R == Position(c)
           q == k \div 2
           m == 2 * NSub
<1>1. /\ c \in Channels /\ s[2] \in {0, 1} /\ s[3] \in 0 .. NSub - 1
      /\ NSub \in Nat /\ NSub > 0 /\ captured[c] \in Nat
      /\ B \in Nat /\ R \in 0 .. NSub - 1 /\ captured[c] = NSub * B + R
      /\ m \in Nat /\ m > 0 /\ s = <<c, s[2], s[3]>>
  BY BlockType DEF Slots
<1>2. /\ k = IF (B - 1) % 2 = s[2] THEN B - 1 ELSE B - 2
      /\ \/ s[2] = (B - 1) % 2 /\ B >= 1
         \/ s[2] = B % 2 /\ B >= 2 /\ R < s[3]
  BY DEF BlockOf, Fresh, Ahead
<1>3. \/ k = B - 1 /\ B >= 1 /\ s[2] = (B - 1) % 2
      \/ k = B - 2 /\ B >= 2 /\ s[2] = B % 2 /\ R < s[3]
  <2> HIDE DEF k, B, R
  <2> QED BY <1>1, <1>2
<1>4. k \in Nat /\ k % 2 = s[2] /\ q \in Int /\ k = 2 * q + s[2]
  <2>1. k \in Nat
    <3> HIDE DEF k, B, R
    <3> QED BY <1>1, <1>3
  <2>2. k % 2 = s[2]
    <3> HIDE DEF k, B, R
    <3> QED BY <1>1, <1>3
  <2>3. q \in Int /\ k = 2 * q + (k % 2)
    <3> HIDE DEF k
    <3> QED BY <2>1
  <2> HIDE DEF k, q
  <2> QED BY <2>1, <2>2, <2>3
<1>5. NSub * k = m * q + s[2] * NSub
  <2> HIDE DEF k, B, R, q
  <2>1. NSub * (2 * q + s[2]) = (2 * NSub) * q + s[2] * NSub
    BY <1>1, <1>4
  <2> QED BY <2>1, <1>4
<1> DEFINE rem == IF k = B - 1 THEN NSub + R - 1 - s[3] ELSE m + R - 1 - s[3]
<1>6. rem \in 0 .. m - 1 /\ captured[c] - 1 - (s[2] * NSub + s[3]) = m * q + rem
  <2> DEFINE nk == NSub * k
             sn == s[2] * NSub
             mq == m * q
  <2>0. nk \in Int /\ sn \in Int /\ mq \in Int /\ nk = mq + sn
    <3> HIDE DEF k, B, R, q, m, c
    <3>1. NSub * k \in Int /\ s[2] * NSub \in Int
      BY <1>1, <1>4
    <3>2. m * q \in Int
      BY <1>1, <1>4
    <3> QED BY <1>5, <3>1, <3>2
  <2>1. CASE k = B - 1 /\ B >= 1
    <3>1. NSub * B = nk + NSub
      <4> HIDE DEF k, B, R, q
      <4> QED BY <1>1, <1>4, <2>1
    <3> HIDE DEF k, B, R, nk, sn, mq, c
    <3>2. captured[c] = nk + NSub + R
      BY <1>1, <3>1
    <3>3. captured[c] - 1 - (sn + s[3]) = mq + (NSub + R - 1 - s[3])
      <4> HIDE DEF m, q, rem
      <4>1. s[3] \in Int /\ R \in Int /\ NSub \in Int /\ m \in Int
        BY <1>1
      <4> QED BY <2>0, <3>2, <4>1
    <3>4. rem = NSub + R - 1 - s[3] /\ rem \in 0 .. m - 1
      BY <1>1, <2>1
    <3> HIDE DEF rem, m
    <3> QED BY <3>3, <3>4 DEF mq, sn
  <2>2. CASE k = B - 2 /\ R < s[3]
    <3>1. NSub * B = nk + m
      <4> HIDE DEF k, B, R, q
      <4> QED BY <1>1, <1>4, <2>2
    <3> HIDE DEF k, B, R, nk, sn, mq, c
    <3>2. captured[c] = nk + m + R /\ k # B - 1
      BY <1>1, <1>4, <3>1, <2>2
    <3>3. captured[c] - 1 - (sn + s[3]) = mq + (m + R - 1 - s[3])
      <4> HIDE DEF m, q, rem
      <4>1. s[3] \in Int /\ R \in Int /\ NSub \in Int /\ m \in Int
        BY <1>1
      <4> QED BY <2>0, <3>2, <4>1
    <3>4. rem = m + R - 1 - s[3] /\ rem \in 0 .. m - 1
      BY <1>1, <2>2, <3>2
    <3> HIDE DEF rem, m
    <3> QED BY <3>3, <3>4 DEF mq, sn
  <2> HIDE DEF rem
  <2> QED BY <1>3, <2>1, <2>2
<1>7. (captured[c] - 1 - (s[2] * NSub + s[3])) % m = rem
  <2> HIDE DEF rem, m, q, k, B, R
  <2>1. (m * q + rem) % m = rem
    BY <1>1, <1>4, <1>6, DivUnique
  <2> QED BY <1>6, <2>1
<1>8. captured[c] - rem = ChunkIn(s)
  <2>1. captured[c] - rem = NSub * k + s[3] + 1
    <3> HIDE DEF k, B, R, q
    <3>1. CASE k = B - 1 /\ B >= 1
      <4>1. NSub * B = NSub * k + NSub
        BY <1>1, <1>4, <3>1
      <4> QED BY <1>1, <1>4, <3>1, <4>1
    <3>2. CASE k = B - 2 /\ R < s[3]
      <4>1. NSub * B = NSub * k + m
        BY <1>1, <1>4, <3>2
      <4> QED BY <1>1, <1>4, <3>2, <4>1
    <3> QED BY <1>3, <3>1, <3>2
  <2> QED BY <2>1 DEF ChunkIn
<1>9. ChunkIn(s) \in Nat /\ ChunkIn(s) >= 1
  <2>1. NSub * k >= 0
    <3> HIDE DEF k
    <3> QED BY <1>1, <1>4
  <2>2. NSub * k \in Int
    <3> HIDE DEF k
    <3> QED BY <1>1, <1>4
  <2>3. ChunkIn(s) = NSub * k + s[3] + 1
    BY DEF ChunkIn
  <2> HIDE DEF k
  <2> QED BY <1>1, <2>1, <2>2, <2>3
<1>10. Slot(c, captured[c] + 1) # s
  <2>1. Slot(c, captured[c] + 1) = <<c, B % 2, R>>
    BY <1>1, EngineSlot DEF Block, Position
  <2>2. s[2] # B % 2 \/ s[3] # R
    <3> HIDE DEF k, B, R
    <3> QED BY <1>1, <1>3
  <2> HIDE DEF B, R, c
  <2> QED BY <1>1, <2>1, <2>2
<1>11. Samples(s) = captured[c] - rem
  <2>1. ~(captured[c] - rem < 1)
    <3> HIDE DEF rem, c
    <3> QED BY <1>8, <1>9
  <2> HIDE DEF rem
  <2> QED BY <1>7, <1>10, <2>1 DEF Samples
<1> QED BY <1>4, <1>8, <1>11

\* A captured chunk moves the engine on, but not the block of a marked
\* sub-buffer, and leaves it fresh or ahead.
LEMMA CaptureKeeps ==
  ASSUME TypeOK, Timely, NEW c \in Channels, Capture(c), NEW s \in filled,
         Fresh(s) \/ Ahead(s)
  PROVE  BlockOf(s)' = BlockOf(s) /\ (Fresh(s)' \/ Ahead(s)')
<1>1. s[1] \in Channels /\ s[2] \in {0, 1} /\ s[3] \in 0 .. NSub - 1
      /\ s = <<s[1], s[2], s[3]>>
  BY DEF TypeOK, Slots
<1>2. CASE s[1] # c
  <2>1. captured'[s[1]] = captured[s[1]] /\ flags'[s[1]] = flags[s[1]]
    BY <1>1, <1>2 DEF Capture, TypeOK
  <2>2. Block(s[1])' = Block(s[1]) /\ Position(s[1])' = Position(s[1])
    BY <2>1 DEF Block, Position
  <2> QED BY <2>1, <2>2 DEF BlockOf, Fresh, Ahead
<1>3. CASE s[1] = c
  <2>1. /\ Block(c) \in Nat /\ Position(c) \in 0 .. NSub - 1
        /\ NSub \in Nat /\ captured[c] \in Nat
    BY BlockType
  <2>2. <<c, Block(c)' % 2, Position(c)'>> \notin filled
    <3>1. captured'[c] = captured[c] + 1 /\ Slot(c, captured[c] + 1 + 1) \notin filled
      BY DEF Capture, TypeOK
    <3>2. captured[c] + 1 \in Nat
      BY <2>1
    <3>3. Slot(c, (captured[c] + 1) + 1)
            = <<c, ((captured[c] + 1) \div NSub) % 2, (captured[c] + 1) % NSub>>
      BY <3>2, EngineSlot
    <3> QED BY <3>1, <3>3 DEF Block, Position
  <2>3. ~(s[2] = Block(c)' % 2 /\ s[3] = Position(c)')
    BY <1>1, <1>3, <2>2
  <2>4. CASE Block(c)' = Block(c) /\ Position(c)' = Position(c) + 1
             /\ flags'[c] = flags[c]
    <3>1. Ahead(s) => Ahead(s)'
      BY <1>1, <1>3, <2>1, <2>3, <2>4 DEF Ahead
    <3>2. Fresh(s) => Fresh(s)'
      BY <1>3, <2>4 DEF Fresh
    <3> QED BY <3>1, <3>2, <1>3, <2>4 DEF BlockOf
  <2>5. CASE /\ Position(c) = NSub - 1 /\ Block(c)' = Block(c) + 1
             /\ Position(c)' = 0 /\ flags[c] = {}
    <3>1. ~Ahead(s)
      BY <1>1, <1>3, <2>1, <2>5 DEF Ahead
    <3>2. s[2] = (Block(c) - 1) % 2 /\ Block(c) >= 1
      BY <3>1, <1>3 DEF Fresh
    <3>3. Block(c)' % 2 = s[2] /\ Block(c)' >= 2 /\ (Block(c)' - 1) % 2 # s[2]
      BY <2>1, <2>5, <3>2
    <3>4. Ahead(s)'
      BY <1>1, <1>3, <2>1, <2>3, <2>5, <3>3 DEF Ahead
    <3>5. BlockOf(s)' = Block(c)' - 2 /\ BlockOf(s) = Block(c) - 1
      BY <1>3, <3>2, <3>3 DEF BlockOf
    <3> QED BY <3>4, <3>5, <2>1, <2>5
  <2> QED BY <2>4, <2>5, CaptureEffect
<1> QED BY <1>2, <1>3

\* What an interrupt does to the marked sub-buffers.
LEMMA HandlerKeeps ==
  ASSUME TypeOK, FlagInv, FilledInv, NEW c \in Channels, TimDmaHandler(c),
         NEW s \in filled'
  PROVE  /\ s \in Slots /\ BlockOf(s)' = BlockOf(s) /\ (Fresh(s)' \/ Ahead(s)')
         /\ HalfOf(s) = <<c, HalfDone(c)>> => BlockOf(s) = Block(c) - 1
         /\ HalfOf(s) # <<c, HalfDone(c)>> => s \in filled
<1>1. /\ flags[c] # {} /\ flags'[c] = {} /\ captured' = captured
      /\ filled' = filled \cup {x \in Slots : HalfOf(x) = <<c, HalfDone(c)>>}
  BY HandlerEffect
<1>2. s \in Slots /\ s[1] \in Channels /\ s[2] \in {0, 1}
  BY <1>1 DEF TypeOK, Slots
<1>3. /\ Block(s[1])' = Block(s[1]) /\ Position(s[1])' = Position(s[1])
      /\ BlockOf(s)' = BlockOf(s)
  BY <1>1 DEF Block, Position, BlockOf
<1>4. Block(c) >= 1 /\ HalfDone(c) = (Block(c) - 1) % 2
  BY <1>1, HalfDoneIs
<1>5. CASE HalfOf(s) = <<c, HalfDone(c)>>
  <2>1. s[1] = c /\ s[2] = (Block(c) - 1) % 2
    BY <1>4, <1>5 DEF HalfOf
  <2>2. Fresh(s)'
    BY <1>1, <1>3, <1>4, <2>1 DEF Fresh
  <2> QED BY <1>2, <1>3, <1>5, <2>1, <2>2 DEF BlockOf
<1>6. CASE HalfOf(s) # <<c, HalfDone(c)>>
  <2>1. s \in filled
    BY <1>1, <1>6
  <2>2. Fresh(s) => s[1] # c
    BY <1>1 DEF Fresh
  <2>3. s[1] # c => flags'[s[1]] = flags[s[1]]
    BY <1>2 DEF TimDmaHandler, TimRx, TypeOK
  <2>4. Fresh(s)' \/ Ahead(s)'
    BY <1>3, <2>1, <2>2, <2>3 DEF FilledInv, Fresh, Ahead
  <2> QED BY <1>2, <1>3, <1>6, <2>1, <2>4
<1> QED BY <1>5, <1>6

(***************************************************************************)
(* The packet being filled agrees with sub-buffer d as far as the task has *)
(* got; a packet in a full buffer, and one the host has, describes its     *)
(* data.                                                                   *)
(***************************************************************************)
Describes(p) ==
  LET end == ((p.data - 1) \div NSub + 1) * NSub
  IN  /\ p.data # 0 /\ ~p.hdr.oflow
      /\ <<p.hdr.half[1], p.hdr.half[2], p.hdr.sub>> = Slot(p.hdr.half[1], p.data)
      /\ p.ts \in end .. end + NSub - 1

HeaderIs(p, s) ==
  p.hdr.half = HalfOf(s) /\ p.hdr.sub = s[3] /\ ~p.hdr.oflow

WorkInv ==
  /\ pc \in FillSteps => d \in filled
  /\ pc \in {"stamp", "copy", "release"} => HeaderIs(epBuf[u], d)
  /\ pc \in {"copy", "release"} => epBuf[u].ts \in ClockOf(BlockOf(d))
  /\ pc = "release" => epBuf[u].data = ChunkIn(d)
BufInv == \A x \in {0, 1} : x \notin freeUsb => Describes(epBuf[x])
HostInv == \A i \in 1 .. Len(host) : Describes(host[i])

StreamInv == FlagInv /\ FilledInv /\ StampInv /\ WorkInv /\ BufInv /\ HostInv

LEMMA FilledNext ==
  TypeOK /\ Timely /\ FlagInv /\ FilledInv /\ [Next]_vars
    => FilledInv' /\ (\A s \in filled : BlockOf(s)' = BlockOf(s))
<1> SUFFICES ASSUME TypeOK, Timely, FlagInv, FilledInv, [Next]_vars
             PROVE  FilledInv' /\ (\A s \in filled : BlockOf(s)' = BlockOf(s))
  OBVIOUS
<1>1. ASSUME NEW c \in Channels, TimDmaHandler(c)
      PROVE  FilledInv' /\ (\A s \in filled : BlockOf(s)' = BlockOf(s))
  <2>1. \A s \in filled' : BlockOf(s)' = BlockOf(s) /\ (Fresh(s)' \/ Ahead(s)')
    BY <1>1, HandlerKeeps
  <2>2. filled \subseteq filled'
    BY <1>1, HandlerEffect
  <2> QED BY <2>1, <2>2 DEF FilledInv
<1>2. ASSUME \A c \in Channels : ~TimDmaHandler(c)
      PROVE  FilledInv' /\ (\A s \in filled : BlockOf(s)' = BlockOf(s))
  <2>1. filled' \subseteq filled
    BY <1>2, FilledShrinks
  <2> SUFFICES ASSUME NEW s \in filled
               PROVE  BlockOf(s)' = BlockOf(s) /\ (Fresh(s)' \/ Ahead(s)')
    BY <2>1 DEF FilledInv
  <2>2. (Fresh(s) \/ Ahead(s)) /\ s[1] \in Channels
    BY DEF FilledInv, TypeOK, Slots
  <2>3. ASSUME NEW c \in Channels, Capture(c)
        PROVE  BlockOf(s)' = BlockOf(s) /\ (Fresh(s)' \/ Ahead(s)')
    BY <2>2, <2>3, CaptureKeeps
  <2>4. CASE \A c \in Channels : ~Capture(c)
    <3>1. /\ flags'[s[1]] = flags[s[1]] /\ Block(s[1])' = Block(s[1])
          /\ Position(s[1])' = Position(s[1])
      BY <1>2, <2>2, <2>4, PositionsKept
    <3> QED BY <2>2, <3>1 DEF BlockOf, Fresh, Ahead
  <2> QED BY <2>3, <2>4
<1> QED BY <1>1, <1>2

\* Marked in this interrupt: the stamp is the clock of the block, and the other
\* half is read, so the header carries no overflow mark.
LEMMA StampNext ==
  TypeOK /\ Timely /\ FlagInv /\ FilledInv /\ StampInv /\ [Next]_vars => StampInv'
<1> SUFFICES ASSUME TypeOK, Timely, FlagInv, FilledInv, StampInv, [Next]_vars,
                    NEW s \in filled'
             PROVE  /\ sampleTs'[HalfOf(s)] \in ClockOf(BlockOf(s)')
                    /\ ~sampleSeq'[HalfOf(s)].oflow
  BY DEF StampInv, ClockOf
<1>1. ASSUME NEW c \in Channels, TimDmaHandler(c)
      PROVE  /\ sampleTs'[HalfOf(s)] \in ClockOf(BlockOf(s)')
             /\ ~sampleSeq'[HalfOf(s)].oflow
  <2> DEFINE half == <<c, HalfDone(c)>>
             new  == [seq |-> seq, oflow |-> Overflows(c, HalfDone(c))]
  <2>1. /\ sampleTs' = [sampleTs EXCEPT ![half] = captured[c]]
        /\ sampleSeq' = [sampleSeq EXCEPT ![half] = new]
        /\ flags[c] # {}
    BY <1>1 DEF TimDmaHandler, TimRx, Clock
  <2>2. /\ s \in Slots /\ BlockOf(s)' = BlockOf(s)
        /\ HalfOf(s) = half => BlockOf(s) = Block(c) - 1
        /\ HalfOf(s) # half => s \in filled
    BY <1>1, HandlerKeeps
  <2>3. HalfOf(s) \in Halves /\ sampleTs \in [Halves -> Nat] /\ DOMAIN sampleSeq = Halves
    BY <2>2 DEF HalfOf, Halves, Slots, TypeOK
  <2>4. CASE HalfOf(s) = half
    <3>1. sampleTs'[HalfOf(s)] = captured[c] /\ sampleSeq'[HalfOf(s)] = new
      <4> HIDE DEF half, new
      <4> QED BY <2>1, <2>3, <2>4
    <3>2. captured[c] \in ClockOf(Block(c) - 1)
      <4>1. /\ NSub \in Nat /\ Block(c) \in Nat /\ Position(c) \in 0 .. NSub - 1
            /\ captured[c] = NSub * Block(c) + Position(c)
        BY BlockType
      <4>2. (Block(c) - 1) + 1 = Block(c) /\ NSub * Block(c) \in Int
        BY <4>1
      <4> QED BY <4>1, <4>2 DEF ClockOf
    <3>3. ~Overflows(c, HalfDone(c))
      <4> SUFFICES ASSUME <<c, 1 - HalfDone(c), 0>> \in filled PROVE FALSE
        BY DEF Overflows
      <4> DEFINE x == <<c, 1 - HalfDone(c), 0>>
      <4>1. Fresh(x) \/ Ahead(x)
        BY DEF FilledInv
      <4>2. Position(c) \in Nat
        BY BlockType
      <4>3. x[1] = c /\ x[3] = 0
        OBVIOUS
      <4> HIDE DEF x
      <4> QED BY <2>1, <4>1, <4>2, <4>3 DEF Fresh, Ahead
    <3>4. ~new.oflow
      BY <3>3
    <3> HIDE DEF new, half
    <3> QED BY <2>2, <2>4, <3>1, <3>2, <3>4
  <2>5. CASE HalfOf(s) # half
    <3>1. /\ sampleTs'[HalfOf(s)] = sampleTs[HalfOf(s)]
          /\ sampleSeq'[HalfOf(s)] = sampleSeq[HalfOf(s)] /\ s \in filled
      <4> HIDE DEF half, new
      <4> QED BY <2>1, <2>2, <2>3, <2>5
    <3> QED BY <2>2, <3>1 DEF StampInv
  <2> QED BY <2>4, <2>5
<1>2. ASSUME \A c \in Channels : ~TimDmaHandler(c)
      PROVE  /\ sampleTs'[HalfOf(s)] \in ClockOf(BlockOf(s)')
             /\ ~sampleSeq'[HalfOf(s)].oflow
  <2>1. s \in filled /\ sampleTs' = sampleTs /\ sampleSeq' = sampleSeq
    BY <1>2, FilledShrinks
  <2>2. BlockOf(s)' = BlockOf(s)
    BY <2>1, FilledNext
  <2> QED BY <2>1, <2>2 DEF StampInv
<1> QED BY <1>1, <1>2

\* A packet with the header, the stamp and the data of a marked sub-buffer
\* describes its data.
LEMMA FilledDescribes ==
  ASSUME TypeOK, NEW s \in Slots, Fresh(s) \/ Ahead(s), NEW p,
         HeaderIs(p, s), p.ts \in ClockOf(BlockOf(s)), p.data = ChunkIn(s)
  PROVE  Describes(p)
<1> DEFINE k == BlockOf(s)
<1>1. /\ k \in Nat /\ k % 2 = s[2] /\ NSub \in Nat /\ NSub > 0
      /\ s[1] \in Channels /\ s[3] \in 0 .. NSub - 1 /\ s = <<s[1], s[2], s[3]>>
  BY ChunkIsIn, SizesAssumption DEF Slots
<1>2. p.data = NSub * k + s[3] + 1
  BY DEF ChunkIn
<1> HIDE DEF k
<1>3. NSub * k \in Nat /\ p.data - 1 = NSub * k + s[3] /\ p.data # 0
  BY <1>1, <1>2
<1>4. (p.data - 1) \div NSub = k /\ (p.data - 1) % NSub = s[3]
  BY <1>1, <1>3, DivUnique
<1>5. Slot(s[1], p.data) = s
  BY <1>1, <1>4 DEF Slot
<1>6. ((p.data - 1) \div NSub + 1) * NSub = NSub * (k + 1)
  BY <1>1, <1>4
<1>7. p.ts \in NSub * (k + 1) .. NSub * (k + 1) + NSub - 1
  BY DEF ClockOf, k
<1>8. p.hdr.half = <<s[1], s[2]>> /\ p.hdr.sub = s[3] /\ ~p.hdr.oflow
  BY DEF HeaderIs, HalfOf
<1> QED BY <1>1, <1>3, <1>5, <1>6, <1>7, <1>8 DEF Describes

\* The task between two packets, or the steps of the others.
LEMMA TaskKept ==
  ASSUME UNCHANGED taskVars, filled \subseteq filled', TypeOK, WorkInv,
         pc \in FillSteps /\ d' = d => BlockOf(d)' = BlockOf(d)
  PROVE  WorkInv'
<1>1. pc' = pc /\ u' = u /\ d' = d /\ epBuf' = epBuf
  BY DEF taskVars
<1>2. pc \in {"stamp", "copy", "release"} => pc \in FillSteps
  BY DEF FillSteps
<1> QED BY <1>1, <1>2 DEF WorkInv, HeaderIs, ChunkIn, ClockOf

LEMMA WorkNext ==
  TypeOK /\ Timely /\ FlagInv /\ FilledInv /\ StampInv /\ WorkInv /\ [Next]_vars
    => WorkInv'
<1> SUFFICES ASSUME TypeOK, Timely, FlagInv, FilledInv, StampInv, WorkInv,
                    [Next]_vars
             PROVE  WorkInv'
  OBVIOUS
<1> USE DEF dmaVars, isrVars, taskRest, usbRest
<1>0. pc \in FillSteps => d \in filled /\ (d' = d => BlockOf(d)' = BlockOf(d))
  <2>1. \A s \in filled : BlockOf(s)' = BlockOf(s)
    BY FilledNext
  <2>2. pc \in FillSteps => d \in filled
    BY DEF WorkInv
  <2>3. ASSUME d \in filled, d' = d PROVE BlockOf(d)' = BlockOf(d)
    BY <2>1, <2>3 DEF BlockOf
  <2> QED BY <2>2, <2>3
<1>1. ASSUME NEW c \in Channels, Capture(c) PROVE WorkInv'
  <2>1. UNCHANGED taskVars /\ filled' = filled
    BY <1>1 DEF Capture
  <2> QED BY <1>0, <2>1, TaskKept
<1>2. ASSUME NEW c \in Channels, TimDmaHandler(c) PROVE WorkInv'
  <2>1. UNCHANGED taskVars
    BY <1>2 DEF TimDmaHandler
  <2>2. filled \subseteq filled'
    BY <1>2, HandlerEffect
  <2> QED BY <1>0, <2>1, <2>2, TaskKept
<1>3. CASE HostIn \/ EpTx \/ EpReset
  <2>1. UNCHANGED taskVars /\ filled' = filled
    BY <1>3 DEF HostIn, EpTx, EpReset
  <2> QED BY <1>0, <2>1, TaskKept
<1>4. CASE UNCHANGED vars
  <2>1. UNCHANGED taskVars /\ filled' = filled
    BY <1>4 DEF vars
  <2> QED BY <1>0, <2>1, TaskKept
<1>5. CASE Wake \/ Loop \/ Consume
  <2>1. pc' \notin FillSteps
    BY <1>5 DEF Wake, Loop, Consume, FillSteps
  <2> QED BY <2>1 DEF WorkInv, FillSteps
<1>6. CASE Scan
  <2>1. pc' \in {"scan", "header"} /\ (pc' = "header" => d' = d /\ d \in filled)
        /\ filled' = filled
    BY <1>6 DEF Scan
  <2> QED BY <2>1 DEF WorkInv, FillSteps
<1>7. ASSUME Header \/ Stamp \/ Copy
      PROVE  /\ d' = d /\ u' = u /\ filled' = filled /\ pc \in FillSteps
             /\ d \in filled /\ d \in Slots /\ u \in {0, 1}
             /\ BlockOf(d)' = BlockOf(d)
             /\ (Fresh(d) \/ Ahead(d)) /\ epBuf \in [{0, 1} -> Packet]
  <2>1. d' = d /\ u' = u /\ filled' = filled /\ pc \in FillSteps
    BY <1>7 DEF Header, Stamp, Copy, FillSteps
  <2> QED BY <1>0, <2>1 DEF FilledInv, TypeOK
<1>8. CASE Header
  <2> DEFINE hdr == [half |-> HalfOf(d), seq |-> sampleSeq[HalfOf(d)].seq,
                     oflow |-> sampleSeq[HalfOf(d)].oflow, sub |-> d[3]]
  <2>1. epBuf' = [epBuf EXCEPT ![u].hdr = hdr] /\ pc' = "stamp"
    BY <1>8 DEF Header
  <2>2. epBuf'[u].hdr = hdr
    <3> HIDE DEF hdr
    <3> QED BY <1>7, <1>8, <2>1 DEF Packet
  <2>3. ~hdr.oflow
    BY <1>7, <1>8 DEF StampInv
  <2>4. HeaderIs(epBuf'[u], d)
    BY <2>2, <2>3 DEF HeaderIs
  <2> QED BY <1>7, <1>8, <2>1, <2>4 DEF WorkInv, FillSteps, HeaderIs
<1>9. CASE Stamp
  <2>1. epBuf' = [epBuf EXCEPT ![u].ts = sampleTs[HalfOf(d)]] /\ pc' = "copy"
        /\ pc = "stamp"
    BY <1>9 DEF Stamp
  <2>2. epBuf'[u].hdr = epBuf[u].hdr /\ epBuf'[u].ts = sampleTs[HalfOf(d)]
    BY <1>7, <1>9, <2>1 DEF Packet
  <2>3. HeaderIs(epBuf'[u], d)
    BY <2>1, <2>2 DEF WorkInv, HeaderIs
  <2>4. epBuf'[u].ts \in ClockOf(BlockOf(d)')
    BY <1>7, <1>9, <2>2 DEF StampInv
  <2> QED BY <1>7, <1>9, <2>1, <2>3, <2>4 DEF WorkInv, FillSteps, HeaderIs, ClockOf
<1>10. CASE Copy
  <2>1. epBuf' = [epBuf EXCEPT ![u].data = Samples(d)] /\ pc' = "release"
        /\ pc = "copy"
    BY <1>10 DEF Copy
  <2>2. /\ epBuf'[u].hdr = epBuf[u].hdr /\ epBuf'[u].ts = epBuf[u].ts
        /\ epBuf'[u].data = Samples(d)
    BY <1>7, <1>10, <2>1 DEF Packet
  <2>3. HeaderIs(epBuf'[u], d)
    BY <2>1, <2>2 DEF WorkInv, HeaderIs
  <2>4. epBuf'[u].ts \in ClockOf(BlockOf(d)')
    BY <1>7, <1>10, <2>1, <2>2 DEF WorkInv
  <2>5. epBuf'[u].data = ChunkIn(d)'
    <3>1. Samples(d) = ChunkIn(d)
      BY <1>7, <1>10, ChunkIsIn
    <3> QED BY <1>7, <1>10, <2>2, <3>1 DEF ChunkIn
  <2> QED BY <1>7, <1>10, <2>1, <2>3, <2>4, <2>5
          DEF WorkInv, FillSteps, HeaderIs, ClockOf, ChunkIn
<1>11. CASE Release
  <2>1. pc' \notin FillSteps
    BY <1>11 DEF Release, FillSteps
  <2> QED BY <2>1 DEF WorkInv, FillSteps
<1> QED
  BY <1>1, <1>2, <1>3, <1>4, <1>5, <1>6, <1>8, <1>9, <1>10, <1>11
  DEF Next, SnifferTask

\* A buffer is full only after the release of a packet that describes its data;
\* the task writes into free buffers only.
LEMMA BufNext ==
  TypeOK /\ Timely /\ FilledInv /\ WorkInv /\ BufInv /\ FillsFreeBuffer
    /\ [Next]_vars => BufInv'
<1> SUFFICES ASSUME TypeOK, Timely, FilledInv, WorkInv, BufInv, FillsFreeBuffer,
                    [Next]_vars, NEW x \in {0, 1}, x \notin freeUsb'
             PROVE  Describes(epBuf'[x])
  BY DEF BufInv, Describes, Slot
<1> USE DEF dmaVars, isrVars, taskVars, taskRest, usbRest
<1>1. CASE UNCHANGED <<epBuf, freeUsb>>
  <2>1. epBuf' = epBuf /\ freeUsb' = freeUsb
    BY <1>1
  <2> QED BY <2>1 DEF BufInv
<1>2. ASSUME NEW c \in Channels, Capture(c) \/ TimDmaHandler(c)
      PROVE  UNCHANGED <<epBuf, freeUsb>>
  BY <1>2 DEF Capture, TimDmaHandler
<1>3. CASE HostIn \/ EpReset \/ UNCHANGED vars
  BY <1>1, <1>3 DEF HostIn, EpReset, vars
<1>4. CASE EpTx
  <2>1. epBuf' = epBuf /\ freeUsb \subseteq freeUsb'
    BY <1>4 DEF EpTx
  <2> QED BY <2>1 DEF BufInv
<1>5. CASE Wake \/ Loop \/ Scan \/ Consume
  BY <1>1, <1>5 DEF Wake, Loop, Scan, Consume
<1>6. CASE Header \/ Stamp \/ Copy
  <2>1. freeUsb' = freeUsb /\ pc \in FillSteps
    BY <1>6 DEF Header, Stamp, Copy, FillSteps
  <2>2. x # u
    BY <2>1 DEF FillsFreeBuffer
  <2>3. epBuf'[x] = epBuf[x]
    BY <1>6, <2>2 DEF Header, Stamp, Copy, TypeOK
  <2> QED BY <2>1, <2>3 DEF BufInv
<1>7. CASE Release
  <2>1. epBuf' = epBuf /\ freeUsb' = freeUsb \ {u} /\ pc = "release"
    BY <1>7 DEF Release
  <2>2. CASE x \notin freeUsb
    BY <2>1, <2>2 DEF BufInv
  <2>3. CASE x \in freeUsb
    <3>1. x = u
      BY <2>1, <2>3
    <3>2. d \in Slots /\ (Fresh(d) \/ Ahead(d))
      BY <2>1 DEF WorkInv, FillSteps, FilledInv, TypeOK
    <3>3. /\ HeaderIs(epBuf[u], d) /\ epBuf[u].ts \in ClockOf(BlockOf(d))
          /\ epBuf[u].data = ChunkIn(d)
      BY <2>1 DEF WorkInv
    <3> QED BY <2>1, <3>1, <3>2, <3>3, FilledDescribes
  <2> QED BY <2>2, <2>3
<1> QED
  BY <1>1, <1>2, <1>3, <1>4, <1>5, <1>6, <1>7 DEF Next, SnifferTask

\* The controller sends full buffers only.
LEMMA HostNext ==
  TypeOK /\ InPhase /\ BufInv /\ HostInv /\ [Next]_vars => HostInv'
<1> SUFFICES ASSUME TypeOK, InPhase, BufInv, HostInv, [Next]_vars,
                    NEW i \in 1 .. Len(host')
             PROVE  Describes(host'[i])
  BY DEF HostInv, Describes, Slot
<1> USE DEF dmaVars, isrVars, taskVars, epVars, taskRest, usbRest
<1>1. CASE UNCHANGED host
  BY <1>1 DEF HostInv
<1>2. CASE HostIn
  <2>1. CASE txCount = 0
    BY <1>1, <1>2, <2>1 DEF HostIn
  <2>2. CASE txCount # 0
    <3>1. host' = Append(host, epBuf[txAddr]) /\ host \in Seq(Packet)
          /\ epBuf[txAddr] \in Packet
      BY <1>2, <2>2 DEF HostIn, TypeOK
    <3>2. Describes(epBuf[txAddr])
      BY <2>2 DEF InPhase, BufInv, TypeOK
    <3>3. /\ Len(host') = Len(host) + 1 /\ Len(host) \in Nat
          /\ \A j \in 1 .. Len(host) : host'[j] = host[j]
          /\ host'[Len(host) + 1] = epBuf[txAddr]
      BY <3>1
    <3>4. i \in 1 .. Len(host) \/ i = Len(host) + 1
      BY <3>3
    <3> QED BY <3>2, <3>3, <3>4 DEF HostInv
  <2> QED BY <2>1, <2>2
<1>3. ASSUME NEW c \in Channels, Capture(c) \/ TimDmaHandler(c)
      PROVE  UNCHANGED host
  BY <1>3 DEF Capture, TimDmaHandler
<1>4. CASE SnifferTask
  BY <1>1, <1>4
  DEF SnifferTask, Wake, Loop, Scan, Header, Stamp, Copy, Release, Consume
<1>5. CASE EpTx \/ EpReset \/ UNCHANGED vars
  BY <1>1, <1>5 DEF EpTx, EpReset, vars
<1> QED BY <1>1, <1>2, <1>3, <1>4, <1>5 DEF Next

LEMMA InPhaseFills == DataInv /\ InPhase => FillsFreeBuffer
<1> SUFFICES ASSUME DataInv, InPhase, pc \in FillSteps PROVE u \in freeUsb
  BY DEF FillsFreeBuffer
<1>1. freeUsb \subseteq {0, 1} /\ freeUsb # {} /\ u \in {0, 1} /\ b \in {0, 1}
  BY DEF DataInv, TypeOK, SomeFree
<1>2. freeUsb \in {{0}, {1}, {0, 1}}
  BY <1>1
<1> QED BY <1>1, <1>2 DEF InPhase

LEMMA StreamInit == Init => StreamInv
<1> SUFFICES ASSUME Init PROVE StreamInv
  OBVIOUS
<1>1. filled = {} /\ pc = "wait" /\ freeUsb = {0, 1} /\ host = << >>
      /\ flags = [c \in Channels |-> {}]
  BY DEF Init
<1> QED BY <1>1 DEF StreamInv, FlagInv, FilledInv, StampInv, WorkInv, BufInv, HostInv,
                    FillSteps

LEMMA StreamNext ==
  ASSUME Timely
  PROVE  StreamInv /\ (DataInv /\ InPhase) /\ [Next]_vars => StreamInv'
BY Timely, FlagNext, FilledNext, StampNext, WorkNext, BufNext, HostNext,
   InPhaseFills DEF StreamInv, DataInv

\* Every packet the host receives is a captured chunk with the header and the
\* stamp of its half, although the task copies number, stamp and samples in
\* three steps, with interrupts between them: as long as the DMA engine does not
\* reach an unread sub-buffer and no bus reset arms a stale buffer.
THEOREM HeadersDescribeData ==
  ASSUME Timely, NoReset
  PROVE  Spec => []HeaderDescribesData
<1>1. StreamInv => HeaderDescribesData
  BY DEF StreamInv, HostInv, Describes, HeaderDescribesData
<1> QED BY <1>1, Timely, NoReset, StreamInit, StreamNext, AlwaysInPhase, PTL DEF Spec

-----------------------------------------------------------------------------
(* Each chunk is delivered once.                                           *)

(***************************************************************************)
(* A chunk is identified by its channel and its number.  Those of the      *)
(* blocks whose interrupt has run are old.  A chunk that is to be sent is  *)
(* in one place: a marked sub-buffer, until the task has released it, or a *)
(* full buffer, until the controller has sent it and EpTx has still to     *)
(* free it; or the host has it.                                            *)
(***************************************************************************)
Served(c) == IF flags[c] = {} THEN Block(c) ELSE Block(c) - 1
OldIds    == {x \in Channels \X Nat : x[2] >= 1 /\ x[2] <= NSub * Served(x[1])}

Id(p)     == <<p.hdr.half[1], p.data>>
ChunkId(s) == <<s[1], ChunkIn(s)>>

ToCopy(s) == s \in filled /\ ~(pc = "consume" /\ s = d)
Waits(x)  == x \notin freeUsb /\ ~(x = b /\ txIrq /\ txCount # 0)
Heard(n)  == \E i \in 1 .. Len(host) : Id(host[i]) = n

OldInv ==
  /\ \A x \in {0, 1} : Waits(x) => Id(epBuf[x]) \in OldIds
  /\ \A n : Heard(n) => n \in OldIds

ApartInv ==
  /\ \A x \in {0, 1} : Waits(x) => ~Heard(Id(epBuf[x]))
  /\ Waits(0) /\ Waits(1) => Id(epBuf[0]) # Id(epBuf[1])
  /\ \A s \in Slots : ToCopy(s) =>
       ~Heard(ChunkId(s)) /\ \A x \in {0, 1} : Waits(x) => Id(epBuf[x]) # ChunkId(s)

OnceInv == OldInv /\ ApartInv

\* No chunk becomes new again.
LEMMA OldStays ==
  ASSUME TypeOK, FlagInv, [Next]_vars
  PROVE  OldIds \subseteq OldIds'
<1> SUFFICES ASSUME NEW n \in OldIds PROVE n \in OldIds'
  OBVIOUS
<1> DEFINE c == n[1]
<1>1. c \in Channels /\ n \in Channels \X Nat /\ n[2] >= 1 /\ n[2] <= NSub * Served(c)
  BY DEF OldIds
<1>2. /\ Served(c) \in Int /\ Served(c)' \in Int /\ Served(c) <= Served(c)'
      /\ NSub \in Nat
  <2> HIDE DEF c
  <2>1. Block(c) \in Nat /\ NSub \in Nat
    BY <1>1, BlockType
  <2>2. CASE Capture(c)
    <3>1. \/ Block(c)' = Block(c) /\ flags'[c] = flags[c]
          \/ Block(c)' = Block(c) + 1 /\ flags[c] = {} /\ flags'[c] # {}
      BY <1>1, <2>2, CaptureEffect DEF HalfFlags
    <3> QED BY <2>1, <3>1 DEF Served
  <2>3. CASE TimDmaHandler(c)
    BY <1>1, <2>1, <2>3, HandlerEffect DEF Served
  <2>4. CASE ~Capture(c) /\ ~TimDmaHandler(c)
    BY <1>1, <2>1, <2>4, PositionsKept DEF Served
  <2> QED BY <2>2, <2>3, <2>4
<1>3. NSub * Served(c) <= NSub * Served(c)'
  <2> DEFINE v == Served(c)
             w == Served(c)'
  <2> HIDE DEF v, w
  <2>1. v \in Int /\ w \in Int /\ v <= w /\ NSub \in Nat
    BY <1>2 DEF v, w
  <2>2. NSub * v <= NSub * w
    BY <2>1
  <2> QED BY <2>2 DEF v, w
<1>4. NSub * Served(c) \in Int /\ NSub * Served(c)' \in Int
  <2> DEFINE v == Served(c)
             w == Served(c)'
  <2>1. v \in Int /\ w \in Int /\ NSub \in Int
    BY <1>2
  <2> HIDE DEF v, w
  <2>2. NSub * v \in Int /\ NSub * w \in Int
    BY <2>1
  <2> QED BY <2>2 DEF v, w
<1>5. n[2] <= NSub * Served(c)'
  <2> DEFINE v == NSub * Served(c)
             w == NSub * Served(c)'
  <2>1. v \in Int /\ w \in Int /\ v <= w /\ n[2] \in Int /\ n[2] <= v
    BY <1>1, <1>3, <1>4
  <2> HIDE DEF v, w
  <2>2. n[2] <= w
    BY <2>1
  <2> QED BY <2>2 DEF w
<1> QED BY <1>1, <1>5 DEF OldIds

\* A marked sub-buffer holds an old chunk, and no two hold the same.
LEMMA MarkedIsOld ==
  ASSUME TypeOK, NEW s \in Slots, Fresh(s) \/ Ahead(s)
  PROVE  ChunkId(s) \in OldIds
<1> DEFINE c == s[1]
           k == BlockOf(s)
           v == Served(c)
<1>1. /\ c \in Channels /\ s[2] \in {0, 1} /\ s[3] \in 0 .. NSub - 1
      /\ NSub \in Nat /\ NSub > 0 /\ Block(c) \in Nat /\ k \in Nat
  BY BlockType, ChunkIsIn DEF Slots
<1>2. k + 1 <= v /\ v \in Int
  BY <1>1 DEF BlockOf, Fresh, Ahead, Served
<1> HIDE DEF c, k, v
<1>3. NSub * k + NSub <= NSub * v /\ NSub * k \in Nat /\ NSub * v \in Int
  <2>1. NSub * (k + 1) <= NSub * v
    BY <1>1, <1>2
  <2>2. NSub * (k + 1) = NSub * k + NSub /\ NSub * k \in Nat /\ NSub * v \in Int
    BY <1>1, <1>2
  <2> QED BY <2>1, <2>2
<1>4. ChunkId(s) = <<c, NSub * k + s[3] + 1>>
  BY DEF ChunkId, ChunkIn, c, k
<1>5. NSub * k + s[3] + 1 \in Nat /\ NSub * k + s[3] + 1 >= 1
      /\ NSub * k + s[3] + 1 <= NSub * v
  <2> DEFINE nk == NSub * k
             nv == NSub * v
  <2>1. nk + NSub <= nv /\ nk \in Nat /\ nv \in Int
    BY <1>3
  <2> HIDE DEF nk, nv
  <2>2. nk + s[3] + 1 \in Nat /\ nk + s[3] + 1 >= 1 /\ nk + s[3] + 1 <= nv
    BY <1>1, <2>1
  <2> QED BY <2>2 DEF nk, nv
<1> QED BY <1>1, <1>4, <1>5 DEF OldIds, v

LEMMA MarkedApart ==
  ASSUME TypeOK, NEW s \in Slots, NEW r \in Slots, Fresh(s) \/ Ahead(s),
         Fresh(r) \/ Ahead(r), ChunkId(s) = ChunkId(r)
  PROVE  s = r
<1> DEFINE k == BlockOf(s)
           l == BlockOf(r)
<1>1. /\ s[3] \in 0 .. NSub - 1 /\ r[3] \in 0 .. NSub - 1 /\ NSub \in Nat /\ NSub > 0
      /\ s = <<s[1], s[2], s[3]>> /\ r = <<r[1], r[2], r[3]>>
      /\ k \in Nat /\ l \in Nat /\ k % 2 = s[2] /\ l % 2 = r[2]
  BY ChunkIsIn, SizesAssumption DEF Slots
<1>2. s[1] = r[1] /\ NSub * k + s[3] + 1 = NSub * l + r[3] + 1
  BY DEF ChunkId, ChunkIn
<1> HIDE DEF k, l
<1>3. NSub * k + s[3] = NSub * l + r[3]
  <2>1. NSub * k \in Int /\ NSub * l \in Int
    BY <1>1
  <2> QED BY <1>1, <1>2, <2>1
<1>4. k = l /\ s[3] = r[3]
  <2>1. (NSub * k + s[3]) \div NSub = k /\ (NSub * k + s[3]) % NSub = s[3]
    BY <1>1, DivUnique
  <2>2. (NSub * l + r[3]) \div NSub = l /\ (NSub * l + r[3]) % NSub = r[3]
    BY <1>1, DivUnique
  <2> QED BY <1>3, <2>1, <2>2
<1> QED BY <1>1, <1>2, <1>4

\* What the interrupt marks is new.
LEMMA NewlyMarked ==
  ASSUME TypeOK, FlagInv, FilledInv, NEW c \in Channels, TimDmaHandler(c),
         NEW s \in filled', s \notin filled
  PROVE  ChunkId(s) \notin OldIds
<1> SUFFICES ASSUME ChunkId(s) \in OldIds PROVE FALSE
  OBVIOUS
<1> DEFINE v == Served(c)
<1>1. s \in Slots /\ s[1] = c /\ BlockOf(s) = Block(c) - 1
  BY HandlerKeeps DEF HalfOf, Slots
<1>2. v = Block(c) - 1 /\ v \in Int /\ NSub \in Nat
  BY HandlerEffect, BlockType DEF Served
<1>3. ChunkIn(s) <= NSub * v /\ ChunkIn(s) = NSub * v + s[3] + 1
  BY <1>1, <1>2 DEF OldIds, ChunkId, ChunkIn
<1>4. s[3] \in 0 .. NSub - 1 /\ NSub * v \in Int
  <2>1. s[3] \in 0 .. NSub - 1
    BY <1>1 DEF Slots
  <2> HIDE DEF v
  <2> QED BY <2>1, <1>2
<1> HIDE DEF v
<1> QED BY <1>2, <1>3, <1>4

\* The chunk of a marked sub-buffer does not change.
LEMMA ChunkStays ==
  ASSUME TypeOK, Timely, FlagInv, FilledInv, [Next]_vars, NEW s \in filled'
  PROVE  /\ s \in Slots /\ ChunkId(s)' = ChunkId(s)
         /\ s \notin filled => ChunkId(s) \notin OldIds
<1>1. CASE \E c \in Channels : TimDmaHandler(c)
  <2>1. PICK c \in Channels : TimDmaHandler(c)
    BY <1>1
  <2>2. s \in Slots /\ BlockOf(s)' = BlockOf(s)
    BY <2>1, HandlerKeeps
  <2> QED BY <2>1, <2>2, NewlyMarked DEF ChunkId, ChunkIn
<1>2. CASE \A c \in Channels : ~TimDmaHandler(c)
  <2>1. s \in filled
    BY <1>2, FilledShrinks
  <2>2. BlockOf(s)' = BlockOf(s)
    BY <2>1, FilledNext
  <2> QED BY <2>1, <2>2 DEF ChunkId, ChunkIn, TypeOK
<1> QED BY <1>1, <1>2

\* A step that delivers nothing, fills no buffer and only marks what is new.
LEMMA NothingMoves ==
  ASSUME OnceInv, OldIds \subseteq OldIds', host' = host,
         \A x \in {0, 1} : Waits(x)' => Waits(x) /\ epBuf'[x] = epBuf[x],
         \A s \in Slots : ToCopy(s)' => /\ ChunkId(s)' = ChunkId(s)
                                        /\ ToCopy(s) \/ ChunkId(s) \notin OldIds
  PROVE  OnceInv'
<1>1. \A n : Heard(n)' <=> Heard(n)
  BY DEF Heard, Id
<1>2. \A x \in {0, 1} : Waits(x)' => Id(epBuf[x])' = Id(epBuf[x])
  BY DEF Id
<1>3. OldInv'
  <2>1. \A n : Heard(n)' => n \in OldIds'
    BY <1>1 DEF OnceInv, OldInv
  <2>2. \A x \in {0, 1} : Waits(x)' => Id(epBuf[x])' \in OldIds'
    BY <1>2 DEF OnceInv, OldInv
  <2> QED BY <2>1, <2>2 DEF OldInv, Heard
<1>4. ApartInv'
  <2>1. ASSUME NEW x \in {0, 1}, Waits(x)' PROVE ~Heard(Id(epBuf[x]))'
    <3>1. epBuf'[x] = epBuf[x] /\ ~Heard(Id(epBuf[x]))
      BY <2>1 DEF OnceInv, ApartInv
    <3> QED BY <3>1 DEF Heard, Id
  <2>2. Waits(0)' /\ Waits(1)' => Id(epBuf[0])' # Id(epBuf[1])'
    BY <1>2 DEF OnceInv, ApartInv
  <2>3. ASSUME NEW s \in Slots, ToCopy(s)'
        PROVE  /\ ~Heard(ChunkId(s))'
               /\ \A x \in {0, 1} : Waits(x)' => Id(epBuf[x])' # ChunkId(s)'
    <3>1. ChunkId(s)' = ChunkId(s) /\ (ToCopy(s) \/ ChunkId(s) \notin OldIds)
      BY <2>3
    <3>2. ~Heard(ChunkId(s))
      BY <3>1 DEF OnceInv, OldInv, ApartInv
    <3>3. ~Heard(ChunkId(s))'
      BY <3>1, <3>2 DEF Heard, Id
    <3>4. ASSUME NEW x \in {0, 1}, Waits(x)' PROVE Id(epBuf[x])' # ChunkId(s)'
      <4>1. Id(epBuf[x])' = Id(epBuf[x]) /\ Waits(x)
        BY <1>2, <3>4
      <4> QED BY <3>1, <4>1 DEF OnceInv, OldInv, ApartInv
    <3> QED BY <3>3, <3>4
  <2> QED BY <2>1, <2>2, <2>3 DEF ApartInv
<1> QED BY <1>3, <1>4 DEF OnceInv

\* The release: the packet has the chunk of sub-buffer d, which is not to be copied
\* any more.
LEMMA ReleaseOnce ==
  ASSUME TypeOK, FilledInv, WorkInv, InPhase, FillsFreeBuffer, OnceInv,
         OldIds \subseteq OldIds', Release,
         \A s \in filled' : ChunkId(s)' = ChunkId(s)
  PROVE  OnceInv'
<1>1. /\ pc = "release" /\ pc' = "consume" /\ d' = d /\ epBuf' = epBuf /\ filled' = filled
      /\ freeUsb' = freeUsb \ {u} /\ host' = host /\ b' = b /\ txIrq' = txIrq
      /\ txCount' = txCount /\ u \in freeUsb /\ u \in {0, 1}
  BY DEF Release, taskRest, epVars, FillsFreeBuffer, FillSteps, TypeOK
<1>2. d \in filled /\ d \in Slots /\ (Fresh(d) \/ Ahead(d)) /\ ToCopy(d)
  BY <1>1 DEF WorkInv, FillSteps, FilledInv, TypeOK, ToCopy
<1>3. Id(epBuf[u]) = ChunkId(d)
  BY <1>1 DEF WorkInv, HeaderIs, HalfOf, Id, ChunkId
<1>4. \A x \in {0, 1} : Waits(x)' => x = u \/ Waits(x)
  BY <1>1 DEF Waits
<1>5. \A n : Heard(n)' <=> Heard(n)
  BY <1>1 DEF Heard, Id
<1>6. /\ ~Heard(ChunkId(d)) /\ ChunkId(d) \in OldIds
      /\ \A x \in {0, 1} : Waits(x) => Id(epBuf[x]) # ChunkId(d)
  BY <1>2, MarkedIsOld DEF OnceInv, ApartInv
<1>7. \A x \in {0, 1} : Id(epBuf[x])' = Id(epBuf[x])
  BY <1>1 DEF Id
<1>8. OldInv'
  <2>1. \A x \in {0, 1} : Waits(x)' => Id(epBuf[x])' \in OldIds'
    BY <1>3, <1>4, <1>6, <1>7 DEF OnceInv, OldInv
  <2>2. \A n : Heard(n)' => n \in OldIds'
    BY <1>5 DEF OnceInv, OldInv
  <2> QED BY <2>1, <2>2 DEF OldInv, Heard
<1>9. ApartInv'
  <2>1. ASSUME NEW x \in {0, 1}, Waits(x)' PROVE ~Heard(Id(epBuf[x]))'
    <3>1. ~Heard(Id(epBuf[x]))
      BY <1>3, <1>4, <1>6, <2>1 DEF OnceInv, ApartInv
    <3> QED BY <1>1, <3>1 DEF Heard, Id
  <2>2. ASSUME Waits(0)', Waits(1)' PROVE Id(epBuf[0])' # Id(epBuf[1])'
    <3>1. Waits(1 - u) /\ 1 - u \in {0, 1}
      BY <1>1, <1>4, <2>2
    <3>2. Id(epBuf[1 - u]) # Id(epBuf[u])
      BY <1>3, <1>6, <3>1
    <3>3. u = 0 \/ u = 1
      BY <1>1
    <3> QED BY <1>7, <3>2, <3>3
  <2>3. ASSUME NEW s \in Slots, ToCopy(s)'
        PROVE  /\ ~Heard(ChunkId(s))'
               /\ \A x \in {0, 1} : Waits(x)' => Id(epBuf[x])' # ChunkId(s)'
    <3>1. s # d /\ s \in filled /\ ToCopy(s) /\ ChunkId(s)' = ChunkId(s)
      BY <1>1, <2>3 DEF ToCopy
    <3>2. ~Heard(ChunkId(s))
      BY <3>1 DEF OnceInv, ApartInv
    <3>3. ~Heard(ChunkId(s))'
      BY <1>1, <3>1, <3>2 DEF Heard, Id
    <3>4. ChunkId(s) # ChunkId(d)
      BY <1>2, <3>1, MarkedApart DEF FilledInv
    <3>5. ASSUME NEW x \in {0, 1}, Waits(x)' PROVE Id(epBuf[x])' # ChunkId(s)'
      BY <1>3, <1>4, <1>7, <3>1, <3>4, <3>5 DEF OnceInv, ApartInv
    <3> QED BY <3>3, <3>5
  <2> QED BY <2>1, <2>2, <2>3 DEF ApartInv
<1> QED BY <1>8, <1>9 DEF OnceInv

\* The controller sends buffer b, which waits until then and not any more.
LEMMA DeliveryIs ==
  ASSUME TypeOK, InPhase, HostIn, txCount # 0
  PROVE  /\ Waits(b) /\ b \in {0, 1} /\ host' = Append(host, epBuf[b])
         /\ epBuf' = epBuf
         /\ \A x \in {0, 1} : Waits(x)' => Waits(x) /\ x # b
         /\ \A n : Heard(n)' <=> Heard(n) \/ n = Id(epBuf[b])
<1>1. /\ txValid /\ txIrq' = TRUE /\ host' = Append(host, epBuf[txAddr]) /\ epBuf' = epBuf
      /\ freeUsb' = freeUsb /\ b' = b /\ txCount' = txCount
  BY DEF HostIn, usbRest, taskVars
<1>2. txAddr = b /\ b \notin freeUsb /\ ~txIrq /\ b \in {0, 1}
  BY <1>1 DEF InPhase, TypeOK
<1>3. Waits(b)
  BY <1>1, <1>2 DEF Waits
<1>4. \A x \in {0, 1} : Waits(x)' => Waits(x) /\ x # b
  BY <1>1, <1>2 DEF Waits
<1>5. ASSUME NEW n PROVE Heard(n)' <=> Heard(n) \/ n = Id(epBuf[b])
  <2>1. host \in Seq(Packet) /\ epBuf[b] \in Packet /\ host' = Append(host, epBuf[b])
    BY <1>1, <1>2 DEF TypeOK
  <2>2. /\ Len(host) \in Nat /\ Len(host') = Len(host) + 1
        /\ \A i \in 1 .. Len(host) : host'[i] = host[i]
        /\ host'[Len(host) + 1] = epBuf[b]
    BY <2>1
  <2>3. \A i \in 1 .. Len(host') : i \in 1 .. Len(host) \/ i = Len(host) + 1
    BY <2>2
  <2>4. Heard(n) => Heard(n)'
    BY <2>2 DEF Heard, Id
  <2>5. n = Id(epBuf[b]) => Heard(n)'
    BY <2>2 DEF Heard, Id
  <2>6. Heard(n)' => Heard(n) \/ n = Id(epBuf[b])
    BY <2>2, <2>3 DEF Heard, Id
  <2> QED BY <2>4, <2>5, <2>6
<1> QED BY <1>1, <1>2, <1>3, <1>4, <1>5

LEMMA DeliveryOnce ==
  ASSUME TypeOK, InPhase, OnceInv, OldIds \subseteq OldIds', HostIn, txCount # 0,
         \A s \in filled' : ChunkId(s)' = ChunkId(s)
  PROVE  OnceInv'
<1>1. /\ Waits(b) /\ b \in {0, 1} /\ epBuf' = epBuf
      /\ \A x \in {0, 1} : Waits(x)' => Waits(x) /\ x # b
      /\ \A n : Heard(n)' <=> Heard(n) \/ n = Id(epBuf[b])
  BY DeliveryIs
<1>2. filled' = filled /\ pc' = pc /\ d' = d
  BY DEF HostIn, usbRest, taskVars
<1>3. \A x \in {0, 1} : Id(epBuf[x])' = Id(epBuf[x])
  BY <1>1 DEF Id
<1>4. \A x \in {0, 1} : Waits(x)' => Id(epBuf[x]) # Id(epBuf[b])
  <2>1. ASSUME NEW x \in {0, 1}, Waits(x)' PROVE Id(epBuf[x]) # Id(epBuf[b])
    <3>1. x # b /\ Waits(x)
      BY <1>1, <2>1
    <3>2. (x = 0 /\ b = 1) \/ (x = 1 /\ b = 0)
      BY <1>1, <3>1
    <3> QED BY <1>1, <3>1, <3>2 DEF OnceInv, ApartInv
  <2> QED BY <2>1
<1>5. OldInv'
  <2>1. \A x \in {0, 1} : Waits(x)' => Id(epBuf[x])' \in OldIds'
    BY <1>1, <1>3 DEF OnceInv, OldInv
  <2>2. \A n : Heard(n)' => n \in OldIds'
    BY <1>1 DEF OnceInv, OldInv
  <2> QED BY <2>1, <2>2 DEF OldInv, Heard
<1>6. ApartInv'
  <2>1. ASSUME NEW x \in {0, 1}, Waits(x)' PROVE ~Heard(Id(epBuf[x]))'
    <3>1. Waits(x) /\ ~Heard(Id(epBuf[x])) /\ Id(epBuf[x]) # Id(epBuf[b])
      BY <1>1, <1>4, <2>1 DEF OnceInv, ApartInv
    <3>2. PICK k : k = Id(epBuf[x])
      OBVIOUS
    <3>3. ~Heard(k)'
      BY <1>1, <3>1, <3>2
    <3> QED BY <1>3, <3>2, <3>3 DEF Heard
  <2>2. Waits(0)' /\ Waits(1)' => Id(epBuf[0])' # Id(epBuf[1])'
    BY <1>1, <1>3 DEF OnceInv, ApartInv
  <2>3. ASSUME NEW s \in Slots, ToCopy(s)'
        PROVE  /\ ~Heard(ChunkId(s))'
               /\ \A x \in {0, 1} : Waits(x)' => Id(epBuf[x])' # ChunkId(s)'
    <3>1. ToCopy(s) /\ ChunkId(s)' = ChunkId(s)
      BY <1>2, <2>3 DEF ToCopy
    <3>2. ~Heard(ChunkId(s)) /\ \A x \in {0, 1} : Waits(x) => Id(epBuf[x]) # ChunkId(s)
      BY <3>1 DEF OnceInv, ApartInv
    <3>3. PICK k : k = ChunkId(s)
      OBVIOUS
    <3>4. ~Heard(k)'
      BY <1>1, <3>2, <3>3
    <3>5. ~Heard(ChunkId(s))'
      BY <3>1, <3>3, <3>4 DEF Heard
    <3> QED BY <1>1, <1>3, <3>1, <3>2, <3>5
  <2> QED BY <2>1, <2>2, <2>3 DEF ApartInv
<1> QED BY <1>5, <1>6 DEF OnceInv

LEMMA OnceNext ==
  ASSUME NoReset
  PROVE  Timely /\ DataInv /\ InPhase /\ StreamInv /\ OnceInv /\ [Next]_vars => OnceInv'
<1> SUFFICES ASSUME Timely, DataInv, InPhase, StreamInv, OnceInv, [Next]_vars
             PROVE  OnceInv'
  OBVIOUS
<1>0. /\ TypeOK /\ FlagInv /\ FilledInv /\ WorkInv /\ FillsFreeBuffer
      /\ OldIds \subseteq OldIds'
  BY OldStays, InPhaseFills DEF StreamInv, DataInv
<1>1. \A s \in filled' : /\ s \in Slots /\ ChunkId(s)' = ChunkId(s)
                         /\ s \notin filled => ChunkId(s) \notin OldIds
  BY <1>0, ChunkStays
<1>2. ASSUME host' = host,
             \A x \in {0, 1} : Waits(x)' => Waits(x) /\ epBuf'[x] = epBuf[x],
             \A s \in filled : ToCopy(s)' => ToCopy(s)
      PROVE  OnceInv'
  <2>1. \A s \in Slots : ToCopy(s)' => /\ ChunkId(s)' = ChunkId(s)
                                       /\ ToCopy(s) \/ ChunkId(s) \notin OldIds
    BY <1>1, <1>2 DEF ToCopy
  <2> QED BY <1>0, <1>2, <2>1, NothingMoves
<1> USE DEF dmaVars, isrVars, taskVars, epVars, taskRest, usbRest
<1>3. ASSUME NEW c \in Channels, Capture(c) \/ TimDmaHandler(c) PROVE OnceInv'
  <2>1. UNCHANGED <<host, epBuf, freeUsb, b, txIrq, txCount, pc, d>>
    BY <1>3 DEF Capture, TimDmaHandler
  <2>2. \A x \in {0, 1} : Waits(x)' => Waits(x) /\ epBuf'[x] = epBuf[x]
    BY <2>1 DEF Waits
  <2> QED BY <1>2, <2>1, <2>2 DEF ToCopy
<1>4. CASE Wake \/ Loop \/ Scan \/ Consume
  <2>1. /\ UNCHANGED <<host, epBuf, freeUsb, b, txIrq, txCount>>
        /\ filled' \subseteq filled /\ (pc = "consume" => filled' = filled \ {d})
    BY <1>4 DEF Wake, Loop, Scan, Consume, FilledAfter
  <2>2. \A x \in {0, 1} : Waits(x)' => Waits(x) /\ epBuf'[x] = epBuf[x]
    BY <2>1 DEF Waits
  <2>3. \A s \in filled : ToCopy(s)' => ToCopy(s)
    BY <2>1 DEF ToCopy
  <2> QED BY <1>2, <2>1, <2>2, <2>3
<1>5. CASE Header \/ Stamp \/ Copy
  <2>1. /\ UNCHANGED <<host, freeUsb, b, txIrq, txCount, filled, d>>
        /\ pc \in FillSteps /\ pc # "consume"
        /\ \A x \in {0, 1} : x # u => epBuf'[x] = epBuf[x]
    BY <1>0, <1>5 DEF Header, Stamp, Copy, FillSteps, TypeOK
  <2>2. \A x \in {0, 1} : Waits(x)' => Waits(x) /\ epBuf'[x] = epBuf[x]
    BY <1>0, <2>1 DEF Waits, FillsFreeBuffer
  <2> QED BY <1>2, <2>1, <2>2 DEF ToCopy
<1>6. CASE Release
  BY <1>0, <1>1, <1>6, ReleaseOnce
<1>7. CASE HostIn
  <2>1. CASE txCount = 0
    <3>1. UNCHANGED <<host, epBuf, freeUsb, b, txCount, filled, pc, d>>
      BY <1>7, <2>1 DEF HostIn
    <3>2. \A x \in {0, 1} : Waits(x)' => Waits(x) /\ epBuf'[x] = epBuf[x]
      BY <2>1, <3>1 DEF Waits
    <3> QED BY <1>2, <3>1, <3>2 DEF ToCopy
  <2>2. CASE txCount # 0
    BY <1>0, <1>1, <1>7, <2>2, DeliveryOnce
  <2> QED BY <2>1, <2>2
<1>8. CASE EpTx
  <2>1. UNCHANGED <<host, epBuf, filled, pc, d>>
    BY <1>8 DEF EpTx
  <2>2. ASSUME NEW x \in {0, 1}, Waits(x)' PROVE Waits(x)
    <3>1. CASE txCount # 0
      BY <1>8, <2>2, <3>1 DEF EpTx, Waits
    <3>2. CASE txCount = 0
      BY <1>8, <2>2, <3>2 DEF EpTx, Waits
    <3> QED BY <3>1, <3>2
  <2> QED BY <1>2, <2>1, <2>2 DEF ToCopy
<1>9. ~EpReset
  BY <1>0, NoReset DEF EpReset, TypeOK, NoReset
<1>10. CASE UNCHANGED vars
  <2>1. UNCHANGED <<host, epBuf, freeUsb, b, txIrq, txCount, filled, pc, d>>
    BY <1>10 DEF vars
  <2> QED BY <1>2, <2>1 DEF ToCopy, Waits
<1> QED BY <1>3, <1>4, <1>5, <1>6, <1>7, <1>8, <1>9, <1>10 DEF Next, SnifferTask

\* A step delivers a chunk that is available and not delivered yet, or none.
LEMMA StepOfStream ==
  ASSUME NoReset
  PROVE  DataInv /\ InPhase /\ OnceInv /\ [Next]_vars
           => [Stream!Next]_<<captured, Delivered>>
<1> SUFFICES ASSUME DataInv, InPhase, OnceInv, [Next]_vars
             PROVE  Stream!Next \/ UNCHANGED <<captured, Delivered>>
  OBVIOUS
<1>0. TypeOK
  BY DEF DataInv
<1> USE DEF dmaVars, isrVars, taskVars, epVars, taskRest, usbRest
<1>1. host' = host => Delivered' = Delivered
  BY DEF Delivered
<1>2. ASSUME NEW c \in Channels, Capture(c) PROVE Stream!Next
  <2>1. /\ host' = host /\ captured' = [captured EXCEPT ![c] = captured[c] + 1]
        /\ captured[c] + 1 <= MaxChunks[c]
    BY <1>2 DEF Capture
  <2>2. captured[c] \in Nat /\ MaxChunks[c] \in Nat
    BY <1>0, SizesAssumption DEF TypeOK
  <2>3. captured[c] < MaxChunks[c]
    BY <2>1, <2>2
  <2>4. Stream!Capture(c)
    BY <1>1, <2>1, <2>3 DEF Stream!Capture
  <2> QED BY <2>4 DEF Stream!Next
<1>3. ASSUME NEW c \in Channels, TimDmaHandler(c)
      PROVE  UNCHANGED <<captured, Delivered>>
  BY <1>1, <1>3 DEF TimDmaHandler
<1>4. CASE SnifferTask
  BY <1>1, <1>4
  DEF SnifferTask, Wake, Loop, Scan, Header, Stamp, Copy, Release, Consume
<1>5. CASE EpTx \/ EpReset \/ UNCHANGED vars
  BY <1>1, <1>5 DEF EpTx, EpReset, vars
<1>6. CASE HostIn /\ txCount = 0
  BY <1>1, <1>6 DEF HostIn
<1>7. CASE HostIn /\ txCount # 0
  <2> DEFINE p == epBuf[b]
             c == p.hdr.half[1]
             n == p.data
  <2>1. Waits(b) /\ b \in {0, 1} /\ host' = Append(host, p) /\ captured' = captured
    BY <1>0, <1>7, DeliveryIs DEF HostIn
  <2>2. <<c, n>> \in OldIds /\ ~Heard(<<c, n>>)
    BY <2>1 DEF OnceInv, OldInv, ApartInv, Id
  <2>3. p \in Packet /\ host \in Seq(Packet)
    BY <1>0, <2>1 DEF TypeOK
  <2> HIDE DEF p
  <2>4. c \in Channels /\ n \in Nat /\ n >= 1 /\ n <= NSub * Served(c)
    BY <2>2 DEF OldIds
  <2>5. n \in 1 .. Stream!Available(c)
    <3> HIDE DEF c, n
    <3>1. Block(c) \in Nat /\ NSub \in Nat
      BY <1>0, <2>4, BlockType
    <3>2. Served(c) \in Int /\ Served(c) <= Block(c)
      BY <3>1 DEF Served
    <3> DEFINE v == Served(c)
               w == Block(c)
    <3>3. v \in Int /\ w \in Int /\ v <= w /\ n <= NSub * v
      BY <2>4, <3>1, <3>2
    <3>4. Stream!Available(c) = w * NSub
      BY DEF Stream!Available, Block
    <3> HIDE DEF v, w
    <3>5. NSub * v <= NSub * w /\ NSub * v \in Int /\ NSub * w \in Int
          /\ w * NSub = NSub * w
      BY <3>1, <3>3
    <3> QED BY <2>4, <3>3, <3>4, <3>5
  <2>6. \A i \in 1 .. Len(Delivered) : Delivered[i] # <<c, n>>
    <3>1. Len(Delivered) = Len(host)
      BY <2>3 DEF Delivered
    <3> HIDE DEF c, n
    <3> QED BY <2>2, <3>1 DEF Delivered, Heard, Id
  <2>7. Delivered' = Append(Delivered, <<c, n>>)
    <3>1. /\ Len(host) \in Nat /\ Len(host') = Len(host) + 1
          /\ \A i \in 1 .. Len(host) : host'[i] = host[i]
          /\ host'[Len(host) + 1] = p
      BY <2>1, <2>3
    <3> DEFINE id(q) == <<q.hdr.half[1], q.data>>
    <3>2. Delivered = [i \in 1 .. Len(host) |-> id(host[i])]
          /\ Delivered' = [i \in 1 .. Len(host') |-> id(host'[i])] /\ id(p) = <<c, n>>
      BY DEF Delivered
    <3> HIDE DEF id, c, n
    <3>3. /\ Delivered \in Seq({id(host[i]) : i \in 1 .. Len(host)})
          /\ Len(Delivered) = Len(host)
      BY <3>1, <3>2
    <3>4. Delivered' = [i \in 1 .. Len(host) + 1 |->
                          IF i <= Len(host) THEN id(host[i]) ELSE <<c, n>>]
      BY <3>1, <3>2
    <3>5. Append(Delivered, <<c, n>>) = [i \in 1 .. Len(host) + 1 |->
                          IF i <= Len(host) THEN id(host[i]) ELSE <<c, n>>]
      BY <3>1, <3>2, <3>3
    <3> QED BY <3>4, <3>5
  <2>8. Stream!Deliver(c)
    <3> HIDE DEF c, n
    <3> QED BY <2>1, <2>5, <2>6, <2>7 DEF Stream!Deliver
  <2> QED BY <2>4, <2>8 DEF Stream!Next
<1> QED BY <1>2, <1>3, <1>4, <1>5, <1>6, <1>7 DEF Next

\* The host is given every chunk at most once, and none before its half is complete,
\* with any number of sub-buffers and chunks and however the interrupts, the task and
\* the endpoint interleave: CaptureStream without its liveness.
THEOREM DeliversOnce ==
  ASSUME Timely, NoReset
  PROVE  Spec => StreamSafety
<1>1. Init => OnceInv
  <2> SUFFICES ASSUME Init PROVE OnceInv
    OBVIOUS
  <2>1. filled = {} /\ freeUsb = {0, 1} /\ host = << >>
    BY DEF Init
  <2>2. \A n : ~Heard(n)
    BY <2>1 DEF Heard
  <2> QED BY <2>1, <2>2 DEF OnceInv, OldInv, ApartInv, Waits, ToCopy
<1>2. Init => Stream!Init
  BY DEF Init, Stream!Init, Delivered
<1>3. Spec => [](DataInv /\ InPhase /\ StreamInv /\ OnceInv)
  BY <1>1, Timely, NoReset, StreamInit, StreamNext, OnceNext, AlwaysInPhase, PTL DEF Spec
<1>4. DataInv /\ InPhase /\ OnceInv /\ [Next]_vars
        => [Stream!Next]_<<captured, Delivered>>
  BY NoReset, StepOfStream
<1> QED BY <1>2, <1>3, <1>4, PTL DEF Spec, StreamSafety, Stream!Safety
=============================================================================
