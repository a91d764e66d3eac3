------------------------------ MODULE Sniffer ------------------------------
(***************************************************************************)
(* The capture pipeline of the sniffer, board/twinkie/sniffer.c: the DMA   *)
(* engine writes edge times into a circular buffer per CC channel, its     *)
(* half-transfer and transfer-complete interrupts mark the sub-buffers of  *)
(* a half as filled, the SNIFFER task copies filled sub-buffers into a     *)
(* double buffer in USB memory, and the IN endpoint of the USB controller  *)
(* hands that double buffer to the host.                                   *)
(*                                                                         *)
(* Four actors interleave: the DMA engine and the host (hardware, at any   *)
(* time), the interrupt handlers (atomic with respect to the task and to   *)
(* each other, they have the same priority) and the task, whose every      *)
(* access to shared state is a step of its own.                            *)
(*                                                                         *)
(* A sub-buffer of samples is abstracted to the number of the chunk of     *)
(* edges it holds: the first chunk a channel captures is 1, and chunk n    *)
(* lives in slot (n-1) % (2 * NSub) of that channel.  Time is abstracted   *)
(* to the number of chunks captured so far.  trace_mode is OFF: the branch *)
(* of sniffer_task for the packet tracer is not part of this module.       *)
(***************************************************************************)
EXTENDS Integers, FiniteSets, Sequences

CONSTANTS Channels,   \* the CC lines that are captured: {0, 1} in the code
          NSub,       \* sub-buffers in half of a sample buffer: 8 in the code
          SeqMod,     \* half-buffers counted before the number wraps: 512
          MaxChunks,  \* bound on the chunks captured on each channel
          MaxResets,  \* bound on the bus resets after the first one
          Timely,     \* TRUE: the DMA engine never reaches an unread sub-buffer
          Enumerated  \* TRUE: start with an idle endpoint, FALSE: after a reset

ASSUME ChannelsAssumption == Channels \subseteq {0, 1} /\ Channels # {}
ASSUME SizesAssumption ==
  /\ NSub \in Nat \ {0}
  /\ SeqMod \in Nat \ {0}
  /\ MaxChunks \in [Channels -> Nat]
  /\ MaxResets \in Nat
ASSUME FlagsAssumption == Timely \in BOOLEAN /\ Enumerated \in BOOLEAN

VARIABLES
  captured,   \* chunks the DMA engine has written, per channel
  flags,      \* HTIF and TCIF of the DMA channel of each CC line
  filled,     \* filled_dma: the sub-buffers that hold unread samples
  sampleSeq,  \* sample_seq: number and overflow mark of each half
  sampleTs,   \* sample_tstamp: clock at the interrupt of each half
  seq,        \* seq
  oflow,      \* oflow
  freeUsb,    \* free_usb: the USB buffers that may be filled
  events,     \* pending event bits of the SNIFFER task
  pc, u, d,   \* sniffer_task: control state, USB buffer, DMA sub-buffer
  epBuf,      \* ep_buf: the two packets in USB memory
  b,          \* ep_tx: index of the buffer being transmitted
  txAddr,     \* btable_ep[].tx_addr: buffer the controller sends from
  txCount,    \* btable_ep[].tx_count: bytes the controller sends
  txValid,    \* the endpoint answers the next IN token
  txIrq,      \* transmission done, the interrupt of ep_tx is pending
  host,       \* the packets the host has received
  lost,       \* sub-buffers overwritten before they were copied, per channel
  resets      \* bus resets so far

dmaVars  == <<captured, flags, lost>>
isrVars  == <<sampleSeq, sampleTs, seq, oflow>>
taskVars == <<pc, u, d, epBuf>>
epVars   == <<b, txAddr, txCount, txValid, txIrq>>
vars == <<dmaVars, isrVars, filled, freeUsb, events, taskVars, epVars, host,
          resets>>

EP_BUF_SIZE == 64

(***************************************************************************)
(* A sub-buffer is a triple <<channel, half, index>>; the code numbers     *)
(* them 0..31, channel first: Next walks them in that order.               *)
(***************************************************************************)
Slots  == Channels \X {0, 1} \X (0 .. NSub - 1)
Halves == Channels \X {0, 1}

HalfOf(s)  == <<s[1], s[2]>>
Slot(c, n) == <<c, ((n - 1) \div NSub) % 2, (n - 1) % NSub>>

\* The sub-buffer after s: d = (d + 1) & 31.
NextSlot(s) ==
  LET otherChannel == IF s[1] = 0 /\ 1 \in Channels THEN 1
                      ELSE IF s[1] = 1 /\ 0 \in Channels THEN 0 ELSE s[1]
  IN  IF s[3] + 1 < NSub THEN <<s[1], s[2], s[3] + 1>>
      ELSE IF s[2] = 0   THEN <<s[1], 1, 0>>
      ELSE <<otherChannel, 0, 0>>

FirstSlot == IF 0 \in Channels THEN <<0, 0, 0>> ELSE <<1, 0, 0>>

(***************************************************************************)
(* What a sub-buffer holds: 0 when it was never written or is the one the  *)
(* DMA engine is writing now, else the number of the last chunk written.   *)
(***************************************************************************)
Samples(s) ==
  LET last == captured[s[1]]
      n == last - ((last - 1 - (s[2] * NSub + s[3])) % (2 * NSub))
  IN  IF n < 1 \/ Slot(s[1], last + 1) = s THEN 0 ELSE n

\* Marked as filled, and the task has not copied it yet.
Unread(s) == s \in filled /\ ~(s = d /\ pc \in {"release", "consume"})

NoHeader == [half |-> <<0, 0>>, seq |-> 0, oflow |-> FALSE, sub |-> 0]
Junk     == [hdr |-> NoHeader, ts |-> 0, data |-> 0]

Clock(c) == captured[c]   \* __hw_clock_source_read(), seen from channel c

(***************************************************************************)
(* TASK_EVENT_CUSTOM keeps the bits 0 to 18.  The flags that               *)
(* tim_dma_handler passes through it are HTIF and TCIF of the DMA channels *)
(* 6 and 7, bits 22, 21, 26 and 25 of the status register.                 *)
(***************************************************************************)
TASK_EVENT_CUSTOM(bits) == bits \cap (0 .. 18)
StatBit(c, f) == (IF f = "TC" THEN 21 ELSE 22) + (IF c = 1 THEN 4 ELSE 0)
Stat == {StatBit(c, f) : c \in Channels, f \in {"HT", "TC"}}
        \cap UNION {{StatBit(c, f) : f \in flags[c]} : c \in Channels}

Init ==
  /\ captured = [c \in Channels |-> 0] /\ flags = [c \in Channels |-> {}]
  /\ filled = {} /\ seq = 0 /\ oflow = 0 /\ lost = [c \in Channels |-> 0]
  /\ sampleSeq = [h \in Halves |-> [seq |-> 0, oflow |-> FALSE]]
  /\ sampleTs = [h \in Halves |-> 0]
  /\ freeUsb = {0, 1} /\ events = {}
  /\ pc = "wait" /\ u = 0 /\ d = FirstSlot
  /\ epBuf = [x \in {0, 1} |-> Junk]
  /\ b = 0 /\ txAddr = 0 /\ txValid = TRUE /\ txIrq = FALSE
  /\ txCount = IF Enumerated THEN 0 ELSE EP_BUF_SIZE
  /\ host = << >> /\ resets = 0

-----------------------------------------------------------------------------
(* The DMA engine.                                                         *)

(***************************************************************************)
(* One more chunk of edges is in the buffer of channel c, and the engine   *)
(* moves on to the next sub-buffer.  An interrupt is served within the     *)
(* time of a half (480 edges, most of a millisecond): a half does not      *)
(* complete while the flag of the previous one is pending.                 *)
(***************************************************************************)
Capture(c) ==
  LET n == captured[c] + 1
      done == IF n % NSub # 0 THEN {}
              ELSE IF n % (2 * NSub) = 0 THEN {"TC"} ELSE {"HT"}
  IN  /\ n <= MaxChunks[c]
      /\ done # {} => flags[c] = {}
      /\ Timely => Slot(c, n + 1) \notin filled
      /\ captured' = [captured EXCEPT ![c] = n]
      /\ flags' = [flags EXCEPT ![c] = @ \cup done]
      /\ lost' = IF Unread(Slot(c, n)) THEN [lost EXCEPT ![c] = @ + 1] ELSE lost
      /\ UNCHANGED <<isrVars, filled, freeUsb, events, taskVars, epVars, host,
                     resets>>

-----------------------------------------------------------------------------
(* The DMA interrupt.                                                      *)

\* Mutants: the polarity of idx; the other channel's half is tested; the number
\* runs into the bits of the channel.
HalfInverted(c)      == IF "HT" \in flags[c] THEN 1 ELSE 0
OverflowsOther(c, h) == <<1 - c, 1 - h, 0>> \in filled
NextSeqUnmasked      == seq + 1

\* The half that is complete: idx = !(stat & HTIF).
HalfDone(c) == IF "HT" \in flags[c] THEN 0 ELSE 1
\* filled_dma & next: the half the DMA engine writes now has unread samples.
Overflows(c, h) == <<c, 1 - h, 0>> \in filled
NextSeq == (seq + 1) % SeqMod

\* tim_rx1_handler and tim_rx2_handler, the same code for channel 0 and 1.
TimRx(c) ==
  LET half == HalfDone(c) IN
      /\ sampleTs' = [sampleTs EXCEPT ![<<c, half>>] = Clock(c)]
      /\ sampleSeq' = [sampleSeq EXCEPT ![<<c, half>>] =
                         [seq |-> seq, oflow |-> Overflows(c, half)]]
      /\ seq' = NextSeq
      /\ oflow' = IF Overflows(c, half) THEN oflow + 1 ELSE oflow
      /\ filled' = filled \cup {s \in Slots : HalfOf(s) = <<c, half>>}
      /\ flags' = [flags EXCEPT ![c] = {}]

\* Channel 1 is served first when both are pending.
TimDmaHandler(c) ==
  /\ flags[c] # {}
  /\ c = 0 /\ 1 \in Channels => flags[1] = {}
  /\ TimRx(c)
  /\ events' = events \cup TASK_EVENT_CUSTOM(Stat)
  /\ UNCHANGED <<captured, lost, freeUsb, taskVars, epVars, host, resets>>

-----------------------------------------------------------------------------
(* sniffer_task.                                                           *)

taskRest == <<dmaVars, isrVars, epVars, host, resets>>

\* task_wait_event(-1) returns, with the pending events cleared.
Wake ==
  /\ pc = "wait" /\ events # {}
  /\ events' = {} /\ pc' = "loop"
  /\ UNCHANGED <<taskRest, filled, freeUsb, u, d, epBuf>>

\* while (filled_dma && free_usb)
Loop ==
  /\ pc = "loop"
  /\ pc' = IF filled # {} /\ freeUsb # {} THEN "scan" ELSE "wait"
  /\ UNCHANGED <<taskRest, filled, freeUsb, events, u, d, epBuf>>

\* while (!(filled_dma & (1 << d))): one turn, or the end of the loop.
Scan ==
  /\ pc = "scan"
  /\ IF d \in filled THEN pc' = "header" /\ d' = d
                     ELSE pc' = "scan" /\ d' = NextSlot(d)
  /\ UNCHANGED <<taskRest, filled, freeUsb, events, u, epBuf>>

Header ==
  /\ pc = "header"
  /\ epBuf' = [epBuf EXCEPT ![u].hdr =
                 [half |-> HalfOf(d), seq |-> sampleSeq[HalfOf(d)].seq,
                  oflow |-> sampleSeq[HalfOf(d)].oflow, sub |-> d[3]]]
  /\ pc' = "stamp"
  /\ UNCHANGED <<taskRest, filled, freeUsb, events, u, d>>

Stamp ==
  /\ pc = "stamp"
  /\ epBuf' = [epBuf EXCEPT ![u].ts = sampleTs[HalfOf(d)]]
  /\ pc' = "copy"
  /\ UNCHANGED <<taskRest, filled, freeUsb, events, u, d>>

\* memcpy_to_usbram
Copy ==
  /\ pc = "copy"
  /\ epBuf' = [epBuf EXCEPT ![u].data = Samples(d)]
  /\ pc' = "release"
  /\ UNCHANGED <<taskRest, filled, freeUsb, events, u, d>>

\* Mutants: u is not toggled; the sub-buffer is not marked as consumed.
SameBuffer == u
FilledKept == filled

OtherBuffer == 1 - u
FilledAfter == filled \ {d}

\* atomic_clear(&free_usb, 1 << u); u = !u
Release ==
  /\ pc = "release"
  /\ freeUsb' = freeUsb \ {u}
  /\ u' = OtherBuffer
  /\ pc' = "consume"
  /\ UNCHANGED <<taskRest, filled, events, d, epBuf>>

\* atomic_clear(&filled_dma, 1 << d)
Consume ==
  /\ pc = "consume"
  /\ filled' = FilledAfter
  /\ pc' = "loop"
  /\ UNCHANGED <<taskRest, freeUsb, events, u, d, epBuf>>

SnifferTask == Wake \/ Loop \/ Scan \/ Header \/ Stamp \/ Copy \/ Release
               \/ Consume

-----------------------------------------------------------------------------
(* The USB endpoint.                                                       *)

usbRest == <<dmaVars, isrVars, filled, taskVars>>

\* The host reads: the controller sends the armed buffer and raises CTR_TX.
HostIn ==
  /\ txValid
  /\ txValid' = FALSE /\ txIrq' = TRUE
  /\ host' = IF txCount = 0 THEN host ELSE Append(host, epBuf[txAddr])
  /\ UNCHANGED <<usbRest, freeUsb, events, b, txAddr, txCount, resets>>

\* Mutants: data is sent whether or not the buffer is filled; the task is not
\* woken up when a buffer becomes free.
AlwaysFull(x, free) == EP_BUF_SIZE
NoWakeUp(x) == {}

\* Bytes of the next transmission, and event bits posted to the task.
TxCount(x, free) == IF x \in free THEN 0 ELSE EP_BUF_SIZE
WakeUp(x) == {x}

EpTx ==
  LET sent == txCount # 0
      b1 == IF sent THEN 1 - b ELSE b
      free == IF sent THEN freeUsb \cup {b} ELSE freeUsb
  IN  /\ txIrq
      /\ freeUsb' = free
      /\ b' = b1
      /\ txAddr' = IF sent THEN b1 ELSE txAddr
      /\ txCount' = TxCount(b1, free)
      /\ txValid' = TRUE /\ txIrq' = FALSE
      /\ events' = events \cup WakeUp(b1)
      /\ UNCHANGED <<usbRest, host, resets>>

\* ep_event(USB_EVENT_RESET): the endpoint is armed again with buffer 0.
EpReset ==
  /\ resets < MaxResets
  /\ resets' = resets + 1
  /\ txAddr' = 0 /\ txCount' = EP_BUF_SIZE
  /\ txValid' = TRUE /\ txIrq' = FALSE
  /\ UNCHANGED <<usbRest, freeUsb, events, b, host>>

-----------------------------------------------------------------------------
Next ==
  \/ \E c \in Channels : Capture(c) \/ TimDmaHandler(c)
  \/ SnifferTask
  \/ HostIn \/ EpTx \/ EpReset

Spec == Init /\ [][Next]_vars

(***************************************************************************)
(* The scheduler runs a task that has work and the processor takes a       *)
(* pending interrupt; DeviceFairness claims nothing about the host.        *)
(* HostFairness: the application on the host keeps reading.                *)
(***************************************************************************)
DeviceFairness ==
  /\ WF_vars(SnifferTask)
  /\ \A c \in Channels : WF_vars(TimDmaHandler(c))
  /\ WF_vars(EpTx)
HostFairness == WF_vars(HostIn)

DeviceSpec == Spec /\ DeviceFairness
FairSpec   == Spec /\ DeviceFairness /\ HostFairness

-----------------------------------------------------------------------------
(* Properties.                                                             *)

Packet == [hdr: [half: Halves \cup {<<0, 0>>}, seq: 0 .. SeqMod - 1,
                 oflow: BOOLEAN, sub: 0 .. NSub - 1],
           ts: Nat, data: Nat]
FillSteps == {"header", "stamp", "copy", "release"}

TypeOK ==
  /\ captured \in [Channels -> Nat] /\ flags \in [Channels -> SUBSET {"HT", "TC"}]
  /\ lost \in [Channels -> Nat] /\ filled \subseteq Slots
  /\ sampleSeq \in [Halves -> [seq: 0 .. SeqMod - 1, oflow: BOOLEAN]]
  /\ sampleTs \in [Halves -> Nat] /\ seq \in 0 .. SeqMod - 1 /\ oflow \in Nat
  /\ freeUsb \subseteq {0, 1} /\ events \subseteq 0 .. 18
  /\ pc \in {"wait", "loop", "scan", "consume"} \cup FillSteps
  /\ u \in {0, 1} /\ d \in Slots /\ epBuf \in [{0, 1} -> Packet]
  /\ b \in {0, 1} /\ txAddr \in {0, 1} /\ txCount \in {0, EP_BUF_SIZE}
  /\ txValid \in BOOLEAN /\ txIrq \in BOOLEAN
  /\ host \in Seq(Packet) /\ resets \in Nat

(***************************************************************************)
(* The task and the endpoint agree on the order of the two buffers: the    *)
(* buffer b the endpoint sends next is the one that was filled first, and  *)
(* u is the other one when only one is filled.  The endpoint is armed with *)
(* data only when b is filled.                                             *)
(***************************************************************************)
InPhase ==
  /\ freeUsb \in {{}, {0, 1}} => u = b
  /\ freeUsb \in {{0}, {1}} => u \in freeUsb /\ b \notin freeUsb
  /\ txAddr = b
  /\ txCount # 0 => b \notin freeUsb
  /\ txIrq => ~txValid

\* Nothing but a bus reset takes the two sides out of phase (ep_tx and the
\* loop of sniffer_task each keep an index of their own).
PhaseKept == [][InPhase /\ resets' = resets => InPhase']_vars

\* The task writes only into a buffer that is free: "USB Buffers not used,
\* ready to be filled" (sniffer.c, line 52).
FillsFreeBuffer == pc \in FillSteps => u \in freeUsb

\* The buffer the controller may be sending from is not being written.
NoTornTransmission ==
  ~(pc \in FillSteps /\ txValid /\ txCount # 0 /\ txAddr = u)

\* Each packet the host receives is a captured chunk, and its header and its
\* time stamp are those of the half the chunk was captured in.
HeaderDescribesData ==
  \A i \in 1 .. Len(host) :
    LET p == host[i]
        end == ((p.data - 1) \div NSub + 1) * NSub   \* last chunk of its half
    IN  /\ p.data # 0 /\ ~p.hdr.oflow
        /\ <<p.hdr.half[1], p.hdr.half[2], p.hdr.sub>>
             = Slot(p.hdr.half[1], p.data)
        /\ p.ts \in end .. end + NSub - 1

\* When a half is marked filled although its previous samples are unread, the
\* overflow was noticed, in this interrupt or in an earlier one.
OverrunDetected ==
  [][\A c \in Channels, h \in {0, 1} :
       (flags[c] # {} /\ flags'[c] = {} /\ <<c, h, 0>> \in filled
        /\ sampleTs'[<<c, h>>] # sampleTs[<<c, h>>]) => oflow' > 0]_vars

\* oflow counts the overflows of the sample buffer (sniffer.c, line 159): once the
\* interrupt of the half has run, samples lost on a channel show in it.
OverflowCounted ==
  [][\A c \in Channels :
       (flags[c] # {} /\ flags'[c] = {} /\ lost[c] > 0) => oflow' > 0]_vars

\* "time to process the samples" (sniffer.c, line 221): while a USB buffer is
\* free, filled samples are processed.
SamplesProcessed ==
  (filled # {} /\ freeUsb # {}) ~> (filled = {} \/ freeUsb = {})

\* While the host reads, every filled sub-buffer is eventually consumed.
Drained == filled # {} ~> filled = {}

\* What the host has been given: the channel and the number of each chunk.
Delivered == [i \in 1 .. Len(host) |-> <<host[i].hdr.half[1], host[i].data>>]
Stream == INSTANCE CaptureStream WITH Block <- NSub, Limit <- MaxChunks,
                                      delivered <- Delivered

\* Whatever the task, the interrupts and the endpoint do in between, a chunk
\* reaches the host once only, and not before its half is complete.
StreamSafety == Stream!Safety

\* And it does reach the host: the pipeline implements CaptureStream.
StreamSpec == Stream!Spec
=============================================================================
