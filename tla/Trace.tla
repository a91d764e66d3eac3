------------------------------- MODULE Trace --------------------------------
(***************************************************************************)
(* The packet tracer of board/twinkie/simpletrace.c and the injector that  *)
(* drives it.  While trace_mode is not OFF the SNIFFER task stops the      *)
(* capture (module Sniffer), receives whole packets with the PD physical   *)
(* layer and prints them, or queues them in a ring whose records go to the *)
(* host through the double buffer of the capture endpoint.                 *)
(*                                                                         *)
(* Actors: the comparator interrupt, which starts a reception; the USB     *)
(* interrupt with the host; the SNIFFER task; and the CONSOLE task, whose  *)
(* priority is lower: it makes a step only while SNIFFER waits, or sleeps  *)
(* in the middle of printing.  SNIFFER may come in between two accesses of *)
(* a command to what both use: each is a step.                             *)
(*                                                                         *)
(* A packet is the number of its reception, a record the number of records *)
(* made before it and itself.  The capture is abstracted to its effect on  *)
(* the double buffer, the USB transfer and its interrupt to one step.      *)
(* expect_packet and the event it waits for are left out.                  *)
(***************************************************************************)
EXTENDS Integers, Sequences, FiniteSets

CONSTANTS NSlots,      \* records in the ring of traced packets: 32 in the code
          MaxRx,       \* bound on the receptions
          MaxSamples,  \* bound on the buffers of samples sent between traces
          MaxModes,    \* bound on the commands of the CONSOLE task
          Masks        \* the masks that CONSOLE asks for

ASSUME BoundsAssumption ==
  /\ NSlots \in Nat \ {0} /\ MaxRx \in Nat /\ MaxSamples \in Nat /\ MaxModes \in Nat
  /\ Masks \subseteq SUBSET {0, 1}

VARIABLES
  trace_mode,
  mask, timers,       \* channel_mask, and the RX timers that run
  imr, irqOn,         \* the comparators' interrupt: EXTI mask and NVIC
  raw,                \* the packet in raw_samples, 0: none
  rxs,                \* receptions so far
  events,             \* events of SNIFFER: USB (1 << b), PKT (4 << i), WAKE
  pc, curr, hit, pkt,         \* SNIFFER; hit: a packet woke it
  ring, filled_pkt, sp_idx, idx, traceU,    \* the ring, and u of trace_reload
  snifferU,           \* u of sniffer_task
  epBuf, free_usb, b, armed,  \* the endpoint; armed: tx_count # 0
  con, flag,          \* CONSOLE; flag: tracing to be enabled again
  new_mask, old_mask, \* of the recording_enable that CONSOLE is in
  host, traced,       \* the last record the host has read, records made
  wanted,             \* the mask last set while the capture ran
  clean, spoiled, kept,  \* history, see below
  samples, modes      \* bounded counters

rxVars   == <<imr, irqOn, raw, rxs>>
capVars  == <<mask, timers, snifferU, samples, wanted, curr, kept>>
ringVars == <<ring, filled_pkt, sp_idx, idx, traceU, traced>>
usbVars  == <<epBuf, free_usb, b, armed, host>>
conVars  == <<trace_mode, con, flag, new_mask, old_mask, modes>>
vars == <<rxVars, capVars, ringVars, usbVars, conVars, events, pc,
          hit, pkt, clean, spoiled>>

CC == {0, 1}
Slots == 0 .. NSlots - 1
Sample == 0    \* a buffer of samples, not a record

\* The mask is as commands before the first trace left it.
Init ==
  /\ trace_mode = "OFF"
  /\ mask \in {CC} \cup Masks /\ timers = mask /\ wanted = mask /\ curr = mask
  /\ imr = FALSE /\ irqOn = FALSE /\ raw = 0 /\ rxs = 0
  /\ events = {} /\ pc = "wait" /\ hit = FALSE /\ pkt = 0
  /\ ring = [s \in Slots |-> Sample] /\ filled_pkt = {} /\ sp_idx = 0 /\ idx = 0
  /\ traceU = 0 /\ snifferU = 0
  /\ epBuf = [x \in {0, 1} |-> Sample] /\ free_usb = {0, 1} /\ b = 0 /\ armed = FALSE
  /\ con = "idle" /\ flag = FALSE
  /\ host = 0 /\ traced = 0 /\ clean = FALSE /\ spoiled = FALSE
  /\ new_mask = CC /\ old_mask = CC /\ kept = {} /\ samples = 0 /\ modes = 0

\* The index w names the buffer to fill next: see Sniffer!InPhase.
InStep(w) ==
  /\ free_usb \in {{}, {0, 1}} => w = b
  /\ free_usb \in {{0}, {1}} => w \in free_usb /\ b \notin free_usb

-----------------------------------------------------------------------------
(* Interrupts.                                                             *)

\* Mutant: the comparators' interrupt stays enabled during a reception.
StillMonitored == imr
Ignored == FALSE

\* rx_event has seen enough edges: the reception starts.
RxEvent ==
  /\ irqOn /\ imr /\ rxs < MaxRx
  /\ rxs' = rxs + 1 /\ raw' = rxs + 1
  /\ imr' = Ignored
  /\ events' = events \cup {"PKT"}
  /\ UNCHANGED <<irqOn, capVars, ringVars, usbVars, conVars, pc, hit,
                 pkt, clean, spoiled>>

\* Mutant: the task does not hear of the freed buffer.
NoUsbEvent == events
UsbEvent == events \cup {"USB"}

\* The host reads the endpoint, and ep_tx runs.
EpTx ==
  LET sent == IF armed THEN 1 - b ELSE b
      free == IF armed THEN free_usb \cup {b} ELSE free_usb
  IN  /\ host' = IF armed /\ epBuf[b] # Sample THEN epBuf[b] ELSE host
      /\ free_usb' = free /\ b' = sent /\ armed' = (sent \notin free)
      /\ events' = UsbEvent
      /\ UNCHANGED <<rxVars, capVars, ringVars, epBuf, conVars, pc, hit,
                     pkt, clean, spoiled>>

-----------------------------------------------------------------------------
(* The SNIFFER task.                                                       *)

\* A buffer of samples is copied: Sniffer has the details.
CaptureCopies ==
  /\ pc = "wait" /\ timers # {} /\ free_usb # {} /\ samples < MaxSamples
  /\ samples' = samples + 1
  /\ epBuf' = [epBuf EXCEPT ![snifferU] = Sample]
  /\ free_usb' = free_usb \ {snifferU} /\ snifferU' = 1 - snifferU
  /\ UNCHANGED <<rxVars, mask, timers, wanted, curr, kept, ringVars, b, armed, host,
                 conVars, events, pc, hit, pkt, clean, spoiled>>

\* Mutant: a timer that was stopped is not started again.
OnlyStops(new, running, old) == running \ (old \ new)
\* recording_enable starts and stops the timers whose bit changes.
RecordingEnable(new, running, old) == (running \ (old \ new)) \cup (new \ old)

Breaks(evt) == trace_mode = "OFF"

\* sniffer_task wakes up, and enters trace_packets when tracing is on.
Wake ==
  /\ pc = "wait" /\ events # {} /\ events' = {}
  /\ \/ /\ trace_mode = "OFF"
        /\ UNCHANGED <<pc, rxVars, mask, timers, curr, filled_pkt, clean, spoiled>>
     \/ /\ trace_mode # "OFF"
        /\ curr' = mask /\ mask' = {} /\ timers' = RecordingEnable({}, timers, mask)
        /\ filled_pkt' = {}
        /\ imr' = TRUE /\ irqOn' = TRUE
        /\ pc' = "trace"
        /\ clean' = (InStep(traceU) /\ \A x \in {0, 1} \ free_usb : epBuf[x] = Sample)
        /\ spoiled' = FALSE
        /\ UNCHANGED <<raw, rxs>>
  /\ UNCHANGED <<snifferU, samples, wanted, kept, ring, sp_idx, idx, traceU, traced, usbVars,
                 conVars, hit, pkt>>

\* The body of the loop of trace_packets up to the analysis: evt < 4 is a USB
\* event alone, anything else is taken for a packet.
TraceEvent ==
  /\ pc = "trace" /\ events # {} /\ events' = {}
  /\ pc' = IF Breaks(events) THEN "end" ELSE IF events = {"USB"} THEN "reload" ELSE "analyze"
  /\ hit' = ("PKT" \in events)
  /\ spoiled' = (spoiled \/ ("PKT" \notin events /\ "WAKE" \in events))
  /\ UNCHANGED <<rxVars, capVars, ringVars, usbVars, conVars, pkt, clean>>

\* pd_analyze_rx reads whatever is in raw_samples.
Analyze ==
  /\ pc = "analyze" /\ pc' = "rearm"
  /\ pkt' = raw
  /\ UNCHANGED <<rxVars, capVars, ringVars, usbVars, conVars, events, hit,
                 clean, spoiled>>

\* pd_rx_complete and pd_rx_enable_monitoring: a reception that has just begun
\* is cut off.
Rearm ==
  /\ pc = "rearm" /\ pc' = "output"
  /\ raw' = IF raw # pkt THEN 0 ELSE raw
  /\ imr' = TRUE
  /\ spoiled' = (spoiled /\ "PKT" \in events)
  /\ UNCHANGED <<irqOn, rxs, capVars, ringVars, usbVars, conVars, events,
                 hit, pkt, clean>>

NextIdx == (sp_idx + 1) % NSlots

\* sniffer_trace_packet writes the next record, full or not.
TracePacket ==
  /\ ring' = [ring EXCEPT ![sp_idx] = traced + 1]
  /\ traced' = traced + 1
  /\ filled_pkt' = filled_pkt \cup {sp_idx}
  /\ clean' = (clean /\ ~(sp_idx = idx /\ filled_pkt # {}))
  /\ sp_idx' = NextIdx
  /\ pc' = IF free_usb = {0, 1} THEN "reload" ELSE "trace"
  /\ UNCHANGED <<idx, traceU>>

\* print_packet may have to wait for room in the USB console.
Output ==
  /\ pc = "output" /\ pkt' = 0 /\ hit' = FALSE
  /\ \/ trace_mode = "RAW" /\ TracePacket
     \/ /\ trace_mode # "RAW"
        /\ pc' \in {"blocked", "trace"}
        /\ UNCHANGED <<ringVars, clean>>
  /\ UNCHANGED <<rxVars, capVars, usbVars, conVars, events, spoiled>>

Unblock ==
  /\ pc = "blocked" /\ pc' = "trace"
  /\ UNCHANGED <<rxVars, capVars, ringVars, usbVars, conVars, events, hit,
                 pkt, clean, spoiled>>

\* The distance of a record from idx, in the order of the scan.
Ahead(s) == (s - idx + NSlots) % NSlots

\* Mutant: the scan goes on to the last record.
LastFilled == {s \in filled_pkt : \A r \in filled_pkt : Ahead(s) >= Ahead(r)}
OtherU == 1 - traceU
NextFilled == {s \in filled_pkt : \A r \in filled_pkt : Ahead(s) <= Ahead(r)}

\* sniffer_trace_reload: one turn of the loop, or its end.
ReloadTurn ==
  /\ pc = "reload" /\ free_usb # {} /\ filled_pkt # {}
  /\ \E s \in NextFilled :
       /\ idx' = s
       /\ epBuf' = [epBuf EXCEPT ![traceU] = ring[s]]
       /\ filled_pkt' = filled_pkt \ {s}
  /\ free_usb' = free_usb \ {traceU} /\ traceU' = OtherU
  /\ UNCHANGED <<rxVars, capVars, ring, sp_idx, traced, b, armed, host, conVars,
                 events, pc, hit, pkt, clean, spoiled>>

ReloadEnd ==
  /\ pc = "reload" /\ (free_usb = {} \/ filled_pkt = {})
  /\ pc' = "trace"
  /\ UNCHANGED <<rxVars, capVars, ringVars, usbVars, conVars, events, hit,
                 pkt, clean, spoiled>>

\* CONSOLE is in recording_enable, and has read the mask.
Recording == {"rx1", "rx2", "write"}

\* The end of trace_packets; sniffer_init starts both timers, and
\* recording_enable(curr) restores the mask.
TraceEnd ==
  /\ pc = "end" /\ pc' = "wait"
  /\ irqOn' = FALSE
  /\ mask' = curr /\ timers' = RecordingEnable(curr, CC, mask)
  /\ kept' = IF con \in Recording THEN kept \cup (old_mask \cap new_mask) ELSE kept
  /\ UNCHANGED <<imr, raw, rxs, snifferU, samples, wanted, curr, ringVars,
                 usbVars, conVars, events, hit, pkt, clean, spoiled>>

SnifferTask == \/ Wake \/ TraceEvent \/ Analyze \/ Rearm \/ Output \/ Unblock
               \/ ReloadTurn \/ ReloadEnd \/ TraceEnd

-----------------------------------------------------------------------------
(* The CONSOLE task: the commands of the injector.                         *)

ConsoleStep(from, to) ==
  /\ (pc \in {"wait", "trace"} /\ events = {}) \/ pc = "blocked"
  /\ con = from /\ con' = to

\* A command is one of a bounded number.
Command(to) ==
  /\ ConsoleStep("idle", to) /\ modes < MaxModes /\ modes' = modes + 1

conRest == <<ringVars, usbVars, pc, hit, pkt, clean>>
masks == <<new_mask, old_mask>>

\* set_trace_mode, and the event it posts.
SetTraceMode ==
  /\ Command("wake")
  /\ \E m \in {"OFF", "RAW", "ON"} : m # trace_mode /\ trace_mode' = m
  /\ UNCHANGED <<conRest, rxVars, capVars, events, flag, masks, spoiled>>

\* Mutant: the task is not kicked.
NotKicked == events
Kicked == events \cup {"WAKE"}

WakeSniffer ==
  /\ ConsoleStep("wake", "idle")
  /\ events' = Kicked
  /\ UNCHANGED <<conRest, rxVars, capVars, trace_mode, modes, flag, masks, spoiled>>

\* recording_enable as the CONSOLE task runs it (fsm_set(INJ_SET_RECORD)): the mask
\* is read, the timers are switched one after the other, the mask is written.
Record ==
  /\ Command("rx1")
  /\ new_mask' \in Masks /\ old_mask' = mask
  /\ UNCHANGED <<conRest, rxVars, capVars, events, trace_mode, flag, spoiled>>

SwitchTimer ==
  /\ \E c \in CC :
       /\ IF c = 0 THEN ConsoleStep("rx1", "rx2") ELSE ConsoleStep("rx2", "write")
       /\ timers' = RecordingEnable(new_mask \cap {c}, timers, old_mask \cap {c})
  /\ UNCHANGED <<conRest, rxVars, mask, snifferU, samples, wanted, curr, kept, events,
                 trace_mode, flag, masks, modes, spoiled>>

WriteMask ==
  /\ ConsoleStep("write", "idle")
  /\ mask' = new_mask
  /\ wanted' = IF pc = "wait" THEN new_mask ELSE wanted
  /\ new_mask' = CC /\ old_mask' = CC
  /\ UNCHANGED <<conRest, rxVars, timers, snifferU, samples, curr, kept, events,
                 trace_mode, flag, modes, spoiled>>

\* send_message, send_hrst, fsm_wave: disable_tracing_save reads the mask, then
\* clears it.
ReadTracing ==
  /\ Command("save")
  /\ flag' = imr
  /\ UNCHANGED <<conRest, rxVars, capVars, events, trace_mode, masks, spoiled>>

SaveTracing ==
  /\ ConsoleStep("save", "tx")
  /\ imr' = (imr /\ ~flag)
  /\ UNCHANGED <<conRest, irqOn, raw, rxs, capVars, events, trace_mode, modes,
                 flag, masks, spoiled>>

\* The message is encoded into raw_samples and sent.
Transmit ==
  /\ ConsoleStep("tx", "txend")
  /\ raw' = 0
  /\ spoiled' = (spoiled \/ "PKT" \in events)
  /\ UNCHANGED <<conRest, imr, irqOn, rxs, capVars, events, trace_mode, modes,
                 flag, masks>>

\* Mutant: tracing is not enabled again.
TracingLost == imr
TracingIfNeeded == imr \/ flag

EnableTracing ==
  /\ ConsoleStep("txend", "idle")
  /\ imr' = TracingIfNeeded /\ flag' = FALSE
  /\ spoiled' = (spoiled \/ (flag /\ "PKT" \in events))
  /\ UNCHANGED <<conRest, irqOn, raw, rxs, capVars, events, trace_mode, modes, masks>>

ConsoleTask == \/ SetTraceMode \/ WakeSniffer \/ Record \/ SwitchTimer \/ WriteMask
               \/ ReadTracing \/ SaveTracing \/ Transmit \/ EnableTracing

-----------------------------------------------------------------------------
Next == RxEvent \/ EpTx \/ CaptureCopies \/ SnifferTask \/ ConsoleTask

Spec == Init /\ [][Next]_vars

(***************************************************************************)
(* The scheduler runs the tasks that are ready, and printing gives up      *)
(* after a time.                                                           *)
(***************************************************************************)
FairSpec ==
  Spec /\ WF_vars(SnifferTask) /\ SF_vars(WakeSniffer)

-----------------------------------------------------------------------------
(* Properties.  clean: the session began with the index of the ring's      *)
(* endpoint buffers in step and no record of another session in them, and  *)
(* the writer did not catch up with the reader while records were unsent.  *)
(* spoiled: since reception was last armed with no packet waiting, CONSOLE *)
(* sent, or switched monitoring on, while a packet waited for a tracer     *)
(* that was printing, or the tracer took the kick of set_trace_mode for a  *)
(* packet.  kept: the channels that were on before and after a command in  *)
(* the middle of which a trace ended.                                      *)

Labels == {"wait", "trace", "analyze", "rearm", "output", "blocked", "reload", "end"}

TypeOK ==
  /\ trace_mode \in {"OFF", "RAW", "ON"} /\ mask \subseteq CC /\ timers \subseteq CC
  /\ imr \in BOOLEAN /\ irqOn \in BOOLEAN /\ raw \in 0 .. MaxRx
  /\ events \subseteq {"USB", "PKT", "WAKE"} /\ pc \in Labels /\ pkt \in 0 .. MaxRx
  /\ filled_pkt \subseteq Slots /\ sp_idx \in Slots /\ idx \in Slots
  /\ free_usb \subseteq {0, 1} /\ b \in {0, 1} /\ armed \in BOOLEAN
  /\ con \in {"idle", "wake", "save", "tx", "txend"} \cup Recording
  /\ new_mask \subseteq CC /\ old_mask \subseteq CC

\* The tracer is not deaf: when it waits for a packet and CONSOLE is not
\* transmitting, the comparators can start a reception.
NotDeaf ==
  (pc = "trace" /\ events = {} /\ con \notin {"save", "tx", "txend"}) => imr /\ irqOn

\* A packet that woke the tracer is analysed as it was received: no other reception
\* reuses raw_samples before that, whatever the tracer and CONSOLE switched on and off
\* since.  Not so when it is spoiled: a transmission does overwrite a packet that waits.
Intact == (pc = "rearm" /\ hit /\ ~spoiled) => pkt = rxs

\* The host reads the records in the order they were made, each at most once.
ReadInOrder == [][(b' # b /\ epBuf[b] # Sample /\ clean) => epBuf[b] > host]_vars

\* The ring never writes over a buffer the host has not read.
ReloadsFreeBuffer == (pc = "reload" /\ clean /\ free_usb # {}) => traceU \in free_usb

\* Between the commands the capture is what was last asked for outside a trace, and
\* every channel of the mask is captured but for those kept by a command in the middle
\* of which a trace ended: that command found their timer running and left it alone.
CaptureRestored ==
  (pc = "wait" /\ con \notin Recording) => mask = wanted /\ mask \ timers \subseteq kept

\* "kick the task to take into account the new value" (simpletrace.c, line 286).
TraceStops == (trace_mode = "OFF" /\ irqOn) ~> (~irqOn \/ trace_mode # "OFF")

\* While the host reads, a queued record does not stay in the ring.
Delivered ==
  WF_vars(EpTx) => ((filled_pkt # {} /\ irqOn) ~> (filled_pkt = {} \/ trace_mode = "OFF"))

\* "start/stop RX timers according to the channel mask" (sniffer.c, line 416): while
\* it captures, a timer runs for the channels of the mask, and for no other.
TimersFollowMask == pc = "wait" => timers = mask

\* "incoming packet processing" (simpletrace.c, line 244): what is processed is an
\* incoming packet.
OnlyPackets == pc = "analyze" => hit
=============================================================================
