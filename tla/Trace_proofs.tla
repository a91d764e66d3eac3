---------------------------- MODULE Trace_proofs ----------------------------
(***************************************************************************)
(* For every size of the ring and any number of packets and commands: the  *)
(* tracer is not deaf, no reception overwrites a packet that waits, the    *)
(* capture comes back after a trace as the console asked for it, and the   *)
(* tracer fills no buffer that is in use.                                  *)
(***************************************************************************)
EXTENDS Trace, TLAPS

TypeInv ==
  /\ TypeOK /\ rxs \in 0 .. MaxRx /\ traceU \in {0, 1} /\ flag \in BOOLEAN
  /\ curr \subseteq CC /\ wanted \subseteq CC /\ kept \subseteq CC /\ hit \in BOOLEAN
  /\ clean \in BOOLEAN /\ spoiled \in BOOLEAN

\* The comparators' interrupt is enabled in the NVIC for the duration of a trace.
Session == irqOn = (pc # "wait")

\* Unless a packet is about to be analysed, the next one can be received, or will be
\* when CONSOLE has sent its message.
Monitors ==
  pc \in {"trace", "output", "blocked", "reload"} =>
    imr \/ "PKT" \in events \/ (con \in {"save", "tx", "txend"} /\ flag)

\* A packet that is not yet analysed is in raw_samples, and no other one can come.
Held ==
  (~spoiled /\ pc # "wait") =>
    /\ "PKT" \in events => ~imr /\ raw = rxs
    /\ pc \in {"analyze", "rearm"} => hit /\ ~imr /\ "PKT" \notin events /\ raw = rxs
    /\ pc = "rearm" => pkt = rxs

\* The mask that tracing saves is the one last asked for.  Its channels are captured
\* but for those kept; a command that is half done has left alone what it found on, and
\* has switched on what it had to so far.
Saved ==
  /\ pc = "wait" => mask = wanted
  /\ pc # "wait" => curr = wanted
  /\ (pc = "wait" /\ con \notin Recording) => mask \ timers \subseteq kept
  /\ (pc = "wait" /\ con \in Recording) =>
       /\ (old_mask \cap new_mask) \ timers \subseteq kept
       /\ (con # "rx1" /\ 0 \in new_mask \ old_mask) => 0 \in timers
       /\ (con = "write" /\ 1 \in new_mask \ old_mask) => 1 \in timers
  /\ (pc # "wait" /\ con \in Recording) => mask \subseteq old_mask

\* The index of the ring's endpoint buffers stays in step.
InPhase(w, f, x) ==
  (x \in f => 1 - x \in f) /\ (w = x <=> (x \in f <=> 1 - x \in f))
Stepped ==
  /\ armed => b \notin free_usb
  /\ (clean /\ pc # "wait") => InPhase(traceU, free_usb, b)

Inv == TypeInv /\ Session /\ Monitors /\ Held /\ Saved /\ Stepped

\* InStep, said of each buffer
LEMMA PhaseIsStep ==
  ASSUME free_usb \subseteq {0, 1}, b \in {0, 1}, NEW w \in {0, 1}
  PROVE  InStep(w) => InPhase(w, free_usb, b)
<1>1. CASE free_usb = {}
  BY <1>1 DEF InStep, InPhase
<1>2. CASE free_usb = {0, 1}
  BY <1>2 DEF InStep, InPhase
<1>3. CASE free_usb = {0}
  BY <1>3 DEF InStep, InPhase
<1>4. CASE free_usb = {1}
  BY <1>4 DEF InStep, InPhase
<1> QED BY <1>1, <1>2, <1>3, <1>4

LEMMA InitInv == Init => Inv
<1> SUFFICES ASSUME Init PROVE Inv
  OBVIOUS
<1>1. 0 \in Slots /\ 0 \in 0 .. MaxRx
  BY BoundsAssumption DEF Slots
<1>2. TypeInv
  BY <1>1, BoundsAssumption DEF Init, TypeInv, TypeOK, Labels, CC
<1> QED BY <1>2 DEF Init, Inv, Session, Monitors, Held, Saved, Stepped, Recording

-----------------------------------------------------------------------------
LEMMA TimersStarted ==
  ASSUME NEW new, NEW running, NEW old, old \subseteq running
  PROVE  new \subseteq RecordingEnable(new, running, old)
BY DEF RecordingEnable

LEMMA TimersOfCC ==
  ASSUME NEW new \in SUBSET CC, NEW running \in SUBSET CC, NEW old
  PROVE  RecordingEnable(new, running, old) \in SUBSET CC
BY DEF RecordingEnable

LEMMA SavedSame ==
  ASSUME Saved, UNCHANGED <<mask, timers, wanted, curr, kept, pc>>, con \notin Recording,
         con' \notin Recording
  PROVE  Saved'
BY DEF Saved

\* Steps of CONSOLE
LEMMA ConsoleKeepsInv == Inv /\ ConsoleTask => Inv'
<1> SUFFICES ASSUME Inv, ConsoleTask PROVE Inv'
  OBVIOUS
<1> USE BoundsAssumption
<1> USE DEF ConsoleStep, Command, conRest, masks, rxVars, capVars, ringVars, usbVars
<1>0. (pc \in {"wait", "trace"} /\ events = {}) \/ pc = "blocked"
  BY DEF ConsoleTask, SetTraceMode, WakeSniffer, Record, SwitchTimer, WriteMask,
     ReadTracing, SaveTracing, Transmit, EnableTracing
<1>1. UNCHANGED <<pc, hit, pkt, clean, ringVars, usbVars>> \/ ~SetTraceMode
  BY DEF SetTraceMode
<1>2. CASE SetTraceMode
  <2>1. TypeInv'
    BY <1>0, <1>2 DEF SetTraceMode, Inv, TypeInv, TypeOK, Recording
  <2>2. Session' /\ Stepped'
    BY <1>2 DEF SetTraceMode, Inv, Session, Stepped
  <2>3. Monitors'
    BY <1>0, <1>2 DEF SetTraceMode, Inv, TypeInv, TypeOK, Monitors
  <2>4. Held'
    BY <1>0, <1>2 DEF SetTraceMode, Inv, TypeInv, TypeOK, Held
  <2>5. Saved'
    BY <1>2, SavedSame DEF SetTraceMode, Inv, Recording
  <2> QED BY <2>1, <2>2, <2>3, <2>4, <2>5 DEF Inv
<1>3. CASE WakeSniffer
  <2>1. TypeInv'
    BY <1>0, <1>3 DEF WakeSniffer, Kicked, Inv, TypeInv, TypeOK, Recording
  <2>2. Session' /\ Stepped'
    BY <1>3 DEF WakeSniffer, Inv, Session, Stepped
  <2>3. Monitors'
    BY <1>0, <1>3 DEF WakeSniffer, Kicked, Inv, TypeInv, TypeOK, Monitors
  <2>4. Held'
    BY <1>0, <1>3 DEF WakeSniffer, Kicked, Inv, TypeInv, TypeOK, Held
  <2>5. Saved'
    BY <1>3, SavedSame DEF WakeSniffer, Inv, Recording
  <2> QED BY <2>1, <2>2, <2>3, <2>4, <2>5 DEF Inv
<1>4. CASE Record
  <2>1. /\ con' = "rx1" /\ old_mask' = mask /\ new_mask' \in SUBSET CC
        /\ con = "idle" /\ UNCHANGED <<conRest, rxVars, capVars, events, trace_mode, flag, spoiled>>
    BY <1>4 DEF Record, CC
  <2>2. TypeInv'
    BY <2>1 DEF Inv, TypeInv, TypeOK, Recording
  <2>3. Saved'
    BY <2>1 DEF Inv, Saved, Recording
  <2>4. Monitors'
    BY <2>1 DEF Inv, Monitors
  <2> QED BY <2>1, <2>2, <2>3, <2>4 DEF Inv, Session, Held, Stepped
<1>41. CASE SwitchTimer
  <2>1. PICK c \in CC :
          /\ timers' = RecordingEnable(new_mask \cap {c}, timers, old_mask \cap {c})
          /\ \/ c = 0 /\ con = "rx1" /\ con' = "rx2"
             \/ c = 1 /\ con = "rx2" /\ con' = "write"
    BY <1>41 DEF SwitchTimer, CC
  <2>2. UNCHANGED <<conRest, rxVars, mask, wanted, curr, kept, events, trace_mode, flag, new_mask,
                    old_mask, spoiled>>
    BY <1>41 DEF SwitchTimer, masks
  <2>3. timers' \in SUBSET CC
    BY <2>1, TimersOfCC DEF Inv, TypeInv, TypeOK
  <2>4. TypeInv'
    <3>1. con' \in Recording
      BY <2>1 DEF Recording
    <3>2. timers' \subseteq CC
      BY <2>3
    <3> QED BY <2>2, <3>1, <3>2, SMTT(30) DEF Inv, TypeInv, TypeOK
  <2>5. (old_mask \cap new_mask) \ timers' \subseteq (old_mask \cap new_mask) \ timers
    BY <2>1 DEF RecordingEnable
  <2>6. c \in new_mask \ old_mask => c \in timers'
    BY <2>1 DEF RecordingEnable
  <2>7. 0 \in new_mask \ old_mask /\ 0 \in timers => 0 \in timers'
    BY <2>1 DEF RecordingEnable
  <2>8. Saved'
    <3>1. CASE pc = "wait"
      BY <2>1, <2>2, <2>5, <2>6, <2>7, <3>1 DEF conRest, Inv, Saved, Recording
    <3>2. CASE pc # "wait"
      BY <2>1, <2>2, <3>2 DEF conRest, Inv, Saved, Recording
    <3> QED BY <3>1, <3>2
  <2>9. Monitors'
    BY <2>1, <2>2 DEF Inv, Monitors
  <2> QED BY <2>2, <2>4, <2>8, <2>9 DEF Inv, Session, Held, Stepped
<1>42. CASE WriteMask
  <2>1. /\ con = "write" /\ con' = "idle" /\ mask' = new_mask /\ new_mask' = CC /\ old_mask' = CC
        /\ wanted' = IF pc = "wait" THEN new_mask ELSE wanted
        /\ UNCHANGED <<conRest, rxVars, timers, curr, kept, events, trace_mode, flag, spoiled>>
    BY <1>42 DEF WriteMask
  <2>2. TypeInv'
    BY <2>1 DEF Inv, TypeInv, TypeOK
  <2>3. pc = "wait" => new_mask \ timers \subseteq kept
    <3> SUFFICES ASSUME pc = "wait", NEW c \in new_mask, c \notin timers PROVE c \in kept
      OBVIOUS
    <3>1. c \in {0, 1}
      BY DEF Inv, TypeInv, TypeOK, CC
    <3>2. c \in old_mask
      BY <2>1, <3>1 DEF Inv, Saved, Recording
    <3> QED BY <2>1, <3>2 DEF Inv, Saved, Recording
  <2>4. Saved'
    BY <2>1, <2>3 DEF Inv, Saved, Recording
  <2>5. Monitors'
    BY <2>1 DEF Inv, Monitors
  <2> QED BY <2>1, <2>2, <2>4, <2>5 DEF Inv, Session, Held, Stepped
<1>5. CASE ReadTracing
  <2>1. TypeInv'
    BY <1>0, <1>5 DEF ReadTracing, Inv, TypeInv, TypeOK, Recording
  <2>2. Session' /\ Stepped'
    BY <1>5 DEF ReadTracing, Inv, Session, Stepped
  <2>3. Monitors'
    BY <1>0, <1>5 DEF ReadTracing, Inv, TypeInv, TypeOK, Monitors
  <2>4. Held'
    BY <1>0, <1>5 DEF ReadTracing, Inv, TypeInv, TypeOK, Held
  <2>5. Saved'
    BY <1>5, SavedSame DEF ReadTracing, Inv, Recording
  <2> QED BY <2>1, <2>2, <2>3, <2>4, <2>5 DEF Inv
<1>6. CASE SaveTracing
  <2>1. TypeInv'
    BY <1>0, <1>6 DEF SaveTracing, Inv, TypeInv, TypeOK, Recording
  <2>2. Session' /\ Stepped'
    BY <1>6 DEF SaveTracing, Inv, Session, Stepped
  <2>3. Monitors'
    BY <1>0, <1>6 DEF SaveTracing, Inv, TypeInv, TypeOK, Monitors
  <2>4. Held'
    BY <1>0, <1>6 DEF SaveTracing, Inv, TypeInv, TypeOK, Held
  <2>5. Saved'
    BY <1>6, SavedSame DEF SaveTracing, Inv, Recording
  <2> QED BY <2>1, <2>2, <2>3, <2>4, <2>5 DEF Inv
<1>7. CASE Transmit
  <2>1. TypeInv'
    BY <1>0, <1>7 DEF Transmit, Inv, TypeInv, TypeOK, Recording
  <2>2. Session' /\ Stepped'
    BY <1>7 DEF Transmit, Inv, Session, Stepped
  <2>3. Monitors'
    BY <1>0, <1>7 DEF Transmit, Inv, TypeInv, TypeOK, Monitors
  <2>4. Held'
    BY <1>0, <1>7 DEF Transmit, Inv, TypeInv, TypeOK, Held
  <2>5. Saved'
    BY <1>7, SavedSame DEF Transmit, Inv, Recording
  <2> QED BY <2>1, <2>2, <2>3, <2>4, <2>5 DEF Inv
<1>8. CASE EnableTracing
  <2>1. TypeInv'
    BY <1>0, <1>8 DEF EnableTracing, TracingIfNeeded, Inv, TypeInv, TypeOK, Recording
  <2>2. Session' /\ Stepped'
    BY <1>8 DEF EnableTracing, Inv, Session, Stepped
  <2>3. Monitors'
    BY <1>0, <1>8 DEF EnableTracing, TracingIfNeeded, Inv, TypeInv, TypeOK, Monitors
  <2>4. Held'
    BY <1>0, <1>8 DEF EnableTracing, TracingIfNeeded, Inv, TypeInv, TypeOK, Held
  <2>5. Saved'
    BY <1>8, SavedSame DEF EnableTracing, Inv, Recording
  <2> QED BY <2>1, <2>2, <2>3, <2>4, <2>5 DEF Inv
<1> QED BY <1>2, <1>3, <1>4, <1>41, <1>42, <1>5, <1>6, <1>7, <1>8 DEF ConsoleTask

-----------------------------------------------------------------------------
LEMMA NextInv == Inv /\ [Next]_vars => Inv'
<1> SUFFICES ASSUME Inv, [Next]_vars PROVE Inv'
  OBVIOUS
<1> USE BoundsAssumption
<1> USE DEF rxVars, capVars, ringVars, usbVars, conVars
<1>1. CASE RxEvent
  <2>1. TypeInv'
    <3>1. raw' \in 0 .. MaxRx /\ rxs' \in 0 .. MaxRx
      BY <1>1 DEF RxEvent, Inv, TypeInv, TypeOK
    <3>2. imr' \in BOOLEAN
      BY <1>1 DEF RxEvent, Ignored
    <3>3. events' \subseteq {"USB", "PKT", "WAKE"}
      BY <1>1 DEF RxEvent, Inv, TypeInv, TypeOK
    <3> QED BY <1>1, <3>1, <3>2, <3>3, SMTT(30) DEF RxEvent, Inv, TypeInv, TypeOK
  <2>2. Session' /\ Monitors' /\ Saved' /\ Stepped'
    BY <1>1 DEF RxEvent, Ignored, Inv, Session, Monitors, Saved, Stepped
  <2>3. Held'
    BY <1>1 DEF RxEvent, Ignored, Inv, Held
  <2> QED BY <2>1, <2>2, <2>3 DEF Inv
<1>2. CASE EpTx
  <2>1. UNCHANGED <<rxVars, capVars, ringVars, conVars, pc, hit, pkt, clean, spoiled>>
        /\ events' = events \cup {"USB"}
    BY <1>2 DEF EpTx, UsbEvent
  <2>2. free_usb' = IF armed THEN free_usb \cup {b} ELSE free_usb
    BY <1>2 DEF EpTx
  <2>3. b' = (IF armed THEN 1 - b ELSE b) /\ armed' = (b' \notin free_usb')
    BY <1>2 DEF EpTx
  <2>4. TypeInv'
    BY <2>1, <2>2, <2>3 DEF Inv, TypeInv, TypeOK
  <2>5. Stepped'
    <3>1. armed' => b' \notin free_usb'
      BY <2>3
    <3>2. ASSUME clean, pc # "wait" PROVE InPhase(traceU, free_usb', b')
      <4>1. CASE armed
        <5>1. free_usb' = free_usb \cup {b} /\ b' = 1 - b /\ b \notin free_usb
          BY <4>1, <2>2, <2>3 DEF Inv, Stepped
        <5> QED BY <3>2, <5>1 DEF Inv, TypeInv, TypeOK, Stepped, InPhase
      <4>2. CASE ~armed
        <5>1. free_usb' = free_usb /\ b' = b
          BY <4>2, <2>2, <2>3
        <5> QED BY <3>2, <5>1 DEF Inv, Stepped
      <4> QED BY <4>1, <4>2
    <3> QED BY <2>1, <3>1, <3>2 DEF Stepped
  <2> QED BY <2>1, <2>4, <2>5 DEF Inv, Session, Monitors, Held, Saved
<1>3. CASE CaptureCopies
  <2>1. pc = "wait" /\ pc' = pc /\ free_usb' = free_usb \ {snifferU}
        /\ UNCHANGED <<rxVars, ringVars, conVars, mask, timers, wanted, curr, kept, b, armed, events,
                       hit, pkt, clean, spoiled>>
    BY <1>3 DEF CaptureCopies
  <2>2. TypeInv'
    <3>1. free_usb' \subseteq {0, 1}
      BY <2>1 DEF Inv, TypeInv, TypeOK
    <3> QED BY <2>1, <3>1, SMTT(30) DEF Inv, TypeInv, TypeOK
  <2> QED BY <2>1, <2>2 DEF Inv, Session, Monitors, Held, Saved, Stepped
<1>4. CASE Wake
  <2>1. pc = "wait" /\ events' = {}
        /\ UNCHANGED <<wanted, kept, sp_idx, idx, traceU, usbVars, conVars, raw, rxs, hit, pkt>>
    BY <1>4 DEF Wake
  <2>2. CASE trace_mode = "OFF"
    <3>1. UNCHANGED <<pc, rxVars, mask, timers, curr, filled_pkt, clean, spoiled>>
      BY <1>4, <2>2 DEF Wake
    <3>2. TypeInv'
      BY <2>1, <3>1 DEF Inv, TypeInv, TypeOK
    <3> QED BY <2>1, <3>1, <3>2 DEF Inv, Session, Monitors, Held, Saved, Stepped
  <2>3. CASE trace_mode # "OFF"
    <3>0. timers' \in SUBSET CC /\ kept' = kept
      BY <1>4, <2>3, TimersOfCC DEF Wake, Inv, TypeInv, TypeOK
    <3>1. curr' = mask /\ mask' = {} /\ filled_pkt' = {} /\ imr' /\ irqOn'
          /\ imr' \in BOOLEAN /\ irqOn' \in BOOLEAN /\ pc' = "trace" /\ spoiled' = FALSE
      BY <1>4, <2>3 DEF Wake
    <3>2. clean' \in BOOLEAN /\ (clean' => InStep(traceU))
      BY <1>4, <2>3 DEF Wake
    <3>3. TypeInv'
      BY <2>1, <3>0, <3>1, <3>2 DEF Inv, TypeInv, TypeOK, Labels
    <3>4. Stepped'
      BY <2>1, <3>1, <3>2, PhaseIsStep DEF Inv, TypeInv, TypeOK, Stepped
    <3> QED BY <2>1, <3>0, <3>1, <3>3, <3>4 DEF Inv, Session, Monitors, Held, Saved
  <2> QED BY <2>2, <2>3
<1>5. CASE TraceEvent
  <2>1. pc = "trace" /\ events' = {} /\ hit' = ("PKT" \in events)
        /\ spoiled' = (spoiled \/ ("PKT" \notin events /\ "WAKE" \in events))
        /\ UNCHANGED <<rxVars, capVars, ringVars, usbVars, conVars, pkt, clean>>
    BY <1>5 DEF TraceEvent
  <2>2. pc' \in {"end", "reload", "analyze"}
    BY <1>5 DEF TraceEvent
  <2>3. pc' = "reload" => "PKT" \notin events
    BY <1>5 DEF TraceEvent
  <2>4. pc' = "analyze" /\ ~spoiled' => "PKT" \in events
    <3>1. events \subseteq {"USB", "WAKE"} /\ events # {} =>
            events \in {{"USB"}, {"WAKE"}, {"WAKE", "USB"}}
      OBVIOUS
    <3>2. events # {"USB"} \/ pc' # "analyze"
      BY <1>5 DEF TraceEvent
    <3>3. events # {} /\ events \subseteq {"USB", "PKT", "WAKE"}
      BY <1>5 DEF TraceEvent, Inv, TypeInv, TypeOK
    <3> QED BY <2>1, <3>1, <3>2, <3>3
  <2>5. TypeInv'
    BY <2>1, <2>2 DEF Inv, TypeInv, TypeOK, Labels
  <2>6. Held'
    BY <2>1, <2>2, <2>4 DEF Inv, Held
  <2> QED BY <2>1, <2>2, <2>3, <2>5, <2>6
          DEF Inv, Session, Monitors, Saved, Stepped
<1>6. CASE Analyze
  BY <1>6 DEF Analyze, Inv, TypeInv, TypeOK, Labels, Session, Monitors, Held, Saved,
     Stepped
<1>7. CASE Rearm
  BY <1>7 DEF Rearm, Inv, TypeInv, TypeOK, Labels, Session, Monitors, Held, Saved,
     Stepped
<1>8. CASE Output
  <2>1. pc = "output" /\ UNCHANGED <<rxVars, capVars, usbVars, conVars, events, spoiled>>
        /\ pkt' = 0 /\ hit' = FALSE /\ traceU' = traceU /\ idx' = idx
        /\ pc' \in {"blocked", "trace", "reload"} /\ (clean' => clean)
    <3>1. CASE trace_mode = "RAW" /\ TracePacket
      BY <1>8, <3>1 DEF Output, TracePacket, Inv, TypeInv
    <3>2. CASE trace_mode # "RAW" /\ pc' \in {"blocked", "trace"}
               /\ UNCHANGED <<ringVars, clean>>
      BY <1>8, <3>2 DEF Output
    <3> QED BY <1>8, <3>1, <3>2 DEF Output
  <2>2. sp_idx' \in Slots /\ filled_pkt' \subseteq Slots /\ clean' \in BOOLEAN
    <3>1. CASE trace_mode = "RAW" /\ TracePacket
      <4>1. sp_idx' = (sp_idx + 1) % NSlots /\ filled_pkt' = filled_pkt \cup {sp_idx}
        BY <3>1 DEF TracePacket, NextIdx
      <4>2. (sp_idx + 1) % NSlots \in Slots
        BY DEF Inv, TypeInv, TypeOK, Slots
      <4>3. clean' \in BOOLEAN
        BY <3>1 DEF TracePacket
      <4> QED BY <4>1, <4>2, <4>3 DEF Inv, TypeInv, TypeOK
    <3>2. CASE trace_mode # "RAW" /\ UNCHANGED <<ringVars, clean>>
      BY <3>2 DEF Inv, TypeInv, TypeOK
    <3> QED BY <1>8, <3>1, <3>2 DEF Output
  <2>3. TypeInv'
    <3>1. pkt' \in 0 .. MaxRx
      BY <2>1
    <3>2. pc' \in Labels /\ hit' \in BOOLEAN
      BY <2>1 DEF Labels
    <3> QED BY <2>1, <2>2, <3>1, <3>2, SMTT(30) DEF Inv, TypeInv, TypeOK
  <2> QED BY <2>1, <2>3 DEF Inv, Session, Monitors, Held, Saved, Stepped
<1>9. CASE Unblock
  BY <1>9 DEF Unblock, Inv, TypeInv, TypeOK, Labels, Session, Monitors, Held, Saved,
     Stepped
<1>10. CASE ReloadTurn
  <2>1. pc = "reload" /\ free_usb # {} /\ free_usb' = free_usb \ {traceU}
        /\ traceU' = 1 - traceU
        /\ UNCHANGED <<rxVars, capVars, sp_idx, b, armed, conVars, events, pc, hit, pkt,
                       clean, spoiled>>
    BY <1>10 DEF ReloadTurn, OtherU
  <2>2. idx' \in Slots /\ filled_pkt' \subseteq Slots
    BY <1>10 DEF ReloadTurn, NextFilled, Inv, TypeInv, TypeOK
  <2>3. TypeInv'
    <3>1. free_usb' \subseteq {0, 1} /\ traceU' \in {0, 1}
      BY <2>1 DEF Inv, TypeInv, TypeOK
    <3> QED BY <2>1, <2>2, <3>1, SMTT(30) DEF Inv, TypeInv, TypeOK
  <2>4. Stepped'
    <3>1. armed' => b' \notin free_usb'
      BY <2>1 DEF Inv, Stepped
    <3>2. ASSUME clean PROVE InPhase(traceU', free_usb', b)
      <4>1. InPhase(traceU, free_usb, b)
        BY <2>1, <3>2 DEF Inv, Stepped
      <4>2. b \in {0, 1} /\ traceU \in {0, 1} /\ (0 \in free_usb \/ 1 \in free_usb)
        BY <2>1 DEF Inv, TypeInv, TypeOK
      <4>3. CASE traceU = b
        BY <2>1, <4>1, <4>2, <4>3 DEF InPhase
      <4>4. CASE traceU # b
        BY <2>1, <4>1, <4>2, <4>4 DEF InPhase
      <4> QED BY <4>3, <4>4
    <3> QED BY <2>1, <3>1, <3>2 DEF Stepped
  <2> QED BY <2>1, <2>3, <2>4 DEF Inv, Session, Monitors, Held, Saved
<1>11. CASE ReloadEnd
  BY <1>11 DEF ReloadEnd, Inv, TypeInv, TypeOK, Labels, Session, Monitors, Held, Saved,
     Stepped
<1>12. CASE TraceEnd
  <2>1. timers' = RecordingEnable(curr, CC, mask) /\ mask' = curr
        /\ kept' = IF con \in Recording THEN kept \cup (old_mask \cap new_mask) ELSE kept
    BY <1>12 DEF TraceEnd
  <2>2. pc = "end" /\ pc' = "wait" /\ ~irqOn' /\ irqOn' \in BOOLEAN
        /\ UNCHANGED <<imr, raw, rxs, wanted, curr, ringVars, usbVars, conVars, events, hit, pkt,
                       clean, spoiled>>
    BY <1>12 DEF TraceEnd
  <2>3. curr \in SUBSET CC /\ CC \in SUBSET CC
    BY DEF Inv, TypeInv, TypeOK
  <2>4. timers' \in SUBSET CC
    BY <2>1, <2>3, TimersOfCC
  <2>5. mask' \subseteq timers'
    BY <2>1, <2>3 DEF RecordingEnable
  <2>6. \A c \in new_mask \ old_mask : con \in Recording => c \in timers'
    BY <2>1, <2>2 DEF RecordingEnable, Inv, TypeInv, TypeOK, Saved
  <2>7. TypeInv'
    BY <2>1, <2>2, <2>4 DEF Inv, TypeInv, TypeOK, Labels
  <2>8. Saved'
    BY <2>1, <2>2, <2>5, <2>6 DEF Inv, Saved
  <2> QED BY <2>2, <2>7, <2>8 DEF Inv, Session, Monitors, Held, Stepped
<1>13. CASE ConsoleTask
  BY <1>13, ConsoleKeepsInv
<1>14. CASE UNCHANGED vars
  BY <1>14 DEF vars, Inv, TypeInv, TypeOK, Session, Monitors, Held, Saved, Stepped
<1> QED BY <1>1, <1>2, <1>3, <1>4, <1>5, <1>6, <1>7, <1>8, <1>9, <1>10, <1>11, <1>12,
           <1>13, <1>14 DEF Next, SnifferTask

LEMMA Invariant == Spec => []Inv
BY InitInv, NextInv, PTL DEF Spec

(* Every variable of the tracer keeps its type: the indices of the ring    *)
(* and of the endpoint buffers stay inside their arrays.                   *)
THEOREM TypeCorrect == Spec => []TypeOK
<1>1. Inv => TypeOK
  BY DEF Inv, TypeInv
<1> QED BY <1>1, Invariant, PTL

(* When the tracer waits for a packet and CONSOLE is not sending, the      *)
(* comparators can start a reception, however CONSOLE's saving and         *)
(* restoring of the interrupt mask fell between the packets before.        *)
THEOREM NeverDeaf == Spec => []NotDeaf
<1>1. Inv => NotDeaf
  BY DEF Inv, Session, Monitors, NotDeaf
<1> QED BY <1>1, Invariant, PTL

(* No other reception overwrites a packet that woke the tracer before it   *)
(* is analysed, unless it was spoiled: CONSOLE sent over it while the      *)
(* tracer was printing, or the tracer took a kick for a packet.            *)
THEOREM AnalysedIntact == Spec => []Intact
<1>1. Inv => Intact
  BY DEF Inv, Held, Intact
<1> QED BY <1>1, Invariant, PTL

(* Between the commands the mask is the one asked for last outside a       *)
(* trace, wherever a trace ended between the accesses of a command, and    *)
(* only the channels kept by such a command may be left uncaptured.        *)
THEOREM CaptureComesBack == Spec => []CaptureRestored
<1>1. Inv => CaptureRestored
  BY DEF Inv, Saved, CaptureRestored
<1> QED BY <1>1, Invariant, PTL

(* In a session that began in step, the tracer fills only free buffers.    *)
THEOREM FillsFree == Spec => []ReloadsFreeBuffer
<1>1. Inv => ReloadsFreeBuffer
  <2> SUFFICES ASSUME Inv, pc = "reload", clean, free_usb # {} PROVE traceU \in free_usb
    BY DEF ReloadsFreeBuffer
  <2>1. 0 \in free_usb \/ 1 \in free_usb
    BY DEF Inv, TypeInv, TypeOK
  <2>2. b \in {0, 1} /\ traceU \in {0, 1}
    BY DEF Inv, TypeInv, TypeOK
  <2>3. InPhase(traceU, free_usb, b)
    BY DEF Inv, Stepped
  <2> QED BY <2>1, <2>2, <2>3 DEF InPhase
<1> QED BY <1>1, Invariant, PTL
-----------------------------------------------------------------------------
(* The order of the records.                                               *)

RecTypes == ring \in [Slots -> Nat] /\ epBuf \in [{0, 1} -> Nat] /\ traced \in Nat
            /\ host \in Nat

\* Records are numbered as they are made.
Made ==
  /\ host <= traced
  /\ \A x \in {0, 1} : epBuf[x] <= traced
  /\ \A s \in Slots : ring[s] <= traced

\* A record in an endpoint buffer is newer than what the host has, and the one in
\* the buffer that is sent next is the older one.
BufOrder == clean => \A x \in {0, 1} \ free_usb : epBuf[x] # Sample =>
  /\ epBuf[x] > host
  /\ (x # b /\ b \notin free_usb) => epBuf[b] < epBuf[x]

\* A record in the ring is newer than both; the scan from idx meets the older
\* records first, and none beyond the slot that is written next.
RingOrder == (clean /\ pc # "wait") =>
  \A s \in filled_pkt :
    /\ ring[s] > host
    /\ \A x \in {0, 1} \ free_usb : epBuf[x] < ring[s]
    /\ sp_idx = idx \/ Ahead(s) < Ahead(sp_idx)
    /\ \A r \in filled_pkt : Ahead(s) < Ahead(r) => ring[s] < ring[r]

RInv == RecTypes /\ Made /\ BufOrder /\ RingOrder

\* The distance without the remainder.
Dist(i, s) == IF s >= i THEN s - i ELSE s - i + NSlots

LEMMA DistIsRest ==
  ASSUME NEW s \in Slots, NEW i \in Slots
  PROVE  (s - i + NSlots) % NSlots = Dist(i, s)
<1>1. NSlots \in Nat /\ NSlots > 0 /\ s \in 0 .. NSlots - 1 /\ i \in 0 .. NSlots - 1
  BY BoundsAssumption DEF Slots
<1>2. CASE s >= i
  <2>1. s - i + NSlots = NSlots + (s - i) /\ s - i \in 0 .. NSlots - 1
    BY <1>1, <1>2
  <2>2. (s - i + NSlots) % NSlots = s - i
    BY <1>1, <2>1
  <2> QED BY <1>2, <2>2 DEF Dist
<1>3. CASE s < i
  <2>1. s - i + NSlots \in 0 .. NSlots - 1
    BY <1>1, <1>3
  <2>2. (s - i + NSlots) % NSlots = s - i + NSlots
    BY <1>1, <2>1
  <2> QED BY <1>1, <1>3, <2>2 DEF Dist
<1> QED BY <1>1, <1>2, <1>3

LEMMA AheadIsDist ==
  ASSUME NEW s \in Slots, idx \in Slots
  PROVE  Ahead(s) = Dist(idx, s)
BY DistIsRest DEF Ahead

LEMMA AheadPrimed ==
  ASSUME NEW s \in Slots, idx' \in Slots
  PROVE  Ahead(s)' = Dist(idx', s)
BY DistIsRest DEF Ahead

\* The slot after s is one further, or is idx.
LEMMA NextSlotDist ==
  ASSUME NEW s \in Slots, NEW i \in Slots
  PROVE  LET n == (s + 1) % NSlots
         IN  n \in Slots /\ (n = i \/ Dist(i, n) = Dist(i, s) + 1)
<1>1. NSlots \in Nat /\ NSlots > 0 /\ s \in 0 .. NSlots - 1 /\ i \in 0 .. NSlots - 1
  BY BoundsAssumption DEF Slots
<1>2. (s + 1) % NSlots = IF s + 1 = NSlots THEN 0 ELSE s + 1
  <2>1. CASE s + 1 = NSlots
    BY <1>1, <2>1
  <2>2. CASE s + 1 # NSlots
    <3>1. s + 1 \in 0 .. NSlots - 1
      BY <1>1, <2>2
    <3> QED BY <1>1, <2>2, <3>1
  <2> QED BY <2>1, <2>2
<1>3. (IF s + 1 = NSlots THEN 0 ELSE s + 1) \in 0 .. NSlots - 1
  BY <1>1
<1> DEFINE n == IF s + 1 = NSlots THEN 0 ELSE s + 1
<1>4. n = i \/ Dist(i, n) = Dist(i, s) + 1
  BY <1>1 DEF Dist
<1> QED BY <1>2, <1>3, <1>4 DEF Slots

LEMMA RecInit == Init => RInv
<1> SUFFICES ASSUME Init PROVE RInv
  OBVIOUS
<1>1. RecTypes
  BY DEF Init, RecTypes, Sample
<1>2. Made
  BY DEF Init, Made, Sample
<1> QED BY <1>1, <1>2 DEF Init, RInv, BufOrder, RingOrder

\* A step that touches neither the ring nor the buffers, in or out of a trace.
LEMMA RecUnchanged ==
  ASSUME RInv, UNCHANGED <<ringVars, usbVars>>, clean' = clean,
         pc' = "wait" \/ pc # "wait"
  PROVE  RInv'
<1>1. UNCHANGED <<ring, filled_pkt, sp_idx, idx, traced, epBuf, free_usb, b, host>>
  BY DEF ringVars, usbVars
<1>2. RecTypes' /\ Made'
  BY <1>1 DEF RInv, RecTypes, Made
<1>3. BufOrder'
  BY <1>1 DEF RInv, BufOrder
<1>4. RingOrder'
  <2>1. \A s : Ahead(s)' = Ahead(s)
    BY <1>1 DEF Ahead
  <2> QED BY <1>1, <2>1 DEF RInv, RingOrder
<1> QED BY <1>2, <1>3, <1>4 DEF RInv

LEMMA EpTxRec == Inv /\ RInv /\ EpTx => RInv'
<1> SUFFICES ASSUME Inv, RInv, EpTx PROVE RInv'
  OBVIOUS
<1>1. UNCHANGED <<ring, filled_pkt, sp_idx, idx, traced, epBuf, pc, clean>>
      /\ free_usb \subseteq {0, 1} /\ b \in {0, 1}
  BY DEF EpTx, ringVars, Inv, TypeInv, TypeOK
<1>2. CASE ~armed
  <2>1. host' = host /\ free_usb' = free_usb /\ b' = b
    BY <1>2 DEF EpTx
  <2>2. \A s : Ahead(s)' = Ahead(s)
    BY <1>1 DEF Ahead
  <2> QED BY <1>1, <2>1, <2>2 DEF RInv, RecTypes, Made, BufOrder, RingOrder
<1>3. CASE armed
  <2>1. /\ b \notin free_usb /\ free_usb' = free_usb \cup {b} /\ b' = 1 - b
        /\ host' = IF epBuf[b] # Sample THEN epBuf[b] ELSE host
    BY <1>3 DEF EpTx, Inv, Stepped
  <2>2. RecTypes' /\ Made'
    BY <1>1, <2>1 DEF RInv, RecTypes, Made
  <2>3. BufOrder'
    <3> SUFFICES ASSUME clean, NEW x \in {0, 1} \ free_usb', epBuf[x] # Sample
                 PROVE  epBuf[x] > host' /\ x = b'
      BY <1>1 DEF BufOrder
    <3>1. x # b /\ x = b' /\ x \in {0, 1} \ free_usb
      BY <1>1, <2>1
    <3>2. epBuf[x] > host /\ epBuf[b] < epBuf[x]
      BY <2>1, <3>1 DEF RInv, BufOrder
    <3> QED BY <2>1, <3>1, <3>2
  <2>4. RingOrder'
    <3>1. \A s : Ahead(s)' = Ahead(s)
      BY <1>1 DEF Ahead
    <3>2. (clean /\ pc # "wait") => \A s \in filled_pkt : ring[s] > host'
      BY <1>1, <2>1 DEF RInv, RingOrder
    <3> QED BY <1>1, <2>1, <3>1, <3>2 DEF RInv, RingOrder
  <2> QED BY <2>2, <2>3, <2>4 DEF RInv
<1> QED BY <1>2, <1>3

LEMMA CaptureRec == Inv /\ RInv /\ CaptureCopies => RInv'
<1> SUFFICES ASSUME Inv, RInv, CaptureCopies PROVE RInv'
  OBVIOUS
<1>1. /\ pc = "wait" /\ pc' = "wait" /\ free_usb' = free_usb \ {snifferU}
      /\ epBuf' = [epBuf EXCEPT ![snifferU] = Sample]
      /\ UNCHANGED <<ring, traced, b, host, clean>>
  BY DEF CaptureCopies, ringVars
<1>2. RecTypes' /\ Made'
  <2>1. RecTypes'
    <3>1. epBuf' \in [{0, 1} -> Nat]
      BY <1>1 DEF RInv, RecTypes, Sample
    <3> QED BY <1>1, <3>1 DEF RInv, RecTypes
  <2>2. \A x \in {0, 1} : epBuf'[x] = epBuf[x] \/ epBuf'[x] = 0
    BY <1>1 DEF RInv, RecTypes, Sample
  <2> QED BY <1>1, <2>1, <2>2 DEF RInv, RecTypes, Made
<1>3. BufOrder'
  <2> SUFFICES ASSUME clean, NEW x \in {0, 1} \ free_usb', epBuf'[x] # Sample
               PROVE  epBuf'[x] > host /\ (x # b /\ b \notin free_usb' => epBuf'[b] < epBuf'[x])
    BY <1>1 DEF BufOrder
  <2>1. x # snifferU /\ x \in {0, 1} \ free_usb /\ epBuf'[x] = epBuf[x] /\ epBuf[x] # Sample
    BY <1>1 DEF RInv, RecTypes
  <2>2. epBuf[x] > host /\ (x # b /\ b \notin free_usb => epBuf[b] < epBuf[x])
    BY <2>1 DEF RInv, BufOrder
  <2>3. b = snifferU => epBuf'[b] = 0
    BY <1>1 DEF RInv, RecTypes, Sample, Inv, TypeInv, TypeOK
  <2>4. b # snifferU => epBuf'[b] = epBuf[b] /\ (b \in free_usb' <=> b \in free_usb)
    BY <1>1 DEF RInv, RecTypes, Inv, TypeInv, TypeOK
  <2>5. epBuf[x] > 0
    BY <2>1 DEF RInv, RecTypes, Sample
  <2> QED BY <2>1, <2>2, <2>3, <2>4, <2>5
<1> QED BY <1>1, <1>2, <1>3 DEF RInv, RingOrder

LEMMA WakeRec == Inv /\ RInv /\ Wake => RInv'
<1> SUFFICES ASSUME Inv, RInv, Wake PROVE RInv'
  OBVIOUS
<1>1. UNCHANGED <<ring, sp_idx, idx, traced, usbVars>>
  BY DEF Wake
<1>2. CASE trace_mode = "OFF"
  BY <1>1, <1>2, RecUnchanged DEF Wake, ringVars
<1>3. CASE trace_mode # "OFF"
  <2>1. filled_pkt' = {} /\ (clean' => \A x \in {0, 1} \ free_usb : epBuf[x] = Sample)
    BY <1>3 DEF Wake
  <2> QED BY <1>1, <2>1 DEF RInv, RecTypes, Made, BufOrder, RingOrder, usbVars
<1> QED BY <1>2, <1>3

LEMMA TraceRec == Inv /\ RInv /\ pc # "wait" /\ TracePacket /\ UNCHANGED usbVars /\ pc' # "wait"
                  => RInv'
<1> SUFFICES ASSUME Inv, RInv, pc # "wait", TracePacket, UNCHANGED usbVars, pc' # "wait"
             PROVE  RInv'
  OBVIOUS
<1>1. /\ ring' = [ring EXCEPT ![sp_idx] = traced + 1] /\ traced' = traced + 1
      /\ filled_pkt' = filled_pkt \cup {sp_idx} /\ sp_idx' = (sp_idx + 1) % NSlots
      /\ clean' = (clean /\ ~(sp_idx = idx /\ filled_pkt # {}))
      /\ idx' = idx /\ UNCHANGED <<epBuf, free_usb, b, host>>
  BY DEF TracePacket, NextIdx, usbVars
<1>2. sp_idx \in Slots /\ idx \in Slots /\ filled_pkt \subseteq Slots
  BY DEF Inv, TypeInv, TypeOK
<1>3. RecTypes' /\ Made'
  <2>1. RecTypes'
    BY <1>1, <1>2 DEF RInv, RecTypes
  <2>2. Made'
    BY <1>1, <1>2 DEF RInv, RecTypes, Made
  <2> QED BY <2>1, <2>2
<1>4. BufOrder'
  BY <1>1 DEF RInv, BufOrder
<1>5. RingOrder'
  <2> SUFFICES ASSUME clean, sp_idx # idx \/ filled_pkt = {} PROVE RingOrder'
    BY <1>1 DEF RingOrder
  <2>1. \A s \in Slots : Ahead(s) = Dist(idx, s) /\ Ahead(s)' = Dist(idx, s)
    BY <1>1, <1>2, AheadIsDist DEF Ahead
  <2>2. sp_idx' \in Slots /\ (sp_idx' = idx \/ Dist(idx, sp_idx') = Dist(idx, sp_idx) + 1)
    BY <1>1, <1>2, NextSlotDist
  <2>3. \A s \in Slots : Dist(idx, s) \in Nat
    BY <1>2, BoundsAssumption DEF Dist, Slots
  <2>4. \A s \in filled_pkt : s # sp_idx /\ Dist(idx, s) < Dist(idx, sp_idx)
    BY <1>2, <2>1, <2>3 DEF RInv, RingOrder
  <2>5. \A s \in filled_pkt : ring'[s] = ring[s] /\ ring[s] < ring'[sp_idx]
    BY <1>1, <1>2, <2>4 DEF RInv, RecTypes, Made
  <2>6. ring'[sp_idx] > host /\ \A x \in {0, 1} : epBuf[x] < ring'[sp_idx]
    BY <1>1, <1>2 DEF RInv, RecTypes, Made
  <2>7. \A s \in filled_pkt : /\ ring'[s] > host
                              /\ \A x \in {0, 1} \ free_usb : epBuf[x] < ring'[s]
    BY <2>5 DEF RInv, RingOrder
  <2>8. \A s \in filled_pkt' : sp_idx' = idx \/ Dist(idx, s) < Dist(idx, sp_idx')
    BY <1>1, <1>2, <2>2, <2>3, <2>4
  <2>9. ASSUME NEW s \in filled_pkt', NEW r \in filled_pkt', Dist(idx, s) < Dist(idx, r)
        PROVE  ring'[s] < ring'[r]
    <3>1. CASE r = sp_idx
      <4>1. s \in filled_pkt
        BY <1>1, <1>2, <2>3, <2>9, <3>1
      <4> QED BY <2>5, <3>1, <4>1
    <3>2. CASE r # sp_idx
      <4>1. r \in filled_pkt
        BY <1>1, <3>2
      <4>2. Dist(idx, r) < Dist(idx, sp_idx) /\ s \in Slots /\ r \in Slots
        BY <1>1, <1>2, <2>4, <4>1
      <4>3. s \in filled_pkt
        BY <1>1, <1>2, <2>3, <2>9, <4>2
      <4>4. ring[s] < ring[r]
        BY <2>1, <2>9, <4>1, <4>2, <4>3 DEF RInv, RingOrder
      <4> QED BY <2>5, <4>1, <4>3, <4>4
    <3> QED BY <3>1, <3>2
  <2>10. filled_pkt' \subseteq Slots
    BY <1>1, <1>2
  <2> QED BY <1>1, <2>1, <2>2, <2>6, <2>7, <2>8, <2>9, <2>10 DEF RingOrder
<1> QED BY <1>3, <1>4, <1>5 DEF RInv

LEMMA ReloadRec == Inv /\ RInv /\ ReloadTurn => RInv'
<1> SUFFICES ASSUME Inv, RInv, ReloadTurn PROVE RInv'
  OBVIOUS
<1>1. PICK s \in NextFilled :
        /\ idx' = s /\ epBuf' = [epBuf EXCEPT ![traceU] = ring[s]]
        /\ filled_pkt' = filled_pkt \ {s}
  BY DEF ReloadTurn
<1>2. /\ pc = "reload" /\ pc' = "reload" /\ free_usb # {}
      /\ free_usb' = free_usb \ {traceU}
      /\ UNCHANGED <<ring, sp_idx, traced, b, host, clean>>
  BY DEF ReloadTurn
<1>3. /\ s \in filled_pkt /\ s \in Slots /\ filled_pkt \subseteq Slots /\ idx \in Slots
      /\ sp_idx \in Slots /\ \A r \in filled_pkt : Ahead(s) <= Ahead(r)
      /\ traceU \in {0, 1} /\ b \in {0, 1} /\ free_usb \subseteq {0, 1}
  BY DEF NextFilled, Inv, TypeInv, TypeOK
<1>4. epBuf'[traceU] = ring[s] /\ epBuf'[1 - traceU] = epBuf[1 - traceU]
  BY <1>1, <1>3 DEF RInv, RecTypes
<1>5. RecTypes' /\ Made'
  BY <1>1, <1>2, <1>3 DEF RInv, RecTypes, Made
<1>6. /\ \A r \in Slots : Ahead(r) = Dist(idx, r)
      /\ \A r \in Slots : Ahead(r)' = Dist(s, r)
  <2>1. \A r \in Slots : Ahead(r)' = Dist(idx', r)
    BY <1>1, <1>3, AheadPrimed
  <2> QED BY <1>1, <1>3, <2>1, AheadIsDist
<1>7. ASSUME clean
      PROVE  /\ ring[s] > host
             /\ \A x \in {0, 1} \ free_usb : epBuf[x] < ring[s]
             /\ \A r \in filled_pkt : r # s => Dist(idx, s) < Dist(idx, r)
             /\ \A r \in filled_pkt : r # s => ring[s] < ring[r]
  <2>1. ring[s] > host /\ \A x \in {0, 1} \ free_usb : epBuf[x] < ring[s]
    BY <1>2, <1>3, <1>7 DEF RInv, RingOrder
  <2>2. \A r \in filled_pkt : r # s => Dist(idx, s) < Dist(idx, r)
    BY <1>3, <1>6, BoundsAssumption DEF Dist, Slots
  <2>3. \A r \in filled_pkt : r # s => ring[s] < ring[r]
    BY <1>2, <1>3, <1>6, <1>7, <2>2 DEF RInv, RingOrder
  <2> QED BY <2>1, <2>2, <2>3
<1>8. BufOrder'
  <2> SUFFICES ASSUME clean, NEW x \in {0, 1} \ free_usb', epBuf'[x] # Sample
               PROVE  epBuf'[x] > host /\ (x # b /\ b \notin free_usb' => epBuf'[b] < epBuf'[x])
    BY <1>2 DEF BufOrder
  <2>1. InPhase(traceU, free_usb, b) /\ (0 \in free_usb \/ 1 \in free_usb)
    BY <1>2, <1>3 DEF Inv, Stepped
  <2>2. CASE x = traceU
    <3>1. x # b /\ b \notin free_usb' => b = 1 - traceU /\ b \in {0, 1} \ free_usb
      BY <1>2, <1>3, <2>2
    <3> QED BY <1>4, <1>7, <2>2, <3>1
  <2>3. CASE x # traceU
    <3>1. x = 1 - traceU /\ x \in {0, 1} \ free_usb
      BY <1>2, <1>3, <2>3
    <3>2. x = b
      BY <1>3, <2>1, <3>1 DEF InPhase
    <3> QED BY <1>4, <3>1, <3>2 DEF RInv, BufOrder
  <2> QED BY <2>2, <2>3
<1>9. RingOrder'
  <2> SUFFICES ASSUME clean PROVE RingOrder'
    BY <1>2 DEF RingOrder
  <2>1. filled_pkt' \subseteq Slots /\ \A r \in filled_pkt' : r \in filled_pkt /\ r # s
    BY <1>1, <1>3
  <2>2. ASSUME NEW r \in filled_pkt'
        PROVE  ring[r] > host /\ \A x \in {0, 1} \ free_usb' : epBuf'[x] < ring[r]
    <3>1. ring[r] > host /\ \A x \in {0, 1} \ free_usb : epBuf[x] < ring[r]
      BY <1>2, <2>1, <2>2 DEF RInv, RingOrder
    <3>2. ring[s] < ring[r]
      BY <1>7, <2>1, <2>2
    <3> QED BY <1>2, <1>3, <1>4, <3>1, <3>2
  <2>3. ASSUME NEW r \in filled_pkt'
        PROVE  sp_idx = s \/ Dist(s, r) < Dist(s, sp_idx)
    <3>1. r \in filled_pkt /\ r \in Slots /\ Dist(idx, s) < Dist(idx, r)
      BY <1>3, <1>7, <2>1, <2>3
    <3>2. sp_idx = idx \/ Dist(idx, r) < Dist(idx, sp_idx)
      BY <1>2, <1>3, <1>6, <3>1 DEF RInv, RingOrder
    <3> QED BY <1>3, <3>1, <3>2, BoundsAssumption DEF Dist, Slots
  <2>4. ASSUME NEW r \in filled_pkt', NEW q \in filled_pkt', Dist(s, r) < Dist(s, q)
        PROVE  ring[r] < ring[q]
    <3>1. /\ r \in filled_pkt /\ r \in Slots /\ Dist(idx, s) < Dist(idx, r)
          /\ q \in filled_pkt /\ q \in Slots /\ Dist(idx, s) < Dist(idx, q)
      BY <1>3, <1>7, <2>1, <2>4
    <3>2. Dist(idx, r) < Dist(idx, q)
      BY <1>3, <2>4, <3>1, BoundsAssumption DEF Dist, Slots
    <3> QED BY <1>2, <1>6, <3>1, <3>2 DEF RInv, RingOrder
  <2> QED BY <1>1, <1>2, <1>3, <1>6, <2>1, <2>2, <2>3, <2>4 DEF RingOrder
<1> QED BY <1>5, <1>8, <1>9 DEF RInv

LEMMA RecNext == Inv /\ RInv /\ [Next]_vars => RInv'
<1> SUFFICES ASSUME Inv, RInv, [Next]_vars PROVE RInv'
  OBVIOUS
<1>1. CASE Output
  <2>1. CASE trace_mode = "RAW" /\ TracePacket
    <3>1. pc # "wait" /\ pc' # "wait" /\ UNCHANGED usbVars
      BY <1>1, <2>1 DEF Output, TracePacket
    <3> QED BY <2>1, <3>1, TraceRec
  <2>2. CASE UNCHANGED <<ringVars, clean>>
    BY <1>1, <2>2, RecUnchanged DEF Output
  <2> QED BY <1>1, <2>1, <2>2 DEF Output
<1>2. CASE RxEvent \/ TraceEvent \/ Analyze \/ Rearm \/ Unblock \/ ReloadEnd
  <2>1. UNCHANGED <<ringVars, usbVars>> /\ clean' = clean /\ (pc' = pc \/ pc # "wait")
    BY <1>2 DEF RxEvent, TraceEvent, Analyze, Rearm, Unblock, ReloadEnd
  <2> QED BY <2>1, RecUnchanged
<1>3. CASE TraceEnd
  BY <1>3, RecUnchanged DEF TraceEnd
<1>4. CASE ConsoleTask
  <2>1. UNCHANGED conRest
    BY <1>4 DEF ConsoleTask, SetTraceMode, WakeSniffer, Record, SwitchTimer, WriteMask,
           ReadTracing, SaveTracing,
                Transmit, EnableTracing
  <2> QED BY <2>1, RecUnchanged DEF conRest
<1>5. CASE UNCHANGED vars
  BY <1>5, RecUnchanged DEF vars
<1> QED
  BY <1>1, <1>2, <1>3, <1>4, <1>5, EpTxRec, CaptureRec, WakeRec, ReloadRec
  DEF Next, SnifferTask

(* In a session that began in step, and as long as the writer does not     *)
(* overtake the scan, the host reads the records in the order they were    *)
(* made and none of them twice, through the ring, the scan from idx and    *)
(* the two endpoint buffers.                                               *)
THEOREM RecordsInOrder == Spec => ReadInOrder
<1>1. Spec => []RInv
  <2>1. Inv /\ RInv /\ [Next]_vars => RInv'
    BY RecNext
  <2> QED BY <2>1, RecInit, Invariant, PTL DEF Spec
<1>2. Inv /\ RInv /\ [Next]_vars
        => [(b' # b /\ epBuf[b] # Sample /\ clean) => epBuf[b] > host]_vars
  <2> SUFFICES ASSUME Inv, RInv, Next, b' # b, epBuf[b] # Sample, clean
               PROVE  epBuf[b] > host
    OBVIOUS
  <2>1. EpTx /\ armed
    BY DEF Next, RxEvent, EpTx, CaptureCopies, SnifferTask, Wake, TraceEvent, Analyze,
           Rearm, Output, Unblock, ReloadTurn, ReloadEnd, TraceEnd, ConsoleTask,
           SetTraceMode, WakeSniffer, Record, SwitchTimer, WriteMask,
           ReadTracing, SaveTracing, Transmit,
           EnableTracing, usbVars, conRest
  <2>2. b \in {0, 1} \ free_usb
    BY <2>1 DEF Inv, TypeInv, TypeOK, Stepped
  <2> QED BY <2>2 DEF RInv, BufOrder
<1> QED BY <1>1, <1>2, Invariant, PTL DEF Spec, ReadInOrder
=============================================================================
