------------------------------- MODULE PdLink -------------------------------
(***************************************************************************)
(* The message layer of the PD sink: the transmission and the message      *)
(* identifier of common/usb_pd_protocol.c, the port controller of          *)
(* common/usb_pd_tcpc.c, the stub between them, and the reception of       *)
(* chip/stm32/usb_pd_phy.c.  All of it runs in the task PD_C0, but for the *)
(* comparators' interrupt; the CONSOLE task can only wake PD_C0.           *)
(*                                                                         *)
(* The partner at the other end of the cable is external: it numbers its   *)
(* messages, sends each one until it hears a GoodCRC or gives up, answers  *)
(* what it hears with a GoodCRC, and drops a message whose identifier is   *)
(* that of the one before.  The line loses and corrupts packets.           *)
(*                                                                         *)
(* What the policy engine does with a message is left open: after each it  *)
(* may send messages of its own, and connect or disconnect.  Resets of the *)
(* protocol and the sampling of the CC lines are left out.                 *)
(***************************************************************************)
EXTENDS Integers, FiniteSets

CONSTANTS PD_RETRY_COUNT,  \* 3 in the code
          NIds,            \* message identifiers: 8 in the code
          PartnerTries,    \* how often the partner sends a message
          MaxTx,           \* bound on the messages sent
          MaxRx,           \* bound on the partner's messages
          MaxConn          \* bound on connections and disconnections

ASSUME BoundsAssumption ==
  /\ PD_RETRY_COUNT \in Nat /\ NIds \in Nat \ {0, 1} /\ PartnerTries \in Nat \ {0}
  /\ MaxTx \in Nat /\ MaxRx \in Nat /\ MaxConn \in Nat

VARIABLES
  imr,                 \* monitoring: the comparators interrupt
  rxing, raw,          \* a reception runs, and what has been sampled
  air,                 \* the packet of the partner on the line
  events,              \* events of PD_C0
  enabled,             \* rx_enabled
  head, tail, slot,    \* the receive buffer of two slots, one of them used
  pc, gotRx,           \* PD_C0; gotRx: PD_EVENT_RX was among its events
  sending, r, res,     \* in pd_transmit; the attempt, the result
  msg, msg_id,         \* the number and the identifier of the message sent
  p_n, p_left,         \* the partner's message, and attempts left
  p_sent, p_id,        \* its messages so far, the last identifier it heard
  got,                 \* the messages it accepted
  kept, handled,       \* its last message put into the buffer, and taken from it
  behind, reused, fresh,  \* history, see the properties
  conns

lineVars == <<imr, rxing, raw, air>>
bufVars  == <<head, tail, slot, kept>>
txVars   == <<sending, r, res, msg, msg_id, reused>>
partner  == <<p_n, p_left, p_sent, p_id, got>>
vars == <<lineVars, bufVars, txVars, partner, events, enabled, pc, gotRx, handled,
          behind, fresh, conns>>

Nothing == [kind |-> "nothing", n |-> 0, ok |-> FALSE]
Message(n) == [kind |-> "message", n |-> n, ok |-> TRUE]
GoodCrc(id) == [kind |-> "goodcrc", n |-> id, ok |-> TRUE]

\* pd_task has switched reception off and is about to wait for the first time.
Init ==
  /\ imr = FALSE /\ rxing = FALSE /\ raw = Nothing /\ air = Nothing
  /\ events = {} /\ enabled = FALSE
  /\ head = 0 /\ tail = 0 /\ slot = [s \in {0, 1} |-> Nothing]
  /\ pc = "wait" /\ gotRx = FALSE /\ sending = FALSE /\ r = 0 /\ res = "none"
  /\ msg = 0 /\ msg_id = 0
  /\ p_n = 0 /\ p_left = 0 /\ p_sent = 0 /\ p_id = NIds - 1 /\ got = {}
  /\ kept = 0 /\ handled = 0 /\ behind = FALSE /\ reused = FALSE
  /\ fresh = FALSE /\ conns = 0

-----------------------------------------------------------------------------
(* The partner and the line.                                               *)

\* The partner sends its message, the first time or again.
PartnerSend ==
  /\ air = Nothing
  /\ \/ /\ p_n = 0 /\ p_sent < MaxRx
        /\ p_n' = p_sent + 1 /\ p_sent' = p_sent + 1 /\ p_left' = PartnerTries - 1
     \/ /\ p_n # 0 /\ p_left > 0
        /\ p_left' = p_left - 1 /\ UNCHANGED <<p_n, p_sent>>
  /\ air' = Message(p_n')
  /\ UNCHANGED <<imr, rxing, raw, bufVars, txVars, p_id, got, events, enabled, pc, gotRx,
                 handled, behind, fresh, conns>>

PartnerGivesUp ==
  /\ p_n # 0 /\ p_left = 0 /\ air = Nothing /\ p_n' = 0
  /\ UNCHANGED <<lineVars, bufVars, txVars, p_left, p_sent, p_id, got, events, enabled,
                 pc, gotRx, handled, behind, fresh, conns>>

\* Nobody receives the packet.
AirLost ==
  /\ air # Nothing /\ air' = Nothing
  /\ UNCHANGED <<imr, rxing, raw, bufVars, txVars, partner, events, enabled, pc, gotRx,
                 handled, behind, fresh, conns>>

\* What is sampled of a packet: itself, one whose check sum is wrong, or noise.
Sampled(p) == {p, [p EXCEPT !.ok = FALSE], Nothing}

\* pd_rx_handler: the reception starts, over one that is not yet analysed if
\* monitoring has been enabled since.
RxHandler ==
  /\ imr /\ air # Nothing /\ raw' \in Sampled(air)
  /\ rxing' = TRUE /\ imr' = FALSE /\ air' = Nothing
  /\ events' = events \cup {"RX"}
  /\ UNCHANGED <<bufVars, txVars, partner, enabled, pc, gotRx, handled, behind, fresh, conns>>

\* A packet comes while a reception started by the task is waiting for one.
RxSamples ==
  /\ rxing /\ raw = Nothing /\ ~imr /\ air # Nothing
  /\ raw' \in Sampled(air) /\ air' = Nothing
  /\ UNCHANGED <<imr, rxing, bufVars, txVars, partner, events, enabled, pc, gotRx,
                 handled, behind, fresh, conns>>

-----------------------------------------------------------------------------
(* Reception in tcpc_run.                                                  *)

\* pd_task wakes up, for an event or by its time-out.
Wake ==
  /\ pc = "wait" /\ pc' = "rx"
  /\ gotRx' = ("RX" \in events) /\ events' = {} /\ fresh' = FALSE
  /\ UNCHANGED <<lineVars, bufVars, txVars, partner, enabled, handled, behind, conns>>

After == IF sending THEN "encode" ELSE "monitor"

\* Mutant: there is always room.
NeverFull == FALSE
\* rx_buf_is_full
Full == head # tail

OtherSlot == 1 - head

NoPacket ==
  /\ pc = "rx" /\ ~(rxing /\ enabled) /\ pc' = After
  /\ UNCHANGED <<lineVars, bufVars, txVars, partner, events, enabled, gotRx, handled,
                 behind, fresh, conns>>

\* The event of the reception is neither pending nor that of this turn.
Unannounced == "RX" \notin events /\ (sending \/ ~gotRx)

\* A packet is analysed; a valid one for which there is room is kept and, but for
\* a GoodCRC, acknowledged.  The partner may miss the acknowledgement.
Packet ==
  /\ pc = "rx" /\ rxing /\ enabled /\ pc' = After
  /\ slot' = [slot EXCEPT ![head] = raw]
  /\ rxing' = FALSE /\ raw' = Nothing
  /\ IF raw.ok /\ ~Full
     THEN /\ head' = OtherSlot /\ imr' = TRUE
          /\ kept' = IF raw.kind = "message" THEN raw.n ELSE kept
          /\ p_n' \in IF raw.kind = "message" /\ raw.n = p_n THEN {0, p_n} ELSE {p_n}
          /\ behind' = (behind \/ Unannounced)
     ELSE UNCHANGED <<head, kept, imr, p_n, behind>>
  /\ UNCHANGED <<air, tail, txVars, p_left, p_sent, p_id, got, events, enabled, gotRx,
                 handled, fresh, conns>>

\* Mutant: monitoring is enabled only where a packet was acknowledged.
NotMonitored == imr
Monitored == imr \/ enabled

\* The end of tcpc_run.  A packet that is being received interrupts again at once,
\* and its reception starts afresh.
EnableMonitoring ==
  \/ imr' = Monitored /\ UNCHANGED <<raw, events>>
  \/ /\ rxing /\ enabled /\ imr' = FALSE
     /\ raw' \in {raw, Nothing} /\ events' = events \cup {"RX"}

Monitor ==
  /\ pc = "monitor" /\ pc' = IF gotRx THEN "deliver" ELSE "policy"
  /\ EnableMonitoring
  /\ UNCHANGED <<rxing, air, bufVars, txVars, partner, enabled, gotRx, handled, behind,
                 fresh, conns>>

\* Mutant: the message stays in the buffer.
TailKept == tail
TailAfter == IF head # tail THEN 1 - tail ELSE tail

ReadSlot == tail

\* tcpm_get_message reads the slot of the tail, whether it holds a message or not.
Deliver ==
  /\ pc = "deliver" /\ pc' = "policy" /\ gotRx' = FALSE
  /\ LET got_message == slot[ReadSlot] IN
       handled' = IF head # tail /\ got_message.kind = "message" THEN got_message.n
                                                              ELSE handled
  /\ tail' = TailAfter
  /\ behind' = (behind /\ head # tail')
  /\ UNCHANGED <<lineVars, head, slot, kept, txVars, partner, events, enabled,
                 fresh, conns>>

-----------------------------------------------------------------------------
(* The policy engine.                                                      *)

PolicyDone ==
  /\ pc = "policy" /\ pc' = "wait"
  /\ UNCHANGED <<lineVars, bufVars, txVars, partner, events, enabled, gotRx, handled,
                 behind, fresh, conns>>

\* tcpm_set_rx_enable
SetRxEnable ==
  /\ pc = "policy" /\ pc' = "wait" /\ conns < MaxConn /\ conns' = conns + 1
  /\ enabled' = ~enabled /\ fresh' = ~enabled /\ imr' = (imr /\ ~enabled)
  /\ UNCHANGED <<rxing, raw, air, bufVars, txVars, partner, events, gotRx, handled,
                 behind>>

\* pd_transmit: tcpc_run is called with PD_EVENT_TX.
Transmit ==
  /\ pc = "policy" /\ enabled /\ msg < MaxTx
  /\ msg' = msg + 1 /\ sending' = TRUE /\ pc' = "rx"
  /\ UNCHANGED <<lineVars, bufVars, r, res, msg_id, reused, partner, events, enabled, gotRx,
                 handled, behind, fresh, conns>>

-----------------------------------------------------------------------------
(* send_validate_message.                                                  *)

\* prepare_message writes the packet into raw_samples, whatever is received there.
Encode ==
  /\ pc = "encode" /\ pc' = "start" /\ raw' = Nothing
  /\ UNCHANGED <<imr, rxing, air, bufVars, txVars, partner, events, enabled, gotRx,
                 handled, behind, fresh, conns>>

\* The partner hears the message, and answers with a GoodCRC.
Heard ==
  /\ air = Nothing /\ air' = GoodCrc(msg_id)
  /\ p_id' = msg_id /\ got' = IF p_id = msg_id THEN got ELSE got \cup {msg}

Missed == UNCHANGED <<air, p_id, got>>

\* pd_start_tx finds a reception running.
Collision ==
  /\ pc = "start" /\ rxing /\ imr' = FALSE
  /\ res' = "discarded" /\ pc' = "done"
  /\ UNCHANGED <<rxing, raw, air, bufVars, sending, r, msg, msg_id, reused, partner,
                 events, enabled, gotRx, handled, behind, fresh, conns>>

\* The packet is sent.  The first time the task reads the answer itself, later it
\* waits for the interrupt.
Start ==
  /\ pc = "start" /\ ~rxing
  /\ Heard \/ Missed
  /\ raw' = Nothing
  /\ IF r = 0 THEN rxing' = TRUE /\ imr' = FALSE /\ pc' = "listen"
              ELSE rxing' = FALSE /\ imr' = TRUE /\ pc' = "await"
  /\ UNCHANGED <<bufVars, txVars, p_n, p_left, p_sent, events, enabled, gotRx, handled,
                 behind, fresh, conns>>

\* task_wait_event(USB_PD_RX_TMOUT_US) takes every event, and one that was there
\* before ends it at once.
AwaitEvent ==
  /\ pc = "await" /\ events # {} /\ events' = {}
  /\ pc' = IF rxing THEN "listen" ELSE "manual"
  /\ behind' = (behind \/ (head # tail /\ "RX" \in events))
  /\ UNCHANGED <<lineVars, bufVars, txVars, partner, enabled, gotRx, handled, fresh, conns>>

AwaitTimeout ==
  /\ pc = "await" /\ events = {} /\ pc' = "retry"
  /\ UNCHANGED <<lineVars, bufVars, txVars, partner, events, enabled, gotRx, handled,
                 behind, fresh, conns>>

\* The reception is started by hand.
StartByHand ==
  /\ pc = "manual" /\ pc' = "listen"
  /\ imr' = FALSE /\ rxing' = TRUE /\ raw' = Nothing
  /\ UNCHANGED <<air, bufVars, txVars, partner, events, enabled, gotRx, handled, behind,
                 fresh, conns>>

\* Mutant: any GoodCRC will do.
AnyAnswer == IF raw.ok THEN "success" ELSE "retry"
Answer == CASE raw.ok /\ raw.kind = "goodcrc" /\ raw.n = msg_id -> "success"
            [] raw.ok /\ ~(raw.kind = "goodcrc" /\ raw.n = msg_id) -> "discarded"
            [] OTHER -> "retry"

\* The analysis of the answer, or of silence.
Listen ==
  /\ pc = "listen"
  /\ rxing' = FALSE /\ raw' = Nothing /\ imr' = TRUE
  /\ IF Answer = "retry" THEN pc' = "retry" /\ UNCHANGED res
                         ELSE pc' = "done" /\ res' = Answer
  /\ UNCHANGED <<air, bufVars, sending, r, msg, msg_id, reused, partner, events,
                 enabled, gotRx, handled, behind, fresh, conns>>

\* The header is the same for every attempt.
RetryId == msg_id

Retry ==
  /\ pc = "retry" /\ msg_id' = RetryId
  /\ IF r < PD_RETRY_COUNT THEN r' = r + 1 /\ pc' = "encode" /\ UNCHANGED res
                           ELSE res' = "failed" /\ pc' = "done" /\ UNCHANGED r
  /\ UNCHANGED <<lineVars, bufVars, sending, msg, reused, partner, events, enabled,
                 gotRx, handled, behind, fresh, conns>>

\* inc_id, on success alone
NextId == IF res = "success" THEN (msg_id + 1) % NIds ELSE msg_id

\* The alert, pd_transmit_complete, and the end of tcpc_run.
Done ==
  /\ pc = "done" /\ pc' = "policy" /\ sending' = FALSE
  /\ msg_id' = NextId /\ reused' = (res # "success") /\ r' = 0 /\ res' = "none"
  /\ EnableMonitoring
  /\ UNCHANGED <<rxing, air, bufVars, msg, partner, enabled, gotRx, handled,
                 behind, fresh, conns>>

\* A command of the console wakes the task.
ConsoleWakes ==
  /\ pc \in {"wait", "await"} /\ "WAKE" \notin events
  /\ events' = events \cup {"WAKE"}
  /\ UNCHANGED <<lineVars, bufVars, txVars, partner, enabled, pc, gotRx, handled, behind,
                 fresh, conns>>

-----------------------------------------------------------------------------
PdTask == \/ Wake \/ NoPacket \/ Packet \/ Monitor \/ Deliver
          \/ PolicyDone \/ SetRxEnable \/ Transmit
          \/ Encode \/ Collision \/ Start \/ AwaitEvent \/ AwaitTimeout \/ StartByHand
          \/ Listen \/ Retry \/ Done
Next == PdTask \/ PartnerSend \/ PartnerGivesUp \/ AirLost \/ RxHandler \/ RxSamples
        \/ ConsoleWakes

Spec == Init /\ [][Next]_vars

\* PD_C0 has the highest priority, and its wait has a time-out.
FairSpec == Spec /\ WF_vars(PdTask)

-----------------------------------------------------------------------------
(* Properties.  behind: a message in the buffer has lost its event to the  *)
(* wait for a GoodCRC, or to a turn of the task in which reception was     *)
(* off.  reused: the message sent has the identifier of one whose          *)
(* transmission failed.  fresh: reception was enabled in the turn that has *)
(* just ended.                                                             *)

Labels == {"wait", "rx", "monitor", "deliver", "policy", "encode", "start", "await",
           "manual", "listen", "retry", "done"}
Packets == [kind : {"nothing", "message", "goodcrc"}, n : 0 .. MaxRx + NIds, ok : BOOLEAN]

TypeOK ==
  /\ imr \in BOOLEAN /\ rxing \in BOOLEAN /\ raw \in Packets /\ air \in Packets
  /\ events \subseteq {"RX", "WAKE"} /\ enabled \in BOOLEAN
  /\ head \in {0, 1} /\ tail \in {0, 1} /\ slot \in [{0, 1} -> Packets]
  /\ pc \in Labels /\ gotRx \in BOOLEAN /\ sending \in BOOLEAN
  /\ r \in 0 .. PD_RETRY_COUNT /\ res \in {"none", "success", "failed", "discarded"}
  /\ msg \in 0 .. MaxTx /\ msg_id \in 0 .. NIds - 1 /\ {kept, handled} \subseteq 0 .. MaxRx

\* The port does not wait deaf: from the end of a turn of the task through its wait the
\* comparators can start a reception, or have started one and left its event.  Only a
\* port that was enabled in the turn itself cannot hear before the next one.
NotDeaf ==
  (pc \in {"policy", "wait"} /\ enabled /\ ~fresh) => imr \/ (rxing /\ "RX" \in events)

\* A port that cannot hear, having been enabled just now, having collided or refused a
\* packet, hears again: "make sure PD monitoring is enabled" (usb_pd_tcpc.c, line 867).
HearsAgain == enabled ~> (~enabled \/ imr \/ (rxing /\ "RX" \in events))

\* "if there is space in buffer" (usb_pd_tcpc.c, line 800): a message that was
\* acknowledged is in the buffer until it is handled.
NothingLost == kept <= handled \/ (head # tail /\ slot[tail] = Message(kept))

\* The partner's messages are taken from the buffer in the order they were sent, and
\* one that is over never comes back, however often it was sent.
HandledInOrder == [][handled' >= handled]_vars

\* A message that was acknowledged is handled, unless its event was taken by the
\* wait for a GoodCRC or while reception was off.
AckedIsHandled == (head # tail) ~> (head = tail \/ behind)

\* A transmission that succeeds has reached the partner, and is no repetition to it,
\* unless its identifier was used before by one that failed.
SuccessIsReceived == (pc = "done" /\ res = "success" /\ ~reused) => msg \in got

\* The partner accepts a message once, however often it was sent.
AcceptedOnce == [][p_id' # p_id => msg \notin got]_vars

\* "check transmitted CRC" (usb_pd_tcpc.c, line 701): a message whose check sum is
\* wrong is not handled.
HandlesGood == (pc = "deliver" /\ slot[tail].kind = "message") => slot[tail].ok

\* "we already received PD_EVENT_RX from phy layer in pd_rx_event(), so we don't
\* need to set another event" (stub.c, line 143): a message that was acknowledged
\* is handled.
EventSuffices == (head # tail) ~> (head = tail)
=============================================================================
