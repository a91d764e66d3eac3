---------------------------- MODULE PdLink_proofs ----------------------------
(***************************************************************************)
(* For every number of retries and of identifiers, and however packets are *)
(* lost or corrupted: a message the sink has acknowledged is in the buffer *)
(* until it is handled, messages are handled in order, and a transmission  *)
(* that succeeds has been accepted by the partner, once.                   *)
(***************************************************************************)
EXTENDS PdLink, TLAPS

TypeInv ==
  /\ TypeOK /\ p_n \in 0 .. MaxRx /\ p_sent \in 0 .. MaxRx
  /\ air.kind = "message" => air.n \in 0 .. MaxRx
  /\ raw.kind = "message" => raw.n \in 0 .. MaxRx
  /\ \A s \in {0, 1} : slot[s].kind = "message" => slot[s].n \in 0 .. MaxRx

-----------------------------------------------------------------------------
(* Types.                                                                  *)

LEMMA PacketTypes ==
  /\ Nothing \in Packets
  /\ \A n \in 0 .. MaxRx : Message(n) \in Packets
  /\ \A id \in 0 .. NIds - 1 : GoodCrc(id) \in Packets
  /\ \A p \in Packets : [p EXCEPT !.ok = FALSE] \in Packets
<1>1. 0 .. MaxRx \subseteq 0 .. MaxRx + NIds /\ 0 .. NIds - 1 \subseteq 0 .. MaxRx + NIds
  BY BoundsAssumption
<1>2. 0 \in 0 .. MaxRx + NIds
  BY BoundsAssumption
<1>3. Nothing \in Packets
  BY <1>2 DEF Packets, Nothing
<1>4. \A n \in 0 .. MaxRx : Message(n) \in Packets
  BY <1>1 DEF Packets, Message
<1>5. \A id \in 0 .. NIds - 1 : GoodCrc(id) \in Packets
  BY <1>1 DEF Packets, GoodCrc
<1>6. ASSUME NEW p \in Packets PROVE [p EXCEPT !.ok = FALSE] \in Packets
  BY DEF Packets
<1> QED BY <1>3, <1>4, <1>5, <1>6

\* What is sampled of a packet is one, and no message that was not sent.
LEMMA SampledType ==
  ASSUME NEW p \in Packets, NEW q \in Sampled(p)
  PROVE  /\ q \in Packets
         /\ q.kind # "nothing" => q.kind = p.kind /\ q.n = p.n
<1>1. CASE q = p
  BY <1>1
<1>2. CASE q = [p EXCEPT !.ok = FALSE]
  <2>1. q \in Packets
    BY <1>2, PacketTypes
  <2>2. q.kind = p.kind /\ q.n = p.n
    BY <1>2 DEF Packets
  <2> QED BY <2>1, <2>2
<1>3. CASE q = Nothing
  BY <1>3, PacketTypes DEF Nothing
<1> QED BY <1>1, <1>2, <1>3 DEF Sampled

LEMMA InitType == Init => TypeInv
<1> SUFFICES ASSUME Init PROVE TypeInv
  OBVIOUS
<1>1. Nothing \in Packets
  BY PacketTypes
<1>2. slot \in [{0, 1} -> Packets]
  BY <1>1 DEF Init
<1>3. 0 \in 0 .. MaxRx /\ 0 \in 0 .. PD_RETRY_COUNT /\ 0 \in 0 .. MaxTx /\ 0 \in 0 .. NIds - 1
  BY BoundsAssumption
<1>4. \A s \in {0, 1} : slot[s] = Nothing
  BY DEF Init
<1>5. Nothing.kind # "message"
  BY DEF Nothing
<1>6. TypeOK
  BY <1>1, <1>2, <1>3 DEF Init, TypeOK, Labels
<1> QED BY <1>3, <1>4, <1>5, <1>6 DEF Init, TypeInv

LEMMA NextType == TypeInv /\ [Next]_vars => TypeInv'
<1> SUFFICES ASSUME TypeInv, [Next]_vars PROVE TypeInv'
  OBVIOUS
<1> USE BoundsAssumption
<1> USE DEF TypeInv, TypeOK, Labels
<1>1. CASE PartnerSend
  <2>1. p_n' \in 0 .. MaxRx /\ p_sent' \in 0 .. MaxRx
    BY <1>1 DEF PartnerSend
  <2>2. air' \in Packets /\ air'.kind = "message" /\ air'.n \in 0 .. MaxRx
    BY <1>1, <2>1, PacketTypes DEF PartnerSend, Message
  <2> QED BY <1>1, <2>1, <2>2 DEF PartnerSend, bufVars, txVars
<1>2. CASE PartnerGivesUp
  BY <1>2 DEF PartnerGivesUp, lineVars, bufVars, txVars
<1>3. CASE AirLost
  BY <1>3, PacketTypes DEF AirLost, bufVars, txVars, partner, Nothing
<1>4. CASE RxHandler
  <2>1. raw' \in Packets /\ (raw'.kind = "message" => raw'.n \in 0 .. MaxRx)
    BY <1>4, SampledType DEF RxHandler
  <2> QED BY <1>4, <2>1, PacketTypes DEF RxHandler, bufVars, txVars, partner, Nothing
<1>5. CASE RxSamples
  <2>1. raw' \in Packets /\ (raw'.kind = "message" => raw'.n \in 0 .. MaxRx)
    BY <1>5, SampledType DEF RxSamples
  <2> QED BY <1>5, <2>1, PacketTypes DEF RxSamples, bufVars, txVars, partner, Nothing
<1>6. CASE ConsoleWakes
  BY <1>6 DEF ConsoleWakes, lineVars, bufVars, txVars, partner
<1>7. CASE Wake
  BY <1>7 DEF Wake, lineVars, bufVars, txVars, partner
<1>8. CASE NoPacket
  BY <1>8 DEF NoPacket, lineVars, bufVars, txVars, partner, After
<1>9. CASE Packet
  <2>1. slot' \in [{0, 1} -> Packets]
    BY <1>9 DEF Packet
  <2>2. \A s \in {0, 1} : slot'[s].kind = "message" => slot'[s].n \in 0 .. MaxRx
    BY <1>9 DEF Packet
  <2>3. head' \in {0, 1} /\ kept' \in 0 .. MaxRx /\ p_n' \in 0 .. MaxRx /\ imr' \in BOOLEAN
    <3>1. CASE raw.ok /\ ~Full
      <4>1. head' = 1 - head /\ imr' = TRUE /\ kept' \in {raw.n, kept}
        BY <1>9, <3>1 DEF Packet, OtherSlot
      <4>2. kept' \in 0 .. MaxRx
        BY <1>9, <3>1 DEF Packet
      <4>3. p_n' \in {0, p_n}
        BY <1>9, <3>1 DEF Packet
      <4> QED BY <4>1, <4>2, <4>3
    <3>2. CASE ~(raw.ok /\ ~Full)
      BY <1>9, <3>2 DEF Packet
    <3> QED BY <3>1, <3>2
  <2>4. pc' \in Labels
    BY <1>9 DEF Packet, After
  <2>5. raw' \in Packets /\ raw'.kind # "message"
    BY <1>9, PacketTypes DEF Packet, Nothing
  <2>6. air' = air /\ rxing' = FALSE /\ tail' = tail /\ UNCHANGED txVars /\ p_sent' = p_sent
        /\ events' = events /\ enabled' = enabled /\ gotRx' = gotRx /\ handled' = handled
    BY <1>9 DEF Packet
  <2>7. TypeOK'
    BY <2>1, <2>3, <2>4, <2>5, <2>6 DEF txVars
  <2> QED BY <2>2, <2>3, <2>5, <2>6, <2>7, Zenon
<1>10. CASE Monitor
  <2>1. raw' \in {raw, Nothing} /\ imr' \in BOOLEAN /\ events' \subseteq {"RX", "WAKE"}
    BY <1>10 DEF Monitor, EnableMonitoring, Monitored
  <2>2. raw' \in Packets /\ (raw'.kind = "message" => raw'.n \in 0 .. MaxRx)
    BY <2>1, PacketTypes DEF Nothing
  <2> QED BY <1>10, <2>1, <2>2 DEF Monitor, bufVars, txVars, partner
<1>11. CASE Deliver
  <2>1. handled' \in 0 .. MaxRx /\ tail' \in {0, 1}
    BY <1>11 DEF Deliver, ReadSlot, TailAfter
  <2> QED BY <1>11, <2>1 DEF Deliver, lineVars, txVars, partner
<1>12. CASE PolicyDone
  BY <1>12 DEF PolicyDone, lineVars, bufVars, txVars, partner
<1>13. CASE SetRxEnable
  BY <1>13 DEF SetRxEnable, bufVars, txVars, partner
<1>14. CASE Transmit
  BY <1>14 DEF Transmit, lineVars, bufVars, partner
<1>15. CASE Encode
  BY <1>15, PacketTypes DEF Encode, bufVars, txVars, partner, Nothing
<1>16. CASE Collision
  BY <1>16 DEF Collision, bufVars, partner
<1>17. CASE Start
  <2>1. air' \in Packets /\ (air'.kind = "message" => air'.n \in 0 .. MaxRx)
    BY <1>17, PacketTypes DEF Start, Heard, Missed, GoodCrc
  <2> QED BY <1>17, <2>1, PacketTypes DEF Start, bufVars, txVars, Nothing
<1>18. CASE AwaitEvent
  BY <1>18 DEF AwaitEvent, lineVars, bufVars, txVars, partner
<1>19. CASE AwaitTimeout
  BY <1>19 DEF AwaitTimeout, lineVars, bufVars, txVars, partner
<1>20. CASE StartByHand
  BY <1>20, PacketTypes DEF StartByHand, bufVars, txVars, partner, Nothing
<1>21. CASE Listen
  BY <1>21, PacketTypes DEF Listen, Answer, bufVars, partner, Nothing
<1>22. CASE Retry
  BY <1>22 DEF Retry, RetryId, lineVars, bufVars, partner
<1>23. CASE Done
  <2>1. msg_id' \in 0 .. NIds - 1
    BY <1>23 DEF Done, NextId
  <2>2. raw' \in {raw, Nothing} /\ imr' \in BOOLEAN /\ events' \subseteq {"RX", "WAKE"}
    BY <1>23 DEF Done, EnableMonitoring, Monitored
  <2>3. raw' \in Packets /\ (raw'.kind = "message" => raw'.n \in 0 .. MaxRx)
    BY <2>2, PacketTypes DEF Nothing
  <2>0. pc' = "policy" /\ sending' = FALSE /\ r' = 0 /\ res' = "none"
    BY <1>23 DEF Done
  <2>4. /\ pc' \in Labels /\ r' \in 0 .. PD_RETRY_COUNT
        /\ res' \in {"none", "success", "failed", "discarded"}
    BY <2>0
  <2>5. UNCHANGED <<rxing, air, bufVars, msg, partner, enabled, gotRx, handled>>
    BY <1>23 DEF Done
  <2>6. TypeOK'
    BY <2>0, <2>1, <2>2, <2>3, <2>4, <2>5 DEF bufVars
  <2> QED BY <2>3, <2>5, <2>6 DEF bufVars, partner
<1>24. CASE UNCHANGED vars
  BY <1>24 DEF vars, lineVars, bufVars, txVars, partner
<1> QED BY <1>1, <1>2, <1>3, <1>4, <1>5, <1>6, <1>7, <1>8, <1>9, <1>10, <1>11, <1>12,
           <1>13, <1>14, <1>15, <1>16, <1>17, <1>18, <1>19, <1>20, <1>21, <1>22, <1>23,
           <1>24 DEF Next, PdTask

(* Every variable of the message layer keeps its type; the header of every *)
(* message has an identifier in range.                                      *)
THEOREM TypeCorrect == Spec => []TypeOK
<1>1. Spec => []TypeInv
  BY InitType, NextType, PTL DEF Spec
<1>2. TypeInv => TypeOK
  BY DEF TypeInv
<1> QED BY <1>1, <1>2, PTL

-----------------------------------------------------------------------------
(* The receive buffer.                                                     *)

\* What is handled has been kept; what is on its way is not older than what was kept,
\* since the partner has one message at a time.
Ordered ==
  /\ handled <= kept /\ kept <= p_sent /\ p_n \in {0, p_sent}
  /\ air.kind = "message" => kept <= air.n /\ air.n <= p_sent
  /\ raw.kind = "message" => kept <= raw.n /\ raw.n <= p_sent
  /\ (air.kind = "message" /\ raw.kind = "message") => raw.n <= air.n

\* The buffer holds the last message that was kept, or that one has been handled.
Buffer ==
  /\ kept <= handled \/ (head # tail /\ slot[tail] = Message(kept))
  /\ (head # tail /\ slot[tail].kind = "message") => slot[tail] = Message(kept)

BufInv == TypeInv /\ Ordered /\ Buffer

LEMMA InitBuf == Init => BufInv
BY InitType, BoundsAssumption DEF Init, BufInv, Ordered, Buffer, Nothing

\* Steps that add nothing to the line and do not touch the buffer
LEMMA LineOnly ==
  ASSUME BufInv, TypeInv', raw' \in {raw, Nothing}, air' = air \/ air'.kind # "message",
         UNCHANGED <<bufVars, handled, p_n, p_sent>>
  PROVE  BufInv'
BY DEF BufInv, Ordered, Buffer, bufVars, Nothing, TypeInv, TypeOK, Message

LEMMA NextBuf == BufInv /\ [Next]_vars => BufInv'
<1> SUFFICES ASSUME BufInv, [Next]_vars PROVE BufInv'
  OBVIOUS
<1> USE BoundsAssumption
<1>0. TypeInv /\ TypeInv'
  BY NextType DEF BufInv
<1>1. CASE PartnerSend
  <2>1. air' = Message(p_n') /\ p_n' = p_sent' /\ p_sent' >= p_sent /\ air = Nothing
    BY <1>1, <1>0 DEF PartnerSend, BufInv, Ordered, TypeInv
  <2>2. air'.kind = "message" /\ air'.n = p_sent'
    BY <2>1 DEF Message
  <2> QED BY <1>0, <1>1, <2>1, <2>2 DEF PartnerSend, BufInv, Ordered, Buffer, bufVars,
             TypeInv, TypeOK
<1>2. CASE PartnerGivesUp
  BY <1>0, <1>2 DEF PartnerGivesUp, lineVars, bufVars, BufInv, Ordered, Buffer, TypeInv
<1>3. CASE AirLost
  <2>1. air'.kind # "message"
    BY <1>3 DEF AirLost, Nothing
  <2> QED BY <1>0, <1>3, <2>1, LineOnly DEF AirLost, partner
<1>4. CASE RxHandler \/ RxSamples
  <2>1. raw'.kind # "nothing" => raw'.kind = air.kind /\ raw'.n = air.n
    BY <1>0, <1>4, SampledType DEF RxHandler, RxSamples, TypeInv, TypeOK
  <2>2. air'.kind = "nothing" /\ UNCHANGED <<bufVars, handled, partner>>
    BY <1>4 DEF RxHandler, RxSamples, Nothing
  <2> QED BY <1>0, <2>1, <2>2 DEF BufInv, Ordered, Buffer, bufVars, partner, TypeInv
<1>5. CASE ConsoleWakes \/ Wake \/ NoPacket
  BY <1>0, <1>5, LineOnly DEF ConsoleWakes, Wake, NoPacket, lineVars, partner
<1>6. CASE Packet
  <2>1. raw'.kind # "message" /\ air' = air /\ UNCHANGED <<tail, handled, p_sent>>
        /\ p_n' \in {0, p_n}
    BY <1>6 DEF Packet, Nothing
  <2>2. CASE raw.ok /\ ~Full
    <3>1. head = tail /\ head' # tail' /\ slot'[tail'] = raw
      BY <1>0, <1>6, <2>2 DEF Packet, Full, OtherSlot, TypeInv, TypeOK
    <3>2. kept' = IF raw.kind = "message" THEN raw.n ELSE kept
      BY <1>6, <2>2 DEF Packet
    <3>3. raw.kind = "message" => raw = Message(raw.n)
      BY <1>0, <2>2 DEF Message, Packets, TypeInv, TypeOK
    <3>4. kept <= handled
      BY <3>1 DEF BufInv, Buffer
    <3>5. Ordered'
      BY <1>0, <2>1, <3>2 DEF BufInv, Ordered, TypeInv, TypeOK
    <3>6. Buffer'
      BY <2>1, <3>1, <3>2, <3>3, <3>4 DEF Buffer
    <3> QED BY <1>0, <3>5, <3>6 DEF BufInv
  <2>3. CASE ~(raw.ok /\ ~Full)
    <3>1. UNCHANGED <<head, kept>> /\ slot' = [slot EXCEPT ![head] = raw]
      BY <1>6, <2>3 DEF Packet
    <3>2. head # tail => slot'[tail] = slot[tail]
      BY <1>0, <3>1 DEF TypeInv, TypeOK
    <3>3. Ordered'
      BY <1>0, <2>1, <3>1 DEF BufInv, Ordered, TypeInv, TypeOK
    <3>4. Buffer'
      BY <2>1, <3>1, <3>2 DEF Buffer, BufInv
    <3> QED BY <1>0, <3>3, <3>4 DEF BufInv
  <2> QED BY <2>2, <2>3
<1>7. CASE Deliver
  <2>1. UNCHANGED <<head, slot, kept, air, raw, p_n, p_sent>>
    BY <1>7 DEF Deliver, lineVars, partner
  <2>2. CASE head # tail
    <3>1. tail' = head
      BY <1>0, <1>7, <2>2 DEF Deliver, TailAfter, TypeInv, TypeOK
    <3>2. handled' = IF slot[tail].kind = "message" THEN kept ELSE handled
      BY <1>7, <2>2 DEF Deliver, ReadSlot, BufInv, Buffer, Message
    <3>3. kept <= handled' /\ handled' <= kept
      BY <1>0, <2>2, <3>2 DEF BufInv, Ordered, Buffer, Message, TypeInv, TypeOK
    <3> QED BY <1>0, <2>1, <3>1, <3>3 DEF BufInv, Ordered, Buffer
  <2>3. CASE head = tail
    <3>1. tail' = tail /\ handled' = handled
      BY <1>7, <2>3 DEF Deliver, TailAfter
    <3> QED BY <1>0, <2>1, <3>1 DEF BufInv, Ordered, Buffer
  <2> QED BY <2>2, <2>3
<1>8. CASE Monitor \/ Done
  BY <1>0, <1>8, LineOnly DEF Monitor, Done, EnableMonitoring, partner
<1>9. CASE PolicyDone \/ SetRxEnable \/ Transmit
  BY <1>0, <1>9, LineOnly DEF PolicyDone, SetRxEnable, Transmit, lineVars, partner
<1>10. CASE Encode \/ Collision \/ StartByHand \/ Listen
  BY <1>0, <1>10, LineOnly DEF Encode, Collision, StartByHand, Listen, partner
<1>11. CASE Start
  <2>1. air' = air \/ air'.kind # "message"
    BY <1>11 DEF Start, Heard, Missed, GoodCrc
  <2> QED BY <1>0, <1>11, <2>1, LineOnly DEF Start
<1>12. CASE AwaitEvent \/ AwaitTimeout \/ Retry
  BY <1>0, <1>12, LineOnly DEF AwaitEvent, AwaitTimeout, Retry, lineVars, partner
<1>13. CASE UNCHANGED vars
  BY <1>0, <1>13, LineOnly DEF vars, lineVars, partner
<1> QED BY <1>1, <1>2, <1>3, <1>4, <1>5, <1>6, <1>7, <1>8, <1>9, <1>10, <1>11, <1>12,
           <1>13 DEF Next, PdTask

(* A message for which a GoodCRC was sent stays in the receive buffer until*)
(* the policy engine has taken it: no later packet overwrites it.          *)
THEOREM AcknowledgedIsKept == Spec => []NothingLost
<1>1. Spec => []BufInv
  BY InitBuf, NextBuf, PTL DEF Spec
<1>2. BufInv => NothingLost
  BY DEF BufInv, Buffer, NothingLost
<1> QED BY <1>1, <1>2, PTL

(* The partner's messages are handled in the order they were sent, and one *)
(* that is over never comes back, however often it was sent.               *)
THEOREM InOrder == Spec => HandledInOrder
<1>1. Spec => []BufInv
  BY InitBuf, NextBuf, PTL DEF Spec
<1>2. BufInv /\ BufInv' /\ [Next]_vars => [handled' >= handled]_vars
  <2> SUFFICES ASSUME BufInv, [Next]_vars PROVE handled' >= handled \/ UNCHANGED vars
    OBVIOUS
  <2>1. handled \in Nat /\ kept \in Nat
    BY BoundsAssumption DEF BufInv, TypeInv, TypeOK
  <2>2. CASE Deliver
    <3>1. handled' \in {handled, slot[tail].n}
          /\ (handled' # handled => head # tail /\ slot[tail].kind = "message")
      BY <2>2 DEF Deliver, ReadSlot
    <3>2. handled' # handled => handled' = kept
      BY <3>1 DEF BufInv, Buffer, Message
    <3> QED BY <2>1, <3>2 DEF BufInv, Ordered
  <2>3. CASE ~Deliver
    <3>1. handled' = handled
      BY <2>3 DEF Next, PdTask, PartnerSend, PartnerGivesUp, AirLost, RxHandler, RxSamples,
         ConsoleWakes, Wake, NoPacket, Packet, Monitor, PolicyDone, SetRxEnable, Transmit,
         Encode, Collision, Start, AwaitEvent, AwaitTimeout, StartByHand, Listen, Retry,
         Done, vars
    <3> QED BY <2>1, <3>1
  <2> QED BY <2>2, <2>3
<1> QED BY <1>1, <1>2, PTL DEF Spec, HandledInOrder

-----------------------------------------------------------------------------
(* Monitoring.                                                             *)

\* From the end of tcpc_run through the wait
Alert ==
  (pc \in {"deliver", "policy", "wait"} /\ enabled /\ ~fresh) => imr \/ (rxing /\ "RX" \in events)

LEMMA NextAlert == Alert /\ [Next]_vars => Alert'
<1> SUFFICES ASSUME Alert, [Next]_vars PROVE Alert'
  OBVIOUS
<1> USE DEF Alert
<1>1. CASE PartnerSend \/ PartnerGivesUp \/ AirLost
  BY <1>1 DEF PartnerSend, PartnerGivesUp, AirLost, lineVars
<1>2. CASE RxHandler \/ RxSamples
  BY <1>2 DEF RxHandler, RxSamples
<1>3. CASE ConsoleWakes \/ Wake \/ NoPacket \/ Packet
  BY <1>3 DEF ConsoleWakes, Wake, NoPacket, Packet, After, lineVars
<1>4. CASE Monitor \/ Done
  BY <1>4 DEF Monitor, Done, EnableMonitoring, Monitored
<1>5. CASE Deliver \/ PolicyDone \/ SetRxEnable \/ Transmit
  BY <1>5 DEF Deliver, PolicyDone, SetRxEnable, Transmit, lineVars
<1>6. CASE Encode \/ Collision \/ Start \/ AwaitEvent
  BY <1>6 DEF Encode, Collision, Start, AwaitEvent
<1>7. CASE AwaitTimeout \/ StartByHand \/ Listen \/ Retry
  BY <1>7 DEF AwaitTimeout, StartByHand, Listen, Retry
<1>8. CASE UNCHANGED vars
  BY <1>8 DEF vars, lineVars
<1> QED BY <1>1, <1>2, <1>3, <1>4, <1>5, <1>6, <1>7, <1>8 DEF Next, PdTask

(* Whatever was received, sent or refused in a turn of the task, the       *)
(* comparators can start a reception, or have started one and left its     *)
(* event, until the task wakes again.  A port that was switched on in that *)
(* turn is the exception: it hears from the next one on.                   *)
THEOREM NeverDeaf == Spec => []NotDeaf
<1>1. Init => Alert
  BY DEF Init, Alert
<1>2. Spec => []Alert
  BY <1>1, NextAlert, PTL DEF Spec
<1>3. Alert => NotDeaf
  BY DEF Alert, NotDeaf
<1> QED BY <1>2, <1>3, PTL

-----------------------------------------------------------------------------
(* Transmission.                                                           *)

SendLabels == {"encode", "start", "await", "manual", "listen", "retry", "done"}

Quiet == air.kind # "goodcrc" /\ raw.kind # "goodcrc"

\* At most one GoodCRC is on the line or sampled, and it has the identifier that the
\* partner heard last.
Answers ==
  /\ ~(air.kind = "goodcrc" /\ raw.kind = "goodcrc")
  /\ air.kind = "goodcrc" => air.n = p_id
  /\ raw.kind = "goodcrc" => raw.n = p_id

\* Without a failure before it, a message is as new to the partner as its identifier,
\* and there is no GoodCRC for it before the partner has accepted it.
Transmission ==
  /\ pc \in SendLabels => sending
  /\ pc \in {"wait", "monitor", "deliver", "policy"} => ~sending
  /\ \A k \in got : k <= msg
  /\ (sending /\ msg \in got) => p_id = msg_id
  /\ (sending /\ msg \notin got /\ ~reused) => p_id # msg_id /\ Quiet
  /\ (~sending /\ ~reused) => p_id # msg_id /\ Quiet
  /\ (pc = "done" /\ res = "success") =>
       p_id = msg_id /\ Quiet /\ (msg \in got \/ reused)

LinkInv == TypeInv /\ got \subseteq Nat /\ p_id \in 0 .. NIds - 1 /\ Answers /\ Transmission

LEMMA InitLink == Init => LinkInv
<1> SUFFICES ASSUME Init PROVE LinkInv
  OBVIOUS
<1>1. TypeInv
  BY InitType
<1>2. NIds - 1 # 0 /\ NIds - 1 \in 0 .. NIds - 1
  BY BoundsAssumption
<1> QED BY <1>1, <1>2 DEF Init, LinkInv, Answers, Transmission, Quiet, Nothing, SendLabels

\* Steps that leave what is on the line and the numbers of the message alone, or take
\* something away
LEMMA Keeps ==
  ASSUME LinkInv, TypeInv',
         UNCHANGED <<sending, msg, msg_id, reused, p_id, got>>,
         air' = air \/ air'.kind # "goodcrc",
         raw' = raw \/ raw'.kind # "goodcrc",
         pc' \in SendLabels => sending,
         pc' \in {"wait", "monitor", "deliver", "policy"} => ~sending,
         (pc' = "done" /\ res' = "success") => pc = "done" /\ res = "success"
  PROVE  LinkInv'
BY DEF LinkInv, Answers, Transmission, Quiet

LEMMA NextLink == LinkInv /\ [Next]_vars => LinkInv'
<1> SUFFICES ASSUME LinkInv, [Next]_vars PROVE LinkInv'
  OBVIOUS
<1> USE BoundsAssumption
<1>0. TypeInv /\ TypeInv'
  BY NextType DEF LinkInv
<1>a. Nothing.kind # "goodcrc"
  BY DEF Nothing
<1>b. /\ pc \in SendLabels => sending
      /\ pc \in {"wait", "monitor", "deliver", "policy"} => ~sending
  BY DEF LinkInv, Transmission
<1> USE DEF SendLabels
<1>1. CASE PartnerSend
  <2>1. air'.kind # "goodcrc"
    BY <1>1 DEF PartnerSend, Message
  <2> QED BY <1>0, <1>1, <1>b, <2>1, Keeps DEF PartnerSend, txVars
<1>2. CASE PartnerGivesUp \/ ConsoleWakes
  BY <1>0, <1>2, <1>b, Keeps DEF PartnerGivesUp, ConsoleWakes, lineVars, txVars, partner
<1>3. CASE AirLost
  BY <1>0, <1>3, <1>a, <1>b, Keeps DEF AirLost, txVars, partner
<1>4. CASE RxHandler \/ RxSamples
  <2>1. raw'.kind = "goodcrc" => air.kind = "goodcrc" /\ raw'.n = air.n
    BY <1>0, <1>4, SampledType DEF RxHandler, RxSamples, TypeInv, TypeOK
  <2>2. air'.kind = "nothing" /\ UNCHANGED <<txVars, partner, pc>>
    BY <1>4 DEF RxHandler, RxSamples, Nothing
  <2> QED BY <1>0, <2>1, <2>2 DEF LinkInv, Answers, Transmission, Quiet, txVars, partner
<1>5. CASE Wake \/ NoPacket
  BY <1>0, <1>5, <1>b, Keeps DEF Wake, NoPacket, After, lineVars, txVars, partner
<1>6. CASE Packet
  BY <1>0, <1>6, <1>a, <1>b, Keeps DEF Packet, After, txVars
<1>7. CASE Monitor
  BY <1>0, <1>7, <1>a, <1>b, Keeps DEF Monitor, EnableMonitoring, txVars, partner
<1>8. CASE Deliver \/ PolicyDone \/ SetRxEnable
  BY <1>0, <1>8, <1>b, Keeps DEF Deliver, PolicyDone, SetRxEnable, lineVars, txVars, partner
<1>9. CASE Transmit
  <2>1. msg' = msg + 1 /\ msg' \notin got /\ ~sending /\ sending'
    BY <1>0, <1>9, <1>b DEF Transmit, LinkInv, Transmission, TypeInv, TypeOK
  <2>2. UNCHANGED <<air, raw, p_id, got, msg_id, reused>> /\ pc' = "rx"
    BY <1>9 DEF Transmit, lineVars, partner
  <2> QED BY <1>0, <2>1, <2>2 DEF LinkInv, Answers, Transmission, Quiet, TypeInv, TypeOK
<1>10. CASE Encode \/ Collision \/ StartByHand
  BY <1>0, <1>10, <1>a, <1>b, Keeps DEF Encode, Collision, StartByHand, txVars, partner
<1>11. CASE Start
  <2>1. raw'.kind = "nothing" /\ pc' \in {"listen", "await"} /\ sending /\ UNCHANGED txVars
    BY <1>11, <1>b DEF Start, Nothing
  <2>2. CASE Missed
    BY <1>0, <1>11, <2>1, <2>2, Keeps DEF Missed, txVars
  <2>3. CASE Heard
    <3>1. air'.kind = "goodcrc" /\ air'.n = msg_id /\ p_id' = msg_id
      BY <2>3 DEF Heard, GoodCrc
    <3>2. got' = IF p_id = msg_id THEN got ELSE got \cup {msg}
      BY <2>3 DEF Heard
    <3>3. msg \notin got' => reused
      BY <2>1, <3>2 DEF LinkInv, Transmission
    <3>4. got' \subseteq Nat /\ \A k \in got' : k <= msg
      BY <1>0, <3>2 DEF LinkInv, Transmission, TypeInv, TypeOK
    <3> QED BY <1>0, <2>1, <3>1, <3>3, <3>4
            DEF LinkInv, Answers, Transmission, txVars, TypeInv, TypeOK
  <2> QED BY <1>11, <2>2, <2>3 DEF Start
<1>12. CASE AwaitEvent \/ AwaitTimeout
  BY <1>0, <1>12, <1>b, Keeps DEF AwaitEvent, AwaitTimeout, lineVars, txVars, partner
<1>13. CASE Listen
  <2>1. raw'.kind = "nothing" /\ air' = air /\ sending
        /\ UNCHANGED <<sending, msg, msg_id, reused, p_id, got>>
    BY <1>13, <1>b DEF Listen, Nothing, partner
  <2>2. CASE pc' = "done" /\ res' = "success"
    <3>1. raw.kind = "goodcrc" /\ raw.n = msg_id
      BY <1>13, <2>2 DEF Listen, Answer
    <3>2. p_id = msg_id /\ air.kind # "goodcrc" /\ (msg \in got \/ reused)
      BY <2>1, <3>1 DEF LinkInv, Answers, Transmission, Quiet
    <3> QED BY <1>0, <2>1, <2>2, <3>2 DEF LinkInv, Answers, Transmission, Quiet
  <2>3. CASE ~(pc' = "done" /\ res' = "success")
    <3>1. pc' \in {"done", "retry"}
      BY <1>13 DEF Listen
    <3> QED BY <1>0, <2>1, <2>3, <3>1, Keeps
  <2> QED BY <2>2, <2>3
<1>14. CASE Retry
  BY <1>0, <1>14, <1>b, Keeps DEF Retry, RetryId, lineVars, partner
<1>15. CASE Done
  <2>1. ~sending' /\ pc' = "policy" /\ sending /\ UNCHANGED <<air, msg, p_id, got>>
        /\ raw' \in {raw, Nothing}
    BY <1>15, <1>b DEF Done, EnableMonitoring, partner
  <2>2. Answers'
    BY <1>a, <2>1 DEF LinkInv, Answers
  <2>3. ASSUME ~reused' PROVE p_id' # msg_id' /\ Quiet'
    <3>1. res = "success" /\ msg_id' = (msg_id + 1) % NIds
      BY <1>15, <2>3 DEF Done, NextId
    <3>2. p_id = msg_id /\ Quiet
      BY <1>15, <3>1 DEF Done, LinkInv, Transmission
    <3>3. (msg_id + 1) % NIds # msg_id
      BY <1>0 DEF TypeInv, TypeOK
    <3> QED BY <1>a, <2>1, <3>1, <3>2, <3>3 DEF Quiet
  <2> QED BY <1>0, <2>1, <2>2, <2>3 DEF LinkInv, Transmission
<1>16. CASE UNCHANGED vars
  BY <1>0, <1>16, <1>b, Keeps DEF vars, lineVars, txVars, partner
<1> QED BY <1>1, <1>2, <1>3, <1>4, <1>5, <1>6, <1>7, <1>8, <1>9, <1>10, <1>11, <1>12,
           <1>13, <1>14, <1>15, <1>16 DEF Next, PdTask

(* pd_transmit reports success only if the partner has accepted the        *)
(* message, not taken it for a repetition, unless an earlier message with  *)
(* the same identifier failed.                                             *)
THEOREM SuccessIsTrue == Spec => []SuccessIsReceived
<1>1. Spec => []LinkInv
  BY InitLink, NextLink, PTL DEF Spec
<1>2. LinkInv => SuccessIsReceived
  BY DEF LinkInv, Transmission, SuccessIsReceived
<1> QED BY <1>1, <1>2, PTL

(* However often a message is sent again, the partner accepts it once.     *)
THEOREM AtMostOnce == Spec => AcceptedOnce
<1>1. Spec => []LinkInv
  BY InitLink, NextLink, PTL DEF Spec
<1>2. LinkInv /\ [Next]_vars => [p_id' # p_id => msg \notin got]_vars
  <2> SUFFICES ASSUME LinkInv, [Next]_vars, p_id' # p_id PROVE msg \notin got
    OBVIOUS
  <2>1. Start /\ Heard
    BY DEF Next, PdTask, PartnerSend, PartnerGivesUp, AirLost, RxHandler, RxSamples,
       ConsoleWakes, Wake, NoPacket, Packet, Monitor, Deliver, PolicyDone, SetRxEnable,
       Transmit, Encode, Collision, Start, Missed, AwaitEvent, AwaitTimeout, StartByHand,
       Listen, Retry, Done, vars, partner
  <2>2. sending /\ p_id # msg_id
    BY <2>1 DEF Start, Heard, LinkInv, Transmission, SendLabels
  <2> QED BY <2>2 DEF LinkInv, Transmission
<1> QED BY <1>1, <1>2, PTL DEF Spec, AcceptedOnce
=============================================================================
