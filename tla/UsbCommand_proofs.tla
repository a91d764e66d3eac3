-------------------------- MODULE UsbCommand_proofs --------------------------
(***************************************************************************)
(* While every exchange is left to finish, the two buffers of the command  *)
(* endpoint never change hands early, for any number of commands, packets  *)
(* and bus resets.                                                         *)
(***************************************************************************)
EXTENDS UsbCommand, SequenceTheorems, TLAPS

Free    == {"get", "test", "rest", "wait"}
Taking  == {"copy", "copy2", "take"}
Working == {"begin", "handle", "send", "read", "write"} \cup InChar

Types ==
  /\ pc \in Labels /\ rx_count \in {0, 1}
  /\ open \in BOOLEAN /\ reset \in BOOLEAN /\ disturbed \in BOOLEAN
  /\ tx_next_buf \in Nat \cup {NoBuf} /\ processing \in BOOLEAN
  /\ back \in {"handle", "rest"}

\* A command has been received and the handler has not run.
InFlight == "RX" \in ctr \/ "RX" \in isr
\* There is, or will be, a packet of an answer to send.
Answering == tx = VALID \/ tx_next_buf # NoBuf

\* The exchange is in one place at a time: the wire, rx_count, the task, the
\* packets of the answer.
OnTheWire == InFlight => open /\ rx # VALID /\ rx_count = 0 /\ pc \in Free /\ ~Answering
Received  == rx_count = 1 => open /\ rx # VALID /\ pc \in Free \cup Taking /\ ~Answering
Taken     == pc \in Taking => rx_count = 1 /\ ctr = {} /\ isr = {}
Handled   == pc \in Working \/ processing =>
                 /\ open /\ rx # VALID /\ tx # VALID /\ rx_count = 0
                 /\ ctr = {} /\ isr = {} /\ pc \notin Taking
                 /\ pc \notin {"read", "write"} => tx_next_buf = NoBuf
                 /\ pc \in {"read", "write"} => ~processing
Answered  == /\ Answering => open
             /\ tx = VALID \/ pc \in {"read", "write"}
                  => (tx_next_buf # NoBuf <=> txCount = Packet)
Detached  == reset \/ "RESET" \in isr => ~open /\ rx = DISABLED /\ tx = DISABLED

OnePlace == OnTheWire /\ Received /\ Taken /\ Handled /\ Answered /\ Detached
IInv == Types /\ (~disturbed => OnePlace)

\* The definitions the steps are proved from.
USE DEF NoBuf, DISABLED, STALL, NAK, VALID, Labels, InChar, Free, Taking, Working

\* What a step leaves alone, variable by variable.
LEMMA Same ==
  /\ UNCHANGED hwVars => /\ rx' = rx /\ tx' = tx /\ ctr' = ctr /\ reset' = reset
                         /\ rxBuf' = rxBuf /\ txAddr' = txAddr /\ txCount' = txCount
  /\ UNCHANGED drvVars => /\ rx_count' = rx_count /\ tx_idx' = tx_idx /\ txBuf' = txBuf
                          /\ tx_next_buf' = tx_next_buf /\ processing' = processing
  /\ UNCHANGED local => /\ count' = count /\ input_buf' = input_buf /\ back' = back
                        /\ idx' = idx /\ txlen' = txlen /\ reg' = reg
  /\ UNCHANGED history => /\ printed' = printed /\ others' = others /\ torn' = torn
                          /\ answer' = answer /\ ran' = ran
  /\ UNCHANGED taskVars => pc' = pc /\ UNCHANGED local /\ UNCHANGED history
  /\ UNCHANGED hostVars => /\ sent' = sent /\ open' = open /\ got' = got
                           /\ resets' = resets /\ disturbed' = disturbed
BY Zenon DEF hwVars, drvVars, local, history, taskVars, hostVars

LEMMA InitInv == Init => IInv
<1> SUFFICES ASSUME Init PROVE IInv
  OBVIOUS
<1>1. /\ pc = "get" /\ rx_count = 0 /\ tx_next_buf = NoBuf /\ tx = DISABLED
      /\ ctr = {} /\ isr = {} /\ reset = FALSE /\ open = FALSE /\ disturbed = FALSE
      /\ processing = FALSE /\ back = "rest"
  BY DEF Init
<1>2. Types
  BY <1>1 DEF Types
<1>3. ~InFlight /\ ~Answering
  BY <1>1 DEF InFlight, Answering
<1>4. OnTheWire /\ Received /\ Taken /\ Handled /\ Detached
  BY <1>1, <1>3 DEF OnTheWire, Received, Taken, Handled, Detached
<1>5. Answered
  BY <1>1, <1>3 DEF Answered
<1> QED BY <1>2, <1>4, <1>5 DEF IInv, OnePlace

-----------------------------------------------------------------------------
(* The host and the controller.                                            *)

LEMMA HostOutInv == IInv /\ HostOut => IInv'
<1> SUFFICES ASSUME IInv, HostOut PROVE IInv'
  OBVIOUS
<1>1. /\ rx = VALID /\ rx' = NAK /\ ctr' = ctr \cup {"RX"} /\ open' = TRUE
      /\ tx' = tx /\ txCount' = txCount /\ isr' = isr /\ reset' = reset
  BY DEF HostOut
<1>5. disturbed' = (disturbed \/ open)
  BY DEF HostOut
<1>2. /\ pc' = pc /\ back' = back /\ rx_count' = rx_count /\ tx_next_buf' = tx_next_buf
      /\ processing' = processing
  BY Same DEF HostOut
<1>3. Types'
  BY <1>1, <1>2, <1>5 DEF IInv, Types
<1>4. ASSUME ~disturbed' PROVE OnePlace'
  <2>1. ~disturbed /\ ~open /\ OnePlace
    <3>1. ~disturbed /\ ~open
      BY <1>4, <1>5, Zenon
    <3> QED BY <3>1 DEF IInv
  <2>2. /\ ~InFlight /\ ~Answering /\ rx_count = 0 /\ pc \in Free
        /\ ~processing /\ ~reset /\ "RESET" \notin isr
    BY <1>1, <2>1 DEF IInv, Types, OnePlace, OnTheWire, Received, Taken, Handled, Answered,
                      Detached
  <2>3. OnTheWire'
    BY <1>1, <1>2, <2>2 DEF OnTheWire, InFlight, Answering
  <2>4. Received' /\ Taken'
    BY <1>1, <1>2, <2>2 DEF Received, Taken
  <2>5. Handled'
    BY <1>1, <1>2, <2>2 DEF Handled
  <2>6. Answered' /\ Detached'
    BY <1>1, <1>2, <2>2 DEF Answered, Detached, Answering
  <2> QED BY <2>3, <2>4, <2>5, <2>6 DEF OnePlace
<1> QED BY <1>3, <1>4 DEF IInv

LEMMA HostInInv == IInv /\ HostIn => IInv'
<1> SUFFICES ASSUME IInv, HostIn PROVE IInv'
  OBVIOUS
<1>1. /\ tx = VALID /\ tx' = NAK /\ ctr' = ctr \cup {"TX"} /\ rx' = rx /\ txCount' = txCount
      /\ isr' = isr /\ reset' = reset /\ disturbed' = disturbed
      /\ open' = (open /\ txCount = Packet)
  BY DEF HostIn
<1>2. /\ pc' = pc /\ back' = back /\ rx_count' = rx_count /\ tx_next_buf' = tx_next_buf
      /\ processing' = processing
  BY Same DEF HostIn
<1>3. Types'
  BY <1>1, <1>2 DEF IInv, Types
<1>4. ASSUME ~disturbed PROVE OnePlace'
  <2>1. /\ open /\ ~InFlight /\ rx_count = 0 /\ pc \in Free /\ ~processing
        /\ reset = FALSE /\ "RESET" \notin isr
        /\ tx_next_buf # NoBuf <=> txCount = Packet
    BY <1>1, <1>4 DEF IInv, Types, OnePlace, OnTheWire, Received, Taken, Handled, Answered,
                      Answering, Detached
  <2>2. OnTheWire'
    BY <1>1, <1>2, <2>1 DEF OnTheWire, InFlight, Answering
  <2>3. Received' /\ Taken'
    BY <1>1, <1>2, <2>1 DEF Received, Taken, Answering
  <2>4. Handled'
    BY <1>1, <1>2, <2>1 DEF Handled, Answering
  <2>5. Detached'
    BY <1>1, <1>2, <2>1 DEF Detached
  <2>6. txCount = Packet => open'
    BY <1>1, <2>1, Zenon
  <2>7. Answered'
    BY <1>1, <1>2, <2>1, <2>6 DEF Answered, Answering
  <2> QED BY <2>2, <2>3, <2>4, <2>5, <2>7 DEF OnePlace
<1> QED BY <1>1, <1>3, <1>4 DEF IInv

LEMMA BusResetInv == IInv /\ BusReset => IInv'
<1> SUFFICES ASSUME IInv, BusReset PROVE IInv'
  OBVIOUS
<1>1. Types'
  BY Same DEF BusReset, IInv, Types
<1>2. CASE disturbed \/ open
  BY <1>1, <1>2 DEF BusReset, IInv
<1>3. CASE ~disturbed /\ ~open
  <2>1. /\ ~InFlight /\ ~Answering /\ rx_count = 0 /\ pc \in Free /\ ~processing
    BY <1>3 DEF IInv, Types, OnePlace, OnTheWire, Received, Taken, Handled, Answered
  <2>2. /\ UNCHANGED <<ctr, isr, pc, rx_count, tx_next_buf>>
        /\ rx' = DISABLED /\ tx' = DISABLED /\ ~open' /\ processing' = processing
    BY Same DEF BusReset
  <2>3. OnTheWire' /\ Received' /\ Taken'
    BY <2>1, <2>2 DEF OnTheWire, InFlight, Answering, Received, Taken
  <2>4. Handled' /\ Answered' /\ Detached'
    BY <2>1, <2>2 DEF Answering, Handled, Answered, Detached
  <2> QED BY <1>1, <2>3, <2>4 DEF IInv, OnePlace
<1> QED BY <1>2, <1>3

-----------------------------------------------------------------------------
(* The interrupt handler.                                                  *)

LEMMA IsrEnterInv == IInv /\ IsrEnter => IInv'
BY Same DEF IsrEnter, Interrupt, IInv, Types, OnePlace,
       OnTheWire, InFlight, Answering, Received, Taken, Handled, Answered, Detached

\* A packet is loaded in the middle of an answer if and only if it is full.
LEMMA LoadPacketNext ==
  ASSUME NEW addr \in Nat, NEW len, LoadPacket(addr, len)
  PROVE  /\ tx_next_buf' \in Nat \cup {NoBuf}
         /\ tx_next_buf' # NoBuf <=> txCount' = Packet
BY SizeAssumption DEF LoadPacket, NextBuf

LEMMA IsrTransferInv == IInv /\ IsrTransfer => IInv'
BY Same, LoadPacketNext
   DEF IsrTransfer, CmdEpTx, CmdEpRx, RxAfterRx, IInv, Types, OnePlace,
       OnTheWire, InFlight, Answering, Received, Taken, Handled, Answered, Detached

LEMMA IsrResetInv == IInv /\ IsrReset => IInv'
<1> SUFFICES ASSUME IInv, IsrReset PROVE IInv'
  OBVIOUS
<1>1. Types'
  <2>1. UNCHANGED <<processing, taskVars, hostVars>> /\ reset' = FALSE
        /\ rx_count' \in {0, rx_count}
    BY DEF IsrReset
  <2>2. tx_next_buf' \in Nat \cup {NoBuf}
    BY LoadPacketNext DEF IsrReset, IInv, Types
  <2> QED BY <2>1, <2>2, Same DEF IInv, Types
<1>2. ASSUME ~disturbed PROVE OnePlace'
  <2>1. /\ ~InFlight /\ ~Answering /\ rx_count = 0 /\ pc \in Free /\ ~open /\ ~processing
    BY <1>2 DEF IInv, Types, OnePlace, OnTheWire, Received, Taken, Handled, Answered, Detached, IsrReset
  <2>2. tx = DISABLED
    BY <1>2 DEF IInv, OnePlace, Detached, IsrReset
  <2>3. tx' = NAK
    BY <2>1, <2>2 DEF IsrReset, Toggled, Answering
  <2>4. /\ ctr' = {} /\ isr' = {} /\ reset' = FALSE /\ rx_count' = 0 /\ tx_next_buf' = tx_next_buf
        /\ UNCHANGED <<processing, taskVars, hostVars>>
    BY <2>1 DEF IsrReset, Answering, InFlight
  <2>5. pc' = pc /\ open' = open /\ processing' = processing
    BY <2>4, Same
  <2>6. OnTheWire'
    BY <2>1, <2>3, <2>4, <2>5 DEF OnTheWire, InFlight, Answering
  <2>7. Received' /\ Taken'
    BY <2>1, <2>3, <2>4, <2>5 DEF Received, Taken, Answering
  <2>8. Handled'
    BY <2>1, <2>3, <2>4, <2>5 DEF Handled, Answering
  <2>9. Answered' /\ Detached'
    BY <2>1, <2>3, <2>4, <2>5 DEF Answered, Detached, Answering
  <2> QED BY <2>6, <2>7, <2>8, <2>9 DEF OnePlace
<1>3. disturbed' = disturbed
  BY Same DEF IsrReset
<1> QED BY <1>1, <1>2, <1>3 DEF IInv

-----------------------------------------------------------------------------
(* The CONSOLE task.                                                       *)

\* Steps that only move the task on, in the states it polls and waits in.
Poll == Wait \/ WaitOther \/ GetCount \/ Rest

LEMMA PollInv == IInv /\ Poll => IInv'
BY Same DEF Poll, Wait, WaitOther, Waken, GetCount, Rest, Quiet, Step, IInv, Types, OnePlace, OnTheWire, InFlight, Answering, Received,
       Taken, Handled, Answered, Detached

LEMMA TestCountInv == IInv /\ TestCount => IInv'
BY Same DEF TestCount, Quiet, Step, Interrupt, IInv,
       Types, OnePlace, OnTheWire, InFlight, Answering, Received, Taken, Handled, Answered,
       Detached

LEMMA CopyInv == IInv /\ (Copy \/ CopyOn) => IInv'
BY Same DEF Copy, CopyOn, Quiet, Step, IInv, Types, OnePlace,
       OnTheWire, InFlight, Answering, Received, Taken, Handled, Answered, Detached

LEMMA TakeInv == IInv /\ Take => IInv'
BY Same DEF Take, Step, CountTaken, IInv, Types, OnePlace,
       OnTheWire, InFlight, Answering, Received, Taken, Handled, Answered, Detached

LEMMA BeginInv == IInv /\ Begin => IInv'
BY Same DEF Begin, Step, IInv, Types, OnePlace,
       OnTheWire, InFlight, Answering, Received, Taken, Handled, Answered, Detached

\* Printing, by whatever task.
Printing == CheckChar \/ StoreChar \/ Increment \/ PrintOther

LEMMA PrintInv == IInv /\ Printing => IInv'
<1> SUFFICES ASSUME IInv, Printing PROVE IInv'
  OBVIOUS
<1>1. /\ UNCHANGED hwVars /\ UNCHANGED hostVars /\ isr' = isr /\ isr = {} /\ ctr = {}
      /\ ~reset /\ rx_count' = rx_count /\ tx_next_buf' = tx_next_buf
  BY Same DEF Printing, CheckChar, StoreChar, Increment, PrintOther, Step, Interrupt
<1>2. processing' = processing
  BY Same DEF Printing, CheckChar, StoreChar, Increment, PrintOther
<1>3. /\ pc' = pc \/ pc' = "increment" \/ pc' = "store" \/ (pc' = back /\ pc = "increment")
      /\ back' = back \/ (back' = pc /\ pc \in {"handle", "rest"})
      /\ pc' \in InChar /\ pc' # pc => pc \in InChar \/ processing
      /\ pc' # pc => pc \in InChar \cup {"handle", "rest"}
  BY Same DEF Printing, CheckChar, StoreChar, Increment, PrintOther, Step, IInv, Types
<1>4. Types'
  BY <1>1, <1>2, <1>3, Same DEF IInv, Types
<1>5. ASSUME ~disturbed PROVE OnePlace'
  <2>1. /\ rx' = rx /\ tx' = tx /\ ctr' = ctr /\ reset' = reset /\ txCount' = txCount
        /\ open' = open
    BY <1>1, Same
  <2>2. pc' \in Working => pc \in Working \/ processing
    BY <1>3 DEF IInv, Types
  <2>3. OnTheWire'
    BY <1>1, <1>2, <1>3, <1>5, <2>1, <2>2 DEF IInv, Types, OnePlace, OnTheWire, InFlight, Answering
  <2>4. Received' /\ Taken'
    <3>1. rx_count = 1 => pc \in Free \cup Taking /\ pc \notin Working
      BY <1>5 DEF IInv, OnePlace, Received
    <3>4. rx_count = 1 => ~processing
      <4>1. processing => rx_count = 0
        BY <1>5, Zenon DEF IInv, OnePlace, Handled
      <4> QED BY <4>1
    <3>2. rx_count = 1 => pc' \in Free \cup Taking
      BY <1>3, <2>2, <3>1, <3>4 DEF IInv, Types
    <3>3. pc' \in Taking => pc' = pc
      BY <1>3 DEF IInv, Types
    <3> QED BY <1>1, <1>5, <2>1, <3>2, <3>3 DEF IInv, OnePlace, Received, Taken, Answering
  <2>6. Detached'
    BY <1>1, <1>5, <2>1 DEF IInv, OnePlace, Detached
  <2>7. pc' \in {"read", "write"} => pc \in {"read", "write"}
    <3>1. back \in {"handle", "rest"}
      BY DEF IInv, Types
    <3> QED BY <1>3, <3>1
  <2>5. Handled'
    <3>1. pc \in Working \/ processing =>
            /\ open /\ rx # VALID /\ tx # VALID /\ rx_count = 0
            /\ ctr = {} /\ isr = {} /\ pc \notin Taking
            /\ pc \notin {"read", "write"} => tx_next_buf = NoBuf
            /\ pc \in {"read", "write"} => ~processing
      BY <1>5 DEF IInv, OnePlace, Handled
    <3>2. pc' \in Taking => pc' = pc
      BY <1>3 DEF IInv, Types
    <3>3. pc \in {"read", "write"} => pc' = pc
      BY <1>3
    <3> QED BY <1>1, <1>2, <2>1, <2>2, <2>7, <3>1, <3>2, <3>3 DEF Handled
  <2>8. Answering' => open'
    BY <1>1, <1>5, <2>1 DEF IInv, OnePlace, Answered, Answering
  <2>9. tx' = VALID \/ pc' \in {"read", "write"} => (tx_next_buf' # NoBuf <=> txCount' = Packet)
    <3>1. tx = VALID \/ pc \in {"read", "write"} => (tx_next_buf # NoBuf <=> txCount = Packet)
      BY <1>5 DEF IInv, OnePlace, Answered
    <3> QED BY <1>1, <2>1, <2>7, <3>1
  <2> QED BY <2>3, <2>4, <2>5, <2>6, <2>8, <2>9 DEF OnePlace, Answered
<1> QED BY <1>1, <1>4, <1>5, Same DEF IInv

LEMMA ReadLengthInv == IInv /\ ReadLength => IInv'
BY Same DEF ReadLength, Quiet, Step, IInv, Types, OnePlace,
       OnTheWire, InFlight, Answering, Received, Taken, Handled, Answered, Detached

LEMMA SendResponseInv == IInv /\ SendResponse => IInv'
<1> SUFFICES ASSUME IInv, SendResponse PROVE IInv'
  OBVIOUS
<1>1. /\ pc = "send" /\ pc' = "read" /\ processing' = FALSE /\ rx_count' = rx_count
      /\ rx' = rx /\ tx' = tx /\ ctr' = ctr /\ isr' = isr /\ reset' = reset
  BY DEF SendResponse, Step
<1>2. back' = back /\ open' = open /\ disturbed' = disturbed
  BY Same DEF SendResponse
<1>3. /\ tx_next_buf' \in Nat \cup {NoBuf}
      /\ tx_next_buf' # NoBuf <=> txCount' = Packet
  BY LoadPacketNext DEF SendResponse
<1>4. Types'
  BY <1>1, <1>2, <1>3 DEF IInv, Types
<1>5. ASSUME ~disturbed PROVE OnePlace'
  <2>1. open /\ rx # VALID /\ tx # VALID /\ rx_count = 0 /\ ctr = {} /\ isr = {} /\ ~reset
    BY <1>1, <1>5 DEF IInv, Types, OnePlace, Handled, Detached
  <2>2. OnTheWire' /\ Received' /\ Taken' /\ Detached'
    BY <1>1, <1>2, <2>1 DEF OnTheWire, InFlight, Received, Taken, Detached
  <2>3. Handled' /\ Answered'
    BY <1>1, <1>2, <1>3, <2>1 DEF Handled, Answered
  <2> QED BY <2>2, <2>3 DEF OnePlace
<1> QED BY <1>2, <1>4, <1>5 DEF IInv

LEMMA ReadEpInv == IInv /\ ReadEp => IInv'
BY Same DEF ReadEp, Quiet, Step, IInv, Types, OnePlace,
       OnTheWire, InFlight, Answering, Received, Taken, Handled, Answered, Detached

LEMMA WriteEpInv == IInv /\ WriteEp => IInv'
BY Same DEF WriteEp, Step, IInv, Types, OnePlace,
       OnTheWire, InFlight, Answering, Received, Taken, Handled, Answered, Detached

-----------------------------------------------------------------------------
LEMMA ExchangeNext == IInv /\ [Next]_vars => IInv'
<1>1. IInv /\ UNCHANGED vars => IInv'
  BY Same DEF vars, IInv, Types, OnePlace, OnTheWire,
         InFlight, Answering, Received, Taken, Handled, Answered, Detached
<1>2. IInv /\ Task => IInv'
  BY PollInv, TestCountInv, CopyInv, TakeInv, BeginInv, PrintInv, ReadLengthInv,
     SendResponseInv, ReadEpInv, WriteEpInv DEF Task, Poll, Printing
<1>3. IInv /\ Isr => IInv'
  BY IsrEnterInv, IsrTransferInv, IsrResetInv DEF Isr
<1> QED BY <1>1, <1>2, <1>3, HostOutInv, HostInInv, BusResetInv, PrintInv, PollInv
        DEF Next, Poll, Printing

\* In every behaviour of the command endpoint, neither buffer changes hands
\* early unless an exchange has been disturbed.
THEOREM ExchangeKept == Spec => []OneExchange
<1>1. IInv => OneExchange
  BY Same DEF OneExchange, IInv, Types, OnePlace, Answering, Received, Taken, Handled
<1> QED BY <1>1, InitInv, ExchangeNext, PTL DEF Spec

-----------------------------------------------------------------------------
(* No command is handled twice.                                            *)

\* Every command handled so far is older than n.
Older(n) == \A k \in 1 .. Len(ran) : ran[k][2] < n

SeqTypes == /\ ran \in Seq(Nat \X Nat) /\ sent \in Nat /\ rxBuf = sent
            /\ input_buf \in Nat \X Nat /\ count \in {0, 1} /\ rx_count \in {0, 1}

\* A command the task has not taken.
Pending == "RX" \in ctr \/ "RX" \in isr \/ rx_count = 1

\* What is received and not yet handled is newer than what has been handled; the
\* halves of what the task copies are in order, and what arrives while the task
\* takes it is newer still.
Fresh ==
  /\ Pending => Older(sent)
  /\ pc \in {"test", "copy"} /\ count = 1 => Older(sent)
  /\ pc \in {"copy2", "take", "begin"} /\ count = 1 =>
       Older(input_buf[1]) /\ input_buf[1] <= sent
  /\ pc \in {"take", "begin"} /\ count = 1 =>
       input_buf[1] <= input_buf[2] /\ input_buf[2] <= sent
  /\ pc = "begin" /\ count = 1 /\ Pending => input_buf[2] < sent

OInv == SeqTypes /\ Older(sent + 1) /\ Fresh /\ HandledOnce

LEMMA OlderKept ==
  ASSUME NEW m \in Nat, NEW n \in Nat, m <= n, ran \in Seq(Nat \X Nat), Older(m)
  PROVE  Older(n)
<1> SUFFICES ASSUME NEW k \in 1 .. Len(ran) PROVE ran[k][2] < n
  BY DEF Older
<1>1. ran[k] \in Nat \X Nat /\ ran[k][2] < m
  BY DEF Older
<1>2. ran[k][2] \in Nat
  BY <1>1
<1> QED BY <1>1, <1>2

LEMMA SameOlder == ASSUME ran' = ran, NEW n PROVE Older(n)' <=> Older(n)
BY DEF Older

\* Steps that leave the commands handled and what the task has copied alone.
LEMMA OrderKept ==
  ASSUME OInv, UNCHANGED <<ran, input_buf, count, pc>>, sent' \in Nat, rxBuf' = sent',
         sent <= sent', rx_count' \in {0, 1}, Pending' => Pending \/ sent < sent'
  PROVE  OInv'
<1>1. SeqTypes'
  BY DEF OInv, SeqTypes
<1>2. PICK s \in Nat, t \in Nat : s = sent /\ t = sent' /\ s <= t
  BY DEF OInv, SeqTypes
<1>3. Older(s + 1) /\ Older(t + 1)
  <2>1. s + 1 \in Nat /\ t + 1 \in Nat /\ ran \in Seq(Nat \X Nat) /\ Older(s + 1)
    <3>1. ran \in Seq(Nat \X Nat)
      BY DEF OInv, SeqTypes
    <3>3. s + 1 \in Nat /\ t + 1 \in Nat
      OBVIOUS
    <3>2. Older(s + 1)
      BY <1>2 DEF OInv, Older
    <3> QED BY <3>1, <3>2, <3>3
  <2>2. s + 1 <= t + 1
    <3>1. s <= t
      BY <1>2
    <3> QED BY <3>1
  <2>3. Older(t + 1)
    BY <2>1, <2>2, OlderKept
  <2> QED BY <2>1, <2>3
<1>4. Older(s) => Older(t)
  BY <1>2, OlderKept DEF OInv, SeqTypes
<1>5. s < t => Older(t)
  BY <1>2, <1>3, OlderKept DEF OInv, SeqTypes
<1>6. Older(sent + 1)'
  BY <1>2, <1>3 DEF Older
<1>7. Older(t) => Older(sent)'
  BY <1>2 DEF Older
<1>8. Pending' => Older(t)
  BY <1>2, <1>4, <1>5 DEF OInv, Fresh
<1>9. Pending' => Older(sent)'
  BY <1>7, <1>8
<1>10. (pc \in {"test", "copy"} /\ count = 1)' => Older(sent)'
  BY <1>2, <1>4, <1>7 DEF OInv, Fresh
<1>11. input_buf[1] \in Nat /\ input_buf[2] \in Nat
  BY DEF OInv, SeqTypes
<1>12. (pc \in {"copy2", "take", "begin"} /\ count = 1)' => (Older(input_buf[1]) /\ input_buf[1] <= sent)'
  <2>1. Older(input_buf[1]) => Older(input_buf[1])'
    BY DEF Older
  <2> QED BY <1>2, <1>11, <2>1 DEF OInv, Fresh
<1>13. (pc \in {"take", "begin"} /\ count = 1)'
         => (input_buf[1] <= input_buf[2] /\ input_buf[2] <= sent)'
  BY <1>2, <1>11 DEF OInv, Fresh
<1>14. (pc = "begin" /\ count = 1 /\ Pending)' => (input_buf[2] < sent)'
  <2>1. pc = "begin" /\ count = 1 => input_buf[2] <= s
    BY <1>2 DEF OInv, Fresh
  <2>2. pc = "begin" /\ count = 1 /\ Pending => input_buf[2] < s
    BY <1>2 DEF OInv, Fresh
  <2> QED BY <1>2, <1>11, <2>1, <2>2
<1>15. HandledOnce'
  BY DEF OInv, HandledOnce
<1> QED BY <1>1, <1>6, <1>9, <1>10, <1>12, <1>13, <1>14, <1>15 DEF OInv, Fresh

LEMMA HardwareOrder == OInv /\ (HostOut \/ HostIn \/ BusReset \/ Isr) => OInv'
<1> SUFFICES ASSUME OInv, HostOut \/ HostIn \/ BusReset \/ Isr PROVE OInv'
  OBVIOUS
<1>1. UNCHANGED <<ran, input_buf, count, pc>>
  BY Same DEF HostOut, HostIn, BusReset, Isr, IsrEnter, IsrTransfer, IsrReset
<1>2. CASE HostOut
  <2>1. sent' = sent + 1 /\ rxBuf' = sent' /\ rx_count' = rx_count
    BY <1>2, Same DEF HostOut
  <2> QED BY <1>1, <2>1, OrderKept DEF OInv, SeqTypes
<1>3. CASE HostIn \/ BusReset \/ Isr
  <2>1. sent' = sent /\ rxBuf' = rxBuf /\ rx_count' \in {0, 1}
    BY <1>3, Same DEF HostIn, BusReset, Isr, IsrEnter, IsrTransfer, IsrReset, CmdEpRx, OInv,
                      SeqTypes
  <2>2. Pending' => Pending
    BY <1>3, Same DEF HostIn, BusReset, Isr, IsrEnter, IsrTransfer, IsrReset, CmdEpRx, Pending
  <2> QED BY <1>1, <2>1, <2>2, OrderKept DEF OInv, SeqTypes
<1> QED BY <1>2, <1>3

\* Steps of the task while it neither takes nor copies a command.
Otherwise == Poll \/ TestCount \/ Printing \/ ReadLength \/ SendResponse \/ ReadEp \/ WriteEp

LEMMA OtherOrder == OInv /\ IInv /\ Otherwise => OInv'
<1> SUFFICES ASSUME OInv, IInv, Otherwise PROVE OInv'
  OBVIOUS
<1>1. UNCHANGED <<ran, sent, rxBuf, rx_count, ctr, isr, input_buf>>
  BY Same DEF Otherwise, Poll, Wait, WaitOther, Waken, GetCount, Rest, TestCount, Printing, CheckChar,
     StoreChar, Increment, PrintOther, ReadLength, SendResponse, ReadEp, WriteEp, Quiet
<1>2. count' \in {0, 1} /\ ((pc \in {"test", "copy"} /\ count = 1)'
        => (pc \in {"test", "copy"} /\ count = 1) \/ rx_count = 1)
  BY Same DEF Otherwise, Poll, Wait, WaitOther, Waken, GetCount, Rest, TestCount, Printing, CheckChar,
     StoreChar, Increment, PrintOther, ReadLength, SendResponse, ReadEp, WriteEp, Quiet, Step,
     IInv, Types, OInv, SeqTypes
<1>3. pc' \in {"copy2", "take", "begin"} => pc' = pc /\ count' = count
  BY Same DEF Otherwise, Poll, Wait, WaitOther, Waken, GetCount, Rest, TestCount, Printing, CheckChar,
     StoreChar, Increment, PrintOther, ReadLength, SendResponse, ReadEp, WriteEp, Quiet, Step,
     IInv, Types
<1>4. SeqTypes'
  BY <1>1, <1>2 DEF OInv, SeqTypes
<1>5. /\ Older(sent)' <=> Older(sent)
      /\ Older(sent + 1)' <=> Older(sent + 1)
      /\ Older(input_buf[1])' <=> Older(input_buf[1])
      /\ Pending' <=> Pending
  BY <1>1 DEF Older, Pending
<1>6. Fresh'
  BY <1>1, <1>2, <1>3, <1>5 DEF OInv, Fresh, Pending
<1> QED BY <1>1, <1>4, <1>5, <1>6 DEF OInv, HandledOnce

LEMMA CopyOrder == OInv /\ (Copy \/ CopyOn \/ Take) => OInv'
<1> SUFFICES ASSUME OInv, Copy \/ CopyOn \/ Take PROVE OInv'
  OBVIOUS
<1>1. UNCHANGED <<ran, sent, rxBuf, ctr, isr, count>> /\ ctr = {} /\ isr = {}
  BY Same DEF Copy, CopyOn, Take, Quiet, Step, Interrupt
<1>2. /\ Older(sent)' <=> Older(sent)
      /\ Older(sent + 1)' <=> Older(sent + 1)
  BY <1>1 DEF Older
<1>3. input_buf[1] \in Nat /\ input_buf[2] \in Nat
  BY DEF OInv, SeqTypes
<1>4. CASE Copy
  <2>1. /\ rx_count' = rx_count /\ pc = "copy" /\ pc' = "copy2"
        /\ input_buf' = IF count = 0 THEN input_buf ELSE <<sent, input_buf[2]>>
    BY <1>4, Same DEF Copy, Quiet, Step, OInv, SeqTypes
  <2>2. SeqTypes' /\ (Pending' <=> Pending)
    BY <1>1, <1>3, <2>1 DEF OInv, SeqTypes, Pending
  <2>3. count' = 1 => (Older(input_buf[1]) /\ input_buf[1] <= sent)'
    <3>1. count' = 1 => input_buf'[1] = sent /\ Older(sent) /\ sent' = sent /\ sent \in Nat
      BY <1>1, <2>1 DEF OInv, SeqTypes, Fresh
    <3> QED BY <1>1, <3>1 DEF Older
  <2>4. Pending' => Older(sent)'
    BY <1>2, <2>2 DEF OInv, Fresh
  <2>5. Fresh'
    BY <2>1, <2>3, <2>4 DEF Fresh
  <2>6. HandledOnce'
    BY <1>1 DEF OInv, HandledOnce
  <2> QED BY <1>2, <2>2, <2>5, <2>6 DEF OInv
<1>5. CASE CopyOn
  <2>1. /\ rx_count' = rx_count /\ pc = "copy2" /\ pc' = "take"
        /\ input_buf' = IF count = 0 THEN input_buf ELSE <<input_buf[1], sent>>
    BY <1>5, Same DEF CopyOn, Quiet, Step, OInv, SeqTypes
  <2>2. SeqTypes' /\ (Pending' <=> Pending)
    BY <1>1, <1>3, <2>1 DEF OInv, SeqTypes, Pending
  <2>3. count' = 1 => /\ (Older(input_buf[1]) /\ input_buf[1] <= sent)'
                      /\ (input_buf[1] <= input_buf[2] /\ input_buf[2] <= sent)'
    BY <1>1, <1>3, <2>1 DEF OInv, SeqTypes, Fresh, Older
  <2> QED BY <1>1, <1>2, <2>1, <2>2, <2>3 DEF OInv, Fresh, HandledOnce
<1>6. CASE Take
  <2>1. rx_count' = 0 /\ pc = "take" /\ pc' = "begin" /\ input_buf' = input_buf
    BY <1>6, Same DEF Take, CountTaken, Step
  <2>2. SeqTypes' /\ ~Pending'
    BY <1>1, <2>1 DEF OInv, SeqTypes, Pending
  <2>3. count' = 1 => /\ (Older(input_buf[1]) /\ input_buf[1] <= sent)'
                      /\ (input_buf[1] <= input_buf[2] /\ input_buf[2] <= sent)'
    BY <1>1, <1>3, <2>1 DEF OInv, SeqTypes, Fresh, Older
  <2> QED BY <1>1, <1>2, <2>1, <2>2, <2>3 DEF OInv, Fresh, HandledOnce
<1> QED BY <1>4, <1>5, <1>6

LEMMA BeginOrder == OInv /\ Begin => OInv'
<1> SUFFICES ASSUME OInv, Begin PROVE OInv'
  OBVIOUS
<1>1. /\ UNCHANGED <<sent, rxBuf, rx_count, ctr, isr, count, input_buf>>
      /\ pc = "begin" /\ pc' \in {"rest", "handle"}
  BY Same DEF Begin, Step
<1>2. Pending' <=> Pending
  BY <1>1 DEF Pending
<1>3. CASE count = 0
  <2>1. ran' = ran
    BY <1>3 DEF Begin
  <2>2. SeqTypes'
    BY <1>1, <2>1 DEF OInv, SeqTypes
  <2>3. Older(sent)' <=> Older(sent)
    BY <1>1, <2>1 DEF Older
  <2>4. Older(sent + 1)' <=> Older(sent + 1)
    BY <1>1, <2>1 DEF Older
  <2> QED BY <1>1, <1>2, <2>1, <2>2, <2>3, <2>4 DEF OInv, Fresh, HandledOnce
<1>4. CASE count = 1
  <2>1. ran' = Append(ran, input_buf) /\ ran \in Seq(Nat \X Nat) /\ input_buf \in Nat \X Nat
    BY <1>4 DEF Begin, OInv, SeqTypes
  <2>2. /\ Len(ran') = Len(ran) + 1 /\ Len(ran) \in Nat /\ ran'[Len(ran) + 1] = input_buf
        /\ \A k \in 1 .. Len(ran) : ran'[k] = ran[k] /\ ran[k] \in Nat \X Nat
        /\ ran' \in Seq(Nat \X Nat)
    BY <2>1
  <2>3. /\ Older(input_buf[1]) /\ input_buf[1] <= input_buf[2] /\ input_buf[2] <= sent
        /\ Pending => input_buf[2] < sent
    BY <1>1, <1>4 DEF OInv, Fresh
  <2>4. input_buf[1] \in Nat /\ input_buf[2] \in Nat /\ sent \in Nat
    BY <2>1 DEF OInv, SeqTypes
  <2>5. SeqTypes'
    BY <1>1, <2>2 DEF OInv, SeqTypes
  <2>6. ASSUME NEW n \in Nat, Older(n), input_buf[2] < n
        PROVE  \A k \in 1 .. Len(ran') : ran'[k][2] < n
    <3> SUFFICES ASSUME NEW k \in 1 .. Len(ran) + 1 PROVE ran'[k][2] < n
      BY <2>2
    <3>1. CASE k = Len(ran) + 1
      BY <2>2, <2>6, <3>1
    <3>2. CASE k \in 1 .. Len(ran)
      BY <2>2, <2>6, <3>2 DEF Older
    <3> QED BY <2>2, <3>1, <3>2
  <2>7. Older(sent + 1)'
    BY <1>1, <2>3, <2>4, <2>6 DEF Older, OInv
  <2>8. Pending' => Older(sent)'
    BY <1>1, <1>2, <2>3, <2>4, <2>6 DEF Older, OInv, Fresh
  <2>9. HandledOnce'
    <3> SUFFICES ASSUME NEW j \in 1 .. Len(ran) + 1, NEW k \in 1 .. j - 1
                 PROVE  ran'[k][2] < ran'[j][1]
      BY <2>2 DEF HandledOnce
    <3>1. k \in 1 .. Len(ran)
      BY <2>2
    <3>2. CASE j = Len(ran) + 1
      BY <2>2, <2>3, <3>1, <3>2 DEF Older
    <3>3. CASE j \in 1 .. Len(ran)
      BY <2>2, <3>1, <3>3 DEF OInv, HandledOnce
    <3> QED BY <2>2, <3>2, <3>3
  <2> QED BY <1>1, <2>5, <2>7, <2>8, <2>9 DEF OInv, Fresh
<1> QED BY <1>3, <1>4 DEF OInv, SeqTypes

LEMMA OrderInit == Init => OInv
<1> SUFFICES ASSUME Init PROVE OInv
  OBVIOUS
<1>1. /\ ran = <<>> /\ sent = 0 /\ rxBuf = 0 /\ input_buf = <<0, 0>> /\ count = 0
      /\ rx_count = 0 /\ ctr = {} /\ isr = {} /\ pc = "get"
  BY DEF Init
<1> QED BY <1>1 DEF OInv, SeqTypes, Fresh, Pending, Older, HandledOnce

LEMMA OrderNext == IInv /\ OInv /\ [Next]_vars => OInv'
<1>1. OInv /\ UNCHANGED vars => OInv'
  BY Same DEF vars, OInv, SeqTypes, Fresh, Pending, Older, HandledOnce
<1>2. IInv /\ OInv /\ (Task \/ WaitOther \/ CheckChar \/ PrintOther) => OInv'
  BY OtherOrder, CopyOrder, BeginOrder DEF Task, Otherwise, Poll, Printing
<1> QED BY <1>1, <1>2, HardwareOrder DEF Next

\* Whatever the host does, bus resets and commands sent without reading the
\* answers included, no part of a command is handled twice, and the commands are
\* handled in order.
THEOREM HandledAtMostOnce == Spec => []HandledOnce
<1>1. OInv => HandledOnce
  BY DEF OInv
<1> QED BY <1>1, InitInv, ExchangeNext, OrderInit, OrderNext, PTL DEF Spec
-----------------------------------------------------------------------------
(* Types and array bounds.                                                 *)

\* The rest of the answer and the packet to send lie in the buffer and the one
\* character behind it; no packet follows while anything prints, and the buffer
\* only grows then; what counts as received is a command.
Bounds ==
  /\ processing => tx_next_buf = NoBuf
  /\ pc \in InChar \cup {"handle", "send"} => processing
  /\ pc = "store" => tx_idx <= TxSize
  /\ pc = "send" => txlen <= tx_idx
  /\ tx_next_buf # NoBuf => tx_next_buf + tx_idx <= TxSize + 1
  /\ txAddr + txCount <= TxSize + 1
  /\ rxBuf = sent
  /\ Pending \/ count = 1 => rxBuf # 0
  /\ pc \in {"copy2", "take", "begin"} /\ count = 1 => input_buf[1] # 0
  /\ pc \in {"take", "begin"} /\ count = 1 => input_buf[2] # 0

BInv == TypeOK /\ Bounds

\* The types part by part.
DrvTypes ==
  /\ rx \in Status /\ tx \in Status /\ ctr \subseteq {"RX", "TX"}
  /\ reset \in BOOLEAN /\ rxBuf \in 0 .. NCommands
  /\ isr \subseteq {"RESET", "RX", "TX"} /\ event \in BOOLEAN
  /\ rx_count \in 0 .. 1 /\ count \in 0 .. 1 /\ processing \in BOOLEAN
  /\ tx_idx \in 0 .. TxSize + 1 /\ txAddr \in 0 .. TxSize + 1 /\ txCount \in 0 .. Packet
  /\ tx_next_buf \in {NoBuf} \cup 0 .. TxSize + 1
  /\ txBuf \in [0 .. TxSize -> Chars]
TaskTypes ==
  /\ pc \in Labels /\ input_buf \in (0 .. NCommands) \X (0 .. NCommands)
  /\ back \in {"handle", "rest"} /\ idx \in 0 .. TxSize /\ txlen \in 0 .. Packet
  /\ reg \in [rx : Status, tx : Status]
HistTypes ==
  /\ printed \in 0 .. MaxPrint /\ others \in 0 .. MaxOthers /\ torn \in BOOLEAN
  /\ ran \in Seq(Commands \X Commands) /\ answer \in Seq(Chars) /\ got \in Seq(Chars)
  /\ sent \in 0 .. NCommands /\ open \in BOOLEAN
  /\ resets \in 0 .. MaxResets /\ disturbed \in BOOLEAN

LEMMA TypeParts == /\ TypeOK <=> DrvTypes /\ TaskTypes /\ HistTypes
                   /\ TypeOK' <=> DrvTypes' /\ TaskTypes' /\ HistTypes'
BY Zenon DEF TypeOK, DrvTypes, TaskTypes, HistTypes

LEMMA Sizes == /\ TxSize \in Nat /\ Packet \in Nat /\ Packet > 0 /\ Packet <= TxSize
               /\ NCommands \in Nat /\ MaxPrint \in Nat /\ MaxOthers \in Nat
               /\ MaxResets \in Nat
BY SizeAssumption, BoundAssumption

LEMMA ToggledType == \A old, new \in Status : Toggled(old, new) \in Status
BY DEF Toggled, Status

LEMMA TxLenType == tx_idx \in Nat => TxLen \in 0 .. Packet /\ TxLen <= tx_idx
BY Sizes DEF TxLen, Shorter

\* A packet that is loaded lies in the buffer, and so does the rest.
LEMMA LoadInBounds ==
  ASSUME tx_idx \in Nat, NEW addr \in Nat, addr + tx_idx <= TxSize + 1,
         NEW len \in 0 .. Packet, len <= tx_idx, LoadPacket(addr, len)
  PROVE  /\ txAddr' \in 0 .. TxSize + 1 /\ txCount' \in 0 .. Packet
         /\ tx_idx' \in 0 .. TxSize + 1 /\ txAddr' + txCount' <= TxSize + 1
         /\ tx_next_buf' \in {NoBuf} \cup 0 .. TxSize + 1
         /\ tx_next_buf' # NoBuf => tx_next_buf' + tx_idx' <= TxSize + 1
<1>1. txAddr' = addr /\ txCount' = len /\ tx_idx' = tx_idx - len
      /\ tx_next_buf' = IF len = Packet THEN addr + Packet ELSE NoBuf
  BY DEF LoadPacket, NextBuf
<1> QED BY <1>1, Sizes

\* Characters of the buffer make a sequence.
LEMMA PacketType ==
  ASSUME TypeOK, NEW a \in Nat, NEW n \in Nat, a + n <= TxSize + 1
  PROVE  /\ [k \in 1 .. n |-> txBuf[a + k - 1]] \in Seq(Chars)
         /\ Len([k \in 1 .. n |-> txBuf[a + k - 1]]) = n
<1> DEFINE packet == [k \in 1 .. n |-> txBuf[a + k - 1]]
<1>1. packet \in [1 .. n -> Chars]
  <2> SUFFICES ASSUME NEW k \in 1 .. n PROVE txBuf[a + k - 1] \in Chars
    OBVIOUS
  <2>1. a + k - 1 \in 0 .. TxSize
    BY Sizes
  <2> QED BY <2>1 DEF TypeOK
<1>2. DOMAIN packet = 1 .. n
  OBVIOUS
<1> HIDE DEF packet
<1>3. packet \in Seq(Chars)
  BY <1>1, SeqDef
<1>4. Len(packet) = n
  BY <1>2, <1>3, LenProperties
<1> QED BY <1>3, <1>4 DEF packet

LEMMA BoundsInit == Init => BInv
<1> SUFFICES ASSUME Init PROVE BInv
  OBVIOUS
<1>1. <<>> \in Seq(Commands \X Commands) /\ <<>> \in Seq(Chars)
  OBVIOUS
<1>2. 0 \in 0 .. TxSize /\ 0 \in 0 .. TxSize + 1 /\ 0 \in 0 .. Packet /\ 0 \in 0 .. NCommands
      /\ 0 \in 0 .. MaxPrint /\ 0 \in 0 .. MaxOthers /\ 0 \in 0 .. MaxResets
  BY Sizes
<1>3. 0 \in Status /\ 0 \in 0 .. 1
  BY DEF Status
<1>4. txBuf \in [0 .. TxSize -> Chars] /\ reg \in [rx : Status, tx : Status]
      /\ input_buf \in (0 .. NCommands) \X (0 .. NCommands)
  BY <1>2, <1>3 DEF Init, Chars, Other
<1>5. /\ rx \in Status /\ tx \in Status /\ ctr \subseteq {"RX", "TX"} /\ reset \in BOOLEAN
      /\ isr \subseteq {"RESET", "RX", "TX"} /\ event \in BOOLEAN /\ processing \in BOOLEAN
      /\ tx_next_buf \in {NoBuf} \cup 0 .. TxSize + 1 /\ pc \in Labels /\ open \in BOOLEAN
      /\ disturbed \in BOOLEAN /\ torn \in BOOLEAN /\ back \in {"handle", "rest"}
  BY <1>3 DEF Init
<1>6. TypeOK
  BY <1>1, <1>2, <1>3, <1>4, <1>5, Zenon DEF Init, TypeOK
<1>7. /\ processing = FALSE /\ pc = "get" /\ txAddr = 0 /\ txCount = 0 /\ rxBuf = 0 /\ sent = 0
      /\ tx_next_buf = NoBuf /\ ctr = {} /\ isr = {} /\ rx_count = 0 /\ count = 0
  BY DEF Init
<1> QED BY <1>6, <1>7, Sizes DEF BInv, Bounds, Pending

\* The host and the controller.
LEMMA BoundsHardware == BInv /\ (HostOut \/ HostIn \/ BusReset \/ IsrEnter) => BInv'
<1> SUFFICES ASSUME BInv, HostOut \/ HostIn \/ BusReset \/ IsrEnter PROVE BInv'
  OBVIOUS
<1> USE Sizes
<1>1. CASE HostOut
  <2>1. sent' = sent + 1 /\ rxBuf' = sent' /\ sent' \in 0 .. NCommands /\ sent' # 0
    BY <1>1 DEF HostOut, BInv, TypeOK
  <2>2. rx' \in Status /\ ctr' \subseteq {"RX", "TX"} /\ open' \in BOOLEAN
        /\ disturbed' \in BOOLEAN /\ got' \in Seq(Chars)
    BY <1>1 DEF HostOut, BInv, TypeOK, Status
  <2>3. UNCHANGED <<tx, reset, txAddr, txCount, drvVars, taskVars, resets, isr, event>>
    BY <1>1 DEF HostOut
  <2>4. TypeOK'
    BY <2>1, <2>2, <2>3, Same DEF BInv, TypeOK
  <2>5. Bounds'
    BY <2>1, <2>3, Same DEF BInv, Bounds
  <2> QED BY <2>4, <2>5 DEF BInv
<1>2. CASE HostIn
  <2>1. got' \in Seq(Chars)
    <3> DEFINE packet == [k \in 1 .. txCount |-> txBuf[txAddr + k - 1]]
    <3>1. packet \in Seq(Chars)
      BY PacketType DEF BInv, TypeOK, Bounds
    <3>2. got' = got \o packet /\ got \in Seq(Chars)
      BY <1>2 DEF HostIn, BInv, TypeOK
    <3> HIDE DEF packet
    <3> QED BY <3>1, <3>2, ConcatProperties
  <2>2. tx' \in Status /\ ctr' \subseteq {"RX", "TX"} /\ open' \in BOOLEAN
        /\ ("RX" \in ctr' => "RX" \in ctr)
    BY <1>2 DEF HostIn, BInv, TypeOK, Status
  <2>3. UNCHANGED <<rx, reset, rxBuf, txAddr, txCount, drvVars, taskVars, sent, resets,
                    disturbed, isr, event>>
    BY <1>2 DEF HostIn
  <2>4. TypeOK'
    BY <2>1, <2>2, <2>3, Same DEF BInv, TypeOK
  <2>5. Bounds'
    BY <2>2, <2>3, Same DEF BInv, Bounds, Pending
  <2> QED BY <2>4, <2>5 DEF BInv
<1>3. CASE BusReset
  <2>1. rx' \in Status /\ tx' \in Status /\ resets' \in 0 .. MaxResets
    BY <1>3 DEF BusReset, Status, BInv, TypeOK
  <2>2. reset' \in BOOLEAN /\ open' \in BOOLEAN /\ disturbed' \in BOOLEAN
    BY <1>3 DEF BusReset
  <2>3. UNCHANGED <<ctr, rxBuf, txAddr, txCount, drvVars, taskVars, sent, got, isr, event>>
    BY <1>3 DEF BusReset
  <2>4. TypeOK'
    BY <2>1, <2>2, <2>3, Same DEF BInv, TypeOK
  <2>5. Bounds'
    BY <2>3, Same DEF BInv, Bounds, Pending
  <2> QED BY <2>4, <2>5 DEF BInv
<1>4. CASE IsrEnter
  <2>1. isr' \subseteq {"RESET", "RX", "TX"} /\ ("RX" \in isr' => "RX" \in ctr)
    BY <1>4 DEF IsrEnter
  <2>2. UNCHANGED <<hwVars, drvVars, taskVars, hostVars, event>>
    BY <1>4 DEF IsrEnter
  <2>3. TypeOK'
    <3>1. DrvTypes /\ TaskTypes /\ HistTypes
      BY TypeParts DEF BInv
    <3>2. DrvTypes'
      BY <2>1, <2>2, <3>1, Same DEF DrvTypes
    <3>3. TaskTypes'
      BY <2>1, <2>2, <3>1, Same DEF TaskTypes
    <3>4. HistTypes'
      BY <2>1, <2>2, <3>1, Same DEF HistTypes
    <3> QED BY <3>2, <3>3, <3>4, TypeParts
  <2>4. Bounds'
    BY <2>1, <2>2, Same DEF BInv, Bounds, Pending
  <2> QED BY <2>3, <2>4 DEF BInv
<1> QED BY <1>1, <1>2, <1>3, <1>4

\* The handler.
LEMMA BoundsHandler == BInv /\ (IsrTransfer \/ IsrReset) => BInv'
<1> SUFFICES ASSUME BInv, IsrTransfer \/ IsrReset PROVE BInv'
  OBVIOUS
<1>1. UNCHANGED <<rxBuf, processing, txBuf, taskVars, hostVars>> /\ isr' = {} /\ ctr' = {}
  BY DEF IsrTransfer, IsrReset
<1>2. rx' \in Status /\ tx' \in Status /\ reset' \in BOOLEAN /\ event' \in BOOLEAN
  <2>1. NAK \in Status /\ VALID \in Status
    BY DEF Status
  <2>2. CASE IsrTransfer
    <3>1. rx' = rx /\ tx' \in {tx, VALID} /\ reset' = reset
      BY <2>2 DEF IsrTransfer, CmdEpTx, CmdEpRx, RxAfterRx
    <3>2. event' = event \/ event' = TRUE
      BY <2>2 DEF IsrTransfer, CmdEpRx
    <3> QED BY <2>1, <3>1, <3>2 DEF BInv, TypeOK
  <2>3. CASE IsrReset
    <3>1. rx' = Toggled(rx, VALID) /\ (tx' = VALID \/ tx' = Toggled(tx, NAK)) /\ reset' = FALSE
      BY <2>3 DEF IsrReset
    <3>2. event' = event \/ event' = TRUE
      BY <2>3 DEF IsrReset
    <3> QED BY <2>1, <3>1, <3>2, ToggledType DEF BInv, TypeOK
  <2> QED BY <2>2, <2>3
<1>3. rx_count' \in {0, 1} /\ (rx_count' = 1 => rx_count = 1 \/ "RX" \in isr)
  BY DEF IsrTransfer, IsrReset, CmdEpRx, BInv, TypeOK
<1>4. /\ txAddr' \in 0 .. TxSize + 1 /\ txCount' \in 0 .. Packet
      /\ tx_idx' \in 0 .. TxSize + 1 /\ txAddr' + txCount' <= TxSize + 1
      /\ tx_next_buf' \in {NoBuf} \cup 0 .. TxSize + 1
      /\ tx_next_buf' # NoBuf => tx_next_buf' + tx_idx' <= TxSize + 1
      /\ tx_next_buf = NoBuf => tx_next_buf' = NoBuf /\ tx_idx' = tx_idx
  <2>1. CASE tx_next_buf # NoBuf /\ LoadPacket(tx_next_buf, TxLen)
    <3>1. tx_next_buf \in Nat /\ tx_next_buf + tx_idx <= TxSize + 1 /\ tx_idx \in Nat
      BY <2>1 DEF BInv, TypeOK, Bounds
    <3> QED BY <2>1, <3>1, LoadInBounds, TxLenType
  <2>2. CASE UNCHANGED <<tx_idx, tx_next_buf>> /\ (UNCHANGED <<txAddr, txCount>> \/
                                                   (txAddr' = 0 /\ txCount' = 0))
    BY <2>2, Sizes DEF BInv, TypeOK, Bounds
  <2> QED BY <2>1, <2>2 DEF IsrTransfer, IsrReset, CmdEpTx
<1>5. TypeOK'
  BY <1>1, <1>2, <1>3, <1>4, Same DEF BInv, TypeOK
<1>6. Bounds'
  BY <1>1, <1>3, <1>4, Same DEF BInv, TypeOK, Bounds, Pending
<1> QED BY <1>5, <1>6 DEF BInv

\* Taking a command.
LEMMA BoundsTake == BInv /\ (Poll \/ TestCount \/ Copy \/ CopyOn \/ Take \/ Begin) => BInv'
<1> SUFFICES ASSUME BInv, Poll \/ TestCount \/ Copy \/ CopyOn \/ Take \/ Begin PROVE BInv'
  OBVIOUS
<1> USE Sizes
<1>1. CASE Poll \/ TestCount
  <2>1. /\ pc' \in {"get", "test", "rest", "copy", "wait"} /\ count' \in {count, rx_count}
        /\ UNCHANGED <<hwVars, drvVars, input_buf, back, idx, txlen, reg, history, hostVars, isr>>
    BY <1>1, Same DEF Poll, Wait, WaitOther, Waken, GetCount, Rest, TestCount, Quiet, Step
  <2>2. event' \in {event, FALSE}
    BY <1>1 DEF Poll, Wait, WaitOther, Waken, GetCount, Rest, TestCount, Quiet
  <2>3. TypeOK'
    <3>1. DrvTypes /\ TaskTypes /\ HistTypes
      BY TypeParts DEF BInv
    <3>2. DrvTypes'
      BY <2>1, <2>2, <3>1, Same DEF DrvTypes
    <3>3. TaskTypes'
      BY <2>1, <2>2, <3>1, Same DEF TaskTypes
    <3>4. HistTypes'
      BY <2>1, <2>2, <3>1, Same DEF HistTypes
    <3> QED BY <3>2, <3>3, <3>4, TypeParts
  <2> QED BY <2>1, <2>3, Same DEF BInv, TypeOK, Bounds, Pending
<1>2. CASE Copy \/ CopyOn
  <2>1. /\ pc' = IF pc = "copy" THEN "copy2" ELSE "take"
        /\ pc \in {"copy", "copy2"}
        /\ input_buf' = IF count = 0 THEN input_buf
                        ELSE IF pc = "copy" THEN <<rxBuf, input_buf[2]>>
                        ELSE <<input_buf[1], rxBuf>>
        /\ UNCHANGED <<count, back, idx, txlen, reg, hwVars, drvVars, history, hostVars, isr,
                       event>>
    BY <1>2 DEF Copy, CopyOn, Quiet, Step
  <2>2. /\ rxBuf \in 0 .. NCommands /\ input_buf[1] \in 0 .. NCommands
        /\ input_buf[2] \in 0 .. NCommands
        /\ input_buf \in (0 .. NCommands) \X (0 .. NCommands)
    BY DEF BInv, TypeOK
  <2>3. input_buf' \in (0 .. NCommands) \X (0 .. NCommands)
    BY <2>1, <2>2
  <2>4. TypeOK'
    BY <2>1, <2>3, Same DEF BInv, TypeOK
  <2>5. /\ pc \in {"copy2", "take", "begin"} /\ count = 1 => input_buf[1] # 0
        /\ pc \in {"take", "begin"} /\ count = 1 => input_buf[2] # 0
        /\ count = 1 => rxBuf # 0
    BY DEF BInv, Bounds
  <2>6. /\ pc' \in {"copy2", "take", "begin"} /\ count' = 1 => input_buf'[1] # 0
        /\ pc' \in {"take", "begin"} /\ count' = 1 => input_buf'[2] # 0
    BY <2>1, <2>2, <2>5
  <2> QED BY <2>1, <2>4, <2>6, Same DEF BInv, Bounds, Pending
<1>3. CASE Take
  <2>1. /\ rx_count' = 0 /\ pc = "take" /\ pc' = "begin"
        /\ UNCHANGED <<hwVars, tx_idx, tx_next_buf, processing, txBuf, local, history, hostVars,
                       isr, event>>
    BY <1>3 DEF Take, CountTaken, Step
  <2>2. TypeOK'
    <3>1. DrvTypes /\ TaskTypes /\ HistTypes
      BY TypeParts DEF BInv
    <3>2. DrvTypes'
      <4>1. rx_count' \in 0 .. 1 /\ count' \in 0 .. 1
        BY <2>1, <3>1, Same DEF DrvTypes
      <4>2. /\ rx' = rx /\ tx' = tx /\ ctr' = ctr /\ reset' = reset /\ rxBuf' = rxBuf
            /\ txAddr' = txAddr /\ txCount' = txCount /\ isr' = isr /\ event' = event
            /\ processing' = processing /\ tx_idx' = tx_idx /\ tx_next_buf' = tx_next_buf
            /\ txBuf' = txBuf
        BY <2>1, Same
      <4> QED BY <3>1, <4>1, <4>2, Zenon DEF DrvTypes
    <3>3. TaskTypes'
      BY <2>1, <3>1, Same DEF TaskTypes
    <3>4. HistTypes'
      BY <2>1, <3>1, Same DEF HistTypes
    <3> QED BY <3>2, <3>3, <3>4, TypeParts
  <2> QED BY <2>1, <2>2, Same DEF BInv, Bounds, Pending
<1>4. CASE Begin
  <2>1. /\ pc = "begin" /\ pc' \in {"rest", "handle"} /\ processing' = TRUE
        /\ tx_idx' = 0 /\ txCount' = 0 /\ tx_next_buf' = NoBuf
        /\ printed' = 0 /\ torn' = FALSE /\ answer' = <<>>
        /\ UNCHANGED <<rx, tx, ctr, reset, rxBuf, txAddr, rx_count, txBuf, local, others,
                       hostVars, isr, event>>
    BY <1>4 DEF Begin, Step
  <2>2. ran' \in Seq(Commands \X Commands)
    <3>1. count = 0 \/ input_buf \in Commands \X Commands
      BY <2>1 DEF BInv, TypeOK, Bounds, Commands
    <3>2. ran' = IF count = 0 THEN ran ELSE Append(ran, input_buf)
      BY <1>4 DEF Begin
    <3> QED BY <3>1, <3>2, AppendProperties DEF BInv, TypeOK
  <2>3. answer' \in Seq(Chars)
    BY <2>1
  <2>4. TypeOK'
    <3>1. DrvTypes /\ TaskTypes /\ HistTypes
      BY TypeParts DEF BInv
    <3>2. DrvTypes'
      BY <2>1, <2>2, <2>3, <3>1, Same DEF DrvTypes
    <3>3. TaskTypes'
      BY <2>1, <2>2, <2>3, <3>1, Same DEF TaskTypes
    <3>4. HistTypes'
      <4>1. printed' \in 0 .. MaxPrint /\ torn' \in BOOLEAN
        <5>1. printed' = 0
          BY <2>1
        <5>2. torn' = FALSE
          BY <2>1
        <5>3. printed' \in 0 .. MaxPrint
          BY <5>1
        <5>4. torn' \in BOOLEAN
          BY <5>2
        <5> QED BY <5>3, <5>4
      <4>2. /\ others' = others /\ got' = got /\ sent' = sent /\ open' = open
            /\ resets' = resets /\ disturbed' = disturbed
        BY <2>1, Same
      <4> QED BY <2>2, <2>3, <3>1, <4>1, <4>2, Zenon DEF HistTypes
    <3> QED BY <3>2, <3>3, <3>4, TypeParts
  <2>5. txAddr' + txCount' <= TxSize + 1
    BY <2>1 DEF BInv, TypeOK
  <2> QED BY <2>1, <2>4, <2>5, Same DEF BInv, Bounds, Pending
<1> QED BY <1>1, <1>2, <1>3, <1>4

\* Printing.
LEMMA BoundsPrint == BInv /\ Printing => BInv'
<1> SUFFICES ASSUME BInv, Printing PROVE BInv'
  OBVIOUS
<1> USE Sizes
<1>1. CASE CheckChar
  <2>1. /\ processing /\ printed' \in 0 .. MaxPrint /\ pc' \in {pc, "store"}
        /\ pc \in {"handle", "rest"} /\ back' = pc
        /\ pc' = "store" => tx_idx <= TxSize
        /\ UNCHANGED <<hwVars, drvVars, count, input_buf, idx, txlen, reg, others, torn, answer,
                       ran, hostVars, isr, event>>
    BY <1>1 DEF CheckChar, Step, BInv, TypeOK
  <2>2. TypeOK'
    BY <2>1, Same DEF BInv, TypeOK
  <2> QED BY <2>1, <2>2, Same DEF BInv, Bounds, Pending
<1>2. CASE StoreChar
  <2>1. /\ pc = "store" /\ pc' = "increment" /\ idx' = tx_idx
        /\ txBuf' = [txBuf EXCEPT ![tx_idx] = IF torn THEN Other ELSE Own(input_buf[1], printed)]
        /\ UNCHANGED <<hwVars, rx_count, tx_idx, tx_next_buf, processing, count, input_buf, back,
                       txlen, reg, history, hostVars, isr, event>>
    BY <1>2 DEF StoreChar, AtIndex, Step
  <2>2. tx_idx \in 0 .. TxSize
    BY <2>1 DEF BInv, TypeOK, Bounds
  <2>3. (IF torn THEN Other ELSE Own(input_buf[1], printed)) \in Chars
    BY DEF BInv, TypeOK, Chars, Other, Own
  <2>4. txBuf' \in [0 .. TxSize -> Chars]
    BY <2>1, <2>3 DEF BInv, TypeOK
  <2>5. TypeOK'
    BY <2>1, <2>2, <2>4, Same DEF BInv, TypeOK
  <2> QED BY <2>1, <2>5, Same DEF BInv, Bounds, Pending
<1>3. CASE Increment
  <2>1. /\ pc = "increment" /\ pc' = back /\ tx_idx' = idx + 1
        /\ UNCHANGED <<hwVars, rx_count, tx_next_buf, processing, txBuf, local, history, hostVars,
                       isr, event>>
    BY <1>3 DEF Increment, Step
  <2>2. tx_idx' \in 0 .. TxSize + 1 /\ pc' \in {"handle", "rest"}
    BY <2>1 DEF BInv, TypeOK
  <2>3. TypeOK'
    BY <2>1, <2>2, Same DEF BInv, TypeOK
  <2>4. processing /\ tx_next_buf = NoBuf
    BY <2>1 DEF BInv, Bounds
  <2> QED BY <2>1, <2>2, <2>3, <2>4, Same DEF BInv, Bounds, Pending
<1>4. CASE PrintOther
  <2>1. /\ pc' = pc /\ processing /\ tx_idx < TxSize /\ tx_idx' = tx_idx + 1
        /\ txBuf' = [txBuf EXCEPT ![tx_idx] = Other]
        /\ others' = others + 1 /\ others < MaxOthers
        /\ UNCHANGED <<hwVars, rx_count, tx_next_buf, processing, local, printed, answer, ran,
                       hostVars, isr, event>>
    BY <1>4 DEF PrintOther, Step
  <2>2. tx_idx' \in 0 .. TxSize + 1 /\ others' \in 0 .. MaxOthers
    BY <2>1 DEF BInv, TypeOK
  <2>3. txBuf' \in [0 .. TxSize -> Chars]
    BY <2>1 DEF BInv, TypeOK, Chars, Other
  <2>4. torn' \in BOOLEAN
    <3>1. torn' = (torn \/ pc \in InChar)
      BY <1>4 DEF PrintOther
    <3> QED BY <3>1, Zenon
  <2>5. TypeOK'
    BY <2>1, <2>2, <2>3, <2>4, Same DEF BInv, TypeOK
  <2>6. tx_next_buf = NoBuf /\ tx_idx' <= TxSize /\ tx_idx \in Nat /\ txlen \in Nat
    BY <2>1 DEF BInv, TypeOK, Bounds
  <2>7. pc' = "send" => txlen' <= tx_idx'
    BY <2>1, <2>6, Same DEF BInv, Bounds
  <2> QED BY <2>1, <2>5, <2>6, <2>7, Same DEF BInv, Bounds, Pending
<1> QED BY <1>1, <1>2, <1>3, <1>4 DEF Printing

\* Offering the answer.
LEMMA BoundsSend == BInv /\ (ReadLength \/ SendResponse \/ ReadEp \/ WriteEp) => BInv'
<1> SUFFICES ASSUME BInv, ReadLength \/ SendResponse \/ ReadEp \/ WriteEp PROVE BInv'
  OBVIOUS
<1> USE Sizes
<1>1. CASE ReadLength
  <2>1. /\ pc = "handle" /\ pc' = "send" /\ txlen' = TxLen
        /\ UNCHANGED <<count, input_buf, back, idx, reg>>
        /\ UNCHANGED <<hwVars, drvVars, history, hostVars, isr, event>>
    BY <1>1 DEF ReadLength, Step, Quiet
  <2>2. txlen' \in 0 .. Packet /\ txlen' <= tx_idx
    BY <2>1, TxLenType DEF BInv, TypeOK
  <2>3. TypeOK'
    BY <2>1, <2>2, Same DEF BInv, TypeOK
  <2> QED BY <2>1, <2>2, <2>3, Same DEF BInv, Bounds, Pending
<1>2. CASE SendResponse
  <2>1. /\ UNCHANGED <<rx, tx, ctr, reset, rxBuf, rx_count, txBuf, local, printed, others, torn,
                       ran, hostVars, isr, event>>
        /\ pc = "send" /\ pc' = "read" /\ processing' = FALSE /\ LoadPacket(0, txlen)
    BY <1>2 DEF SendResponse, Step
  <2>2. /\ txAddr' \in 0 .. TxSize + 1 /\ txCount' \in 0 .. Packet
        /\ tx_idx' \in 0 .. TxSize + 1 /\ txAddr' + txCount' <= TxSize + 1
        /\ tx_next_buf' \in {NoBuf} \cup 0 .. TxSize + 1
        /\ tx_next_buf' # NoBuf => tx_next_buf' + tx_idx' <= TxSize + 1
    <3>1. 0 + tx_idx <= TxSize + 1 /\ tx_idx \in Nat /\ txlen \in 0 .. Packet /\ txlen <= tx_idx
      BY <2>1 DEF BInv, TypeOK, Bounds
    <3>2. 0 \in Nat
      OBVIOUS
    <3> QED BY <2>1, <3>1, <3>2, LoadInBounds
  <2>3. answer' \in Seq(Chars)
    <3> DEFINE n == IF txlen = Packet THEN tx_idx ELSE txlen
    <3>1. n \in Nat /\ 0 + n <= TxSize + 1
      BY <2>1 DEF BInv, TypeOK, Bounds
    <3> HIDE DEF n
    <3>2. [k \in 1 .. n |-> txBuf[0 + k - 1]] \in Seq(Chars)
      BY <3>1, PacketType DEF BInv
    <3>3. [k \in 1 .. n |-> txBuf[0 + k - 1]] = [k \in 1 .. n |-> txBuf[k - 1]]
      OBVIOUS
    <3>4. answer' = [k \in 1 .. n |-> txBuf[k - 1]]
      BY <1>2 DEF SendResponse, Offer, n
    <3> QED BY <3>2, <3>3, <3>4
  <2>4. TypeOK'
    BY <2>1, <2>2, <2>3, Same DEF BInv, TypeOK
  <2> QED BY <2>1, <2>2, <2>4, Same DEF BInv, Bounds, Pending
<1>3. CASE ReadEp
  <2>1. /\ pc' = "write" /\ reg' = [rx |-> rx, tx |-> tx]
        /\ UNCHANGED <<count, input_buf, back, idx, txlen>>
        /\ UNCHANGED <<hwVars, drvVars, history, hostVars, isr, event>>
    BY <1>3 DEF ReadEp, Step, Quiet
  <2>2. reg' \in [rx : Status, tx : Status]
    BY <2>1 DEF BInv, TypeOK
  <2>3. TypeOK'
    BY <2>1, <2>2, Same DEF BInv, TypeOK
  <2> QED BY <2>1, <2>3, Same DEF BInv, Bounds, Pending
<1>4. CASE WriteEp
  <2>1. rx' \in Status /\ tx' \in Status
    <3>1. rx \in Status /\ tx \in Status /\ reg.rx \in Status /\ reg.tx \in Status
          /\ VALID \in Status
      BY DEF BInv, TypeOK, Status
    <3> QED BY <1>4, <3>1, ToggledType DEF WriteEp
  <2>2. /\ pc' = "rest"
        /\ UNCHANGED <<ctr, reset, rxBuf, txAddr, txCount, drvVars, local, history, hostVars,
                       isr, event>>
    BY <1>4 DEF WriteEp, Step
  <2>3. TypeOK'
    BY <2>1, <2>2, Same DEF BInv, TypeOK
  <2> QED BY <2>2, <2>3, Same DEF BInv, Bounds, Pending
<1> QED BY <1>1, <1>2, <1>3, <1>4

LEMMA BoundsNext == BInv /\ [Next]_vars => BInv'
<1>1. BInv /\ UNCHANGED vars => BInv'
  <2> SUFFICES ASSUME BInv, UNCHANGED vars PROVE BInv'
    OBVIOUS
  <2>1. DrvTypes /\ TaskTypes /\ HistTypes
    BY TypeParts DEF BInv
  <2>2. DrvTypes'
    BY <2>1, Same DEF vars, DrvTypes
  <2>3. TaskTypes'
    BY <2>1, Same DEF vars, TaskTypes
  <2>4. HistTypes'
    BY <2>1, Same DEF vars, HistTypes
  <2>5. Bounds'
    BY Same DEF vars, BInv, Bounds, Pending
  <2> QED BY <2>2, <2>3, <2>4, <2>5, TypeParts DEF BInv
<1>2. BInv /\ (Task \/ WaitOther \/ CheckChar \/ PrintOther) => BInv'
  BY BoundsTake, BoundsPrint, BoundsSend DEF Task, Poll, Printing
<1> QED BY <1>1, <1>2, BoundsHardware, BoundsHandler DEF Next, Isr

(* Every variable keeps its type. In particular, whatever any task prints  *)
(* between any two accesses of another one and whenever the bus is reset,  *)
(* the index into the buffer of the answer is at most one behind its end,  *)
(* the packets of an answer lie before that, and what is handled is made   *)
(* of commands.                                                            *)
THEOREM TypeCorrect == Spec => []TypeOK
<1>1. BInv => TypeOK
  BY DEF BInv
<1> QED BY <1>1, BoundsInit, BoundsNext, PTL DEF Spec
-----------------------------------------------------------------------------
(* The answer.                                                             *)

\* Nothing of an answer exists while the last command is on its way.
Waiting == ~Handed =>
  /\ got = <<>> /\ ~Answering /\ pc \notin {"handle", "send", "read", "write"}
  /\ pc \in InChar => back = "rest"
  /\ sent > 0 => open
InHand ==
  /\ pc = "copy2" /\ count = 1 => input_buf[1] = sent
  /\ pc \in {"take", "begin"} /\ count = 1 => input_buf = <<sent, sent>>
  /\ pc = "begin" => ~Handed

\* The command prints; what it has printed is in the buffer.
InWork == Handed =>
  /\ pc \in Handling => got = <<>> /\ answer = <<>> /\ input_buf[1] = sent /\ processing
  /\ pc \in InChar => back = "handle"
  /\ processing => pc \in Handling
Done == IF pc \in InChar THEN printed - 1 ELSE printed
Upto == IF pc = "send" /\ txlen < Packet THEN txlen ELSE tx_idx
AllIn(done, upto) == \A n \in 1 .. done :
  upto >= TxSize \/ \E a \in 0 .. upto - 1 : txBuf[a] = Own(sent, n)
InLine(done, n) == \A a \in 0 .. n - 1 : txBuf[a] # Other =>
  /\ txBuf[a][1] = sent /\ txBuf[a][2] <= done
  /\ \A b \in 0 .. a - 1 : txBuf[b] # Other => txBuf[b][2] < txBuf[a][2]
InBuffer == Handed /\ pc \in Handling /\ ~torn =>
  /\ AllIn(Done, Upto)
  /\ InLine(Done, tx_idx)
  /\ pc = "store" => tx_idx < TxSize
  /\ pc = "increment" => idx = tx_idx /\ idx < TxSize /\ txBuf[idx] = Own(sent, printed)
  /\ pc \in InChar => printed > 0

\* The answer is what lay in the buffer, and is there until the host has it.
InAnswer == Handed /\ pc \notin Handling /\ ~torn =>
  /\ \A n \in 1 .. printed :
       Len(answer) >= TxSize \/ \E k \in 1 .. Len(answer) : answer[k] = Own(sent, n)
  /\ \A k \in 1 .. Len(answer) : answer[k] # Other =>
       /\ answer[k][1] = sent
       /\ \A j \in 1 .. k - 1 : answer[j] # Other => answer[j][2] < answer[k][2]
Held == Handed /\ pc \notin Handling =>
  /\ Len(answer) <= TxSize + 1
  /\ \A a \in 0 .. Len(answer) - 1 : txBuf[a] = answer[a + 1]
InOrder == Handed =>
  /\ Len(got) <= Len(answer) /\ \A k \in 1 .. Len(got) : got[k] = answer[k]

\* What the host has, what is offered and what follows it are all of the answer,
\* also between two packets, when none is offered.
Offered == Handed /\ (pc \in {"read", "write"} \/ tx = VALID) =>
  /\ txAddr = Len(got)
  /\ txCount < Packet => txAddr + txCount = Len(answer)
  /\ txCount = Packet => txAddr + txCount + tx_idx = Len(answer)
  /\ tx_next_buf = IF txCount = Packet THEN txAddr + Packet ELSE NoBuf
  /\ "TX" \notin ctr /\ "TX" \notin isr
Between == Handed /\ pc \notin Handling \cup {"read", "write"} /\ tx # VALID =>
  IF tx_next_buf = NoBuf
  THEN ~open /\ Len(got) = Len(answer)
  ELSE Len(got) = tx_next_buf /\ Len(got) + tx_idx = Len(answer)
\* What the task has read of the register still holds when it writes it.
InReg == pc = "write" => reg.tx = tx

AnswerInv == Waiting /\ InHand /\ InWork /\ InBuffer /\ InAnswer /\ Held /\ InOrder
             /\ Offered /\ Between /\ InReg
AInv == ~disturbed => AnswerInv
Known == IInv /\ OInv /\ BInv /\ AInv

LEMMA AnswerInit == Init => AInv
<1> SUFFICES ASSUME Init PROVE AnswerInv
  BY DEF AInv
<1>1. /\ ran = <<>> /\ got = <<>> /\ pc = "get" /\ tx = DISABLED /\ tx_next_buf = NoBuf
      /\ sent = 0 /\ count = 0
  BY DEF Init
<1>2. ~Handed /\ ~Answering
  BY <1>1 DEF Handed, Answering
<1> QED BY <1>1, <1>2 DEF AnswerInv, Waiting, InHand, InWork, InBuffer, InAnswer, Held,
                          InOrder, Offered, Between, InReg

\* While the last command is on its way it has not been handed over.
LEMMA NotHandedYet ==
  ASSUME OInv, IInv, ~disturbed, Pending \/ pc \in Taking
  PROVE  ~Handed
<1>1. Pending
  BY DEF IInv, OnePlace, Taken, Pending
<1>2. Older(sent)
  BY <1>1 DEF OInv, Fresh
<1>3. ASSUME NEW k \in 1 .. Len(ran) PROVE ran[k][2] # sent
  <2>1. ran[k] \in Nat \X Nat /\ ran[k][2] < sent
    BY <1>2 DEF Older, OInv, SeqTypes
  <2> QED BY <2>1 DEF OInv, SeqTypes
<1> QED BY <1>3 DEF Handed

LEMMA SameCommand ==
  ASSUME UNCHANGED <<ran, sent>>
  PROVE  Handed' <=> Handed
BY DEF Handed

\* Steps that leave the task where it is, or move it outside the handling of a
\* command, and change neither the buffer nor the answer.
LEMMA WorkKept ==
  ASSUME AnswerInv,
         UNCHANGED <<ran, sent, input_buf, printed, txlen, txBuf, back, torn, answer, got, idx>>,
         processing' <=> processing,
         pc \in Handling => UNCHANGED <<pc, tx_idx>>, pc' \in Handling => pc \in Handling
  PROVE  /\ Handed' <=> Handed
         /\ InWork' /\ InBuffer' /\ InAnswer' /\ Held' /\ InOrder'
<1>1. Handed' <=> Handed
  BY SameCommand
<1>2. (pc \in Handling)' <=> pc \in Handling
  OBVIOUS
<1>3. InWork'
  BY <1>1, <1>2 DEF AnswerInv, InWork, Handling
<1>4. InBuffer'
  BY <1>1, <1>2 DEF AnswerInv, InBuffer, AllIn, InLine, Done, Upto
<1>5. InAnswer' /\ Held' /\ InOrder'
  BY <1>1, <1>2 DEF AnswerInv, InAnswer, Held, InOrder
<1> QED BY <1>1, <1>3, <1>4, <1>5

LEMMA HostOutAnswer == Known /\ HostOut => AInv'
<1> SUFFICES ASSUME Known, HostOut, ~disturbed' PROVE AnswerInv'
  BY DEF AInv
<1>1. /\ sent' = sent + 1 /\ open' = TRUE /\ got' = <<>> /\ rx = VALID
      /\ disturbed' = (disturbed \/ open)
      /\ UNCHANGED <<tx, drvVars, taskVars, isr>>
  BY DEF HostOut
<1>2. ~disturbed /\ ~open
  BY <1>1, Zenon
<1>3. ~Handed'
  <2>1. ASSUME NEW k \in 1 .. Len(ran) PROVE ran[k][2] # sent + 1
    <3>1. ran[k] \in Nat \X Nat /\ ran[k][2] < sent + 1
      BY DEF Known, OInv, SeqTypes, Older
    <3> QED BY <3>1 DEF Known, OInv, SeqTypes
  <2>2. ran' = ran
    BY <1>1, Same
  <2> QED BY <1>1, <2>1, <2>2 DEF Handed
<1>4. ~Answering /\ pc \in Free /\ ~Answering' /\ pc' = pc
  <2>1. ~Answering /\ pc \in Free
    BY <1>1, <1>2 DEF Known, IInv, OnePlace, Handled, Taken, Received, Answered, Answering, Types
  <2> QED BY <1>1, <2>1, Same DEF Answering
<1> QED BY <1>1, <1>3, <1>4 DEF AnswerInv, Waiting, InHand, InWork, InBuffer, InAnswer, Held,
                                InOrder, Offered, Between, InReg

LEMMA HostInAnswer == Known /\ HostIn => AInv'
<1> SUFFICES ASSUME Known, HostIn, ~disturbed' PROVE AnswerInv'
  BY DEF AInv
<1> DEFINE packet == [k \in 1 .. txCount |-> txBuf[txAddr + k - 1]]
<1>1. /\ tx = VALID /\ tx' = NAK /\ got' = got \o packet
      /\ open' = (open /\ txCount = Packet)
      /\ UNCHANGED <<txAddr, txCount, drvVars, taskVars, sent, isr>>
  BY DEF HostIn
<1>2. ~disturbed /\ AnswerInv /\ TypeOK
  BY DEF HostIn, Known, AInv, BInv
<1>3. Handed /\ Handed'
  <2>1. Handed
    BY <1>1, <1>2 DEF AnswerInv, Waiting, Answering
  <2> QED BY <1>1, <2>1, Same, SameCommand
<1>4. /\ pc \in Free /\ pc' = pc
      /\ UNCHANGED <<tx_next_buf, tx_idx, txBuf, printed, torn, answer>>
      /\ processing' = processing /\ ~processing
  <2>1. pc \in Free /\ ~processing
    BY <1>1, <1>2 DEF Known, IInv, OnePlace, Taken, Handled, Received, Types, Answering
  <2> QED BY <1>1, <2>1, Same
<1>5. /\ txAddr = Len(got)
      /\ txCount < Packet => txAddr + txCount = Len(answer)
      /\ txCount = Packet => txAddr + txCount + tx_idx = Len(answer)
      /\ tx_next_buf = IF txCount = Packet THEN txAddr + Packet ELSE NoBuf
  BY <1>1, <1>2, <1>3 DEF AnswerInv, Offered
<1>6. /\ txAddr \in Nat /\ txCount \in 0 .. Packet /\ tx_idx \in Nat /\ Len(answer) \in Nat
      /\ Len(got) \in Nat /\ got \in Seq(Chars)
  BY <1>2, Sizes DEF TypeOK
<1>7. /\ packet \in Seq(Chars) /\ Len(packet) = txCount
      /\ \A k \in 1 .. txCount : packet[k] = txBuf[txAddr + k - 1]
  <2>1. packet \in Seq(Chars) /\ Len(packet) = txCount
    <3>1. txAddr + txCount <= TxSize + 1 /\ txCount \in Nat
      BY <1>6, Sizes DEF Known, BInv, Bounds
    <3> QED BY <1>2, <1>6, <3>1, PacketType
  <2> QED BY <2>1
<1> HIDE DEF packet
<1>8. /\ Len(got') = Len(got) + txCount
      /\ \A k \in 1 .. Len(got) + txCount :
           got'[k] = IF k <= Len(got) THEN got[k] ELSE packet[k - Len(got)]
  BY <1>1, <1>6, <1>7, ConcatProperties
<1>9. Len(got) + txCount <= Len(answer)
  BY <1>5, <1>6, Sizes
<1>10. ASSUME NEW k \in 1 .. Len(got) + txCount PROVE got'[k] = answer[k]
  <2>1. CASE k <= Len(got)
    <3>1. k \in 1 .. Len(got)
      BY <1>6, <2>1
    <3> QED BY <1>2, <1>3, <1>8, <2>1, <3>1 DEF AnswerInv, InOrder
  <2>2. CASE k > Len(got)
    <3>0. k - Len(got) \in 1 .. txCount
      BY <1>6, <2>2
    <3>1. PICK j \in 1 .. txCount : j = k - Len(got)
      BY <3>0
    <3>2. txAddr + j - 1 = k - 1 /\ k - 1 \in 0 .. Len(answer) - 1
      BY <1>5, <1>6, <1>9, <3>1
    <3>3. got'[k] = txBuf[k - 1]
      BY <1>6, <1>7, <1>8, <2>2, <3>1, <3>2
    <3>4. txBuf[k - 1] = answer[k - 1 + 1]
      BY <1>2, <1>3, <1>4, <3>2 DEF AnswerInv, Held, Handling
    <3> QED BY <1>6, <3>3, <3>4
  <2> QED BY <1>6, <2>1, <2>2
<1>11. InOrder'
  BY <1>4, <1>8, <1>9, <1>10 DEF InOrder
<1>12. Between'
  <2>1. CASE txCount = Packet
    BY <1>1, <1>4, <1>5, <1>6, <1>8, <2>1, Sizes DEF Between
  <2>2. CASE txCount < Packet
    <3>1. ~open'
      <4>1. txCount # Packet
        BY <1>6, <2>2, Sizes
      <4> QED BY <1>1, <4>1, Zenon
    <3> QED BY <1>4, <1>5, <1>6, <1>8, <2>2, <3>1 DEF Between
  <2> QED BY <1>6, <2>1, <2>2, Sizes
<1>13. InAnswer' /\ Held'
  BY <1>1, <1>2, <1>3, <1>4 DEF InAnswer, Held, AnswerInv, Handling
<1>14. pc' \notin Handling /\ pc' \notin {"read", "write"} /\ tx' # VALID
       /\ pc' \notin {"copy2", "take", "begin"}
  BY <1>1, <1>4 DEF Handling
<1> QED BY <1>3, <1>4, <1>11, <1>12, <1>13, <1>14
        DEF AnswerInv, Waiting, InHand, InWork, InBuffer, Offered, InReg

LEMMA BusResetAnswer == Known /\ (BusReset \/ IsrEnter) => AInv'
<1> SUFFICES ASSUME Known, BusReset \/ IsrEnter, ~disturbed' PROVE AnswerInv'
  BY DEF AInv
<1>1. ~disturbed /\ AnswerInv
  <2>1. BusReset => disturbed' = (disturbed \/ open)
    BY DEF BusReset
  <2>2. IsrEnter => disturbed' = disturbed
    BY Same DEF IsrEnter
  <2>3. disturbed => disturbed'
    BY <2>1, <2>2, Zenon
  <2> QED BY <2>3 DEF Known, AInv
<1>2. UNCHANGED <<drvVars, taskVars, sent, got, ctr, txAddr, txCount>>
  BY Same DEF BusReset, IsrEnter
<1>3. /\ UNCHANGED <<ran, pc, count, input_buf, printed, txlen, back, torn, answer, idx, reg>>
      /\ UNCHANGED <<tx_idx, tx_next_buf, txBuf>> /\ processing' = processing
  BY <1>2, Same
<1>4. /\ Handed' <=> Handed
      /\ InWork' /\ InBuffer' /\ InAnswer' /\ Held' /\ InOrder'
  <2>1. pc \in Handling => UNCHANGED <<pc, tx_idx>>
    BY <1>3
  <2> QED BY <1>1, <1>2, <1>3, <2>1, WorkKept
<1>5. InHand'
  BY <1>1, <1>2, <1>3, <1>4 DEF AnswerInv, InHand
<1>6. CASE IsrEnter
  <2>1. /\ tx' = tx /\ open' = open
        /\ "TX" \in isr' => "TX" \in ctr
    <3>1. "TX" \in isr' => "TX" \in ctr
      BY <1>6 DEF IsrEnter, Known, BInv, TypeOK
    <3> QED BY <1>6, <3>1, Same DEF IsrEnter
  <2>2. Waiting' /\ Offered' /\ Between'
    BY <1>1, <1>2, <1>3, <1>4, <2>1 DEF AnswerInv, Waiting, Answering, Offered, Between
  <2>3. InReg'
    BY <1>1, <1>3, <2>1 DEF AnswerInv, InReg
  <2> QED BY <1>4, <1>5, <2>2, <2>3 DEF AnswerInv
<1>7. CASE BusReset
  <2>1. ~open /\ open' = FALSE /\ tx' = DISABLED
    <3>1. /\ disturbed' = (disturbed \/ open) /\ open' = FALSE /\ tx' = DISABLED
      BY <1>7 DEF BusReset
    <3> QED BY <3>1, Zenon
  <2>2. ~Answering /\ pc \notin Working
    BY <1>1, <2>1 DEF Known, IInv, OnePlace, Answered, Handled
  <2>3. tx_next_buf = NoBuf /\ tx # VALID
    BY <2>2 DEF Answering
  <2>4. Waiting'
    BY <1>1, <1>2, <1>3, <1>4, <2>1, <2>2, <2>3 DEF AnswerInv, Waiting, Answering
  <2>5. Between'
    BY <1>1, <1>2, <1>3, <1>4, <2>1, <2>2, <2>3 DEF AnswerInv, Between
  <2>6. Offered' /\ InReg'
    BY <1>3, <2>1, <2>2 DEF Offered, InReg
  <2> QED BY <1>4, <1>5, <2>4, <2>5, <2>6 DEF AnswerInv
<1> QED BY <1>6, <1>7

LEMMA IsrTransferAnswer == Known /\ IsrTransfer => AInv'
<1> SUFFICES ASSUME Known, IsrTransfer, ~disturbed' PROVE AnswerInv'
  BY DEF AInv
<1>1. /\ isr' = {} /\ ctr' = {} /\ UNCHANGED <<txBuf, taskVars, hostVars>>
      /\ processing' = processing
  BY DEF IsrTransfer
<1>2. /\ UNCHANGED <<ran, pc, count, input_buf, printed, txlen, back, torn, answer, idx, reg>>
      /\ UNCHANGED <<sent, got>> /\ open' = open /\ disturbed' = disturbed
  BY <1>1, Same
<1>3. ~disturbed /\ AnswerInv
  BY <1>2 DEF Known, AInv
<1>4. pc \notin Working
  BY <1>3 DEF Known, IInv, OnePlace, Handled, IsrTransfer
<1>5. pc \notin Handling /\ pc' = pc
  BY <1>2, <1>4 DEF Handling
<1>6. /\ Handed' <=> Handed
      /\ InWork' /\ InBuffer' /\ InAnswer' /\ Held' /\ InOrder'
  BY <1>1, <1>2, <1>3, <1>5, WorkKept
<1>7. InHand' /\ InReg'
  BY <1>2, <1>3, <1>4, <1>6 DEF AnswerInv, InHand, InReg
<1>8. CASE UNCHANGED <<tx, txAddr, txCount, tx_idx, tx_next_buf>>
  <2>1. Waiting' /\ Between'
    BY <1>2, <1>3, <1>6, <1>8 DEF AnswerInv, Waiting, Answering, Between
  <2>2. Offered'
    BY <1>1, <1>2, <1>3, <1>6, <1>8 DEF AnswerInv, Offered
  <2> QED BY <1>6, <1>7, <2>1, <2>2 DEF AnswerInv
<1>9. CASE isr = {"TX"} /\ tx_next_buf # NoBuf /\ LoadPacket(tx_next_buf, TxLen) /\ tx' = VALID
  <2>1. Handed /\ tx # VALID
    BY <1>3, <1>9 DEF AnswerInv, Waiting, Answering, Offered
  <2>2. Len(got) = tx_next_buf /\ Len(got) + tx_idx = Len(answer)
    BY <1>3, <1>4, <1>5, <1>9, <2>1 DEF AnswerInv, Between
  <2>3. tx_idx \in Nat /\ tx_next_buf \in Nat
    BY <1>9 DEF Known, BInv, TypeOK
  <2>4. /\ txAddr' = tx_next_buf /\ txCount' = TxLen /\ tx_idx' = tx_idx - TxLen
        /\ tx_next_buf' = IF TxLen = Packet THEN tx_next_buf + Packet ELSE NoBuf
    BY <1>9 DEF LoadPacket, NextBuf
  <2>5. TxLen \in Nat /\ TxLen <= tx_idx /\ (TxLen < Packet => TxLen = tx_idx)
    BY <2>3, Sizes DEF TxLen, Shorter
  <2>6. Offered'
    BY <1>1, <1>2, <2>2, <2>3, <2>4, <2>5, Sizes DEF Offered
  <2>7. pc' \notin Working /\ Handed' /\ tx' = VALID
    BY <1>2, <1>4, <1>6, <1>9, <2>1
  <2> QED BY <1>6, <1>7, <2>6, <2>7 DEF AnswerInv, Waiting, Between
<1> QED BY <1>8, <1>9 DEF IsrTransfer, CmdEpTx

LEMMA IsrResetAnswer == Known /\ IsrReset => AInv'
<1> SUFFICES ASSUME Known, IsrReset, ~disturbed' PROVE AnswerInv'
  BY DEF AInv
<1>1. /\ isr' = {} /\ ctr' = {} /\ UNCHANGED <<txBuf, taskVars, hostVars>>
      /\ processing' = processing
  BY DEF IsrReset
<1>2. /\ UNCHANGED <<ran, pc, count, input_buf, printed, txlen, back, torn, answer, idx, reg>>
      /\ UNCHANGED <<sent, got>> /\ open' = open /\ disturbed' = disturbed
  BY <1>1, Same
<1>3. ~disturbed /\ AnswerInv
  BY <1>2 DEF Known, AInv
<1>4. ~open /\ tx = DISABLED
  BY <1>3 DEF Known, IInv, OnePlace, Detached, IsrReset
<1>5. ~Answering /\ pc \notin Working
  BY <1>3, <1>4 DEF Known, IInv, OnePlace, Answered, Handled
<1>6. tx' = NAK /\ tx_next_buf' = NoBuf /\ tx_next_buf = NoBuf
  BY <1>4, <1>5 DEF IsrReset, Answering, Toggled
<1>7. pc \notin Handling /\ pc' = pc
  BY <1>2, <1>5 DEF Handling
<1>8. /\ Handed' <=> Handed
      /\ InWork' /\ InBuffer' /\ InAnswer' /\ Held' /\ InOrder'
  BY <1>1, <1>2, <1>3, <1>7, WorkKept
<1>9. Waiting' /\ Between' /\ Offered'
  BY <1>2, <1>3, <1>4, <1>5, <1>6, <1>8 DEF AnswerInv, Waiting, Answering, Between, Offered
<1>10. InHand' /\ InReg'
  BY <1>2, <1>3, <1>5, <1>8 DEF AnswerInv, InHand, InReg
<1> QED BY <1>8, <1>9, <1>10 DEF AnswerInv
\* Polling for a command and taking it.
LEMMA TakeAnswer ==
  Known /\ (Poll \/ TestCount \/ Copy \/ CopyOn \/ Take) => AInv'
<1> SUFFICES ASSUME Known, Poll \/ TestCount \/ Copy \/ CopyOn \/ Take, ~disturbed'
             PROVE  AnswerInv'
  BY DEF AInv
<1> USE DEF Poll, Wait, WaitOther, Waken, GetCount, Rest, TestCount, Copy, CopyOn, Take, Quiet
<1>1. /\ pc \in Free \cup Taking
      /\ pc' \in Free \cup Taking \cup {"begin"}
      /\ pc' = "copy2" <=> pc = "copy"
      /\ pc' = "take" <=> pc = "copy2"
      /\ pc' = "begin" <=> pc = "take"
      /\ isr = {} /\ ctr = {}
  BY DEF Step, Interrupt
<1>2. UNCHANGED hwVars /\ UNCHANGED hostVars /\ UNCHANGED history /\ UNCHANGED isr
      /\ UNCHANGED <<tx_idx, tx_next_buf, txBuf, back, idx, txlen, reg>>
      /\ processing' = processing
  BY Same
<1>3. /\ UNCHANGED <<sent, got, ran, printed, torn, answer, tx, txAddr, txCount, ctr, isr>>
      /\ open' = open /\ disturbed' = disturbed
  BY <1>2, Same
<1>4. ~disturbed /\ AnswerInv
  BY <1>3 DEF Known, AInv
<1>5. Handed' <=> Handed
  BY <1>3, SameCommand
<1>6. pc' = "begin" => ~Handed'
  BY <1>1, <1>4, <1>5, NotHandedYet DEF Known
<1>7. /\ pc' = "copy2" /\ count' = 1 => input_buf'[1] = sent'
      /\ pc' \in {"take", "begin"} /\ count' = 1 => input_buf' = <<sent, sent>>'
  <2>1. CASE Copy
    <3>1. /\ pc' = "copy2" /\ count' = count
          /\ input_buf' = IF count = 0 THEN input_buf ELSE <<sent, input_buf[2]>>
      BY <2>1, Same DEF Step, Known, OInv, SeqTypes
    <3> QED BY <1>3, <3>1
  <2>2. CASE CopyOn
    <3>1. /\ pc = "copy2" /\ pc' = "take" /\ count' = count
          /\ input_buf' = IF count = 0 THEN input_buf ELSE <<input_buf[1], sent>>
      BY <2>2, Same DEF Step, Known, OInv, SeqTypes
    <3> QED BY <1>3, <1>4, <3>1 DEF AnswerInv, InHand
  <2>3. CASE Take
    <3>1. /\ pc = "take" /\ pc' = "begin" /\ count' = count /\ input_buf' = input_buf
      BY <2>3, Same DEF Step
    <3> QED BY <1>3, <1>4, <3>1 DEF AnswerInv, InHand
  <2>4. CASE Poll \/ TestCount
    <3>1. pc' \notin {"copy2", "take", "begin"}
      BY <2>4 DEF Step
    <3> QED BY <3>1
  <2> QED BY <2>1, <2>2, <2>3, <2>4
<1> HIDE DEF Poll, Wait, WaitOther, Waken, GetCount, Rest, TestCount, Copy, CopyOn, Take, Quiet
<1>8. InHand'
  BY <1>6, <1>7 DEF InHand
<1>9. pc \notin Handling /\ pc' \notin Handling
  BY <1>1 DEF Handling
<1>10. InWork' /\ InBuffer' /\ InAnswer' /\ Held' /\ InOrder'
  <2>1. InWork' /\ InBuffer'
    BY <1>2, <1>4, <1>5, <1>9 DEF AnswerInv, InWork, InBuffer, Handling
  <2>2. InAnswer' /\ Held' /\ InOrder'
    BY <1>2, <1>3, <1>4, <1>5, <1>9 DEF AnswerInv, InAnswer, Held, InOrder
  <2> QED BY <2>1, <2>2
<1>11. Waiting' /\ Offered' /\ InReg'
  BY <1>1, <1>2, <1>3, <1>4, <1>5, <1>9
  DEF AnswerInv, Waiting, Answering, Offered, InReg, Handling
<1>12. Between'
  BY <1>1, <1>2, <1>3, <1>4, <1>5, <1>9 DEF AnswerInv, Between
<1> QED BY <1>8, <1>10, <1>11, <1>12 DEF AnswerInv

LEMMA BeginAnswer == Known /\ Begin => AInv'
<1> SUFFICES ASSUME Known, Begin, ~disturbed' PROVE AnswerInv'
  BY DEF AInv
<1>1. /\ pc = "begin" /\ pc' = IF count = 0 THEN "rest" ELSE "handle"
      /\ tx_idx' = 0 /\ tx_next_buf' = NoBuf /\ printed' = 0 /\ processing' = TRUE
      /\ answer' = <<>>
      /\ UNCHANGED <<tx, txBuf, local, hostVars>>
  BY DEF Begin, Step
<1>2. UNCHANGED <<count, input_buf, sent, got, reg, back>> /\ open' = open /\ disturbed' = disturbed
  BY <1>1, Same
<1>3. ~disturbed /\ AnswerInv
  BY <1>2 DEF Known, AInv
<1>4. /\ ~Handed /\ got = <<>> /\ tx # VALID /\ (sent > 0 => open)
      /\ count = 1 => input_buf = <<sent, sent>>
  BY <1>1, <1>3 DEF AnswerInv, Waiting, InHand, Answering
<1>5. CASE count = 0
  <2>1. ran' = ran
    BY <1>5 DEF Begin
  <2>2. ~Handed'
    BY <1>2, <1>4, <2>1, SameCommand
  <2> QED BY <1>1, <1>2, <1>4, <1>5, <2>2
          DEF AnswerInv, Waiting, Answering, InHand, InWork, InBuffer, InAnswer, Held, InOrder,
              Offered, Between, InReg
<1>6. CASE count # 0
  <2>1. count = 1 /\ input_buf = <<sent, sent>> /\ sent \in Nat /\ sent # 0
    BY <1>1, <1>4, <1>6 DEF Known, BInv, Bounds, OInv, SeqTypes
  <2>2. Handed'
    <3>1. ran' = Append(ran, <<sent, sent>>) /\ ran \in Seq(Nat \X Nat)
      BY <1>6, <2>1 DEF Begin, Known, OInv, SeqTypes
    <3>2. Len(ran') = Len(ran) + 1 /\ Len(ran) \in Nat /\ ran'[Len(ran) + 1] = <<sent, sent>>
      BY <2>1, <3>1
    <3>3. Len(ran) + 1 \in 1 .. Len(ran') /\ ran'[Len(ran) + 1][2] = sent
      BY <3>2
    <3> QED BY <1>2, <2>1, <3>3 DEF Handed
  <2>3. pc' = "handle" /\ pc' \in Handling
    BY <1>1, <1>6 DEF Handling
  <2>4. InWork' /\ InOrder'
    BY <1>1, <1>2, <1>4, <2>1, <2>3 DEF InWork, InOrder
  <2>5. InBuffer'
    BY <1>1, <2>3 DEF InBuffer, AllIn, InLine, Done, Upto
  <2>6. Waiting' /\ InHand' /\ InAnswer' /\ Held' /\ Offered' /\ Between' /\ InReg'
    BY <1>1, <1>2, <1>4, <2>2, <2>3 DEF Waiting, InHand, InAnswer, Held, Offered, Between, InReg
  <2> QED BY <2>4, <2>5, <2>6 DEF AnswerInv
<1> QED BY <1>5, <1>6

\* What printing leaves alone.
LEMMA PrintKept ==
  ASSUME Known, Printing, ~disturbed'
  PROVE  /\ ~disturbed /\ AnswerInv /\ TypeOK /\ Bounds
         /\ UNCHANGED <<ran, sent, got, answer, input_buf, count, txlen, reg>>
         /\ UNCHANGED <<tx, txAddr, txCount, ctr, isr, tx_next_buf>>
         /\ processing /\ processing' /\ open' = open /\ (Handed' <=> Handed)
         /\ ctr = {} /\ isr = {}
<1>1. /\ UNCHANGED hwVars /\ UNCHANGED hostVars /\ UNCHANGED <<isr, tx_next_buf, answer, ran,
         count, input_buf, txlen, reg>>
      /\ processing' = processing /\ isr = {} /\ ctr = {}
  BY Same DEF Printing, CheckChar, StoreChar, Increment, PrintOther, Step, Interrupt
<1>2. /\ UNCHANGED <<sent, got, tx, txAddr, txCount, ctr>> /\ open' = open
      /\ disturbed' = disturbed
  BY <1>1, Same
<1>3. processing
  <2>1. CheckChar \/ PrintOther => processing
    BY DEF CheckChar, PrintOther
  <2>2. StoreChar \/ Increment => pc \in InChar
    BY DEF StoreChar, Increment, Step
  <2> QED BY <2>1, <2>2 DEF Printing, Known, BInv, Bounds
<1>4. processing'
  BY <1>1, <1>3
<1> QED BY <1>1, <1>2, <1>3, <1>4, SameCommand DEF Known, AInv, BInv

\* While another command than the last one of the host prints, nothing is awaited.
LEMMA PrintWaiting ==
  ASSUME Known, Printing, ~disturbed', ~Handed PROVE AnswerInv'
<1>1. /\ AnswerInv /\ ~Handed' /\ UNCHANGED <<sent, got, tx, tx_next_buf>> /\ open' = open
      /\ count' = count /\ input_buf' = input_buf
  BY PrintKept
<1>2. pc \notin {"handle", "send", "read", "write"} /\ (pc \in InChar => back = "rest")
  BY <1>1 DEF AnswerInv, Waiting
<1>3. /\ pc' \notin {"handle", "send", "read", "write"}
      /\ pc' \in InChar => back' = "rest"
      /\ pc' \in {"copy2", "take", "begin"} => pc' = pc
  BY <1>2, Same DEF Printing, CheckChar, StoreChar, Increment, PrintOther, Step
<1> QED BY <1>1, <1>3 DEF AnswerInv, Waiting, Answering, InHand, InWork, InBuffer, InAnswer, Held,
                          InOrder, Offered, Between, InReg

\* While it prints, what changes is the buffer.
LEMMA PrintWorking ==
  ASSUME Known, Printing, ~disturbed', Handed,
         pc' \in Handling, pc' \in InChar => back' = "handle", InBuffer'
  PROVE  AnswerInv'
<1>1. /\ AnswerInv /\ Handed' /\ UNCHANGED <<sent, got, answer, input_buf>> /\ processing'
      /\ processing
  BY PrintKept
<1>2. pc \in Handling /\ got = <<>> /\ answer = <<>> /\ input_buf[1] = sent
  BY <1>1 DEF AnswerInv, InWork
<1>3. InWork' /\ InOrder'
  BY <1>1, <1>2 DEF InWork, InOrder
<1>4. tx' # VALID /\ pc' \notin {"read", "write", "copy2", "take", "begin"}
  <2>1. tx # VALID /\ tx' = tx
    BY <1>1, PrintKept DEF Known, IInv, OnePlace, Handled
  <2> QED BY <2>1 DEF Handling
<1> QED BY <1>1, <1>3, <1>4 DEF AnswerInv, Waiting, InHand, InAnswer, Held, Offered, Between,
                                InReg

LEMMA PrintAnswer == Known /\ Printing => AInv'
<1> SUFFICES ASSUME Known, Printing, ~disturbed', Handed PROVE AnswerInv'
  BY PrintWaiting DEF AInv
<1>1. /\ ~disturbed /\ AnswerInv /\ TypeOK /\ Bounds /\ Handed'
      /\ UNCHANGED <<sent, txlen, input_buf>>
  BY PrintKept
<1>2. /\ pc \in Handling /\ input_buf[1] = sent /\ (pc \in InChar => back = "handle")
  BY <1>1, PrintKept DEF AnswerInv, InWork
<1>3. /\ tx_idx \in Nat /\ printed \in Nat /\ txlen \in Nat /\ TxSize \in Nat /\ sent \in Nat
      /\ txBuf \in [0 .. TxSize -> Chars] /\ Packet \in Nat /\ Packet <= TxSize
  BY <1>1, Sizes DEF TypeOK
<1>4. ~torn =>
        /\ AllIn(Done, Upto) /\ InLine(Done, tx_idx)
        /\ pc = "store" => tx_idx < TxSize
        /\ pc = "increment" => idx = tx_idx /\ idx < TxSize /\ txBuf[idx] = Own(sent, printed)
        /\ pc \in InChar => printed > 0
  BY <1>1, <1>2 DEF AnswerInv, InBuffer
<1>5. CASE CheckChar
  <2>1. /\ pc = "handle" /\ back' = "handle" /\ printed' = printed + 1
        /\ pc' = IF tx_idx >= TxSize THEN "handle" ELSE "store"
        /\ UNCHANGED <<tx_idx, txBuf, torn, txlen, idx, sent>>
    BY <1>2, <1>5, Same DEF CheckChar, Step, Handling
  <2>2. InBuffer'
    <3> SUFFICES ASSUME ~torn PROVE AllIn(Done, Upto)' /\ InLine(Done, tx_idx)'
                                    /\ (pc' = "store" => tx_idx' < TxSize)
      BY <2>1, <1>3 DEF InBuffer
    <3>1. AllIn(printed, tx_idx) /\ InLine(printed, tx_idx)
      BY <1>4, <2>1 DEF Done, Upto
    <3>2. CASE tx_idx >= TxSize
      <4>1. AllIn(Done, Upto)'
        BY <2>1, <3>2 DEF AllIn, Done, Upto
      <4>2. InLine(Done, tx_idx)'
        <5>1. ASSUME NEW a \in 0 .. tx_idx - 1, txBuf[a][2] <= printed
              PROVE  txBuf[a][2] <= printed + 1
          <6>1. a \in 0 .. TxSize
            BY <1>1, <1>3 DEF TypeOK
          <6>2. txBuf[a] \in Nat \X Nat
            BY <1>3, <6>1 DEF Chars
          <6>3. txBuf[a][2] \in Nat
            BY <6>2
          <6> QED BY <1>3, <5>1, <6>3
        <5> QED BY <2>1, <3>1, <3>2, <5>1 DEF InLine, Done
      <4> QED BY <2>1, <3>2, <4>1, <4>2
    <3>3. CASE tx_idx < TxSize
      <4>1. printed + 1 - 1 = printed /\ pc' = "store"
        BY <1>3, <2>1, <3>3
      <4>2. Done' = printed /\ Upto' = tx_idx
        BY <1>3, <2>1, <4>1 DEF Done, Upto
      <4>3. AllIn(Done, Upto)'
        BY <2>1, <3>1, <4>2 DEF AllIn
      <4>4. InLine(Done, tx_idx)'
        BY <2>1, <3>1, <4>2 DEF InLine
      <4> QED BY <2>1, <3>3, <4>3, <4>4
    <3> QED BY <1>3, <3>2, <3>3
  <2>3. pc' \in Handling
    BY <2>1 DEF Handling
  <2> QED BY <2>1, <2>2, <2>3, PrintWorking
<1>6. CASE StoreChar
  <2>1. /\ pc = "store" /\ pc' = "increment" /\ idx' = tx_idx
        /\ txBuf' = [txBuf EXCEPT ![tx_idx] = IF torn THEN Other ELSE Own(sent, printed)]
        /\ UNCHANGED <<tx_idx, torn, printed, back, sent, txlen>>
    BY <1>2, <1>6, Same DEF StoreChar, AtIndex, Step
  <2>2. InBuffer'
    <3> SUFFICES ASSUME ~torn
                 PROVE  /\ AllIn(Done, Upto)' /\ InLine(Done, tx_idx)'
                        /\ tx_idx < TxSize /\ txBuf'[tx_idx] = Own(sent, printed) /\ printed > 0
      BY <2>1 DEF InBuffer
    <3>1. tx_idx < TxSize /\ printed > 0 /\ AllIn(printed - 1, tx_idx) /\ InLine(printed - 1, tx_idx)
      BY <1>4, <2>1 DEF Done, Upto
    <3>2. txBuf'[tx_idx] = Own(sent, printed)
      BY <1>3, <2>1, <3>1
    <3>3. \A a \in 0 .. tx_idx - 1 : txBuf'[a] = txBuf[a]
      BY <1>3, <2>1, <3>1
    <3>4. Done' = printed - 1 /\ Upto' = tx_idx
      BY <2>1 DEF Done, Upto
    <3>5. AllIn(Done, Upto)'
      BY <2>1, <3>1, <3>3, <3>4 DEF AllIn
    <3>6. InLine(Done, tx_idx)'
      <4> SUFFICES ASSUME NEW a \in 0 .. tx_idx - 1, txBuf[a] # Other
                   PROVE  /\ txBuf[a][1] = sent /\ txBuf[a][2] <= printed - 1
                          /\ \A b \in 0 .. a - 1 : txBuf'[b] # Other => txBuf'[b][2] < txBuf[a][2]
        BY <2>1, <3>3, <3>4 DEF InLine
      <4>1. \A b \in 0 .. a - 1 : txBuf'[b] = txBuf[b]
        BY <1>3, <3>3
      <4> QED BY <3>1, <4>1 DEF InLine
    <3> QED BY <3>1, <3>2, <3>5, <3>6
  <2>3. pc' \in Handling /\ back' = "handle"
    BY <1>2, <2>1 DEF Handling
  <2> QED BY <2>2, <2>3, PrintWorking
<1>7. CASE Increment
  <2>1. /\ pc = "increment" /\ pc' = "handle" /\ tx_idx' = idx + 1
        /\ UNCHANGED <<txBuf, torn, printed, sent, txlen, idx>>
    BY <1>2, <1>7, Same DEF Increment, Step
  <2>2. InBuffer'
    <3> SUFFICES ASSUME ~torn PROVE AllIn(Done, Upto)' /\ InLine(Done, tx_idx)'
      BY <2>1 DEF InBuffer
    <3>1. /\ idx = tx_idx /\ idx < TxSize /\ txBuf[idx] = Own(sent, printed) /\ printed > 0
          /\ AllIn(printed - 1, tx_idx) /\ InLine(printed - 1, tx_idx)
      BY <1>4, <2>1 DEF Done, Upto
    <3>2. Done' = printed /\ Upto' = tx_idx + 1 /\ tx_idx' = tx_idx + 1
      BY <2>1, <3>1 DEF Done, Upto
    <3>3. Own(sent, printed)[1] = sent /\ Own(sent, printed)[2] = printed
      BY DEF Own
    <3>4. AllIn(Done, Upto)'
      <4> SUFFICES ASSUME NEW n \in 1 .. printed
                   PROVE  tx_idx + 1 >= TxSize \/ \E a \in 0 .. tx_idx : txBuf[a] = Own(sent, n)
        BY <1>3, <2>1, <3>2 DEF AllIn
      <4>1. CASE n = printed
        BY <1>3, <3>1, <4>1
      <4>2. CASE n \in 1 .. printed - 1
        BY <1>3, <3>1, <4>2 DEF AllIn
      <4> QED BY <1>3, <4>1, <4>2
    <3>5. InLine(Done, tx_idx)'
      <4> SUFFICES ASSUME NEW a \in 0 .. tx_idx, txBuf[a] # Other
                   PROVE  /\ txBuf[a][1] = sent /\ txBuf[a][2] <= printed
                          /\ \A b \in 0 .. a - 1 : txBuf[b] # Other => txBuf[b][2] < txBuf[a][2]
        BY <1>3, <2>1, <3>2 DEF InLine
      <4>1. ASSUME NEW c \in 0 .. tx_idx - 1 PROVE txBuf[c][2] \in Nat
        <5>1. c \in 0 .. TxSize
          BY <1>3, <3>1
        <5>2. txBuf[c] \in Nat \X Nat
          BY <1>3, <5>1 DEF Chars
        <5> QED BY <5>2
      <4>2. CASE a = tx_idx
        <5> SUFFICES ASSUME NEW b \in 0 .. tx_idx - 1, txBuf[b] # Other
                     PROVE  txBuf[b][2] < printed
          BY <1>3, <3>1, <3>3, <4>2
        <5> QED BY <1>3, <3>1, <4>1 DEF InLine
      <4>3. CASE a \in 0 .. tx_idx - 1
        BY <1>3, <3>1, <4>1, <4>3 DEF InLine
      <4> QED BY <1>3, <4>2, <4>3
    <3> QED BY <3>4, <3>5
  <2>3. pc' \in Handling /\ pc' \notin InChar
    BY <2>1 DEF Handling
  <2> QED BY <2>2, <2>3, PrintWorking
<1>8. CASE PrintOther
  <2>1. /\ pc' = pc /\ tx_idx < TxSize /\ tx_idx' = tx_idx + 1
        /\ txBuf' = [txBuf EXCEPT ![tx_idx] = Other]
        /\ pc \in InChar => torn'
        /\ torn => torn'
        /\ UNCHANGED <<printed, sent, txlen, idx, back>>
    BY <1>8, Same DEF PrintOther, Step
  <2>2. InBuffer'
    <3> SUFFICES ASSUME ~torn, pc \notin InChar
                 PROVE  AllIn(Done, Upto)' /\ InLine(Done, tx_idx)'
      BY <2>1 DEF InBuffer
    <3>1. AllIn(printed, Upto) /\ InLine(printed, tx_idx)
      BY <1>4 DEF Done
    <3>2. Done' = printed
      BY <2>1 DEF Done
    <3>3. \A a \in 0 .. tx_idx - 1 : txBuf'[a] = txBuf[a]
      BY <1>3, <2>1
    <3>4. txBuf'[tx_idx] = Other
      BY <1>3, <2>1
    <3>5. PICK u \in Nat, v \in Nat : u = Upto /\ v = Upto' /\ u <= v /\ u <= tx_idx
      <4>1. Upto \in Nat /\ Upto' \in Nat /\ Upto <= Upto' /\ Upto <= tx_idx
        BY <1>1, <1>3, <2>1 DEF Upto, Bounds
      <4> QED BY <4>1
    <3>6. AllIn(Done, Upto)'
      <4> SUFFICES ASSUME NEW n \in 1 .. printed
                   PROVE  v >= TxSize \/ \E a \in 0 .. v - 1 : txBuf'[a] = Own(sent, n)
        BY <2>1, <3>2, <3>5 DEF AllIn
      <4>0. u <= v /\ u <= tx_idx /\ tx_idx \in Nat
        BY <1>3, <3>5
      <4>1. CASE u >= TxSize
        BY <1>3, <4>0, <4>1
      <4>2. CASE \E a \in 0 .. u - 1 : txBuf[a] = Own(sent, n)
        <5>1. PICK a \in 0 .. u - 1 : txBuf[a] = Own(sent, n)
          BY <4>2
        <5>2. a \in 0 .. tx_idx - 1 /\ a \in 0 .. v - 1
          BY <4>0
        <5> QED BY <3>3, <5>1, <5>2
      <4> QED BY <3>1, <3>5, <4>1, <4>2 DEF AllIn
    <3>7. InLine(Done, tx_idx)'
      <4> SUFFICES ASSUME NEW a \in 0 .. tx_idx, txBuf'[a] # Other
                   PROVE  /\ txBuf'[a][1] = sent /\ txBuf'[a][2] <= printed
                          /\ \A b \in 0 .. a - 1 : txBuf'[b] # Other => txBuf'[b][2] < txBuf'[a][2]
        BY <1>3, <2>1, <3>2 DEF InLine
      <4>1. a \in 0 .. tx_idx - 1
        BY <1>3, <3>4
      <4>2. \A b \in 0 .. a - 1 : b \in 0 .. tx_idx - 1
        BY <1>3, <4>1
      <4> QED BY <3>1, <3>3, <4>1, <4>2 DEF InLine
    <3> QED BY <3>6, <3>7
  <2>3. pc' \in Handling /\ (pc' \in InChar => back' = "handle")
    BY <1>2, <2>1
  <2> QED BY <2>2, <2>3, PrintWorking
<1> QED BY <1>5, <1>6, <1>7, <1>8 DEF Printing

LEMMA ReadLengthAnswer == Known /\ ReadLength => AInv'
<1> SUFFICES ASSUME Known, ReadLength, ~disturbed' PROVE AnswerInv'
  BY DEF AInv
<1>1. /\ pc = "handle" /\ pc' = "send" /\ txlen' = TxLen
      /\ UNCHANGED <<count, input_buf, back, idx, reg>>
      /\ UNCHANGED hwVars /\ UNCHANGED drvVars /\ UNCHANGED history /\ UNCHANGED hostVars
      /\ isr' = isr
  BY DEF ReadLength, Step, Quiet
<1>2. /\ UNCHANGED <<ran, sent, got, printed, torn, answer, tx, tx_next_buf, tx_idx, txBuf>>
      /\ open' = open /\ disturbed' = disturbed /\ processing' = processing
  BY <1>1, Same
<1>3. ~disturbed /\ AnswerInv /\ TypeOK
  BY <1>2 DEF Known, AInv, BInv
<1>4. Handed /\ Handed'
  BY <1>1, <1>2, <1>3, SameCommand DEF AnswerInv, Waiting
<1>5. pc \in Handling /\ pc' \in Handling /\ pc' \notin InChar
  BY <1>1 DEF Handling
<1>6. InWork' /\ InOrder'
  BY <1>1, <1>2, <1>3, <1>4, <1>5 DEF AnswerInv, InWork, InOrder
<1>7. InBuffer'
  <2>1. Done' = Done
    BY <1>1, <1>2 DEF Done
  <2>2. Upto = tx_idx /\ Upto' = tx_idx
    <3>1. tx_idx \in Nat
      BY <1>3 DEF TypeOK
    <3> QED BY <1>1, <1>2, <3>1, Sizes DEF Upto, TxLen, Shorter
  <2> QED BY <1>1, <1>2, <1>3, <1>4, <1>5, <2>1, <2>2 DEF AnswerInv, InBuffer, AllIn, InLine
<1>8. tx' # VALID
  BY <1>1, <1>2, <1>3 DEF Known, IInv, OnePlace, Handled
<1> QED BY <1>1, <1>4, <1>5, <1>6, <1>7, <1>8
        DEF AnswerInv, Waiting, InHand, InAnswer, Held, Offered, Between, InReg

LEMMA SendResponseAnswer == Known /\ SendResponse => AInv'
<1> SUFFICES ASSUME Known, SendResponse, ~disturbed' PROVE AnswerInv'
  BY DEF AInv
<1>1. /\ pc = "send" /\ pc' = "read" /\ processing' = FALSE /\ LoadPacket(0, txlen)
      /\ isr = {} /\ ctr = {} /\ answer' = Offer
      /\ UNCHANGED <<tx, ctr, isr, txBuf, printed, torn, ran>>
      /\ UNCHANGED local /\ UNCHANGED hostVars
  BY DEF SendResponse, Step, Interrupt
<1>2. UNCHANGED <<txlen, sent, got>> /\ open' = open /\ disturbed' = disturbed
  BY <1>1, Same
<1>3. ~disturbed /\ AnswerInv /\ TypeOK /\ Bounds
  BY <1>2 DEF Known, AInv, BInv
<1>4. Handed /\ Handed' /\ got = <<>>
  BY <1>1, <1>2, <1>3, SameCommand DEF AnswerInv, Waiting, InWork, Handling
<1>5. /\ tx_idx \in 0 .. TxSize + 1 /\ txlen \in 0 .. Packet /\ txlen <= tx_idx
      /\ txBuf \in [0 .. TxSize -> Chars]
  BY <1>1, <1>3 DEF TypeOK, Bounds
<1> DEFINE n == IF txlen = Packet THEN tx_idx ELSE txlen
<1>6. n \in Nat /\ n <= TxSize + 1 /\ n <= tx_idx /\ Upto = n
  BY <1>1, <1>5, Sizes DEF Upto
<1>7. Offer = [k \in 1 .. n |-> txBuf[k - 1]]
  BY DEF Offer
<1>8. /\ txAddr' = 0 /\ txCount' = txlen /\ tx_idx' = tx_idx - txlen
      /\ tx_next_buf' = IF txlen = Packet THEN 0 + Packet ELSE NoBuf
      /\ txlen = Packet => n = tx_idx
      /\ txlen < Packet => n = txlen
  BY <1>1, <1>5, Sizes DEF LoadPacket, NextBuf
<1> HIDE DEF n
<1>9. Len(answer') = n /\ \A k \in 1 .. n : answer'[k] = txBuf[k - 1]
  <2>1. Len([k \in 1 .. n |-> txBuf[0 + k - 1]]) = n
    <3>1. 0 + n <= TxSize + 1
      BY <1>6
    <3> QED BY <1>3, <1>6, <3>1, PacketType
  <2>2. [k \in 1 .. n |-> txBuf[0 + k - 1]] = [k \in 1 .. n |-> txBuf[k - 1]]
    OBVIOUS
  <2> QED BY <1>1, <1>7, <2>1, <2>2
<1>10. InAnswer'
  <2> SUFFICES ASSUME ~torn
               PROVE  /\ \A m \in 1 .. printed :
                           n >= TxSize \/ \E k \in 1 .. n : answer'[k] = Own(sent, m)
                      /\ \A k \in 1 .. n : answer'[k] # Other =>
                           /\ answer'[k][1] = sent
                           /\ \A j \in 1 .. k - 1 : answer'[j] # Other =>
                                answer'[j][2] < answer'[k][2]
    BY <1>1, <1>2, <1>9 DEF InAnswer
  <2>1. AllIn(printed, n) /\ InLine(printed, tx_idx)
    BY <1>1, <1>3, <1>4, <1>6 DEF AnswerInv, InBuffer, Handling, Done
  <2>2. ASSUME NEW m \in 1 .. printed
        PROVE  n >= TxSize \/ \E k \in 1 .. n : answer'[k] = Own(sent, m)
    <3>1. CASE \E a \in 0 .. n - 1 : txBuf[a] = Own(sent, m)
      <4>1. PICK a \in 0 .. n - 1 : txBuf[a] = Own(sent, m)
        BY <3>1
      <4>2. a + 1 \in 1 .. n /\ a + 1 - 1 = a
        BY <1>6
      <4> QED BY <1>9, <4>1, <4>2
    <3> QED BY <2>1, <3>1 DEF AllIn
  <2>3. ASSUME NEW k \in 1 .. n, answer'[k] # Other
        PROVE  /\ answer'[k][1] = sent
               /\ \A j \in 1 .. k - 1 : answer'[j] # Other => answer'[j][2] < answer'[k][2]
    <3>1. PICK a \in 0 .. tx_idx - 1 : a = k - 1 /\ txBuf[a] = answer'[k]
      <4>1. k - 1 \in 0 .. tx_idx - 1
        BY <1>5, <1>6
      <4> QED BY <1>9, <4>1
    <3>2. /\ txBuf[a][1] = sent
          /\ \A b \in 0 .. a - 1 : txBuf[b] # Other => txBuf[b][2] < txBuf[a][2]
      BY <2>1, <2>3, <3>1 DEF InLine
    <3>3. ASSUME NEW j \in 1 .. k - 1, answer'[j] # Other PROVE answer'[j][2] < answer'[k][2]
      <4>1. j \in 1 .. n /\ j - 1 \in 0 .. a - 1
        BY <1>6, <3>1
      <4>2. answer'[j] = txBuf[j - 1]
        BY <1>9, <4>1
      <4> QED BY <3>1, <3>2, <3>3, <4>1, <4>2
    <3> QED BY <3>1, <3>2, <3>3
  <2> QED BY <2>2, <2>3
<1>11. Held'
  <2> SUFFICES ASSUME NEW a \in 0 .. n - 1 PROVE txBuf[a] = answer'[a + 1]
    BY <1>1, <1>6, <1>9, Sizes DEF Held
  <2>1. a + 1 \in 1 .. n /\ a + 1 - 1 = a
    BY <1>6
  <2> QED BY <1>9, <2>1
<1>12. InOrder'
  BY <1>2, <1>4, <1>6, <1>9 DEF InOrder
<1>13. Offered'
  <2>1. Len(got') = 0
    BY <1>2, <1>4
  <2> QED BY <1>1, <1>5, <1>8, <1>9, <2>1, Sizes DEF Offered
<1>14. pc' \notin Handling /\ pc' \in {"read", "write"} /\ ~processing'
  BY <1>1 DEF Handling
<1> QED BY <1>1, <1>4, <1>10, <1>11, <1>12, <1>13, <1>14
        DEF AnswerInv, Waiting, InHand, InWork, InBuffer, Between, InReg

LEMMA EndpointAnswer == Known /\ (ReadEp \/ WriteEp) => AInv'
<1> SUFFICES ASSUME Known, ReadEp \/ WriteEp, ~disturbed' PROVE AnswerInv'
  BY DEF AInv
<1>1. /\ pc \in {"read", "write"} /\ pc' \in {"write", "rest"}
      /\ pc' = "rest" <=> pc = "write"
      /\ pc' = "rest" => tx' = Toggled(tx, Toggled(reg.tx, VALID))
      /\ pc' = "write" => tx' = tx /\ reg'.tx = tx
  BY Same DEF ReadEp, WriteEp, Step, Quiet
<1>2. /\ UNCHANGED <<txAddr, txCount, ctr, isr, count, input_buf, back, idx, txlen>>
      /\ UNCHANGED drvVars /\ UNCHANGED hostVars /\ UNCHANGED history
  BY Same DEF ReadEp, WriteEp, Quiet
<1>3. /\ UNCHANGED <<ran, sent, got, printed, torn, answer, tx_next_buf, tx_idx, txBuf>>
      /\ open' = open /\ disturbed' = disturbed /\ processing' = processing
  BY <1>2, Same
<1>4. ~disturbed /\ AnswerInv
  BY <1>3 DEF Known, AInv
<1>5. Handed /\ Handed'
  BY <1>1, <1>3, <1>4, SameCommand DEF AnswerInv, Waiting
<1>6. pc \notin Handling /\ pc' \notin Handling
  BY <1>1 DEF Handling
<1>7. InWork' /\ InBuffer' /\ InAnswer' /\ Held' /\ InOrder' /\ InHand'
  BY <1>1, <1>3, <1>4, <1>5, <1>6
  DEF AnswerInv, InWork, InBuffer, InAnswer, Held, InOrder, InHand, Handling
<1>8. Offered'
  BY <1>1, <1>2, <1>3, <1>4, <1>5 DEF AnswerInv, Offered
<1>9. pc' = "rest" => tx' = VALID
  <2> SUFFICES ASSUME pc' = "rest" PROVE tx' = VALID
    OBVIOUS
  <2>2. tx = reg.tx /\ tx \in {0, 1, 2, 3}
    BY <1>1, <1>4 DEF AnswerInv, InReg, Known, BInv, TypeOK, Status
  <2>3. tx' = Toggled(tx, Toggled(tx, 3))
    BY <1>1, <2>2
  <2>4. /\ Toggled(0, 3) = 3 /\ Toggled(1, 3) = 2
        /\ Toggled(2, 3) = 1 /\ Toggled(3, 3) = 0
        /\ Toggled(1, 2) = 3 /\ Toggled(2, 1) = 3 /\ Toggled(3, 0) = 3
    BY DEF Toggled
  <2> QED BY <2>2, <2>3, <2>4
<1>10. InReg' /\ Between' /\ Waiting'
  BY <1>1, <1>5, <1>9 DEF InReg, Between, Waiting
<1> QED BY <1>7, <1>8, <1>10 DEF AnswerInv

LEMMA AnswerNext == Known /\ [Next]_vars => AInv'
<1>1. Known /\ UNCHANGED vars => AInv'
  <2> SUFFICES ASSUME Known, UNCHANGED vars, ~disturbed' PROVE AnswerInv'
    BY DEF AInv
  <2>1. /\ UNCHANGED <<hwVars, drvVars, taskVars, hostVars, isr>>
        /\ UNCHANGED local /\ UNCHANGED history /\ pc' = pc
    BY Same DEF vars
  <2>2. /\ UNCHANGED <<ran, sent, input_buf, count, printed, txlen, txBuf, back, torn, answer, got,
                       idx, tx_idx, tx, txAddr, txCount, ctr, isr, tx_next_buf, reg>>
        /\ processing' = processing /\ open' = open /\ disturbed' = disturbed
    BY <2>1, Same
  <2>3. ~disturbed /\ AnswerInv
    BY <2>2 DEF Known, AInv
  <2>4. /\ Handed' <=> Handed
        /\ InWork' /\ InBuffer' /\ InAnswer' /\ Held' /\ InOrder'
    BY <2>1, <2>2, <2>3, WorkKept
  <2> QED BY <2>1, <2>2, <2>3, <2>4
          DEF AnswerInv, Waiting, Answering, InHand, Offered, Between, InReg
<1>2. Known /\ (Task \/ WaitOther \/ CheckChar \/ PrintOther) => AInv'
  BY TakeAnswer, BeginAnswer, PrintAnswer, ReadLengthAnswer, SendResponseAnswer, EndpointAnswer
  DEF Task, Poll, Printing
<1> QED BY <1>1, <1>2, HostOutAnswer, HostInAnswer, BusResetAnswer, IsrTransferAnswer,
           IsrResetAnswer DEF Next, Isr

\* The host reads exactly what lay in the buffer when the answer was offered, in
\* order and each character once, unless it has disturbed the exchange; and what
\* is offered has every character the command has printed, in order and once, as
\* far as they fit, whatever other tasks have printed between two of them.
THEOREM AnswerIsRight == Spec => []AnswerMatches
<1>1. Init => Known
  BY InitInv, OrderInit, BoundsInit, AnswerInit DEF Known
<1>2. Known /\ [Next]_vars => Known'
  BY ExchangeNext, OrderNext, BoundsNext, AnswerNext DEF Known
<1>3. Known => AnswerMatches
  <2> SUFFICES ASSUME Known, ~disturbed, Handed PROVE AnswerMatches
    BY DEF AnswerMatches
  <2>1. AnswerInv
    BY DEF Known, AInv
  <2>2. ASSUME ~open PROVE Len(got) = Len(answer)
    <3>1. pc \notin Working /\ tx # VALID /\ tx_next_buf = NoBuf
      BY <2>2 DEF Known, IInv, OnePlace, Handled, Answered, Answering
    <3>2. pc \notin Handling
      BY <3>1 DEF Handling
    <3> QED BY <2>1, <3>1, <3>2 DEF AnswerInv, Between
  <2> QED BY <2>1, <2>2 DEF AnswerMatches, AnswerInv, InOrder, InAnswer
<1> QED BY <1>1, <1>2, <1>3, PTL DEF Spec
=============================================================================
