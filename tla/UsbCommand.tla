----------------------------- MODULE UsbCommand -----------------------------
(***************************************************************************)
(* The packetized console of board/twinkie/usb_commands.c: the host sends  *)
(* a command in one OUT packet, the CONSOLE task handles it and answers    *)
(* with up to USB_COMMAND_TX_SIZE bytes, sent packet by packet by the      *)
(* interrupt handler; a packet that is not full ends the answer.           *)
(*                                                                         *)
(* The task makes no step while the USB interrupt is pending or active.    *)
(* A task of higher priority (SNIFFER, PD_C0) may print into the answer in *)
(* the middle of anything CONSOLE does, between two accesses of __tx_char  *)
(* too; what it prints itself is not interrupted by CONSOLE.               *)
(* The handler reads ISTR first and acts on it after; packets may be       *)
(* transferred in between.  A write to the endpoint register toggles the   *)
(* status bits and clears both transfer flags (STM32_TOGGLE_EP).           *)
(***************************************************************************)
EXTENDS Integers, Sequences

CONSTANTS NCommands,  \* bound on the commands the host sends
          Packet,     \* USB_MAX_PACKET_SIZE
          TxSize,     \* USB_COMMAND_TX_SIZE
          MaxPrint,   \* bound on the characters a command prints
          MaxOthers,  \* bound on the characters other tasks print
          MaxResets   \* bound on bus resets; the first one attaches the device

ASSUME SizeAssumption ==
  /\ Packet \in Nat \ {0}
  /\ TxSize \in Nat \ {0} /\ TxSize % Packet = 0
ASSUME BoundAssumption == NCommands \in Nat /\ MaxPrint \in Nat
                          /\ MaxOthers \in Nat /\ MaxResets \in Nat

VARIABLES
  rx, tx,       \* status bits of the endpoint register
  ctr,          \* CTR_RX, CTR_TX: transfers the interrupt has not cleared
  reset,        \* ISTR_RESET
  rxBuf,        \* the command in ep_buf_rx
  txBuf,        \* ep_buf_tx and the character behind it
  txAddr, txCount,        \* btable_ep: the packet to send
  isr,          \* what the handler has read from ISTR
  rx_count, tx_idx, tx_next_buf, processing,
  pc, count, input_buf,   \* the CONSOLE task; a command has two halves
  back, idx,    \* __tx_char: its caller, tx_idx as it has read it
  txlen,        \* the length of the first packet
  reg,          \* the endpoint register as the task has read it
  event,        \* the CONSOLE task has an event pending
  printed,      \* characters the current command has printed
  others, torn, \* characters of other tasks; one came inside a __tx_char
  answer,       \* the characters the current command has put on offer
  ran,          \* the commands handled
  sent, open, got,        \* the host: last command, answer awaited, answer
  resets, disturbed       \* an exchange was not left to finish

hwVars   == <<rx, tx, ctr, reset, rxBuf, txAddr, txCount>>
drvVars  == <<rx_count, tx_idx, tx_next_buf, processing, txBuf>>
local    == <<count, input_buf, back, idx, txlen, reg>>
history  == <<printed, others, torn, answer, ran>>
taskVars == <<pc, local, history>>
hostVars == <<sent, open, got, resets, disturbed>>
vars == <<hwVars, drvVars, taskVars, hostVars, isr, event>>

DISABLED == 0  STALL == 1  NAK == 2  VALID == 3
Status == 0 .. 3
Commands == 1 .. NCommands
NoBuf == -1

\* A character is the n-th of a command's, or it is another task's or spoilt.
Own(cmd, n) == <<cmd, n>>
Other == <<0, 0>>
Chars == Nat \X Nat

\* Writing a one to a status bit of the register toggles it.
Toggled(old, new) ==
  2 * ((old \div 2 + new \div 2) % 2) + ((old + new) % 2)

Init ==
  /\ rx = DISABLED /\ tx = DISABLED /\ ctr = {} /\ reset = FALSE
  /\ rxBuf = 0 /\ txAddr = 0 /\ txCount = 0
  /\ isr = {} /\ event = FALSE
  /\ rx_count = 0 /\ tx_idx = 0 /\ tx_next_buf = NoBuf /\ processing = FALSE
  /\ txBuf = [a \in 0 .. TxSize |-> Other]
  /\ pc = "get" /\ count = 0 /\ input_buf = <<0, 0>> /\ reg = [rx |-> 0, tx |-> 0]
  /\ back = "rest" /\ idx = 0 /\ txlen = 0
  /\ printed = 0 /\ others = 0 /\ torn = FALSE /\ answer = <<>> /\ ran = <<>>
  /\ sent = 0 /\ open = FALSE /\ got = <<>> /\ resets = 0 /\ disturbed = FALSE

-----------------------------------------------------------------------------
(* The host and the USB controller.                                        *)

HostOut ==
  /\ rx = VALID /\ sent < NCommands
  /\ sent' = sent + 1 /\ rxBuf' = sent + 1
  /\ rx' = NAK /\ ctr' = ctr \cup {"RX"}
  /\ open' = TRUE /\ got' = <<>>
  /\ disturbed' = (disturbed \/ open)
  /\ UNCHANGED <<tx, reset, txAddr, txCount, drvVars, taskVars, resets, isr, event>>

\* An answer is over with a packet that is not full.
HostIn ==
  /\ tx = VALID
  /\ got' = got \o [k \in 1 .. txCount |-> txBuf[txAddr + k - 1]]
  /\ open' = (open /\ txCount = Packet)
  /\ tx' = NAK /\ ctr' = ctr \cup {"TX"}
  /\ UNCHANGED <<rx, reset, rxBuf, txAddr, txCount, drvVars, taskVars, sent,
                 resets, disturbed, isr, event>>

\* The controller keeps CTR_RX and CTR_TX through a reset.
BusReset ==
  /\ resets < MaxResets /\ resets' = resets + 1
  /\ rx' = DISABLED /\ tx' = DISABLED /\ reset' = TRUE
  /\ disturbed' = (disturbed \/ open)
  /\ open' = FALSE
  /\ UNCHANGED <<ctr, rxBuf, txAddr, txCount, drvVars, taskVars, sent, got, isr, event>>

-----------------------------------------------------------------------------
(* usb_interrupt.                                                          *)

Interrupt == reset \/ ctr # {}

\* status = STM32_USB_ISTR; DIR tells a reception from a transmission.
IsrEnter ==
  /\ isr = {} /\ Interrupt
  /\ isr' = (IF reset THEN {"RESET"} ELSE {})
              \cup (IF ctr = {} THEN {} ELSE IF "RX" \in ctr THEN {"RX"} ELSE {"TX"})
  /\ UNCHANGED <<hwVars, drvVars, taskVars, hostVars, event>>

\* The next packet of the answer: its length and what follows it.
Shorter(a, b) == IF a < b THEN a ELSE b
TxLen == Shorter(tx_idx, Packet)
\* Mutants: the answer ends with the first packet; the next packet is the same.
EndsAlways(addr, len) == NoBuf
NextSame(addr, len) == IF len = Packet THEN addr ELSE NoBuf
NextBuf(addr, len) == IF len = Packet THEN addr + Packet ELSE NoBuf

LoadPacket(addr, len) ==
  /\ txAddr' = addr /\ txCount' = len
  /\ tx_idx' = tx_idx - len
  /\ tx_next_buf' = NextBuf(addr, len)

\* cmd_ep_tx
CmdEpTx ==
  \/ /\ tx_next_buf = NoBuf
     /\ UNCHANGED <<tx, txAddr, txCount, tx_idx, tx_next_buf>>
  \/ /\ tx_next_buf # NoBuf
     /\ LoadPacket(tx_next_buf, TxLen)
     /\ tx' = VALID

\* Mutant: reception is enabled again at once.
RxEnabled == VALID
RxAfterRx == rx

\* cmd_ep_rx without a bus reset.
CmdEpRx ==
  /\ rx_count' = 1 /\ event' = TRUE
  /\ rx' = RxAfterRx

IsrTransfer ==
  /\ isr \in {{"RX"}, {"TX"}}
  /\ isr' = {} /\ ctr' = {}
  /\ \/ isr = {"TX"} /\ CmdEpTx /\ UNCHANGED <<rx, rx_count, event>>
     \/ isr = {"RX"} /\ CmdEpRx /\ UNCHANGED <<tx, txAddr, txCount, tx_idx, tx_next_buf>>
  /\ UNCHANGED <<reset, rxBuf, processing, txBuf, taskVars, hostVars>>

\* cmd_ep_event, then the transfer of the same status: the reset has set the
\* length of the received packet to 0 and leaves the rest of an answer.
IsrReset ==
  /\ "RESET" \in isr
  /\ isr' = {} /\ ctr' = {} /\ reset' = FALSE
  /\ rx' = Toggled(rx, VALID)
  /\ IF "TX" \in isr /\ tx_next_buf # NoBuf
       THEN LoadPacket(tx_next_buf, TxLen) /\ tx' = VALID
       ELSE /\ tx' = Toggled(tx, NAK) /\ txAddr' = 0 /\ txCount' = 0
            /\ UNCHANGED <<tx_idx, tx_next_buf>>
  /\ IF "RX" \in isr THEN rx_count' = 0 /\ event' = TRUE
                     ELSE UNCHANGED <<rx_count, event>>
  /\ UNCHANGED <<rxBuf, processing, txBuf, taskVars, hostVars>>

-----------------------------------------------------------------------------
(* console_task.                                                           *)

\* The task may go from one label to another.
Step(from, to) == pc = from /\ isr = {} /\ ~Interrupt /\ pc' = to

\* Woken by the handler, or for something else.
Waken ==
  /\ Step("wait", "get")
  /\ event' = FALSE
  /\ UNCHANGED <<hwVars, drvVars, local, history, hostVars, isr>>
Wait == event /\ Waken
WaitOther == Waken

\* The step changes nothing outside the task.
Quiet == UNCHANGED <<hwVars, drvVars, history, hostVars, isr, event>>

\* console_packet_get_command reads rx_count twice.
GetCount ==
  /\ Step("get", "test")
  /\ count' = rx_count
  /\ UNCHANGED <<input_buf, back, idx, txlen, reg>> /\ Quiet

TestCount ==
  /\ Step("test", IF rx_count = 0 THEN "rest" ELSE "copy")
  /\ UNCHANGED local /\ Quiet

\* memcpy_from_usbram copies word by word: the first half, then the second.
Copy ==
  /\ Step("copy", "copy2")
  /\ input_buf' = IF count = 0 THEN input_buf ELSE <<rxBuf, input_buf[2]>>
  /\ UNCHANGED <<count, back, idx, txlen, reg>> /\ Quiet

CopyOn ==
  /\ Step("copy2", "take")
  /\ input_buf' = IF count = 0 THEN input_buf ELSE <<input_buf[1], rxBuf>>
  /\ UNCHANGED <<count, back, idx, txlen, reg>> /\ Quiet

\* Mutant: the command stays in the buffer.
CountKept == rx_count
CountTaken == 0

Take ==
  /\ Step("take", "begin")
  /\ rx_count' = CountTaken
  /\ UNCHANGED <<hwVars, tx_idx, tx_next_buf, processing, txBuf, local, history, hostVars,
                 isr, event>>

\* The history starts again with the command.
Begin ==
  /\ Step("begin", IF count = 0 THEN "rest" ELSE "handle")
  /\ tx_idx' = 0 /\ txCount' = 0 /\ tx_next_buf' = NoBuf /\ processing' = TRUE
  /\ printed' = 0 /\ torn' = FALSE /\ answer' = <<>>
  /\ ran' = IF count = 0 THEN ran ELSE Append(ran, input_buf)
  /\ UNCHANGED <<rx, tx, ctr, reset, rxBuf, txAddr, rx_count, txBuf, local, others,
                 hostVars, isr, event>>

-----------------------------------------------------------------------------
(* __tx_char.  CONSOLE prints for its command and, while processing is     *)
(* set, for a command typed at one of the other consoles.  Another task    *)
(* may print between the test of tx_idx and the store, and between the     *)
(* load and the store of tx_idx++; an answer it has cut into like that is  *)
(* torn, and its characters from then on are not told apart.               *)

InChar == {"store", "increment"}

\* What does not fit is dropped.
CheckChar ==
  /\ pc \in {"handle", "rest"} /\ processing /\ printed < MaxPrint
  /\ Step(pc, IF tx_idx >= TxSize THEN pc ELSE "store")
  /\ back' = pc /\ printed' = printed + 1
  /\ UNCHANGED <<hwVars, drvVars, count, input_buf, idx, txlen, reg, others, torn, answer,
                 ran, hostVars, isr, event>>

\* Mutant: the character goes to the beginning of the buffer.
AtZero == 0
AtIndex == tx_idx

StoreChar ==
  /\ Step("store", "increment")
  /\ txBuf' = [txBuf EXCEPT ![AtIndex] = IF torn THEN Other ELSE Own(input_buf[1], printed)]
  /\ idx' = tx_idx
  /\ UNCHANGED <<hwVars, rx_count, tx_idx, tx_next_buf, processing, count, input_buf, back,
                 txlen, reg, history, hostVars, isr, event>>

Increment ==
  /\ Step("increment", back)
  /\ tx_idx' = idx + 1
  /\ UNCHANGED <<hwVars, rx_count, tx_next_buf, processing, txBuf, local, history, hostVars,
                 isr, event>>

\* in_command tells no task from another: a character of a packet that SNIFFER
\* traces, wherever CONSOLE is.
PrintOther ==
  /\ Step(pc, pc) /\ processing /\ tx_idx < TxSize /\ others < MaxOthers
  /\ txBuf' = [txBuf EXCEPT ![tx_idx] = Other]
  /\ tx_idx' = tx_idx + 1
  /\ others' = others + 1 /\ torn' = (torn \/ pc \in InChar)
  /\ UNCHANGED <<hwVars, rx_count, tx_next_buf, processing, local, printed, answer, ran,
                 hostVars, isr, event>>

-----------------------------------------------------------------------------
(* console_packet_send_response: the length of the first packet, the       *)
(* packet, the register.                                                   *)

ReadLength ==
  /\ Step("handle", "send")
  /\ txlen' = TxLen
  /\ UNCHANGED <<count, input_buf, back, idx, reg>> /\ Quiet

\* What is sent: nothing after a packet that is not full.
Offer == [k \in 1 .. (IF txlen = Packet THEN tx_idx ELSE txlen) |-> txBuf[k - 1]]

SendResponse ==
  /\ Step("send", "read")
  /\ processing' = FALSE
  /\ LoadPacket(0, txlen)
  /\ answer' = Offer
  /\ UNCHANGED <<rx, tx, ctr, reset, rxBuf, rx_count, txBuf, local, printed, others, torn,
                 ran, hostVars, isr, event>>

ReadEp ==
  /\ Step("read", "write")
  /\ reg' = [rx |-> rx, tx |-> tx]
  /\ UNCHANGED <<count, input_buf, back, idx, txlen>> /\ Quiet

WriteEp ==
  /\ Step("write", "rest")
  /\ rx' = Toggled(rx, Toggled(reg.rx, VALID))
  /\ tx' = Toggled(tx, Toggled(reg.tx, VALID))
  /\ UNCHANGED <<ctr, reset, rxBuf, txAddr, txCount, drvVars, local, history, hostVars,
                 isr, event>>

\* uart_getc and usb_getc, until there is no more input.
Rest ==
  /\ Step("rest", "wait")
  /\ UNCHANGED local /\ Quiet

-----------------------------------------------------------------------------
Isr  == IsrEnter \/ IsrTransfer \/ IsrReset
Task == \/ Wait \/ GetCount \/ TestCount \/ Copy \/ CopyOn
        \/ Take \/ Begin \/ StoreChar \/ Increment
        \/ ReadLength \/ SendResponse \/ ReadEp \/ WriteEp \/ Rest

Next == \/ HostOut \/ HostIn \/ BusReset \/ Isr
        \/ Task \/ WaitOther \/ CheckChar \/ PrintOther

Spec == Init /\ [][Next]_vars

(***************************************************************************)
(* Interrupts are taken, the CONSOLE task gets the processor and its       *)
(* commands return, and the host reads the answers it is offered.          *)
(***************************************************************************)
FairSpec == Spec /\ WF_vars(Isr) /\ SF_vars(Task) /\ WF_vars(HostIn)

-----------------------------------------------------------------------------
(* Properties.                                                             *)

Labels == {"get", "test", "copy", "copy2", "take", "begin", "handle", "send", "read",
           "write", "rest", "wait"} \cup InChar

TypeOK ==
  /\ rx \in Status /\ tx \in Status /\ ctr \subseteq {"RX", "TX"}
  /\ reset \in BOOLEAN /\ rxBuf \in 0 .. NCommands
  /\ isr \subseteq {"RESET", "RX", "TX"} /\ event \in BOOLEAN
  /\ rx_count \in 0 .. 1 /\ count \in 0 .. 1 /\ processing \in BOOLEAN
  /\ tx_idx \in 0 .. TxSize + 1 /\ txAddr \in 0 .. TxSize + 1 /\ txCount \in 0 .. Packet
  /\ tx_next_buf \in {NoBuf} \cup 0 .. TxSize + 1
  /\ txBuf \in [0 .. TxSize -> Chars]
  /\ pc \in Labels /\ input_buf \in (0 .. NCommands) \X (0 .. NCommands)
  /\ back \in {"handle", "rest"} /\ idx \in 0 .. TxSize /\ txlen \in 0 .. Packet
  /\ reg \in [rx : Status, tx : Status]
  /\ printed \in 0 .. MaxPrint /\ others \in 0 .. MaxOthers /\ torn \in BOOLEAN
  /\ ran \in Seq(Commands \X Commands) /\ answer \in Seq(Chars) /\ got \in Seq(Chars)
  /\ sent \in 0 .. NCommands /\ open \in BOOLEAN
  /\ resets \in 0 .. MaxResets /\ disturbed \in BOOLEAN

\* Neither buffer changes hands early: reception is enabled only when the last
\* command has been taken and handled, and no answer is offered while its
\* characters are written.
OneExchange ==
  ~disturbed =>
    /\ rx = VALID => rx_count = 0 /\ pc \in {"get", "test", "rest", "wait"}
    /\ tx = VALID => pc \in {"get", "test", "rest", "wait"}

\* The last command of the host has been handled.
Handed == sent > 0 /\ \E k \in 1 .. Len(ran) : ran[k][2] = sent
Handling == {"handle", "send"} \cup InChar

\* The host reads what lay in the buffer when the answer was offered, in order,
\* each character once, and all of it when the answer is over.  Whatever other
\* tasks print between two characters of the command, the answer has every
\* character of the command, in order and once, as far as they fit.
AnswerMatches ==
  ~disturbed /\ Handed =>
    /\ Len(got) <= Len(answer) /\ (~open => Len(got) = Len(answer))
    /\ \A k \in 1 .. Len(got) : got[k] = answer[k]
    /\ pc \notin Handling /\ ~torn =>
         /\ \A n \in 1 .. printed :
              Len(answer) >= TxSize \/ \E k \in 1 .. Len(answer) : answer[k] = Own(sent, n)
         /\ \A k \in 1 .. Len(answer) : answer[k] # Other =>
              /\ answer[k][1] = sent
              /\ \A j \in 1 .. k - 1 : answer[j] # Other => answer[j][2] < answer[k][2]

\* Whatever the host does, no part of a command is handled twice, and the commands
\* are handled in order.
HandledOnce ==
  \A j \in 1 .. Len(ran) : \A k \in 1 .. j - 1 : ran[k][2] < ran[j][1]

\* An answer the task has offered is read to its end, unless there is a bus
\* reset or the host sends the next command without reading it.
AnswerCompletes == (pc = "write" /\ ~disturbed) ~> (~open \/ disturbed)

\* Every command is answered ("ready to answer and re-enable reception",
\* usb_commands.c, line 152).
CommandAnswered == open ~> (~open \/ disturbed)
=============================================================================
