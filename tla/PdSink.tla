------------------------------- MODULE PdSink -------------------------------
(***************************************************************************)
(* The policy engine of the PD sink: pd_task of                            *)
(* common/usb_pd_protocol.c for a sink that keeps its role, with the       *)
(* messages that change its state, its time-outs, the commands of the      *)
(* console that set its state from another task, and VBUS.                 *)
(*                                                                         *)
(* PD_C0 has the highest priority: it gives way only in task_wait_event    *)
(* and while a transmission waits in pd_transmit.  How messages get        *)
(* through is the subject of PdLink; here one is received or not, and a    *)
(* transmission succeeds or fails, whether the partner hears it or not.    *)
(*                                                                         *)
(* CONSOLE has the lowest: where PD_C0 gives way, a command may stand      *)
(* between any two accesses of set_state and pd_comm_enable.               *)
(*                                                                         *)
(* The partner is external: a source that sends any message at any time,   *)
(* asked or not, or stays silent, and that may reset the link.             *)
(*                                                                         *)
(* Left out: the source role and role swaps, vendor defined messages, BIST,*)
(* debug accessories and the suspended state.                              *)
(***************************************************************************)
EXTENDS Integers, FiniteSets

CONSTANTS PD_HARD_RESET_COUNT,  \* 2 in the code
          MaxCommands,          \* bound on the commands of the console
          MaxEvents             \* bound on the connections of the cable and the hard
                                \* resets of the partner, together

ASSUME SinkAssumption ==
  /\ PD_HARD_RESET_COUNT \in Nat \ {0}
  /\ MaxCommands \in Nat /\ MaxEvents \in Nat

VARIABLES
  pd,                \* pd[port], rx_enabled and the locals of pd_task, see PdType
  pc, op,            \* where pd_task is, and what it transmits
  pd_comm_enabled,
  cmd, to, same,     \* the rest of a command of the console; the next_state of its
                     \* set_state, and that last_state was the same
  commands,          \* how many commands there were
  inbox,             \* the message received, not yet handled
  attached, vbus,    \* the cable
  noticed,           \* PD_C0 has had a turn since VBUS went off, not just EXECUTE's
  resetting,         \* the partner takes VBUS away, and brings it back
  events             \* how often it was connected or reset the link

console == <<cmd, to, same, commands, pd_comm_enabled>>
cable   == <<attached, vbus, noticed>>
partner == <<resetting, events>>
vars == <<pd, pc, op, console, inbox, cable, partner>>

States == {"DISCONNECTED", "DEBOUNCE", "RECOVER", "DISCOVERY", "REQUESTED", "TRANSITION",
           "READY", "DR_SWAP", "SOFT_RESET", "HARD_RESET_SEND", "EXECUTE"}

-----------------------------------------------------------------------------
(* pd: timeout is the state of the time-out, "none" if there is none; ripe *)
(* tells that its time has come.  limit tells that a negotiated input limit*)
(* is set: on this board, that the LED shows the voltage of a contract.    *)
(* count, sent and vbus_off are locals of pd_task.  Two are history.       *)
(* again: the state was set to the one whose turn came last, so it is not  *)
(* entered.  skipped: a set_state of the console to DISCONNECTED found the *)
(* port disconnected when it read last_state, and not any more when it     *)
(* wrote the state, so it did not take the limit back.  Which of its       *)
(* voltages the source offers and which one was requested last is left     *)
(* open.                                                                   *)

SetTimeout(s, t) == [s EXCEPT !.timeout = t, !.ripe = FALSE]

\* Mutant: the input limit stays.
ResetKeepsLimit(s) ==
  [s EXCEPT !.flags = @ \ {"CONTRACT", "PREVIOUS_PD_CONN"}, !.rx_enabled = FALSE]

ClearLimit(s) == [s EXCEPT !.limit = FALSE, !.skipped = FALSE]
ClearRest(s) ==
  [s EXCEPT !.flags = @ \ {"CONTRACT", "PREVIOUS_PD_CONN"}, !.rx_enabled = FALSE]
ResetOnDisconnect(s) == ClearRest(ClearLimit(s))

Assigned(s, t) ==
  [SetTimeout(s, "none") EXCEPT !.task_state = t, !.again = (t = s.last_state)]

\* set_state
SetState(s, t) == IF t = "DISCONNECTED" /\ s.task_state # t
                  THEN ResetOnDisconnect(Assigned(s, t)) ELSE Assigned(s, t)

Connected(s) == s.task_state \notin {"DISCONNECTED", "DEBOUNCE"}

\* pd_execute_hard_reset
HardReset(s) == SetState(ClearLimit([s EXCEPT !.last_state = "EXECUTE"]), "RECOVER")

Init ==
  /\ attached \in BOOLEAN /\ vbus = attached /\ noticed = TRUE
  /\ pd = [task_state |-> "DISCONNECTED", last_state |-> "DISCONNECTED",
           timeout |-> "none", ripe |-> FALSE, rx_enabled |-> FALSE,
           flags |-> IF vbus THEN {"VBUS_NEVER_LOW"} ELSE {},
           new_power_request |-> FALSE, limit |-> FALSE,
           count |-> 0, sent |-> FALSE, vbus_off |-> FALSE,
           again |-> FALSE, skipped |-> FALSE]
  /\ pc = "wait" /\ op = "none"
  /\ pd_comm_enabled = TRUE /\ cmd = "none" /\ to = "none" /\ same = FALSE
  /\ commands = 0 /\ inbox = "none" /\ events = 0 /\ resetting = FALSE

\* Where a step of pd_task ends: the new pd and what is to be transmitted
Out(s, o) == [pd |-> s, op |-> o]

-----------------------------------------------------------------------------
(* handle_request, up to its transmission.                                 *)

PsRdy(s) == IF s.task_state = "DISCOVERY" THEN SetState(s, "HARD_RESET_SEND")
            ELSE [SetState(s, "READY") EXCEPT !.limit = TRUE, !.skipped = FALSE]

\* REJECT, WAIT
Refused(s, m) ==
  CASE s.task_state = "DR_SWAP" -> SetState(s, "READY")
    [] s.task_state = "REQUESTED" /\ "CONTRACT" \notin s.flags -> SetState(s, "DISCOVERY")
    [] s.task_state = "REQUESTED" /\ "CONTRACT" \in s.flags /\ m = "REJECT" ->
         SetState(s, "READY")
    [] s.task_state = "REQUESTED" /\ "CONTRACT" \in s.flags /\ m = "WAIT" ->
         SetTimeout([s EXCEPT !.new_power_request = TRUE], "READY")
    [] OTHER -> s

Accepted(s) ==
  CASE s.task_state = "SOFT_RESET" ->
         SetState([s EXCEPT !.flags = @ \ {"VBUS_NEVER_LOW"}], "DISCOVERY")
    [] s.task_state = "DR_SWAP" -> SetState(s, "READY")
    [] s.task_state = "REQUESTED" ->
         SetState([s EXCEPT !.flags = @ \cup {"CONTRACT"}], "TRANSITION")
    [] OTHER -> s

TakesCaps(s) == s.task_state \in {"DISCOVERY", "TRANSITION", "READY"}
SourceCap(s) == [s EXCEPT !.flags = @ \cup {"PREVIOUS_PD_CONN"},
                          !.new_power_request = FALSE]

\* The message m, and what is then transmitted
Handle(s0, m) ==
  LET s == IF Connected(s0) THEN s0 ELSE SetState(s0, "HARD_RESET_SEND") IN
  CASE m = "PS_RDY"             -> {Out(PsRdy(s), "none")}
    [] m \in {"REJECT", "WAIT"} -> {Out(Refused(s, m), "none")}
    [] m = "ACCEPT"             -> {Out(Accepted(s), "none")}
    [] m = "SOFT_RESET"         -> {Out(SetState(s, "DISCOVERY"), "reply")}
    [] m = "SOURCE_CAP" /\ TakesCaps(s) ->
         {Out(SourceCap(s), "none"), Out(SourceCap(s), "request")}
    [] OTHER -> {Out(s, "none")}

Messages == {"SOURCE_CAP", "ACCEPT", "REJECT", "WAIT", "PS_RDY", "SOFT_RESET"}

-----------------------------------------------------------------------------
(* The turn of the state.                                                  *)

Entered(s) == s.last_state # s.task_state

Timed(s, t) == IF Entered(s) THEN SetTimeout(s, t) ELSE s

\* SNK_DISCONNECTED
Disconnected(s) ==
  IF attached THEN SetState([s EXCEPT !.count = 0], "DEBOUNCE") ELSE s

AttachedAsSink(s) ==
  SetState([s EXCEPT !.rx_enabled = @ \/ pd_comm_enabled], "DISCOVERY")

\* SNK_DISCONNECTED_DEBOUNCE; the debounce time is over at any point
Debounce(s) ==
  IF ~attached THEN {SetState(s, "DISCONNECTED")}
               ELSE {s} \cup (IF vbus THEN {AttachedAsSink(s)} ELSE {})

\* Mutant: another hard reset after the last one.
AlwaysReset(s) == "HARD_RESET_SEND"
AfterRecovery(s) == IF s.count < PD_HARD_RESET_COUNT THEN "HARD_RESET_SEND"
                                                     ELSE "DISCOVERY"

\* SNK_HARD_RESET_RECOVER: VBUS is to go off and come back.
Recover(s) ==
  LET e == IF Entered(s) THEN SetTimeout([s EXCEPT !.vbus_off = FALSE], AfterRecovery(s))
                         ELSE s
      o == IF ~vbus /\ ~e.vbus_off
           THEN SetTimeout([e EXCEPT !.vbus_off = TRUE], "DISCONNECTED") ELSE e
  IN IF vbus /\ o.vbus_off THEN SetState(o, "DISCOVERY") ELSE o

\* SNK_DISCOVERY: wait for the capabilities of the source.
NoCaps(s) ==
  CASE "VBUS_NEVER_LOW" \in s.flags     -> "SOFT_RESET"
    [] "VBUS_NEVER_LOW" \notin s.flags /\ s.count < PD_HARD_RESET_COUNT ->
         "HARD_RESET_SEND"
    [] "VBUS_NEVER_LOW" \notin s.flags /\ s.count >= PD_HARD_RESET_COUNT
         /\ "PREVIOUS_PD_CONN" \in s.flags -> "DISCONNECTED"
    [] OTHER -> "none"

Discovery(s) ==
  IF Entered(s) /\ pd_comm_enabled /\ NoCaps(s) # "none"
  THEN SetTimeout(s, NoCaps(s)) ELSE s

\* Mutant: no time-out.
RequestedUntimed(s) == IF Entered(s) THEN [s EXCEPT !.count = 0] ELSE s
Requested(s) == IF Entered(s) THEN SetTimeout([s EXCEPT !.count = 0], "HARD_RESET_SEND")
                              ELSE s

\* Mutant: hard_reset_sent is not reset on entry.
CountedOnce(s) ==
  [s EXCEPT !.count = IF @ <= PD_HARD_RESET_COUNT THEN @ + 1 ELSE @]
\* The count stops one above its bound, where it is no longer compared.
Counted(s) ==
  [s EXCEPT !.count = IF @ <= PD_HARD_RESET_COUNT THEN @ + 1 ELSE @,
            !.sent = @ /\ ~Entered(s)]

\* SNK_READY with a new request: no fitting voltage, the same as before, or another
NewRequest(s) ==
  {Out(SetState(s, "SOFT_RESET"), "none"), Out(s, "none"), Out(s, "rerequest")}

StateTurn(s, incoming) ==
  LET quiet(S) == {Out(t, "none") : t \in S} IN
  CASE s.task_state = "DISCONNECTED" -> quiet({Disconnected(s)})
    [] s.task_state = "DEBOUNCE"     -> quiet(Debounce(s))
    [] s.task_state = "RECOVER"      -> quiet({Recover(s)})
    [] s.task_state = "DISCOVERY"    -> quiet({Discovery(s)})
    [] s.task_state = "REQUESTED"    -> quiet({Requested(s)})
    [] s.task_state = "TRANSITION"   -> quiet({Timed(s, "HARD_RESET_SEND")})
    [] s.task_state = "EXECUTE"      -> quiet({HardReset(s)})
    [] s.task_state = "READY" ->
         IF incoming \/ ~s.new_power_request THEN quiet({s})
         ELSE NewRequest([s EXCEPT !.new_power_request = FALSE])
    [] s.task_state = "DR_SWAP" ->
         {Out(s, IF Entered(s) THEN "dr_swap" ELSE "none")}
    [] s.task_state = "SOFT_RESET" ->
         {Out(s, IF Entered(s) THEN "soft_reset" ELSE "none")}
    [] s.task_state = "HARD_RESET_SEND" ->
         {Out(Counted(s), IF Counted(s).sent THEN "none" ELSE "hard_reset")}

\* The end of the turn of this_state: the time-out, and VBUS
TimedOut(s) == IF s.timeout # "none" /\ s.ripe THEN SetState(s, s.timeout) ELSE s

LostVbus(s) == IF Connected(s) /\ ~vbus /\ s.task_state \notin {"RECOVER", "EXECUTE"}
               THEN SetState(s, "DISCONNECTED") ELSE s

EndOfTurn(s, this_state) == LostVbus(TimedOut([s EXCEPT !.last_state = this_state]))

\* The rest of a turn, to its end or to a transmission
RestOfTurn(s, incoming) ==
  {IF o.op = "none" THEN Out(EndOfTurn(o.pd, s.task_state), "none") ELSE o :
     o \in StateTurn(s, incoming)}

MessageTurn(s, m) ==
  UNION {IF o.op = "none" THEN RestOfTurn(o.pd, TRUE) ELSE {o} : o \in Handle(s, m)}

Ends(o) ==
  /\ pd' = o.pd /\ op' = o.op /\ pc' = IF o.op = "none" THEN "wait" ELSE "transmit"
  /\ noticed' = (noticed \/ (o.op = "none" /\ ~vbus /\ o.pd.task_state # "EXECUTE"))

\* A turn begins, by an event or by the time-out of the wait.  If reception was
\* switched off after the event, the slot is read nevertheless.
Wake ==
  /\ pc = "wait" /\ inbox' = "none"
  /\ \E o \in CASE inbox = "none" -> RestOfTurn(pd, FALSE)
              [] inbox = "HARD_RESET" /\ pd.rx_enabled -> RestOfTurn(HardReset(pd), TRUE)
              [] inbox \in Messages /\ pd.rx_enabled   -> MessageTurn(pd, inbox)
              [] OTHER -> UNION {MessageTurn(pd, m) : m \in Messages} : Ends(o)
  /\ UNCHANGED <<console, attached, vbus, partner>>

-----------------------------------------------------------------------------
(* pd_transmit.                                                            *)

\* tcpc_run first receives what has come.  While reception is off nothing is sent,
\* and the time limit of the wait passes.
Transmit ==
  /\ pc = "transmit" /\ pd_comm_enabled
  /\ pc' = IF pd.rx_enabled THEN "sending" ELSE "blocked"
  /\ LET reset == inbox = "HARD_RESET" /\ pd.rx_enabled IN
       /\ pd' = IF reset THEN HardReset(pd) ELSE pd
       /\ inbox' = IF reset THEN "none" ELSE inbox
  /\ UNCHANGED <<op, console, cable, partner>>

\* What the partner does of what it hears.  Whatever it sends it may send unasked.
Hears ==
  /\ attached /\ ~resetting /\ resetting' = (op = "hard_reset")
  /\ UNCHANGED events

\* After a transmission that succeeded
Success(s) ==
  CASE op \in {"request", "rerequest"} -> SetState(s, "REQUESTED")
    [] op = "dr_swap"    -> SetTimeout(s, "READY")
    [] op = "soft_reset" -> SetTimeout(s, "HARD_RESET_SEND")
    [] op = "hard_reset" ->
         [SetState(s, "EXECUTE") EXCEPT !.sent = TRUE]
    [] OTHER -> s

Failure(s) ==
  CASE op \in {"rerequest", "dr_swap"} -> SetState(s, "SOFT_RESET")
    [] op = "soft_reset" -> SetState(s, "HARD_RESET_SEND")
    [] OTHER -> s

\* What follows: a message received is handled before the turn of the state.
Resume(s) ==
  CASE op \in {"request", "reply"} -> RestOfTurn(s, TRUE)
    [] op = "rerequest"  -> {Out(EndOfTurn(s, "READY"), "none")}
    [] op = "dr_swap"    -> {Out(EndOfTurn(s, "DR_SWAP"), "none")}
    [] op = "soft_reset" -> {Out(EndOfTurn(s, "SOFT_RESET"), "none")}
    [] op = "hard_reset" -> {Out(EndOfTurn(s, "HARD_RESET_SEND"), "none")}

Sent ==
  /\ pc = "sending" /\ \E o \in Resume(Success(pd)) : Ends(o)
  /\ Hears \/ UNCHANGED partner
  /\ UNCHANGED <<console, inbox, attached, vbus>>

\* No GoodCRC, a collision, or communication is disabled.
NotSent ==
  /\ pc \in {"sending", "blocked"} \/ (pc = "transmit" /\ ~pd_comm_enabled)
  /\ \E o \in Resume(Failure(pd)) : Ends(o)
  /\ UNCHANGED partner \/ (pc = "sending" /\ op # "hard_reset" /\ Hears)
  /\ UNCHANGED <<console, inbox, attached, vbus>>

-----------------------------------------------------------------------------
\* Where PD_C0 gives way
Blocked == pc \in {"wait", "sending", "blocked"}

\* The time of the time-out comes.
TimePasses ==
  /\ pd.timeout # "none" /\ ~pd.ripe /\ pd' = [pd EXCEPT !.ripe = TRUE]
  /\ UNCHANGED <<pc, op, console, inbox, cable, partner>>

-----------------------------------------------------------------------------
(* Commands of the console.  cmd names the next step: "read", "clear" and  *)
(* "write" of set_state, "limit" and "rest" of what it resets; "rx",       *)
(* "test" and "arm" of pd_comm_enable.                                     *)

CallsSetState(t) == cmd' = "read" /\ to' = t /\ UNCHANGED <<pd, pd_comm_enabled>>

\* pd tx, hard, soft; swap data and dev look at the state first.
Command ==
  /\ Blocked /\ cmd = "none" /\ commands < MaxCommands /\ commands' = commands + 1
  /\ \/ \E t \in {"DISCOVERY", "HARD_RESET_SEND", "SOFT_RESET"} : CallsSetState(t)
     \/ pd.task_state = "READY" /\ CallsSetState("DR_SWAP")
     \/ pd.task_state \notin {"READY", "TRANSITION"} /\ CallsSetState("DISCONNECTED")
     \/ /\ pd.task_state \in {"READY", "TRANSITION"}
        /\ pd' = [pd EXCEPT !.new_power_request = TRUE]
        /\ UNCHANGED <<cmd, to, pd_comm_enabled>>
     \/ /\ pd_comm_enabled' \in BOOLEAN /\ cmd' = "rx" /\ UNCHANGED <<pd, to>>
  /\ UNCHANGED <<pc, op, same, inbox, cable, partner>>

\* set_state, one access at a time
CommandReads ==
  /\ Blocked /\ cmd = "read" /\ same' = (pd.task_state = to) /\ cmd' = "clear"
  /\ UNCHANGED <<pd, pc, op, to, commands, pd_comm_enabled, inbox, cable, partner>>

CommandClears ==
  /\ Blocked /\ cmd = "clear" /\ pd' = SetTimeout(pd, "none") /\ cmd' = "write"
  /\ UNCHANGED <<pc, op, to, same, commands, pd_comm_enabled, inbox, cable, partner>>

CommandWrites ==
  /\ Blocked /\ cmd = "write"
  /\ pd' = [pd EXCEPT !.task_state = to, !.again = (to = pd.last_state),
              !.skipped = @ \/ (to = "DISCONNECTED" /\ same /\ pd.task_state # to)]
  /\ cmd' = (IF to = "DISCONNECTED" /\ ~same THEN "limit" ELSE "none")
  /\ to' = "none" /\ same' = FALSE
  /\ UNCHANGED <<pc, op, commands, pd_comm_enabled, inbox, cable, partner>>

CommandResets ==
  /\ Blocked
  /\ \/ cmd = "limit" /\ pd' = ClearLimit(pd) /\ cmd' = "rest"
     \/ cmd = "rest" /\ pd' = ClearRest(pd) /\ cmd' = "none"
  /\ UNCHANGED <<pc, op, to, same, commands, pd_comm_enabled, inbox, cable, partner>>

\* pd_comm_enable
CommandEnables ==
  /\ Blocked
  /\ \/ /\ cmd = "rx" /\ cmd' = (IF pd_comm_enabled THEN "test" ELSE "none")
        /\ pd' = IF Connected(pd) THEN [pd EXCEPT !.rx_enabled = pd_comm_enabled] ELSE pd
     \/ /\ cmd = "test" /\ cmd' = (IF pd.task_state = "DISCOVERY" THEN "arm" ELSE "none")
        /\ UNCHANGED pd
     \/ cmd = "arm" /\ pd' = SetTimeout(pd, "HARD_RESET_SEND") /\ cmd' = "none"
  /\ UNCHANGED <<pc, op, to, same, commands, pd_comm_enabled, inbox, cable, partner>>

CommandGoesOn == CommandReads \/ CommandClears \/ CommandWrites
                 \/ CommandResets \/ CommandEnables

-----------------------------------------------------------------------------
(* The partner and the cable.                                              *)

Attach ==
  /\ pc = "wait" /\ inbox = "none" /\ ~attached /\ noticed
  /\ events < MaxEvents /\ events' = events + 1
  /\ attached' = TRUE /\ vbus' = TRUE
  /\ UNCHANGED <<pd, pc, op, console, inbox, noticed, resetting>>

Detach ==
  /\ Blocked /\ attached /\ attached' = FALSE /\ vbus' = FALSE /\ noticed' = (noticed /\ ~vbus)
  /\ resetting' = FALSE
  /\ UNCHANGED <<pd, pc, op, console, inbox, events>>

PartnerSends ==
  /\ Blocked \/ pc = "transmit"
  /\ attached /\ ~resetting /\ inbox = "none" /\ pd.rx_enabled /\ inbox' \in Messages
  /\ UNCHANGED <<pd, pc, op, console, cable, partner>>

\* A hard reset of the partner, heard while reception is on
PartnerResets ==
  /\ Blocked \/ pc = "transmit"
  /\ attached /\ ~resetting /\ resetting' = TRUE
  /\ events < MaxEvents /\ events' = events + 1
  /\ inbox' = IF pd.rx_enabled THEN "HARD_RESET" ELSE inbox
  /\ UNCHANGED <<pd, pc, op, console, cable>>

\* A source that resets takes VBUS away, for longer than PD_C0 ever waits or sends.
SourceOff ==
  /\ Blocked /\ resetting /\ vbus /\ vbus' = FALSE /\ noticed' = FALSE
  /\ UNCHANGED <<pd, pc, op, console, inbox, attached, partner>>

SourceOn ==
  /\ pc = "wait" /\ inbox = "none" /\ resetting /\ ~vbus /\ noticed
  /\ vbus' = TRUE /\ resetting' = FALSE
  /\ UNCHANGED <<pd, pc, op, console, inbox, attached, noticed, events>>

-----------------------------------------------------------------------------
PdTask == Wake \/ Transmit \/ NotSent
Next == PdTask \/ Sent \/ TimePasses \/ Command \/ CommandGoesOn
        \/ Attach \/ Detach \/ PartnerSends \/ PartnerResets \/ SourceOff \/ SourceOn

Spec == Init /\ [][Next]_vars

\* PD_C0 has the highest priority and waits with a time-out, time passes, a command
\* comes to its end, and the line is not always busy.
FairSpec == /\ Spec /\ WF_vars(PdTask \/ Sent) /\ WF_vars(TimePasses)
            /\ SF_vars(CommandGoesOn) /\ SF_vars(Sent)

-----------------------------------------------------------------------------
PdType == [task_state : States, last_state : States, timeout : States \cup {"none"},
           ripe : BOOLEAN, rx_enabled : BOOLEAN,
           flags : SUBSET {"VBUS_NEVER_LOW", "CONTRACT", "PREVIOUS_PD_CONN"},
           new_power_request : BOOLEAN, limit : BOOLEAN,
           count : 0 .. PD_HARD_RESET_COUNT + 1,
           sent : BOOLEAN, vbus_off : BOOLEAN, again : BOOLEAN, skipped : BOOLEAN]

TypeOK ==
  /\ pd \in PdType
  /\ pc \in {"wait", "transmit", "sending", "blocked"}
  /\ op \in {"none", "reply", "request", "rerequest", "dr_swap", "soft_reset", "hard_reset"}
  /\ cmd \in {"none", "read", "clear", "write", "limit", "rest", "rx", "test", "arm"}
  /\ to \in States \cup {"none"} /\ same \in BOOLEAN
  /\ inbox \in Messages \cup {"none", "HARD_RESET"}
  /\ {pd_comm_enabled, attached, vbus, noticed, resetting} \subseteq BOOLEAN

\* States that a time-out ends if the partner does not
WaitingForPartner == {"REQUESTED", "TRANSITION", "SOFT_RESET", "DR_SWAP", "RECOVER"}

(* PD_C0 never sleeps without a time-out in a state in which only the      *)
(* partner could get it out: what set_state_timeout armed on entry is      *)
(* still armed, or was replaced, whatever message, command of the console  *)
(* or failed transmission came in between.  Except in a state that was set *)
(* again before the turn of the one between, see again, and while a        *)
(* command has cleared the time-out and not yet written the state.         *)
TimerArmed ==
  (/\ pc = "wait" /\ pd.last_state = pd.task_state /\ ~pd.again /\ cmd # "write"
   /\ pd.task_state \in WaitingForPartner) => pd.timeout # "none"

(* A port that is disconnected, or recovers from a hard reset, shows no    *)
(* voltage: the input limit PS_RDY has set is taken back on every way to   *)
(* these states, the hard reset of either side, a lost VBUS, a time-out    *)
(* and a command of the console, wherever PD_C0 runs between its accesses. *)
(* Except between its write of the state and its clearing of the limit,    *)
(* and when it skipped that, see skipped.                                  *)
LimitOff ==
  (/\ pc = "wait" /\ cmd # "limit" /\ ~pd.skipped
   /\ pd.task_state \in {"DISCONNECTED", "DEBOUNCE", "RECOVER"}) => ~pd.limit

(* PD_HARD_RESET_COUNT: a source that keeps VBUS on and sends nothing is   *)
(* not reset for ever.  Not so when VBUS was on from the start: on this    *)
(* board nothing calls pd_vbus_low.                                        *)
FewResets ==
  <>[](vbus /\ inbox = "none" /\ "VBUS_NEVER_LOW" \notin pd.flags)
    => <>[]~(pc = "sending" /\ op = "hard_reset")


(* A hard reset is tried until it is sent, however often it collides and   *)
(* whatever arrives meanwhile, as long as the reception is on: without it  *)
(* nothing can be sent.                                                    *)
ResetSent ==
  (pd.task_state = "HARD_RESET_SEND")
    ~> (pd.task_state # "HARD_RESET_SEND" \/ pd.again \/ ~pd.rx_enabled)
=============================================================================
