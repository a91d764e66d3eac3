---------------------------- MODULE PdSink_proofs ----------------------------
(***************************************************************************)
(* For every number of commands, connections and resets: the policy engine *)
(* never waits for the partner without a time-out, and a port that is      *)
(* disconnected or recovers from a hard reset shows no voltage.            *)
(***************************************************************************)
EXTENDS PdSink, TLAPS

Unset == {"DISCONNECTED", "DEBOUNCE", "RECOVER"}
\* The states a time-out or set_state leads to, but for the two with one way in
Targets == States \ {"DEBOUNCE", "RECOVER"}
Ops == {"none", "reply", "request", "rerequest", "dr_swap", "soft_reset", "hard_reset"}

\* Whatever state is set again before its turn is exempt; any other in which its turn
\* has come has its time-out, if the step c of a command is not the one that follows
\* the clearing of it.
Armed(s, this_state, c) ==
  (/\ s.task_state = this_state /\ ~s.again /\ this_state \in WaitingForPartner
   /\ c # "write") => s.timeout # "none"

\* c = "limit": a command has set the state and not yet reset the limit.
Sound(s, c) ==
  /\ s \in PdType /\ s.timeout \in Targets \cup {"none"}
  /\ c = "limit" \/ s.skipped \/ (s.limit => s.task_state \notin Unset)

Ok(s, c) == Sound(s, c) /\ Armed(s, s.last_state, c)

\* set_state is called with a state.
Called == cmd \in {"read", "clear", "write"} => to \in Targets

Inv ==
  /\ TypeOK /\ Called /\ Ok(pd, cmd)
  /\ pc # "wait" => op # "none"

-----------------------------------------------------------------------------
(* The operators of the model, one by one.                                 *)

LEMMA SetTimeoutOk ==
  ASSUME NEW s, NEW c, Sound(s, c), NEW t \in Targets
  PROVE  /\ Ok(SetTimeout(s, t), c)
         /\ SetTimeout(s, t).task_state = s.task_state
         /\ SetTimeout(s, t).timeout = t
<1> DEFINE r == SetTimeout(s, t)
<1>1. s \in PdType /\ t # "none" /\ t \in States
  BY DEF Sound, Targets, States
<1>2. r \in PdType /\ r.timeout = t /\ r.task_state = s.task_state /\ r.limit = s.limit
      /\ r.skipped = s.skipped
  BY <1>1 DEF SetTimeout, PdType
<1> QED BY <1>1, <1>2 DEF Ok, Sound, Armed

LEMMA AssignedFields ==
  ASSUME NEW s \in PdType, NEW t \in States
  PROVE  /\ Assigned(s, t) \in PdType
         /\ Assigned(s, t).task_state = t /\ Assigned(s, t).timeout = "none"
         /\ Assigned(s, t).last_state = s.last_state
         /\ Assigned(s, t).again = (t = s.last_state)
         /\ Assigned(s, t).limit = s.limit /\ Assigned(s, t).skipped = s.skipped
<1> DEFINE r == SetTimeout(s, "none")
<1>1. r \in PdType /\ r.last_state = s.last_state /\ r.limit = s.limit /\ r.timeout = "none"
      /\ r.skipped = s.skipped
  BY DEF SetTimeout, PdType
<1>2. Assigned(s, t) = [r EXCEPT !.task_state = t, !.again = (t = s.last_state)]
  BY DEF Assigned
<1>3. (t = s.last_state) \in BOOLEAN
  OBVIOUS
<1> HIDE DEF r
<1> QED BY <1>1, <1>2, <1>3 DEF PdType

LEMMA ResetFields ==
  ASSUME NEW s \in PdType, NEW r \in {ClearLimit(s), ClearRest(s), ResetOnDisconnect(s)}
  PROVE  /\ r \in PdType /\ r.task_state = s.task_state /\ r.last_state = s.last_state
         /\ r.timeout = s.timeout /\ r.again = s.again
<1>1. CASE r = ClearLimit(s)
  BY <1>1 DEF ClearLimit, PdType
<1>2. CASE r = ClearRest(s)
  BY <1>2 DEF ClearRest, PdType
<1>3. CASE r = ResetOnDisconnect(s)
  BY <1>3 DEF ResetOnDisconnect, ClearLimit, ClearRest, PdType
<1> QED BY <1>1, <1>2, <1>3

LEMMA SetStateFields ==
  ASSUME NEW s \in PdType, NEW t \in States
  PROVE  /\ SetState(s, t) \in PdType
         /\ SetState(s, t).task_state = t /\ SetState(s, t).timeout = "none"
         /\ SetState(s, t).last_state = s.last_state
         /\ SetState(s, t).again = (t = s.last_state)
         /\ SetState(s, t).limit => /\ s.limit /\ (t # "DISCONNECTED" \/ s.task_state = t)
                                    /\ SetState(s, t).skipped = s.skipped
<1> DEFINE r == Assigned(s, t)
<1>1. r \in PdType /\ r.task_state = t /\ r.timeout = "none" /\ r.last_state = s.last_state
      /\ r.again = (t = s.last_state) /\ r.limit = s.limit /\ r.skipped = s.skipped
  BY AssignedFields
<1>2. SetState(s, t) = IF t = "DISCONNECTED" /\ s.task_state # t
                       THEN ResetOnDisconnect(r) ELSE r
  BY DEF SetState
<1> HIDE DEF r
<1>3. CASE t = "DISCONNECTED" /\ s.task_state # t
  <2> DEFINE u == ResetOnDisconnect(r)
  <2>1. SetState(s, t) = u
    BY <1>2, <1>3
  <2>2. u \in PdType /\ u.limit = FALSE
    BY <1>1 DEF ResetOnDisconnect, ClearLimit, ClearRest, PdType
  <2>3. /\ u.task_state = r.task_state /\ u.last_state = r.last_state
        /\ u.timeout = r.timeout /\ u.again = r.again
    BY <1>1, ResetFields
  <2> HIDE DEF u
  <2> QED BY <1>1, <2>1, <2>2, <2>3
<1>4. CASE ~(t = "DISCONNECTED" /\ s.task_state # t)
  <2>1. SetState(s, t) = r
    BY <1>2, <1>4
  <2> QED BY <1>1, <1>4, <2>1
<1> QED BY <1>3, <1>4

LEMMA SetStateOk ==
  ASSUME NEW s, NEW c, Sound(s, c), NEW t \in Targets
  PROVE  /\ Ok(SetState(s, t), c)
         /\ SetState(s, t).task_state = t /\ SetState(s, t).last_state = s.last_state
<1> DEFINE r == SetState(s, t)
<1>1. s \in PdType /\ t \in States /\ t \notin {"DEBOUNCE", "RECOVER"}
      /\ (c = "limit" \/ s.skipped \/ (s.limit => s.task_state \notin Unset))
  BY DEF Sound, Targets
<1>2. r \in PdType /\ r.task_state = t /\ r.timeout = "none" /\ r.last_state = s.last_state
      /\ r.again = (t = s.last_state)
      /\ (r.limit => /\ s.limit /\ (t # "DISCONNECTED" \/ s.task_state = t)
                     /\ r.skipped = s.skipped)
  BY <1>1, SetStateFields
<1> HIDE DEF r
<1>3. c = "limit" \/ r.skipped \/ (r.limit => r.task_state \notin Unset)
  BY <1>1, <1>2 DEF Unset
<1>4. Sound(r, c)
  BY <1>2, <1>3 DEF Sound
<1>5. Armed(r, r.last_state, c)
  BY <1>2 DEF Armed
<1> QED BY <1>2, <1>4, <1>5 DEF Ok, r

LEMMA HardResetOk ==
  ASSUME NEW s, NEW c, Sound(s, c)
  PROVE  /\ Ok(HardReset(s), c)
         /\ HardReset(s).task_state = "RECOVER" /\ HardReset(s).last_state = "EXECUTE"
<1> DEFINE r == ClearLimit([s EXCEPT !.last_state = "EXECUTE"])
<1>1. r \in PdType /\ r.last_state = "EXECUTE" /\ r.limit = FALSE
  BY DEF Sound, PdType, States, ClearLimit
<1>2. HardReset(s) = SetState(r, "RECOVER") /\ "RECOVER" \in States
  BY DEF HardReset, States
<1> HIDE DEF r
<1> QED BY <1>1, <1>2, SetStateFields DEF Ok, Sound, Armed

\* A record that differs in fields of no interest here
Alike(r, s) ==
  /\ r \in PdType /\ r.task_state = s.task_state /\ r.last_state = s.last_state
  /\ r.timeout = s.timeout /\ r.limit = s.limit /\ r.again = s.again
  /\ r.skipped = s.skipped

LEMMA AlikeOk ==
  ASSUME NEW s, NEW r, NEW c, Sound(s, c), Alike(r, s)
  PROVE  /\ Sound(r, c) /\ (Ok(s, c) => Ok(r, c))
         /\ \A x : Armed(s, x, c) => Armed(r, x, c)
BY DEF Sound, Alike, Ok, Armed

LEMMA AlikeRecords ==
  ASSUME NEW s \in PdType
  PROVE  /\ Alike(s, s)
         /\ \A F \in SUBSET {"VBUS_NEVER_LOW", "CONTRACT", "PREVIOUS_PD_CONN"} :
              Alike([s EXCEPT !.flags = F], s)
         /\ \A b \in BOOLEAN : /\ Alike([s EXCEPT !.ripe = b], s)
                              /\ Alike([s EXCEPT !.rx_enabled = b], s)
                              /\ Alike([s EXCEPT !.new_power_request = b], s)
                              /\ Alike([s EXCEPT !.vbus_off = b], s)
                              /\ Alike([s EXCEPT !.sent = b], s)
         /\ Alike([s EXCEPT !.count = 0], s)
         /\ Alike(SourceCap(s), s) /\ Alike(Counted(s), s)
<1>1. Alike(s, s)
  BY DEF Alike
<1>2. ASSUME NEW F \in SUBSET {"VBUS_NEVER_LOW", "CONTRACT", "PREVIOUS_PD_CONN"}
      PROVE  Alike([s EXCEPT !.flags = F], s)
  BY DEF Alike, PdType
<1>3. ASSUME NEW b \in BOOLEAN
      PROVE  /\ Alike([s EXCEPT !.ripe = b], s)
             /\ Alike([s EXCEPT !.rx_enabled = b], s)
             /\ Alike([s EXCEPT !.new_power_request = b], s)
             /\ Alike([s EXCEPT !.vbus_off = b], s)
             /\ Alike([s EXCEPT !.sent = b], s)
  BY DEF Alike, PdType
<1>4. Alike([s EXCEPT !.count = 0], s)
  BY SinkAssumption DEF Alike, PdType
<1>5. Alike(SourceCap(s), s)
  BY DEF Alike, PdType, SourceCap
<1>6. Alike(Counted(s), s)
  <2> DEFINE n == IF s.count <= PD_HARD_RESET_COUNT THEN s.count + 1 ELSE s.count
             b == s.sent /\ ~Entered(s)
  <2>1. n \in 0 .. PD_HARD_RESET_COUNT + 1
    BY SinkAssumption DEF PdType
  <2>2. b \in BOOLEAN
    BY DEF PdType, Entered
  <2>3. Counted(s) = [s EXCEPT !.count = n, !.sent = b]
    BY DEF Counted
  <2> HIDE DEF n, b
  <2> QED BY <2>1, <2>2, <2>3 DEF Alike, PdType
<1> QED BY <1>1, <1>2, <1>3, <1>4, <1>5, <1>6
-----------------------------------------------------------------------------
(* A message.                                                              *)

LEMMA PsRdyOk ==
  ASSUME NEW s, NEW c, Ok(s, c)
  PROVE  Ok(PsRdy(s), c)
<1>1. Sound(s, c) /\ {"READY", "HARD_RESET_SEND"} \subseteq Targets
  BY DEF Ok, Targets, States
<1>2. CASE s.task_state = "DISCOVERY"
  BY <1>1, <1>2, SetStateOk DEF PsRdy
<1>3. CASE s.task_state # "DISCOVERY"
  <2> DEFINE r == SetState(s, "READY")
             l == [r EXCEPT !.limit = TRUE, !.skipped = FALSE]
  <2>1. Ok(r, c) /\ r.task_state = "READY"
    BY <1>1, SetStateOk
  <2>2. PsRdy(s) = l
    BY <1>3 DEF PsRdy
  <2> HIDE DEF r
  <2>3. r \in PdType /\ r.timeout \in Targets \cup {"none"}
    BY <2>1 DEF Ok, Sound
  <2>4. l \in PdType /\ l.task_state = "READY" /\ l.timeout = r.timeout
    BY <2>1, <2>3 DEF PdType
  <2> HIDE DEF l
  <2>5. Sound(l, c)
    BY <2>3, <2>4 DEF Sound, Unset
  <2>6. Armed(l, l.last_state, c)
    BY <2>4 DEF Armed, WaitingForPartner
  <2> QED BY <2>2, <2>5, <2>6 DEF Ok
<1> QED BY <1>2, <1>3

LEMMA RefusedOk ==
  ASSUME NEW s, NEW c, Ok(s, c), NEW m \in {"REJECT", "WAIT"}
  PROVE  Ok(Refused(s, m), c)
<1> DEFINE r == [s EXCEPT !.new_power_request = TRUE]
<1>1. Sound(s, c) /\ {"READY", "DISCOVERY"} \subseteq Targets
  BY DEF Ok, Targets, States
<1>2. Sound(r, c)
  BY <1>1, AlikeRecords, AlikeOk DEF Sound
<1>3. Ok(SetState(s, "READY"), c) /\ Ok(SetState(s, "DISCOVERY"), c)
      /\ Ok(SetTimeout(r, "READY"), c)
  BY <1>1, <1>2, SetStateOk, SetTimeoutOk
<1> HIDE DEF r
<1>4. Refused(s, m) \in {SetState(s, "READY"), SetState(s, "DISCOVERY"),
                        SetTimeout(r, "READY"), s}
  BY DEF Refused, r
<1> QED BY <1>3, <1>4

LEMMA AcceptedOk ==
  ASSUME NEW s, NEW c, Ok(s, c)
  PROVE  Ok(Accepted(s), c)
<1> DEFINE a == [s EXCEPT !.flags = @ \ {"VBUS_NEVER_LOW"}]
           b == [s EXCEPT !.flags = @ \cup {"CONTRACT"}]
<1>1. Sound(s, c) /\ {"READY", "DISCOVERY", "TRANSITION"} \subseteq Targets
  BY DEF Ok, Targets, States
<1>2. {s.flags \ {"VBUS_NEVER_LOW"}, s.flags \cup {"CONTRACT"}}
        \subseteq SUBSET {"VBUS_NEVER_LOW", "CONTRACT", "PREVIOUS_PD_CONN"}
  BY <1>1 DEF Sound, PdType
<1>3. Sound(a, c) /\ Sound(b, c)
  <2>1. Alike(a, s)
    BY <1>1, <1>2, AlikeRecords DEF Sound
  <2>2. Alike(b, s)
    BY <1>1, <1>2, AlikeRecords DEF Sound
  <2> HIDE DEF a, b
  <2> QED BY <1>1, <2>1, <2>2, AlikeOk
<1> HIDE DEF a, b
<1>4. Ok(SetState(s, "READY"), c) /\ Ok(SetState(a, "DISCOVERY"), c)
      /\ Ok(SetState(b, "TRANSITION"), c)
  BY <1>1, <1>3, SetStateOk
<1>5. Accepted(s) \in {SetState(s, "READY"), SetState(a, "DISCOVERY"),
                      SetState(b, "TRANSITION"), s}
  BY DEF Accepted, a, b
<1> QED BY <1>4, <1>5

LEMMA HandleOk ==
  ASSUME NEW s0, NEW c, Ok(s0, c), NEW m \in Messages, NEW o \in Handle(s0, m)
  PROVE  Ok(o.pd, c) /\ o.op \in {"none", "reply", "request"}
<1> DEFINE s == IF Connected(s0) THEN s0 ELSE SetState(s0, "HARD_RESET_SEND")
<1>1. Sound(s0, c) /\ {"HARD_RESET_SEND", "DISCOVERY"} \subseteq Targets
  BY DEF Ok, Targets, States
<1>2. Ok(s, c)
  BY <1>1, SetStateOk
<1> HIDE DEF s
<1>3. Sound(s, c)
  BY <1>2 DEF Ok
<1>4. Ok(SourceCap(s), c) /\ Ok(SetState(s, "DISCOVERY"), c)
      /\ Ok(PsRdy(s), c) /\ Ok(Accepted(s), c)
  <2>1. Alike(SourceCap(s), s)
    BY <1>3, AlikeRecords DEF Sound
  <2> QED BY <1>1, <1>2, <1>3, <2>1, AlikeOk, SetStateOk, PsRdyOk, AcceptedOk
<1>5. CASE m \in {"REJECT", "WAIT"}
  <2>1. o = Out(Refused(s, m), "none")
    BY <1>5 DEF Handle, s
  <2> QED BY <1>2, <1>5, <2>1, RefusedOk DEF Out
<1>6. CASE m \notin {"REJECT", "WAIT"}
  <2>1. o \in {Out(PsRdy(s), "none"), Out(Accepted(s), "none"), Out(s, "none"),
              Out(SetState(s, "DISCOVERY"), "reply"), Out(SourceCap(s), "none"),
              Out(SourceCap(s), "request")}
    BY <1>6 DEF Handle, s, Messages
  <2> QED BY <1>2, <1>4, <2>1 DEF Out
<1> QED BY <1>5, <1>6
-----------------------------------------------------------------------------
(* The turn of the state, and its end.                                     *)

\* What a turn may leave: this_state may be new, and is then entered.
TurnOk(o, this_state, c) ==
  /\ o.op \in Ops /\ Sound(o.pd, c)
  /\ IF o.op = "none" THEN Armed(o.pd, this_state, c) ELSE Ok(o.pd, c)

LEMMA NotWaiting ==
  ASSUME NEW s, NEW c, NEW x, x \notin WaitingForPartner
  PROVE  Armed(s, x, c)
BY DEF Armed

LEMMA EnteredArmed ==
  ASSUME NEW s, NEW c, Ok(s, c), ~Entered(s)
  PROVE  Armed(s, s.task_state, c)
BY DEF Ok, Armed, Entered

LEMMA RecoverOk ==
  ASSUME NEW s, NEW c, Ok(s, c)
  PROVE  Sound(Recover(s), c) /\ Armed(Recover(s), s.task_state, c)
<1> DEFINE z == [s EXCEPT !.vbus_off = FALSE]
           e == IF Entered(s) THEN SetTimeout(z, AfterRecovery(s)) ELSE s
           y == [e EXCEPT !.vbus_off = TRUE]
           o == IF ~vbus /\ ~e.vbus_off THEN SetTimeout(y, "DISCONNECTED") ELSE e
<1>1. Sound(s, c) /\ {"HARD_RESET_SEND", "DISCOVERY", "DISCONNECTED"} \subseteq Targets
  BY DEF Ok, Targets, States
<1>2. AfterRecovery(s) \in Targets /\ AfterRecovery(s) # "none"
  BY <1>1 DEF AfterRecovery
<1>3. Sound(z, c)
  BY <1>1, AlikeRecords, AlikeOk DEF Sound
<1>4. Sound(e, c) /\ e.task_state = s.task_state /\ Armed(e, s.task_state, c)
  <2>1. CASE Entered(s)
    <3> HIDE DEF z
    <3>1. z.task_state = s.task_state
      BY <1>1 DEF z, Sound, PdType
    <3>2. e = SetTimeout(z, AfterRecovery(s))
      BY <2>1
    <3>3. Ok(e, c) /\ e.task_state = s.task_state /\ e.timeout = AfterRecovery(s)
      BY <1>2, <1>3, <3>1, <3>2, SetTimeoutOk
    <3> HIDE DEF e
    <3> QED BY <1>2, <3>3 DEF Ok, Armed
  <2>2. CASE ~Entered(s)
    BY <1>1, <2>2, EnteredArmed
  <2> QED BY <2>1, <2>2
<1> HIDE DEF e, z
<1>5. Sound(y, c) /\ y.task_state = e.task_state
  BY <1>4, AlikeRecords, AlikeOk DEF Sound, Alike
<1>6. Sound(o, c) /\ o.task_state = s.task_state /\ Armed(o, s.task_state, c)
  <2>1. CASE ~vbus /\ ~e.vbus_off
    <3> HIDE DEF y
    <3>1. o = SetTimeout(y, "DISCONNECTED")
      BY <2>1
    <3>2. Ok(o, c) /\ o.task_state = s.task_state /\ o.timeout = "DISCONNECTED"
      BY <1>1, <1>4, <1>5, <3>1, SetTimeoutOk
    <3> HIDE DEF o
    <3> QED BY <3>2 DEF Ok, Armed
  <2>2. CASE ~(~vbus /\ ~e.vbus_off)
    BY <1>4, <2>2
  <2> QED BY <2>1, <2>2
<1>7. Recover(s) = IF vbus /\ o.vbus_off THEN SetState(o, "DISCOVERY") ELSE o
  BY DEF Recover, o, y, e, z
<1> HIDE DEF o
<1>8. CASE vbus /\ o.vbus_off
  <2> DEFINE r == SetState(o, "DISCOVERY")
  <2>1. Ok(r, c) /\ r.task_state = "DISCOVERY"
    BY <1>1, <1>6, SetStateOk
  <2>2. Recover(s) = r
    BY <1>7, <1>8
  <2> HIDE DEF r
  <2> QED BY <2>1, <2>2 DEF Ok, Armed, WaitingForPartner
<1>9. CASE ~(vbus /\ o.vbus_off)
  BY <1>6, <1>7, <1>9
<1> QED BY <1>8, <1>9

LEMMA TimedOk ==
  ASSUME NEW s, NEW c, Ok(s, c), NEW z, Alike(z, s), NEW t \in Targets
  PROVE  LET r == IF Entered(s) THEN SetTimeout(z, t) ELSE s
         IN  Sound(r, c) /\ Armed(r, s.task_state, c)
<1>1. Sound(s, c) /\ Sound(z, c) /\ z.task_state = s.task_state /\ t # "none"
  BY AlikeOk DEF Ok, Alike, Targets, States
<1>2. CASE Entered(s)
  <2> DEFINE r == SetTimeout(z, t)
  <2>1. Sound(r, c) /\ r.timeout = t
    BY <1>1, SetTimeoutOk DEF Ok
  <2> HIDE DEF r
  <2>2. Armed(r, s.task_state, c)
    BY <1>1, <2>1 DEF Armed
  <2> QED BY <1>2, <2>1, <2>2 DEF r
<1>3. CASE ~Entered(s)
  BY <1>1, <1>3, EnteredArmed
<1> QED BY <1>2, <1>3
LEMMA DiscoveryOk ==
  ASSUME NEW s, NEW c, Ok(s, c), s.task_state = "DISCOVERY"
  PROVE  Sound(Discovery(s), c) /\ Armed(Discovery(s), "DISCOVERY", c)
<1>1. Sound(s, c)
  BY DEF Ok
<1>2. ASSUME NoCaps(s) # "none"
      PROVE  NoCaps(s) \in Targets
  BY <1>2 DEF NoCaps, Targets, States
<1>3. Sound(Discovery(s), c)
  <2>1. CASE Entered(s) /\ pd_comm_enabled /\ NoCaps(s) # "none"
    <3>1. Discovery(s) = SetTimeout(s, NoCaps(s)) /\ NoCaps(s) \in Targets
      BY <1>2, <2>1 DEF Discovery
    <3> QED BY <1>1, <3>1, SetTimeoutOk DEF Ok
  <2>2. CASE ~(Entered(s) /\ pd_comm_enabled /\ NoCaps(s) # "none")
    BY <1>1, <2>2 DEF Discovery
  <2> QED BY <2>1, <2>2
<1> QED BY <1>3, NotWaiting DEF WaitingForPartner

\* The two states without a connection are left with the limit off.
LEMMA UnconnectedOk ==
  ASSUME NEW s, NEW c, Ok(s, c), s.task_state \in {"DISCONNECTED", "DEBOUNCE"},
         NEW r, Alike(r, s), NEW t \in States
  PROVE  Sound(SetState(r, t), c) /\ Armed(SetState(r, t), s.task_state, c)
<1> DEFINE u == SetState(r, t)
<1>1. r \in PdType /\ (c = "limit" \/ r.skipped \/ ~r.limit)
  BY DEF Ok, Sound, Alike, Unset
<1>2. u \in PdType /\ u.timeout = "none" /\ (u.limit => r.limit /\ u.skipped = r.skipped)
  BY <1>1, SetStateFields
<1> HIDE DEF u
<1>3. Sound(u, c)
  BY <1>1, <1>2 DEF Sound
<1> QED BY <1>3, NotWaiting DEF u, WaitingForPartner

LEMMA StateTurnOk ==
  ASSUME NEW s, NEW c, Ok(s, c), NEW incoming,
         NEW o \in StateTurn(s, incoming)
  PROVE  TurnOk(o, s.task_state, c)
<1>1. Sound(s, c) /\ s \in PdType /\ s.task_state \in States
      /\ {"READY", "DISCOVERY", "HARD_RESET_SEND", "SOFT_RESET"} \subseteq Targets
  BY DEF Ok, Sound, PdType, Targets, States
<1>2. ASSUME NEW r, o = Out(r, "none"), Sound(r, c), Armed(r, s.task_state, c)
      PROVE  TurnOk(o, s.task_state, c)
  BY <1>2 DEF TurnOk, Out, Ops
<1>3. ASSUME NEW r, NEW x \in Ops, x # "none", o = Out(r, x), Ok(r, c)
      PROVE  TurnOk(o, s.task_state, c)
  BY <1>3 DEF TurnOk, Out, Ok
<1>4. CASE s.task_state = "DISCONNECTED"
  <2> DEFINE r == [s EXCEPT !.count = 0]
  <2>1. Alike(r, s)
    BY <1>1, AlikeRecords
  <2>2. o = Out(Disconnected(s), "none") /\ Disconnected(s) \in {SetState(r, "DEBOUNCE"), s}
    BY <1>4 DEF StateTurn, Disconnected
  <2> HIDE DEF r
  <2>3. Sound(SetState(r, "DEBOUNCE"), c) /\ Armed(SetState(r, "DEBOUNCE"), s.task_state, c)
    BY <1>4, <2>1, UnconnectedOk DEF States
  <2>4. Armed(s, s.task_state, c)
    BY <1>4, NotWaiting DEF WaitingForPartner
  <2> QED BY <1>1, <1>2, <2>2, <2>3, <2>4
<1>5. CASE s.task_state = "DEBOUNCE"
  <2> DEFINE x == s.rx_enabled \/ pd_comm_enabled
             q == [s EXCEPT !.rx_enabled = x]
  <2>1. o \in {Out(SetState(s, "DISCONNECTED"), "none"), Out(s, "none"),
              Out(SetState(q, "DISCOVERY"), "none")}
    BY <1>5 DEF StateTurn, Debounce, AttachedAsSink
  <2>2. x \in BOOLEAN
    BY <1>1 DEF PdType
  <2> HIDE DEF x
  <2>3. Alike(q, s) /\ Alike(s, s)
    BY <1>1, <2>2, AlikeRecords
  <2> HIDE DEF q
  <2>4. Sound(SetState(q, "DISCOVERY"), c) /\ Armed(SetState(q, "DISCOVERY"), s.task_state, c)
    BY <1>5, <2>3, UnconnectedOk DEF States
  <2>5. Sound(SetState(s, "DISCONNECTED"), c)
        /\ Armed(SetState(s, "DISCONNECTED"), s.task_state, c)
    BY <1>5, <2>3, UnconnectedOk DEF States
  <2>6. Armed(s, s.task_state, c)
    BY <1>5, NotWaiting DEF WaitingForPartner
  <2> QED BY <1>1, <1>2, <2>1, <2>4, <2>5, <2>6
<1>6. CASE s.task_state = "RECOVER"
  <2>1. o = Out(Recover(s), "none")
    BY <1>6 DEF StateTurn
  <2> QED BY <1>2, <2>1, RecoverOk
<1>7. CASE s.task_state = "DISCOVERY"
  <2>1. o = Out(Discovery(s), "none")
    BY <1>7 DEF StateTurn
  <2> QED BY <1>2, <1>7, <2>1, DiscoveryOk
<1>8. CASE s.task_state = "REQUESTED"
  <2> DEFINE z == [s EXCEPT !.count = 0]
  <2>1. Alike(z, s)
    BY <1>1, AlikeRecords
  <2>2. o = Out(Requested(s), "none")
        /\ Requested(s) = IF Entered(s) THEN SetTimeout(z, "HARD_RESET_SEND") ELSE s
    BY <1>8 DEF StateTurn, Requested
  <2> HIDE DEF z
  <2>3. Sound(Requested(s), c) /\ Armed(Requested(s), s.task_state, c)
    BY <1>1, <2>1, <2>2, TimedOk
  <2> QED BY <1>2, <2>2, <2>3
<1>9. CASE s.task_state = "TRANSITION"
  <2>1. Alike(s, s)
    BY <1>1, AlikeRecords
  <2>2. o = Out(Timed(s, "HARD_RESET_SEND"), "none")
    BY <1>9 DEF StateTurn
  <2>3. Sound(Timed(s, "HARD_RESET_SEND"), c)
        /\ Armed(Timed(s, "HARD_RESET_SEND"), s.task_state, c)
    BY <1>1, <2>1, TimedOk DEF Timed
  <2> QED BY <1>2, <2>2, <2>3
<1>10. CASE s.task_state = "EXECUTE"
  <2>1. o = Out(HardReset(s), "none")
    BY <1>10 DEF StateTurn
  <2>2. Sound(HardReset(s), c) /\ Armed(HardReset(s), s.task_state, c)
    BY <1>1, <1>10, HardResetOk, NotWaiting DEF Ok, WaitingForPartner
  <2> QED BY <1>2, <2>1, <2>2
<1>11. CASE s.task_state = "READY"
  <2> DEFINE r == [s EXCEPT !.new_power_request = FALSE]
  <2>1. o \in {Out(s, "none"), Out(r, "none"), Out(SetState(r, "SOFT_RESET"), "none"),
              Out(r, "rerequest")}
    BY <1>11 DEF StateTurn, NewRequest
  <2>2. Alike(r, s)
    BY <1>1, AlikeRecords
  <2> HIDE DEF r
  <2>3. Ok(r, c) /\ Sound(r, c)
    BY <1>1, <2>2, AlikeOk
  <2>4. Sound(SetState(r, "SOFT_RESET"), c)
    BY <1>1, <2>3, SetStateOk DEF Ok
  <2>5. \A y : Armed(y, s.task_state, c)
    BY <1>11, NotWaiting DEF WaitingForPartner
  <2> QED BY <1>1, <1>2, <1>3, <2>1, <2>3, <2>4, <2>5 DEF Ops
<1>12. CASE s.task_state \in {"DR_SWAP", "SOFT_RESET"}
  <2>1. CASE Entered(s)
    <3>1. o \in {Out(s, "dr_swap"), Out(s, "soft_reset")}
      BY <1>12, <2>1 DEF StateTurn
    <3> QED BY <1>3, <3>1 DEF Ops
  <2>2. CASE ~Entered(s)
    <3>1. o = Out(s, "none")
      BY <1>12, <2>2 DEF StateTurn
    <3> QED BY <1>1, <1>2, <2>2, <3>1, EnteredArmed
  <2> QED BY <2>1, <2>2
<1>13. CASE s.task_state = "HARD_RESET_SEND"
  <2>1. o \in {Out(Counted(s), "none"), Out(Counted(s), "hard_reset")}
    BY <1>13 DEF StateTurn
  <2>2. Alike(Counted(s), s)
    BY <1>1, AlikeRecords
  <2>3. Ok(Counted(s), c) /\ Sound(Counted(s), c)
    BY <1>1, <2>2, AlikeOk
  <2>4. Armed(Counted(s), s.task_state, c)
    BY <1>13, NotWaiting DEF WaitingForPartner
  <2> QED BY <1>2, <1>3, <2>1, <2>3, <2>4 DEF Ops
<1> QED BY <1>1, <1>4, <1>5, <1>6, <1>7, <1>8, <1>9, <1>10, <1>11, <1>12, <1>13 DEF States

LEMMA EndOfTurnOk ==
  ASSUME NEW s, NEW c, NEW x \in States, Sound(s, c), Armed(s, x, c)
  PROVE  Ok(EndOfTurn(s, x), c)
<1> DEFINE r == [s EXCEPT !.last_state = x]
           u == TimedOut(r)
<1>1. Ok(r, c)
  <2>1. r \in PdType /\ r.task_state = s.task_state /\ r.last_state = x
        /\ r.timeout = s.timeout /\ r.limit = s.limit /\ r.again = s.again
        /\ r.skipped = s.skipped
    BY DEF Sound, PdType
  <2> HIDE DEF r
  <2> QED BY <2>1 DEF Ok, Sound, Armed
<1> HIDE DEF r
<1>2. Sound(u, c) /\ Ok(u, c)
  <2>1. CASE r.timeout # "none" /\ r.ripe
    <3>1. u = SetState(r, r.timeout) /\ r.timeout \in Targets /\ Sound(r, c)
      BY <1>1, <2>1 DEF TimedOut, Ok, Sound
    <3> QED BY <3>1, SetStateOk DEF Ok
  <2>2. CASE ~(r.timeout # "none" /\ r.ripe)
    BY <1>1, <2>2 DEF TimedOut, Ok
  <2> QED BY <2>1, <2>2
<1> HIDE DEF u
<1>3. Ok(SetState(u, "DISCONNECTED"), c)
  BY <1>2, SetStateOk DEF Targets, States
<1>4. EndOfTurn(s, x) \in {SetState(u, "DISCONNECTED"), u}
  BY DEF EndOfTurn, LostVbus, r, u
<1> QED BY <1>2, <1>3, <1>4

LEMMA RestOfTurnOk ==
  ASSUME NEW s, NEW c, Ok(s, c), NEW incoming,
         NEW o \in RestOfTurn(s, incoming)
  PROVE  Ok(o.pd, c) /\ o.op \in Ops
<1>1. PICK q \in StateTurn(s, incoming) :
        o = IF q.op = "none" THEN Out(EndOfTurn(q.pd, s.task_state), "none") ELSE q
  BY DEF RestOfTurn
<1>2. TurnOk(q, s.task_state, c)
  BY StateTurnOk
<1>3. s.task_state \in States
  BY DEF Ok, Sound, PdType
<1>4. CASE q.op = "none"
  BY <1>1, <1>2, <1>3, <1>4, EndOfTurnOk DEF TurnOk, Out, Ops
<1>5. CASE q.op # "none"
  BY <1>1, <1>2, <1>5 DEF TurnOk
<1> QED BY <1>4, <1>5

LEMMA MessageTurnOk ==
  ASSUME NEW s, NEW c, Ok(s, c), NEW m \in Messages, NEW o \in MessageTurn(s, m)
  PROVE  Ok(o.pd, c) /\ o.op \in Ops
<1>1. PICK q \in Handle(s, m) : o \in IF q.op = "none" THEN RestOfTurn(q.pd, TRUE) ELSE {q}
  BY DEF MessageTurn
<1>2. Ok(q.pd, c) /\ q.op \in {"none", "reply", "request"}
  BY HandleOk
<1>3. CASE q.op = "none"
  BY <1>1, <1>2, <1>3, RestOfTurnOk
<1>4. CASE q.op # "none"
  BY <1>1, <1>2, <1>4 DEF Ops
<1> QED BY <1>3, <1>4
-----------------------------------------------------------------------------
(* A transmission comes back.                                              *)

LEMMA ResumeOk ==
  ASSUME op \in Ops \ {"none"}, NEW s, NEW c, Ok(s, c),
         op = "dr_swap" => Armed(s, "DR_SWAP", c),
         op = "soft_reset" => Armed(s, "SOFT_RESET", c),
         NEW o \in Resume(s)
  PROVE  Ok(o.pd, c) /\ o.op \in Ops
<1>1. Sound(s, c) /\ {"READY", "DR_SWAP", "SOFT_RESET", "HARD_RESET_SEND"} \subseteq States
  BY DEF Ok, States
<1>2. CASE op \in {"request", "reply"}
  BY <1>2, RestOfTurnOk DEF Resume
<1>3. CASE op \notin {"request", "reply"}
  <2>1. PICK x \in {"READY", "DR_SWAP", "SOFT_RESET", "HARD_RESET_SEND"} :
          o = Out(EndOfTurn(s, x), "none") /\ Armed(s, x, c)
    BY <1>3, NotWaiting DEF Resume, Ops, WaitingForPartner
  <2> QED BY <1>1, <2>1, EndOfTurnOk DEF Out, Ops
<1> QED BY <1>2, <1>3

LEMMA SuccessOk ==
  ASSUME op \in Ops \ {"none"}, NEW s, NEW c, Ok(s, c)
  PROVE  /\ Ok(Success(s), c)
         /\ op = "dr_swap" => Armed(Success(s), "DR_SWAP", c)
         /\ op = "soft_reset" => Armed(Success(s), "SOFT_RESET", c)
<1>1. Sound(s, c)
      /\ {"REQUESTED", "READY", "HARD_RESET_SEND", "EXECUTE"} \subseteq Targets
  BY DEF Ok, Targets, States
<1>2. CASE op \in {"request", "rerequest"}
  BY <1>1, <1>2, SetStateOk DEF Success
<1>3. CASE op \in {"dr_swap", "soft_reset"}
  <2> DEFINE t == IF op = "dr_swap" THEN "READY" ELSE "HARD_RESET_SEND"
             r == SetTimeout(s, t)
  <2>1. Success(s) = r /\ t \in Targets /\ t # "none"
    BY <1>1, <1>3 DEF Success
  <2> HIDE DEF t
  <2>2. Ok(r, c) /\ r.timeout = t
    BY <1>1, <2>1, SetTimeoutOk
  <2> HIDE DEF r
  <2> QED BY <2>1, <2>2 DEF Armed
<1>4. CASE op = "hard_reset"
  <2> DEFINE u == SetState(s, "EXECUTE")
             r == [u EXCEPT !.sent = TRUE]
  <2>1. Ok(u, c) /\ Sound(u, c)
    BY <1>1, SetStateOk DEF Ok
  <2> HIDE DEF u
  <2>2. Alike(r, u)
    BY <2>1, AlikeRecords DEF Sound
  <2>3. Success(s) = r
    BY <1>4 DEF Success, u
  <2> HIDE DEF r
  <2> QED BY <1>4, <2>1, <2>2, <2>3, AlikeOk
<1>5. CASE op = "reply"
  BY <1>5 DEF Success
<1> QED BY <1>2, <1>3, <1>4, <1>5 DEF Ops

LEMMA FailureOk ==
  ASSUME op \in Ops \ {"none"}, NEW s, NEW c, Ok(s, c)
  PROVE  /\ Ok(Failure(s), c)
         /\ op = "dr_swap" => Armed(Failure(s), "DR_SWAP", c)
         /\ op = "soft_reset" => Armed(Failure(s), "SOFT_RESET", c)
<1>1. Sound(s, c) /\ {"SOFT_RESET", "HARD_RESET_SEND"} \subseteq Targets
  BY DEF Ok, Targets, States
<1>2. CASE op \in {"rerequest", "dr_swap"}
  <2>1. Failure(s) = SetState(s, "SOFT_RESET")
    BY <1>2 DEF Failure
  <2>2. Ok(Failure(s), c) /\ Failure(s).task_state = "SOFT_RESET"
    BY <1>1, <2>1, SetStateOk
  <2> QED BY <1>2, <2>2 DEF Armed
<1>3. CASE op = "soft_reset"
  <2>1. Failure(s) = SetState(s, "HARD_RESET_SEND")
    BY <1>3 DEF Failure
  <2>2. Ok(Failure(s), c) /\ Failure(s).task_state = "HARD_RESET_SEND"
    BY <1>1, <2>1, SetStateOk
  <2> QED BY <1>3, <2>2 DEF Armed
<1>4. CASE op \in {"request", "reply", "hard_reset"}
  BY <1>4 DEF Failure
<1> QED BY <1>2, <1>3, <1>4 DEF Ops
-----------------------------------------------------------------------------
(* The invariant.                                                          *)

Steps == {"none", "read", "clear", "write", "limit", "rest", "rx", "test", "arm"}

\* TypeOK but for pd, pc and op, and Called
RestTyped ==
  /\ cmd \in Steps /\ to \in States \cup {"none"} /\ same \in BOOLEAN
  /\ (cmd \in {"read", "clear", "write"} => to \in Targets)
  /\ inbox \in Messages \cup {"none", "HARD_RESET"}
  /\ pd_comm_enabled \in BOOLEAN /\ attached \in BOOLEAN /\ vbus \in BOOLEAN
  /\ noticed \in BOOLEAN /\ resetting \in BOOLEAN

Places == {"wait", "transmit", "sending", "blocked"}

LEMMA InvParts ==
  Inv <=> /\ Ok(pd, cmd) /\ pc \in Places /\ op \in Ops
          /\ (pc # "wait" => op # "none") /\ RestTyped
<1>1. (TypeOK /\ Called) <=> (pd \in PdType /\ pc \in Places /\ op \in Ops /\ RestTyped)
  BY DEF TypeOK, RestTyped, Called, Steps, Places, Ops
<1>2. Ok(pd, cmd) => pd \in PdType
  BY DEF Ok, Sound
<1> QED BY <1>1, <1>2 DEF Inv

LEMMA InvPrimed ==
  ASSUME Ok(pd', cmd'), pc' \in Places, op' \in Ops,
         pc' # "wait" => op' # "none", RestTyped'
  PROVE  Inv'
<1>1. pd' \in PdType
  BY DEF Ok, Sound
<1>2. TypeOK' /\ Called'
  BY <1>1 DEF TypeOK, RestTyped, Called, Steps, Places, Ops
<1> QED BY <1>2 DEF Inv

LEMMA EndsOk ==
  ASSUME NEW o, Inv, Ok(o.pd, cmd), o.op \in Ops, Ends(o), cmd' = cmd
  PROVE  /\ Ok(pd', cmd') /\ pc' \in Places /\ op' \in Ops
         /\ pc' # "wait" => op' # "none"
         /\ noticed' \in BOOLEAN
<1>1. noticed \in BOOLEAN
  BY InvParts DEF RestTyped
<1> QED BY <1>1 DEF Ends, Places

LEMMA InitInv == Init => Inv
<1> SUFFICES ASSUME Init PROVE Inv
  OBVIOUS
<1> DEFINE f == IF vbus THEN {"VBUS_NEVER_LOW"} ELSE {}
<1>1. f \in SUBSET {"VBUS_NEVER_LOW", "CONTRACT", "PREVIOUS_PD_CONN"}
  OBVIOUS
<1>2. pd = [task_state |-> "DISCONNECTED", last_state |-> "DISCONNECTED",
            timeout |-> "none", ripe |-> FALSE, rx_enabled |-> FALSE, flags |-> f,
            new_power_request |-> FALSE, limit |-> FALSE, count |-> 0, sent |-> FALSE,
            vbus_off |-> FALSE, again |-> FALSE, skipped |-> FALSE]
  BY DEF Init
<1> HIDE DEF f
<1>3. pd \in PdType /\ pd.timeout = "none" /\ ~pd.limit /\ pd.last_state = "DISCONNECTED"
  BY <1>1, <1>2, SinkAssumption DEF PdType, States
<1>4. Ok(pd, cmd)
  BY <1>3 DEF Ok, Sound, Armed, WaitingForPartner
<1>5. RestTyped /\ pc \in Places /\ op \in Ops /\ (pc # "wait" => op # "none")
  BY DEF Init, RestTyped, Called, Steps, Places, Ops
<1> QED BY <1>4, <1>5, InvParts

LEMMA WakeInv == Inv /\ Wake => Inv'
<1> SUFFICES ASSUME Inv, Wake PROVE Inv'
  OBVIOUS
<1> DEFINE c == cmd
<1>1. Ok(pd, c) /\ RestTyped
  BY InvParts
<1>2. PICK o \in CASE inbox = "none" -> RestOfTurn(pd, FALSE)
                [] inbox = "HARD_RESET" /\ pd.rx_enabled -> RestOfTurn(HardReset(pd), TRUE)
                [] inbox \in Messages /\ pd.rx_enabled   -> MessageTurn(pd, inbox)
                [] OTHER -> UNION {MessageTurn(pd, m) : m \in Messages} : Ends(o)
  BY DEF Wake
<1>3. Ok(HardReset(pd), c)
  BY <1>1, HardResetOk DEF Ok
<1> HIDE DEF c
<1>4. Ok(o.pd, c) /\ o.op \in Ops
  <2>1. \/ o \in RestOfTurn(pd, FALSE)
        \/ o \in RestOfTurn(HardReset(pd), TRUE)
        \/ \E m \in Messages : o \in MessageTurn(pd, m)
    <3>1. CASE inbox = "none"
      BY <1>2, <3>1 DEF Messages
    <3>2. CASE inbox = "HARD_RESET" /\ pd.rx_enabled
      BY <1>2, <3>2 DEF Messages
    <3>3. CASE inbox \in Messages /\ pd.rx_enabled
      BY <1>2, <3>3 DEF Messages
    <3>4. CASE inbox # "none" /\ ~pd.rx_enabled
      BY <1>2, <3>4
    <3>5. inbox \in Messages \cup {"none", "HARD_RESET"}
      BY <1>1 DEF RestTyped
    <3> QED BY <3>1, <3>2, <3>3, <3>4, <3>5
  <2> QED BY <1>1, <1>3, <2>1, RestOfTurnOk, MessageTurnOk
<1>5. /\ Ok(pd', cmd') /\ pc' \in Places /\ op' \in Ops
      /\ (pc' # "wait" => op' # "none") /\ noticed' \in BOOLEAN
  <2>1. cmd' = cmd
    BY DEF Wake, console
  <2> QED BY <1>2, <1>4, <2>1, EndsOk DEF c
<1>6. RestTyped'
  BY <1>1, <1>5 DEF RestTyped, Wake, console, partner
<1> QED BY <1>5, <1>6, InvPrimed

LEMMA TransmitInv == Inv /\ Transmit => Inv'
<1> SUFFICES ASSUME Inv, Transmit PROVE Inv'
  OBVIOUS
<1>1. Ok(pd, cmd) /\ RestTyped /\ op \in Ops /\ op # "none" /\ pc # "wait"
  BY InvParts DEF Transmit, Inv
<1>2. UNCHANGED <<op, console, cable, partner>> /\ pc' \in Places
      /\ pd' \in {HardReset(pd), pd} /\ inbox' \in {inbox, "none"}
  BY DEF Transmit, Places
<1>3. Ok(pd', cmd')
  BY <1>1, <1>2, HardResetOk DEF Ok, console
<1>4. RestTyped'
  BY <1>1, <1>2 DEF RestTyped, console, cable, partner
<1> QED BY <1>1, <1>2, <1>3, <1>4, InvPrimed

LEMMA HearsOk ==
  ASSUME RestTyped, Hears
  PROVE  resetting' \in BOOLEAN
BY DEF RestTyped, Hears

LEMMA SentInv == Inv /\ Sent => Inv'
<1> SUFFICES ASSUME Inv, Sent PROVE Inv'
  OBVIOUS
<1>1. Ok(pd, cmd) /\ RestTyped /\ op \in Ops \ {"none"}
  BY InvParts DEF Sent
<1>2. PICK o \in Resume(Success(pd)) : Ends(o)
  BY DEF Sent
<1>3. Ok(o.pd, cmd) /\ o.op \in Ops
  BY <1>1, <1>2, SuccessOk, ResumeOk
<1>4. UNCHANGED <<console, inbox, attached, vbus>>
  BY DEF Sent
<1>5. /\ Ok(pd', cmd') /\ pc' \in Places /\ op' \in Ops
      /\ (pc' # "wait" => op' # "none") /\ noticed' \in BOOLEAN
  BY <1>2, <1>3, <1>4, EndsOk DEF console
<1>6. RestTyped'
  <2>1. resetting' \in BOOLEAN
    BY <1>1, HearsOk DEF Sent, RestTyped, partner
  <2> QED BY <1>1, <1>4, <1>5, <2>1 DEF RestTyped, console
<1> QED BY <1>5, <1>6, InvPrimed

LEMMA NotSentInv == Inv /\ NotSent => Inv'
<1> SUFFICES ASSUME Inv, NotSent PROVE Inv'
  OBVIOUS
<1>1. Ok(pd, cmd) /\ RestTyped /\ op \in Ops \ {"none"}
  BY InvParts DEF NotSent
<1>2. PICK o \in Resume(Failure(pd)) : Ends(o)
  BY DEF NotSent
<1>3. Ok(o.pd, cmd) /\ o.op \in Ops
  BY <1>1, <1>2, FailureOk, ResumeOk
<1>4. UNCHANGED <<console, inbox, attached, vbus>>
  BY DEF NotSent
<1>5. /\ Ok(pd', cmd') /\ pc' \in Places /\ op' \in Ops
      /\ (pc' # "wait" => op' # "none") /\ noticed' \in BOOLEAN
  BY <1>2, <1>3, <1>4, EndsOk DEF console
<1>6. RestTyped'
  <2>1. resetting' \in BOOLEAN
    BY <1>1, HearsOk DEF NotSent, RestTyped, partner
  <2> QED BY <1>1, <1>4, <1>5, <2>1 DEF RestTyped, console
<1> QED BY <1>5, <1>6, InvPrimed

\* What the invariant says of pd does not depend on the command, but at two of its steps.
LEMMA Steady ==
  ASSUME NEW s, NEW c, Ok(s, c), c \notin {"limit", "write"}, NEW d
  PROVE  Ok(s, d)
BY DEF Ok, Sound, Armed

LEMMA CommandInv == Inv /\ Command => Inv'
<1> SUFFICES ASSUME Inv, Command PROVE Inv'
  OBVIOUS
<1>1. Ok(pd, cmd) /\ RestTyped /\ op \in Ops /\ pc \in Places
      /\ (pc # "wait" => op # "none") /\ cmd = "none" /\ pd \in PdType
  BY InvParts DEF Command, Ok, Sound
<1>2. UNCHANGED <<pc, op, same, inbox, cable, partner>>
  BY DEF Command
<1>3. /\ pd' \in {pd, [pd EXCEPT !.new_power_request = TRUE]}
      /\ cmd' \in {"none", "read", "rx"} /\ pd_comm_enabled' \in BOOLEAN
      /\ to' \in States \cup {"none"} /\ (cmd' = "read" => to' \in Targets)
  BY <1>1 DEF Command, CallsSetState, RestTyped, Targets, States
<1>4. Ok(pd', cmd')
  <2>1. Alike(pd, pd) /\ Alike([pd EXCEPT !.new_power_request = TRUE], pd)
    BY <1>1, AlikeRecords
  <2>2. Alike(pd', pd)
    BY <1>3, <2>1
  <2>3. Ok(pd', cmd)
    BY <1>1, <2>2, AlikeOk DEF Ok
  <2> QED BY <1>1, <2>3, Steady
<1>5. RestTyped'
  BY <1>1, <1>2, <1>3 DEF RestTyped, cable, partner, Steps
<1> QED BY <1>1, <1>2, <1>4, <1>5, InvPrimed

LEMMA CommandReadsInv == Inv /\ CommandReads => Inv'
<1> SUFFICES ASSUME Inv, CommandReads PROVE Inv'
  OBVIOUS
<1>1. Ok(pd, cmd) /\ RestTyped /\ op \in Ops /\ pc \in Places
      /\ (pc # "wait" => op # "none")
  BY InvParts
<1>2. /\ UNCHANGED <<pd, pc, op, to, commands, pd_comm_enabled, inbox, cable, partner>>
      /\ cmd = "read" /\ cmd' = "clear" /\ same' \in BOOLEAN
  BY DEF CommandReads
<1>3. Ok(pd', cmd')
  BY <1>1, <1>2, Steady
<1>4. RestTyped'
  BY <1>1, <1>2 DEF RestTyped, cable, partner, Steps
<1> QED BY <1>1, <1>2, <1>3, <1>4, InvPrimed

LEMMA CommandClearsInv == Inv /\ CommandClears => Inv'
<1> SUFFICES ASSUME Inv, CommandClears PROVE Inv'
  OBVIOUS
<1>1. Ok(pd, cmd) /\ RestTyped /\ op \in Ops /\ pc \in Places
      /\ (pc # "wait" => op # "none") /\ pd \in PdType
  BY InvParts DEF Ok, Sound
<1>2. /\ UNCHANGED <<pc, op, to, same, commands, pd_comm_enabled, inbox, cable, partner>>
      /\ cmd = "clear" /\ cmd' = "write" /\ pd' = SetTimeout(pd, "none")
  BY DEF CommandClears
<1>3. /\ pd' \in PdType /\ pd'.timeout = "none" /\ pd'.task_state = pd.task_state
      /\ pd'.limit = pd.limit /\ pd'.skipped = pd.skipped
  BY <1>1, <1>2 DEF SetTimeout, PdType
<1>4. Ok(pd', cmd')
  BY <1>1, <1>2, <1>3 DEF Ok, Sound, Armed
<1>5. RestTyped'
  BY <1>1, <1>2 DEF RestTyped, cable, partner, Steps
<1> QED BY <1>1, <1>2, <1>4, <1>5, InvPrimed

LEMMA CommandWritesInv == Inv /\ CommandWrites => Inv'
<1> SUFFICES ASSUME Inv, CommandWrites PROVE Inv'
  OBVIOUS
<1> DEFINE h == pd.skipped \/ (to = "DISCONNECTED" /\ same /\ pd.task_state # to)
           g == to = pd.last_state
<1>1. Ok(pd, cmd) /\ RestTyped /\ op \in Ops /\ pc \in Places
      /\ (pc # "wait" => op # "none") /\ pd \in PdType
  BY InvParts DEF Ok, Sound
<1>2. /\ UNCHANGED <<pc, op, commands, pd_comm_enabled, inbox, cable, partner>>
      /\ cmd = "write" /\ cmd' = (IF to = "DISCONNECTED" /\ ~same THEN "limit" ELSE "none")
      /\ to' = "none" /\ same' = FALSE
      /\ pd' = [pd EXCEPT !.task_state = to, !.again = g, !.skipped = h]
  BY DEF CommandWrites
<1>3. to \in Targets /\ to \in States /\ h \in BOOLEAN /\ g \in BOOLEAN /\ same \in BOOLEAN
  BY <1>1, <1>2 DEF RestTyped, Targets, PdType
<1>4. (pd.skipped => h) /\ (to = "DISCONNECTED" /\ same /\ pd.task_state # to => h)
  OBVIOUS
<1>5. pd'.again = (pd'.task_state = pd'.last_state)
  BY <1>1, <1>2 DEF PdType
<1> HIDE DEF h, g
<1>6. /\ pd' \in PdType /\ pd'.task_state = to /\ pd'.timeout = pd.timeout
      /\ pd'.limit = pd.limit /\ pd'.skipped = h
  BY <1>1, <1>2, <1>3 DEF PdType
<1>7. Ok(pd', cmd')
  <2>1. Armed(pd', pd'.last_state, cmd')
    BY <1>5 DEF Armed
  <2>2. pd.skipped \/ (pd.limit => pd.task_state \notin Unset)
    BY <1>1, <1>2 DEF Ok, Sound
  <2>3. cmd' = "limit" \/ pd'.skipped \/ (pd'.limit => pd'.task_state \notin Unset)
    <3>1. CASE to = "DISCONNECTED" /\ ~same
      BY <1>2, <3>1
    <3>2. CASE to = "DISCONNECTED" /\ same
      BY <1>4, <1>6, <2>2, <3>2
    <3>3. CASE to # "DISCONNECTED"
      BY <1>3, <1>6, <3>3 DEF Targets, Unset
    <3> QED BY <1>3, <3>1, <3>2, <3>3
  <2>4. pd'.timeout \in Targets \cup {"none"}
    BY <1>1, <1>6 DEF Ok, Sound
  <2>5. Sound(pd', cmd')
    BY <1>6, <2>3, <2>4 DEF Sound
  <2> QED BY <2>1, <2>5 DEF Ok
<1>8. RestTyped'
  BY <1>1, <1>2 DEF RestTyped, cable, partner, Steps
<1> QED BY <1>1, <1>2, <1>7, <1>8, InvPrimed

LEMMA CommandResetsInv == Inv /\ CommandResets => Inv'
<1> SUFFICES ASSUME Inv, CommandResets PROVE Inv'
  OBVIOUS
<1>1. Ok(pd, cmd) /\ RestTyped /\ op \in Ops /\ pc \in Places
      /\ (pc # "wait" => op # "none") /\ pd \in PdType
  BY InvParts DEF Ok, Sound
<1>2. /\ UNCHANGED <<pc, op, to, same, commands, pd_comm_enabled, inbox, cable, partner>>
      /\ \/ cmd = "limit" /\ cmd' = "rest" /\ pd' = ClearLimit(pd)
         \/ cmd = "rest" /\ cmd' = "none" /\ pd' = ClearRest(pd)
  BY DEF CommandResets
<1>3. pd' \in {ClearLimit(pd), ClearRest(pd), ResetOnDisconnect(pd)}
  BY <1>2
<1>4. /\ pd' \in PdType /\ pd'.task_state = pd.task_state /\ pd'.again = pd.again
      /\ pd'.last_state = pd.last_state /\ pd'.timeout = pd.timeout
  <2>1. PICK r \in {ClearLimit(pd), ClearRest(pd), ResetOnDisconnect(pd)} : r = pd'
    BY <1>3
  <2>2. /\ r \in PdType /\ r.task_state = pd.task_state /\ r.last_state = pd.last_state
        /\ r.timeout = pd.timeout /\ r.again = pd.again
    BY <1>1, ResetFields
  <2> QED BY <2>1, <2>2
<1>5. Ok(pd', cmd')
  <2>1. CASE cmd = "limit"
    <3>1. ~pd'.limit
      BY <1>1, <1>2, <2>1 DEF ClearLimit, PdType
    <3> QED BY <1>1, <1>2, <1>4, <2>1, <3>1 DEF Ok, Sound, Armed
  <2>2. CASE cmd = "rest"
    <3>1. pd'.limit = pd.limit /\ pd'.skipped = pd.skipped
      BY <1>1, <1>2, <2>2 DEF ClearRest, PdType
    <3> QED BY <1>1, <1>2, <1>4, <2>2, <3>1 DEF Ok, Sound, Armed
  <2> QED BY <1>2, <2>1, <2>2
<1>6. RestTyped'
  BY <1>1, <1>2 DEF RestTyped, cable, partner, Steps
<1> QED BY <1>1, <1>2, <1>5, <1>6, InvPrimed

LEMMA CommandEnablesInv == Inv /\ CommandEnables => Inv'
<1> SUFFICES ASSUME Inv, CommandEnables PROVE Inv'
  OBVIOUS
<1>1. Ok(pd, cmd) /\ RestTyped /\ op \in Ops /\ pc \in Places
      /\ (pc # "wait" => op # "none") /\ pd \in PdType /\ pd_comm_enabled \in BOOLEAN
  BY InvParts DEF Ok, Sound, RestTyped
<1>2. /\ UNCHANGED <<pc, op, to, same, commands, pd_comm_enabled, inbox, cable, partner>>
      /\ cmd \in {"rx", "test", "arm"} /\ cmd' \in {"test", "arm", "none"}
      /\ pd' \in {pd, [pd EXCEPT !.rx_enabled = pd_comm_enabled],
                  SetTimeout(pd, "HARD_RESET_SEND")}
  BY DEF CommandEnables
<1>3. Ok(pd', cmd)
  <2>1. Alike([pd EXCEPT !.rx_enabled = pd_comm_enabled], pd)
    BY <1>1, AlikeRecords
  <2>2. Ok([pd EXCEPT !.rx_enabled = pd_comm_enabled], cmd)
    BY <1>1, <2>1, AlikeOk DEF Ok
  <2>3. Sound(pd, cmd) /\ "HARD_RESET_SEND" \in Targets
    BY <1>1 DEF Ok, Targets, States
  <2>4. Ok(SetTimeout(pd, "HARD_RESET_SEND"), cmd)
    BY <2>3, SetTimeoutOk
  <2> QED BY <1>1, <1>2, <2>2, <2>4
<1>4. Ok(pd', cmd')
  BY <1>2, <1>3, Steady
<1>5. RestTyped'
  BY <1>1, <1>2 DEF RestTyped, cable, partner, Steps
<1> QED BY <1>1, <1>2, <1>4, <1>5, InvPrimed

\* The steps that leave pd_task alone, but that the time-out comes
LEMMA AroundInv ==
  ASSUME Inv, \/ TimePasses \/ Attach \/ Detach \/ PartnerSends \/ PartnerResets
              \/ SourceOff \/ SourceOn
  PROVE  Inv'
<1>1. Ok(pd, cmd) /\ RestTyped /\ op \in Ops /\ pc \in Places
      /\ (pc # "wait" => op # "none") /\ pd \in PdType
  BY InvParts DEF Ok, Sound
<1>2. /\ pd' \in {pd, [pd EXCEPT !.ripe = TRUE]}
      /\ UNCHANGED <<pc, op, console>>
  BY DEF TimePasses, Attach, Detach, PartnerSends, PartnerResets, SourceOff, SourceOn
<1>3. Ok(pd', cmd')
  <2>1. Alike(pd', pd)
    BY <1>1, <1>2, AlikeRecords
  <2> QED BY <1>1, <1>2, <2>1, AlikeOk DEF Ok, console
<1>4. inbox' \in Messages \cup {"none", "HARD_RESET"}
  BY <1>1 DEF RestTyped, TimePasses, Attach, Detach, PartnerSends, PartnerResets,
              SourceOff, SourceOn, Messages, cable, partner
<1>5. /\ resetting' \in BOOLEAN
      /\ attached' \in BOOLEAN /\ vbus' \in BOOLEAN /\ noticed' \in BOOLEAN
  BY <1>1 DEF RestTyped, TimePasses, Attach, Detach, PartnerSends, PartnerResets,
              SourceOff, SourceOn, cable, partner
<1>6. RestTyped'
  BY <1>1, <1>2, <1>4, <1>5 DEF RestTyped, console
<1> QED BY <1>1, <1>2, <1>3, <1>6, InvPrimed

THEOREM Invariance == Spec => []Inv
<1>1. Inv /\ [Next]_vars => Inv'
  <2> SUFFICES ASSUME Inv, [Next]_vars PROVE Inv'
    OBVIOUS
  <2>1. CASE UNCHANGED vars
    <3>1. UNCHANGED <<pd, pc, op, console, inbox, cable, partner>>
      BY <2>1 DEF vars
    <3>2. RestTyped' /\ Ok(pd', cmd')
      BY <3>1, InvParts DEF RestTyped, console, cable, partner
    <3> QED BY <3>1, <3>2, InvParts, InvPrimed
  <2>2. CASE PdTask \/ Sent
    BY <2>2, WakeInv, TransmitInv, NotSentInv, SentInv DEF PdTask
  <2>3. CASE Command \/ CommandGoesOn
    BY <2>3, CommandInv, CommandReadsInv, CommandClearsInv, CommandWritesInv,
       CommandResetsInv, CommandEnablesInv DEF CommandGoesOn
  <2>4. CASE \/ TimePasses \/ Attach \/ Detach \/ PartnerSends \/ PartnerResets
             \/ SourceOff \/ SourceOn
    BY <2>4, AroundInv
  <2> QED BY <2>1, <2>2, <2>3, <2>4 DEF Next
<1> QED BY InitInv, <1>1, PTL DEF Spec

-----------------------------------------------------------------------------
(* Every variable has its type: no time-out leads to a state that only one *)
(* way leads to, and the counter of hard resets stays in its bound.        *)
THEOREM TypeCorrect == Spec => []TypeOK
<1>1. Inv => TypeOK
  BY DEF Inv
<1> QED BY <1>1, Invariance, PTL

(* PD_C0 never sleeps without a time-out in a state that only the partner  *)
(* could end: set_state clears it, the turn in which a state is entered    *)
(* arms it, and a transmission that comes back arms it or changes state;   *)
(* a command clears it only for as long as it takes to write the state.    *)
THEOREM WaitsWithTimeout == Spec => []TimerArmed
<1>1. Inv => TimerArmed
  BY DEF Inv, Ok, Armed, TimerArmed
<1> QED BY <1>1, Invariance, PTL

(* A port that is disconnected or recovers from a hard reset shows no      *)
(* voltage: pd_execute_hard_reset and the reset on disconnection take the  *)
(* limit back on every way to these states, but for a command that has     *)
(* written the state and not yet cleared the limit, or that skipped it.    *)
THEOREM LimitTakenBack == Spec => []LimitOff
<1>1. Inv => LimitOff
  BY DEF Inv, Ok, Sound, Unset, LimitOff
<1> QED BY <1>1, Invariance, PTL
=============================================================================
