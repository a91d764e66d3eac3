------------------------------- MODULE Alarms -------------------------------
(***************************************************************************)
(* What the timers of common/timer.c promise: each task has one alarm; an  *)
(* alarm rings only when its time has come and it has not been cancelled.  *)
(***************************************************************************)
EXTENDS Integers

CONSTANT Clients

VARIABLES now,    \* microseconds since boot
          alarm,  \* the time each client's alarm is set to, None if it is off
          rung    \* clients that have not taken notice of their alarm yet

None == -1

Init == now = 0 /\ alarm = [c \in Clients |-> None] /\ rung = {}

Tick == now' = now + 1 /\ UNCHANGED <<alarm, rung>>

Set(c) == /\ alarm[c] = None
          /\ alarm'[c] \in Nat
          /\ alarm' = [alarm EXCEPT ![c] = alarm'[c]]
          /\ UNCHANGED <<now, rung>>

Due(c) == alarm[c] # None /\ alarm[c] <= now

Ring(S) == /\ S # {} /\ \A c \in S : Due(c)
           /\ alarm' = [c \in Clients |-> IF c \in S THEN None ELSE alarm[c]]
           /\ rung' = rung \cup S
           /\ UNCHANGED now

Cancel(c) == /\ alarm' = [alarm EXCEPT ![c] = None]
             /\ UNCHANGED <<now, rung>>

Notice(c) == rung' = rung \ {c} /\ UNCHANGED <<now, alarm>>

Next == \/ Tick \/ \E S \in SUBSET Clients : Ring(S)
        \/ \E c \in Clients : Set(c) \/ Cancel(c) \/ Notice(c)

Spec == Init /\ [][Next]_<<now, alarm, rung>>
=============================================================================
