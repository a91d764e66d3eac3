------------------------------- MODULE Hooks --------------------------------
(***************************************************************************)
(* Deferred calls: hook_call_deferred and the loop of hook_task in         *)
(* common/hooks.c.                                                         *)
(*                                                                         *)
(* HOOKS has the lowest priority: whoever calls hook_call_deferred, PD_C0  *)
(* or an interrupt, preempts it anywhere and is through with the call      *)
(* before HOOKS goes on, and time may pass at any point.  A routine that   *)
(* is called may ask for itself again.                                     *)
(*                                                                         *)
(* A deadline is two words, which HOOKS loads and clears one by one, in    *)
(* the order the compiler likes: what it reads may be half of one deadline *)
(* and half of the next, and what it leaves half of one.  Whoever calls    *)
(* stores both before HOOKS goes on.                                       *)
(*                                                                         *)
(* Left out: HOOK_SECOND, which is a second HOOK_TICK that no sleep is     *)
(* computed from.                                                          *)
(***************************************************************************)
EXTENDS Integers

CONSTANTS N,                   \* the number of deferred routines
          HOOK_TICK_INTERVAL,
          WordSize,            \* how many values a word has, 2^32 in the code
          HookDelays,          \* the values of us
          MaxCalls,            \* bound on the calls
          MaxTime              \* bound on the clock while nothing is asked for

ASSUME HooksAssumption ==
  /\ N \in Nat \ {0} /\ HOOK_TICK_INTERVAL \in Nat \ {0} /\ WordSize \in Nat \ {0}
  /\ HookDelays \subseteq Nat /\ MaxCalls \in Nat /\ MaxTime \in Nat

VARIABLES
  until,            \* __deferred_until, 0 if there is no call
  defer_new_call,
  event,            \* TASK_EVENT_WAKE is pending in HOOKS
  hookPc, hookT, hookI, hookNext, last_tick,
  half, word,       \* which half of a deadline was loaded or cleared first; its value
  wake,             \* when task_wait_event times out
  now,              \* get_time, which never returns 0
  calls,            \* how many calls there were
  due,              \* history: what was asked for and is not yet taken up, or 0
  late,             \* history: how long HOOKS took from line 216 to its sleep
  crossed,          \* history: a call for routine i came since its deadline is loaded
  torn              \* history: the routines of whose deadline a clearing left one half

task    == <<hookPc, hookT, hookI, hookNext, last_tick, half, word, wake, late>>
history == <<calls, due, crossed, torn>>
hookVars == <<until, defer_new_call, event, task, now, history>>

Routines == 1 .. N
None == [r \in Routines |-> 0]

Low(d)  == d % WordSize
High(d) == WordSize * (d \div WordSize)

\* Calls made before the tasks start leave no event.
HookInit ==
  /\ now = 1 /\ until \in [Routines -> {0} \cup {now + delay : delay \in HookDelays}]
  /\ due = until /\ crossed = FALSE /\ torn = {} /\ calls = 0
  /\ defer_new_call = (until # None) /\ event = FALSE
  /\ hookPc = "loop" /\ hookT = 0 /\ hookI = 1 /\ hookNext = 0
  /\ half = "none" /\ word = 0 /\ wake = 0 /\ late = 0
  /\ last_tick = 1 - HOOK_TICK_INTERVAL

-----------------------------------------------------------------------------
(* hook_call_deferred                                                      *)

\* Mutant: the sleeping task is not woken.
SetSilently(r, delay) ==
  /\ until' = [until EXCEPT ![r] = now + delay] /\ defer_new_call' = TRUE
  /\ event' = event

Set(r, delay) ==
  /\ until' = [until EXCEPT ![r] = now + delay] /\ defer_new_call' = TRUE
  /\ event' = TRUE

Counts(r, d) ==
  /\ calls < MaxCalls /\ calls' = calls + 1 /\ d < MaxTime
  /\ due' = [due EXCEPT ![r] = d]
  /\ crossed' = (crossed \/ (hookPc \in {"test2", "clear", "clear2"} /\ hookI = r))
  /\ torn' = torn \ {r}

Call(r, delay) == Set(r, delay) /\ Counts(r, now + delay) /\ UNCHANGED <<task, now>>

\* us = -1
CancelCall(r) ==
  /\ until[r] # 0 /\ until' = [until EXCEPT ![r] = 0] /\ Counts(r, 0)
  /\ UNCHANGED <<defer_new_call, event, task, now>>

-----------------------------------------------------------------------------
(* The loop of hook_task.                                                  *)

Loop ==
  /\ hookPc = "loop" /\ hookT' = now /\ hookI' = 1 /\ hookPc' = "test"
  /\ UNCHANGED <<until, defer_new_call, event, hookNext, last_tick, half, word, wake,
                 late, now, history>>

\* One half of the deadline of routine i is loaded, to be tested or for the next sleep.
HookLoad ==
  /\ hookI \in Routines
  /\ \/ hookPc = "test" /\ hookPc' = "test2"
     \/ hookPc = "scan" /\ hookNext > 0 /\ hookPc' = "scan2"
  /\ \/ half' = "low" /\ word' = Low(until[hookI])
     \/ half' = "high" /\ word' = High(until[hookI])
  /\ crossed' = FALSE
  /\ UNCHANGED <<until, defer_new_call, event, hookT, hookI, hookNext, last_tick, wake,
                 late, now, calls, due, torn>>

\* The deadline that is then seen
Loaded == IF half = "low" THEN word + High(until[hookI]) ELSE Low(until[hookI]) + word

\* Mutant: whatever is asked for
Asked(d) == d # 0
Due(d) == d # 0 /\ d < hookT

HookTest ==
  /\ \/ hookPc = "test2" /\ Due(Loaded) /\ hookPc' = "clear" /\ hookI' = hookI
     \/ hookPc = "test2" /\ ~Due(Loaded) /\ hookPc' = "test" /\ hookI' = hookI + 1
     \/ hookPc = "test" /\ hookI \notin Routines /\ hookPc' = "tick" /\ hookI' = hookI
  /\ half' = "none" /\ word' = 0
  /\ UNCHANGED <<until, defer_new_call, event, hookT, hookNext, last_tick, wake, late,
                 now, history>>

ClearHalf ==
  /\ hookPc = "clear" /\ hookPc' = "clear2"
  /\ \/ half' = "low" /\ until' = [until EXCEPT ![hookI] = High(@)]
     \/ half' = "high" /\ until' = [until EXCEPT ![hookI] = Low(@)]
  /\ UNCHANGED <<defer_new_call, event, hookT, hookI, hookNext, last_tick, word, wake,
                 late, now, history>>

ClearTimer ==
  /\ hookPc = "clear2" /\ hookPc' = "run" /\ half' = "none"
  /\ LET left == IF half = "low" THEN Low(until[hookI]) ELSE High(until[hookI]) IN
       /\ until' = [until EXCEPT ![hookI] = left]
       /\ torn' = IF left = 0 THEN torn \ {hookI} ELSE torn \cup {hookI}
  /\ due' = [due EXCEPT ![hookI] = 0] /\ crossed' = FALSE
  /\ UNCHANGED <<defer_new_call, event, hookT, hookI, hookNext, last_tick, word, wake,
                 late, now, calls>>

\* Mutant: the timer is cleared after the routine.
RunThenClear ==
  /\ hookPc = "run" /\ hookPc' = "test" /\ hookI' = hookI + 1
  /\ until' = [until EXCEPT ![hookI] = 0]
  /\ \/ UNCHANGED <<defer_new_call, event, history>>
     \/ /\ defer_new_call' = TRUE /\ event' = TRUE
        /\ \E delay \in HookDelays : Counts(hookI, now + delay)
  /\ UNCHANGED <<hookT, hookNext, last_tick, half, word, wake, late, now>>

\* The routine, which may ask for itself again
Run ==
  /\ hookPc = "run" /\ hookPc' = "test" /\ hookI' = hookI + 1
  /\ \/ UNCHANGED <<until, defer_new_call, event, history>>
     \/ \E delay \in HookDelays : Set(hookI, delay) /\ Counts(hookI, now + delay)
  /\ UNCHANGED <<hookT, hookNext, last_tick, half, word, wake, late, now>>

\* The periodic hooks
HookTick ==
  /\ hookPc = "tick" /\ hookPc' = "next"
  /\ last_tick' = IF hookT - last_tick >= HOOK_TICK_INTERVAL THEN hookT ELSE last_tick
  /\ UNCHANGED <<until, defer_new_call, event, hookT, hookI, hookNext, half, word, wake,
                 late, now, history>>

NextTick(time) == IF last_tick + HOOK_TICK_INTERVAL > time
                  THEN last_tick + HOOK_TICK_INTERVAL - time ELSE 0

ComputeNext ==
  /\ hookPc = "next" /\ hookPc' = "scan" /\ hookT' = now /\ hookNext' = NextTick(now)
  /\ defer_new_call' = FALSE /\ hookI' = 1
  /\ UNCHANGED <<until, event, last_tick, half, word, wake, late, now, history>>

Earlier(n, d) == CASE d = 0                            -> n
                   [] d # 0 /\ d < hookT               -> 0
                   [] d >= hookT /\ d # 0 /\ d - hookT < n -> d - hookT
                   [] OTHER                            -> n

ScanTimers ==
  /\ hookPc = "scan2" /\ hookPc' = "scan"
  /\ hookNext' = Earlier(hookNext, Loaded) /\ hookI' = hookI + 1
  /\ half' = "none" /\ word' = 0
  /\ UNCHANGED <<until, defer_new_call, event, hookT, last_tick, wake, late, now,
                 history>>

Scanned ==
  /\ hookPc = "scan" /\ ~(hookI \in Routines /\ hookNext > 0)
  /\ hookPc' = IF hookNext > 0 /\ ~defer_new_call THEN "sleep" ELSE "loop"
  /\ UNCHANGED <<until, defer_new_call, event, hookT, hookI, hookNext, last_tick, half,
                 word, wake, late, now, history>>

\* task_wait_event
Sleep ==
  /\ hookPc = "sleep" /\ hookPc' = "wait" /\ wake' = now + hookNext /\ late' = now - hookT
  /\ UNCHANGED <<until, defer_new_call, event, hookT, hookI, hookNext, last_tick, half,
                 word, now, history>>

Wake ==
  /\ hookPc = "wait" /\ (event \/ now >= wake) /\ hookPc' = "loop" /\ event' = FALSE
  /\ UNCHANGED <<until, defer_new_call, hookT, hookI, hookNext, last_tick, half, word,
                 wake, late, now, history>>

TimePasses ==
  /\ now < MaxTime \/ (hookPc = "wait" /\ now < wake /\ until # None)
  /\ now' = now + 1
  /\ UNCHANGED <<until, defer_new_call, event, task, history>>

HookTask == Loop \/ HookLoad \/ HookTest \/ ClearHalf \/ ClearTimer \/ Run \/ HookTick
            \/ ComputeNext \/ ScanTimers \/ Scanned \/ Sleep \/ Wake

HookNext == HookTask \/ TimePasses
        \/ \E r \in Routines : CancelCall(r) \/ \E delay \in HookDelays : Call(r, delay)

HookSpec == HookInit /\ [][HookNext]_hookVars
\* The tasks above HOOKS leave it time, and time passes.
HookFairSpec == HookSpec /\ WF_hookVars(HookTask) /\ WF_hookVars(TimePasses)

-----------------------------------------------------------------------------
HookTypeOK ==
  /\ until \in [Routines -> Nat] /\ due \in [Routines -> Nat]
  /\ defer_new_call \in BOOLEAN /\ event \in BOOLEAN /\ crossed \in BOOLEAN
  /\ torn \subseteq Routines
  /\ hookPc \in {"loop", "test", "test2", "clear", "clear2", "run", "tick", "next",
                 "scan", "scan2", "sleep", "wait"}
  /\ hookPc \in {"test2", "clear", "clear2", "run", "scan2"} => hookI \in Routines
  /\ half \in {"none", "low", "high"} /\ word \in Nat
  /\ hookT \in Nat /\ hookI \in 1 .. N + 1 /\ hookNext \in Nat /\ last_tick \in Int
  /\ wake \in Nat /\ late \in Nat /\ now \in Nat /\ calls \in Nat

(* While HOOKS sleeps, the time it armed for its waking lies no further    *)
(* past the next tick and any deadline than the tasks above it kept it     *)
(* from sleeping after it had read the clock, however the calls fall       *)
(* between its loading of the halves of the deadlines and its going to     *)
(* sleep: what it did not see has left it an event.                        *)
SleepsNotPast ==
  (hookPc = "wait" /\ ~event) =>
    /\ wake <= last_tick + HOOK_TICK_INTERVAL + late
    /\ \A r \in Routines : until[r] # 0 => wake <= until[r] + late

(* A routine is called after at least the delay that was asked for last,   *)
(* and not after a cancellation, unless a call or a cancellation for it    *)
(* came between the loading of the first half of its deadline and the      *)
(* clearing of the second, or has left one half of a deadline there.       *)
NotEarly ==
  [][(hookPc = "clear2" /\ hookPc' = "run" /\ ~crossed /\ hookI \notin torn)
       => due[hookI] # 0 /\ due[hookI] <= now]_hookVars

(* No call is lost: whatever is asked for, by whom and when, also by the   *)
(* routine itself while it runs, is taken up or cancelled.                 *)
Called == \A r \in Routines : (due[r] # 0) ~> (due[r] = 0)
=============================================================================
