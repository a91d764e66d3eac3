-------------------------------- MODULE Timer --------------------------------
(***************************************************************************)
(* Time: the two chained 16-bit counters of chip/stm32/hwtimer.c, extended *)
(* by common/timer.c with a high word that software counts, the timers of  *)
(* the tasks multiplexed on the match interrupt of those counters, and the *)
(* tasks that sleep (usleep, task_wait_event with a time limit).           *)
(*                                                                         *)
(* The clock ticks between any two steps of the processor.  The interrupt  *)
(* handler runs above the tasks, which make no step while it is active or  *)
(* pending; the tasks interleave with each other in any order.             *)
(***************************************************************************)
EXTENDS Integers, FiniteSets

CONSTANTS Sleepers,   \* the tasks
          Lsb, Msb,   \* values of the two counters: 2^16 each
          Delays,     \* the delays the tasks ask for, in microseconds
          MaxClock,   \* bound on the time
          MaxLag,     \* ticks while the processor is busy with one thing
          MaxEvents,  \* bound on the other events the tasks receive
          Window      \* the counters may wrap between the read and the clearing
                      \* of the status register

ASSUME SizesAssumption == Lsb \in Nat \ {0} /\ Msb \in Nat \ {0, 1}
ASSUME BoundsAssumption ==
  /\ Delays \subseteq Nat \ {0}
  /\ MaxClock \in Nat /\ MaxLag \in Nat /\ MaxEvents \in Nat /\ Window \in BOOLEAN
\* "For us < (2^31 - task scheduling latency)" (timer.c, line 146).
ASSUME DelaysAssumption == \A delay \in Delays : 2 * (delay + MaxLag) < Lsb * Msb

VARIABLES
  clk,           \* microseconds since boot: what the counters count
  lag,           \* ticks since the processor became busy
  uif,           \* SR of the MSB counter: overflow
  match,         \* SR of both counters: the flags of the matches
  ccr,           \* CCR1 of both counters
  dier,          \* DIER: the counters whose match interrupts
  trigger,       \* the interrupt is set pending by task_trigger_irq
  isr,           \* control state of __hw_clock_source_irq
  overflow,      \* its argument to process_timers
  next,          \* process_timers: next
  clksrc_high, timer_running, timer_deadline, next_deadline,
  pc, us, ts,    \* the tasks: control state, argument of usleep, local time
  since,         \* when usleep was called
  evt, got,      \* pending events, and those received by usleep
  posted         \* other events posted so far

hwVars    == <<uif, match, ccr, dier>>
isrVars   == <<isr, overflow, next>>
timerVars == <<timer_running, timer_deadline>>
taskVars  == <<pc, us, ts, since, got>>
vars == <<clk, lag, hwVars, trigger, isrVars, clksrc_high, timerVars, next_deadline,
          taskVars, evt, posted>>

W == Lsb * Msb     \* 2^32
Lo(time)  == time % W
Hi(time)  == time \div W
MsbOf(lo) == lo \div Lsb

__hw_clock_source_read == Lo(clk)

Init ==
  /\ clk = 0 /\ lag = 0
  /\ uif = FALSE /\ match = {} /\ ccr = [msb |-> 0, lsb |-> 0] /\ dier = {}
  /\ trigger = FALSE
  /\ isr = "off" /\ overflow = FALSE /\ next = 0
  /\ clksrc_high = 0 /\ next_deadline = W - 1
  /\ timer_running = {} /\ timer_deadline = [t \in Sleepers |-> 0]
  /\ pc = [t \in Sleepers |-> "work"] /\ us = [t \in Sleepers |-> 0]
  /\ ts = [t \in Sleepers |-> 0] /\ since = [t \in Sleepers |-> 0]
  /\ evt = [t \in Sleepers |-> {}] /\ got = [t \in Sleepers |-> {}]
  /\ posted = 0

Pending == uif \/ trigger \/ match \cap dier # {}
Idle == /\ isr = "off" /\ ~Pending
        /\ \A t \in Sleepers : pc[t] = "work" \/ (pc[t] = "sleep" /\ evt[t] = {})

-----------------------------------------------------------------------------
(* The counters: a flag is raised when a counter reaches the match value.  *)

Tick ==
  LET time == clk + 1 IN
  /\ time <= MaxClock
  /\ ~Idle => lag < MaxLag
  /\ (isr = "clear" /\ ~Window) => Lo(time) # 0
  /\ clk' = time
  /\ lag' = IF Idle THEN 0 ELSE lag + 1
  /\ uif' = (uif \/ Lo(time) = 0)
  /\ match' = match
       \cup (IF time % Lsb = ccr.lsb THEN {"lsb"} ELSE {})
       \cup (IF time % Lsb = 0 /\ MsbOf(Lo(time)) = ccr.msb THEN {"msb"} ELSE {})
  /\ UNCHANGED <<ccr, dier, trigger, isrVars, clksrc_high, timerVars, next_deadline,
                 taskVars, evt, posted>>

-----------------------------------------------------------------------------
(* __hw_clock_source_irq.                                                  *)

isrRest == <<clk, lag, taskVars, posted>>

\* stat_tim_msb & 0x01
Overflowed == uif

\* stat_tim_msb = STM32_TIM_SR(TIM_CLOCK_MSB)
Status ==
  /\ isr = "off" /\ Pending
  /\ trigger' = FALSE
  /\ overflow' = Overflowed
  /\ isr' = "clear"
  /\ UNCHANGED <<isrRest, hwVars, next, clksrc_high, timerVars, next_deadline, evt>>

\* Both status registers are cleared; process_timers counts the overflow.
Clear ==
  /\ isr = "clear"
  /\ uif' = FALSE /\ match' = {}
  /\ clksrc_high' = IF overflow THEN clksrc_high + 1 ELSE clksrc_high
  /\ overflow' = FALSE /\ isr' = "scan"
  /\ UNCHANGED <<isrRest, ccr, dier, trigger, next, timerVars,
                 next_deadline, evt>>

\* get_time in the handler: clksrc_high does not change there.
IsrTime == clksrc_high * W + __hw_clock_source_read

\* Mutant: a timer expires one microsecond before its deadline.
ExpiresEarly(deadline, now) == deadline <= now + 1
Expired(deadline, now) == deadline <= now

\* The loop over the running timers: the expired ones, and the deadlines that
\* the counters reach before they wrap (next.le.lo starts with all bits set).
\* __hw_clock_event_clear when there is none.
Scan ==
  LET now == IsrTime
      expired == {t \in timer_running : Expired(timer_deadline[t], now)}
      ahead == {timer_deadline[t] : t \in {s \in timer_running \ expired :
                  /\ Hi(timer_deadline[s]) = clksrc_high
                  /\ Lo(timer_deadline[s]) < W - 1}}
  IN  /\ isr = "scan"
      /\ timer_running' = timer_running \ expired
      /\ evt' = [t \in Sleepers |-> IF t \in expired THEN evt[t] \cup {"TIMER"}
                                                     ELSE evt[t]]
      /\ \/ /\ ahead = {} /\ isr' = "off" /\ next' = 0
            /\ dier' = {} /\ next_deadline' = W - 1
         \/ /\ isr' = "msb"
            /\ next' \in ahead /\ \A deadline \in ahead : next' <= deadline
            /\ UNCHANGED <<dier, next_deadline>>
      /\ UNCHANGED <<isrRest, uif, match, ccr, trigger, overflow, clksrc_high,
                     timer_deadline>>

\* __hw_clock_event_set(next.le.lo): the MSB half, then the LSB half.
EventMsb ==
  /\ isr = "msb"
  /\ IF MsbOf(Lo(next)) > MsbOf(Lo(clk))
     THEN /\ ccr' = [ccr EXCEPT !.msb = MsbOf(Lo(next))]
          /\ dier' = dier \ {"lsb"}
          /\ isr' = "msb2"
     ELSE isr' = "lsb" /\ UNCHANGED <<ccr, dier>>
  /\ UNCHANGED <<isrRest, uif, match, trigger, overflow, next, clksrc_high,
                 timerVars, next_deadline, evt>>

EnableMsb ==
  /\ isr = "msb2"
  /\ match' = {} /\ dier' = dier \cup {"msb"}
  /\ isr' = "lsb"
  /\ UNCHANGED <<isrRest, uif, ccr, trigger, overflow, next, clksrc_high, timerVars,
                 next_deadline, evt>>

LsbOnly == MsbOf(Lo(next)) = MsbOf(Lo(clk))

EventLsb ==
  /\ isr = "lsb"
  /\ IF LsbOnly
     THEN /\ ccr' = [ccr EXCEPT !.lsb = next % Lsb]
          /\ dier' = dier \ {"msb"}
          /\ isr' = "lsb2"
     ELSE isr' = "check" /\ UNCHANGED <<ccr, dier>>
  /\ UNCHANGED <<isrRest, uif, match, trigger, overflow, next, clksrc_high,
                 timerVars, next_deadline, evt>>

EnableLsb ==
  /\ isr = "lsb2"
  /\ match' = {} /\ dier' = dier \cup {"lsb"}
  /\ isr' = "check"
  /\ UNCHANGED <<isrRest, uif, ccr, trigger, overflow, next, clksrc_high, timerVars,
                 next_deadline, evt>>

\* Mutant: the loop of process_timers runs once.
RunOnce == FALSE
Again == next <= IsrTime

LowWord(deadline) == Lo(deadline)

\* next_deadline = next.le.lo; while (next.val <= get_time().val)
Recheck ==
  /\ isr = "check"
  /\ next_deadline' = LowWord(next)
  /\ IF Again THEN isr' = "scan" /\ UNCHANGED next ELSE isr' = "off" /\ next' = 0
  /\ UNCHANGED <<isrRest, hwVars, trigger, overflow, clksrc_high, timerVars,
                 evt>>

Handler == Status \/ Clear \/ Scan \/ EventMsb \/ EnableMsb \/ EventLsb \/ EnableLsb
           \/ Recheck

-----------------------------------------------------------------------------
(* A task in usleep, and in the task_wait_event it calls.                  *)

At(t, label) == isr = "off" /\ ~Pending /\ pc[t] = label
Goto(t, label) == pc' = [pc EXCEPT ![t] = label]
taskRest == <<clk, hwVars, isrVars, clksrc_high, next_deadline, posted>>

Usleep(t, delay) ==
  /\ At(t, "work")
  /\ us' = [us EXCEPT ![t] = delay] /\ since' = [since EXCEPT ![t] = clk]
  /\ lag' = IF Idle THEN 0 ELSE lag
  /\ Goto(t, "hi")
  /\ UNCHANGED <<taskRest, trigger, timerVars, ts, got, evt>>

\* get_time: the high word, the counters, and both again when the high word has
\* changed in between.
ReadHigh(t) ==
  /\ At(t, "hi")
  /\ ts' = [ts EXCEPT ![t] = clksrc_high * W]
  /\ Goto(t, "lo")
  /\ UNCHANGED <<taskRest, lag, trigger, timerVars, us, since, got, evt>>

ReadLow(t) ==
  /\ At(t, "lo")
  /\ ts' = [ts EXCEPT ![t] = @ + __hw_clock_source_read]
  /\ Goto(t, "recheck")
  /\ UNCHANGED <<taskRest, lag, trigger, timerVars, us, since, got, evt>>

\* Mutant: the high word is not read again.
NeverStale(time) == FALSE
Stale(time) == Hi(time) # clksrc_high

ReadAgain(t) ==
  /\ At(t, "recheck")
  /\ IF Stale(ts[t])
     THEN ts' = [ts EXCEPT ![t] = clksrc_high * W] /\ Goto(t, "lo2")
     ELSE UNCHANGED ts /\ Goto(t, "arm")
  /\ UNCHANGED <<taskRest, lag, trigger, timerVars, us, since, got, evt>>

ReadLowAgain(t) ==
  /\ At(t, "lo2")
  /\ ts' = [ts EXCEPT ![t] = @ + __hw_clock_source_read]
  /\ Goto(t, "arm")
  /\ UNCHANGED <<taskRest, lag, trigger, timerVars, us, since, got, evt>>

\* timer_arm: the timer runs, and the interrupt is triggered when the deadline
\* is in the past or comes before the next one.  Its caller __wait_evt has cancelled
\* the timer of its last wait, so EC_ERROR_BUSY, and the ASSERT on it, are not met.
Arm(t) ==
  /\ At(t, "arm") /\ t \notin timer_running
  /\ timer_deadline' = [timer_deadline EXCEPT ![t] = ts[t] + us[t]]
  /\ timer_running' = timer_running \cup {t}
  /\ ts' = [ts EXCEPT ![t] = 0]
  /\ Goto(t, "past")
  /\ UNCHANGED <<taskRest, lag, trigger, us, since, got, evt>>

InPast(t) ==
  /\ At(t, "past")
  /\ IF Hi(timer_deadline[t]) < clksrc_high
     THEN trigger' = TRUE /\ Goto(t, "sleep")
     ELSE UNCHANGED trigger /\ Goto(t, "first")
  /\ UNCHANGED <<taskRest, lag, timerVars, us, ts, since, got, evt>>

ComesFirst(t) == Lo(timer_deadline[t]) <= next_deadline

First(t) ==
  /\ At(t, "first")
  /\ trigger' = (Hi(timer_deadline[t]) = clksrc_high /\ ComesFirst(t))
  /\ Goto(t, "sleep")
  /\ UNCHANGED <<taskRest, lag, timerVars, us, ts, since, got, evt>>

\* __wait_evt returns when there is an event; timer_cancel.
WakeUp(t) ==
  /\ At(t, "sleep") /\ evt[t] # {}
  /\ got' = [got EXCEPT ![t] = @ \cup evt[t]]
  /\ evt' = [evt EXCEPT ![t] = {}]
  /\ Goto(t, "cancel")
  /\ UNCHANGED <<taskRest, lag, trigger, timerVars, us, ts, since>>

Cancel(t) ==
  /\ At(t, "cancel")
  /\ timer_running' = timer_running \ {t}
  /\ Goto(t, "clear")
  /\ UNCHANGED <<taskRest, lag, trigger, timer_deadline, us, ts, since, got, evt>>

ClearTimerEvent(t) ==
  /\ At(t, "clear")
  /\ evt' = [evt EXCEPT ![t] = @ \ {"TIMER"}]
  /\ Goto(t, "test")
  /\ UNCHANGED <<taskRest, lag, trigger, timerVars, us, ts, since, got>>

\* The loop of usleep: another turn with the same delay when the task was woken
\* up early by another event.
Elapsed(t) == (__hw_clock_source_read - Lo(since[t])) % W

Test(t) ==
  /\ At(t, "test")
  /\ Goto(t, IF "TIMER" \notin got[t] /\ Elapsed(t) < us[t] THEN "hi" ELSE "requeue")
  /\ UNCHANGED <<taskRest, lag, trigger, timerVars, us, ts, since, got, evt>>

Requeue(t) ==
  /\ At(t, "requeue")
  /\ evt' = [evt EXCEPT ![t] = @ \cup (got[t] \ {"TIMER"})]
  /\ us' = [us EXCEPT ![t] = 0] /\ since' = [since EXCEPT ![t] = 0]
  /\ got' = [got EXCEPT ![t] = {}]
  /\ Goto(t, "work")
  /\ UNCHANGED <<taskRest, lag, trigger, timerVars, ts>>

Return(t) == ReadHigh(t) \/ ReadLow(t) \/ ReadAgain(t) \/ ReadLowAgain(t) \/ Arm(t)
             \/ InPast(t) \/ First(t) \/ WakeUp(t) \/ Cancel(t) \/ ClearTimerEvent(t)
             \/ Test(t) \/ Requeue(t)

\* Another event is posted to a task; a task that works takes notice of it.
Post(t) ==
  /\ posted < MaxEvents
  /\ posted' = posted + 1
  /\ evt' = [evt EXCEPT ![t] = @ \cup {"OTHER"}]
  /\ lag' = IF Idle THEN 0 ELSE lag
  /\ UNCHANGED <<clk, hwVars, isrVars, trigger, clksrc_high, timerVars,
                 next_deadline, taskVars>>

TakeEvents(t) ==
  /\ At(t, "work") /\ evt[t] # {}
  /\ evt' = [evt EXCEPT ![t] = {}]
  /\ UNCHANGED <<taskRest, lag, trigger, timerVars, taskVars>>

Next ==
  \/ Tick \/ Handler
  \/ \E t \in Sleepers :
       \/ \E delay \in Delays : Usleep(t, delay)
       \/ Return(t) \/ Post(t) \/ TakeEvents(t)

Spec == Init /\ [][Next]_vars

-----------------------------------------------------------------------------
(* Properties.                                                             *)

TypeOK ==
  /\ clk \in Nat /\ lag \in Nat /\ posted \in Nat /\ clksrc_high \in Nat
  /\ uif \in BOOLEAN /\ trigger \in BOOLEAN /\ overflow \in BOOLEAN
  /\ match \subseteq {"msb", "lsb"} /\ dier \subseteq {"msb", "lsb"}
  /\ ccr \in [msb: 0 .. Msb - 1, lsb: 0 .. Lsb - 1]
  /\ isr \in {"off", "clear", "scan", "msb", "msb2", "lsb", "lsb2", "check"}
  /\ next \in Nat /\ next_deadline \in 0 .. W - 1
  /\ timer_running \subseteq Sleepers /\ timer_deadline \in [Sleepers -> Nat]
  /\ pc \in [Sleepers -> {"work", "hi", "lo", "recheck", "lo2", "arm", "past",
                          "first", "sleep", "cancel", "clear", "test", "requeue"}]
  /\ us \in [Sleepers -> Nat] /\ ts \in [Sleepers -> Nat]
  /\ since \in [Sleepers -> Nat]
  /\ evt \in [Sleepers -> SUBSET {"TIMER", "OTHER"}]
  /\ got \in [Sleepers -> SUBSET {"TIMER", "OTHER"}]

\* get_time returns a time between its call and its return, also when the
\* counters wrap meanwhile.
TimeIsRight == \A t \in Sleepers : pc[t] = "arm" => ts[t] \in since[t] .. clk

\* When nothing is left to do, no timer of a sleeping task is overdue: the
\* interrupt for the next deadline is never missed.  (A deadline one microsecond
\* before the counters wrap is served by the overflow interrupt.)
NoMissedDeadline ==
  Idle => \A t \in timer_running :
            timer_deadline[t] > clk \/ Lo(timer_deadline[t]) = W - 1

\* "this function will sleep for at least us, and no more than 2*us" (timer.c,
\* line 147), up to the time the processor takes.
SleepIsBounded ==
  \A t \in Sleepers : pc[t] = "requeue" =>
    clk - since[t] \in us[t] .. 2 * us[t] + 2 * MaxLag

\* "signal overflow if the 16-bit MSB counter has overflowed" (hwtimer.c, line
\* 225): the high word counts every wrap of the counters.
WrapsCounted == isr = "off" /\ ~Pending => clksrc_high = Hi(clk)

\* The timers are alarms, see Alarms.
AlarmClock == INSTANCE Alarms WITH
  Clients <- Sleepers, now <- clk,
  alarm <- [t \in Sleepers |-> IF t \in timer_running THEN timer_deadline[t] ELSE -1],
  rung  <- {t \in Sleepers : "TIMER" \in evt[t]}
AlarmSpec == AlarmClock!Spec
=============================================================================
