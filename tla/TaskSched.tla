------------------------------ MODULE TaskSched ------------------------------
(***************************************************************************)
(* The event services of core/cortex-m0/task.c used by arbitrary tasks:    *)
(* every task may post events to every other, wait for events with or      *)
(* without a time limit, and be interrupted anywhere by handlers that post *)
(* events, among them the timer of common/timer.c, abstracted to the set   *)
(* of armed timers, any of which may expire.                               *)
(***************************************************************************)
EXTENDS Kernel

CONSTANTS Custom,     \* the events tasks and interrupts post to each other
          MaxPosts,   \* bound on the events posted and the timers armed
          SyncPosts   \* tasks also use task_set_event with wait # 0

ASSUME CustomAssumption == "TIMER" \notin Custom
ASSUME BoundAssumption == MaxPosts \in Nat /\ SyncPosts \in BOOLEAN

VARIABLES
  pc,      \* control state of each task
  resched, \* the task that __schedule is asked to resume, per task
  timed,   \* the task waits with a time limit
  armed,   \* timer_running
  posts    \* events posted and timers armed so far

schedVars == <<pc, resched, timed, armed, posts>>
vars == <<kernelVars, schedVars>>

User == Tasks \ {IDLE}
Events == Custom \cup {"TIMER"}

Init ==
  /\ KernelInit
  /\ pc = [t \in User |-> "run"]
  /\ resched = [t \in User |-> IDLE]
  /\ timed = [t \in User |-> FALSE]
  /\ armed = {} /\ posts = 0

Goto(t, label) == pc' = [pc EXCEPT ![t] = label]

-----------------------------------------------------------------------------
(* task_set_event in a task.                                               *)

\* task_enable_all_tasks, called by the hooks task after the HOOK_INIT hooks.
EnableAllTasks(t) ==
  /\ Running(t) /\ pc[t] = "run" /\ t = HOOKS /\ enabled # Tasks
  /\ ready' = Tasks /\ enabled' = Tasks
  /\ Goto(t, "schedule")
  /\ resched' = [resched EXCEPT ![t] = IDLE]
  /\ UNCHANGED <<current, events, started, pendsv, timed, armed, posts>>

\* The event is in the bitmap of the receiver; wait # 0 goes on in __wait_evt.
SetEvent(t, receiver, event, wait) ==
  /\ Running(t) /\ pc[t] = "run" /\ posts < MaxPosts
  /\ posts' = posts + 1
  /\ events' = [events EXCEPT ![receiver] = @ \cup {event}]
  /\ resched' = [resched EXCEPT ![t] = receiver]
  /\ timed' = [timed EXCEPT ![t] = FALSE]
  /\ Goto(t, IF wait THEN "check" ELSE "schedule")
  /\ UNCHANGED <<current, ready, enabled, started, pendsv, armed>>

\* __schedule(0, receiver)
Schedule(t) ==
  /\ Running(t) /\ pc[t] = "schedule"
  /\ SvcHandler(FALSE, resched[t])
  /\ Goto(t, "run")
  /\ UNCHANGED <<pendsv, resched, timed, armed, posts>>

-----------------------------------------------------------------------------
(* task_wait_event.                                                        *)

\* Before the other tasks are enabled the HOOK_INIT hooks only sleep.
Wait(t, limit) ==
  /\ Running(t) /\ pc[t] = "run"
  /\ limit => posts < MaxPosts
  /\ enabled # Tasks => limit
  /\ posts' = IF limit THEN posts + 1 ELSE posts
  /\ armed' = IF limit THEN armed \cup {t} ELSE armed
  /\ timed' = [timed EXCEPT ![t] = limit]
  /\ resched' = [resched EXCEPT ![t] = IDLE]
  /\ Goto(t, "check")
  /\ UNCHANGED kernelVars

\* Mutant: the timer event is cleared before the timer is canceled.
AfterWaitSwapped(t) == IF timed[t] THEN "clear" ELSE "run"
AfterWait(t) == IF timed[t] THEN "cancel" ELSE "run"

\* while (!(evt = atomic_read_clear(&tsk->events)))
Check(t) ==
  /\ Running(t) /\ pc[t] = "check"
  /\ events' = [events EXCEPT ![t] = {}]
  /\ Goto(t, IF events[t] = {} THEN "deschedule" ELSE AfterWait(t))
  /\ UNCHANGED <<current, ready, enabled, started, pendsv, resched, timed, armed,
                 posts>>

\* __schedule(1, resched); resched = TASK_ID_IDLE
Deschedule(t) ==
  /\ Running(t) /\ pc[t] = "deschedule"
  /\ SvcHandler(TRUE, resched[t])
  /\ resched' = [resched EXCEPT ![t] = IDLE]
  /\ Goto(t, "check")
  /\ UNCHANGED <<pendsv, timed, armed, posts>>

\* timer_cancel(me)
Cancel(t) ==
  /\ Running(t) /\ pc[t] = "cancel"
  /\ armed' = armed \ {t}
  /\ Goto(t, "clear")
  /\ UNCHANGED <<kernelVars, resched, timed, posts>>

\* atomic_clear(&tsk->events, TASK_EVENT_TIMER)
ClearTimer(t) ==
  /\ Running(t) /\ pc[t] = "clear"
  /\ events' = [events EXCEPT ![t] = @ \ {"TIMER"}]
  /\ Goto(t, "run")
  /\ UNCHANGED <<current, ready, enabled, started, pendsv, resched, timed, armed,
                 posts>>

-----------------------------------------------------------------------------
(* Interrupts.                                                             *)

\* A device interrupt posts an event to a task.
DeviceIrq(t, event) ==
  /\ posts < MaxPosts
  /\ posts' = posts + 1
  /\ SetEventFromIrq(t, {event})
  /\ UNCHANGED <<pc, resched, timed, armed>>

\* expire_timer
TimerIrq(t) ==
  /\ t \in armed
  /\ armed' = armed \ {t}
  /\ SetEventFromIrq(t, {"TIMER"})
  /\ UNCHANGED <<pc, resched, timed, posts>>

-----------------------------------------------------------------------------
Boot      == Start /\ UNCHANGED schedVars
Preempt   == PendSv /\ UNCHANGED schedVars
Service(t) == Schedule(t) \/ Check(t) \/ Deschedule(t) \/ Cancel(t) \/ ClearTimer(t)

Next ==
  \/ Boot \/ Preempt
  \/ \E t \in User :
       \/ EnableAllTasks(t)
       \/ \E r \in User, e \in Custom, w \in BOOLEAN :
            r # t /\ (w => SyncPosts) /\ SetEvent(t, r, e, w)
       \/ \E limit \in BOOLEAN : Wait(t, limit)
       \/ Service(t)
       \/ \E e \in Custom : DeviceIrq(t, e)
       \/ TimerIrq(t)

Spec == Init /\ [][Next]_vars

(***************************************************************************)
(* The processor executes: exceptions are taken, a running task goes on,   *)
(* no task computes forever, it comes back to wait for events, the         *)
(* HOOK_INIT hooks come to an end, and a timer that is armed expires.      *)
(***************************************************************************)
Fairness ==
  /\ WF_vars(Boot) /\ WF_vars(Preempt)
  /\ \A t \in User : /\ WF_vars(Service(t))
                     /\ SF_vars(EnableAllTasks(t))
                     /\ WF_vars(TimerIrq(t))
                     /\ WF_vars(Wait(t, FALSE))

FairSpec == Spec /\ Fairness

-----------------------------------------------------------------------------
(* Properties.                                                             *)

Labels == {"run", "schedule", "check", "deschedule", "cancel", "clear"}

TypeOK ==
  /\ KernelTypeOK
  /\ events \in [Tasks -> SUBSET Events]
  /\ pc \in [User -> Labels] /\ resched \in [User -> Tasks]
  /\ timed \in [User -> BOOLEAN] /\ armed \subseteq User /\ posts \in Nat

\* Somebody is about to ask the scheduler to resume t.
WakeUpInFlight(t) ==
  \E s \in User : resched[s] = t /\ pc[s] \in {"schedule", "check", "deschedule"}

\* A task with a pending event is ready, or its waker is about to make it ready:
\* no event is posted between the test of __wait_evt and the descheduling and
\* then slept upon.
NoLostWakeup ==
  \A t \in User : events[t] # {} => t \in ready \/ WakeUpInFlight(t)

\* The processor runs the highest ready and enabled task, except between an
\* interrupt and PendSV and in a task that is about to call the scheduler.
HighestRuns ==
  (started /\ ~pendsv /\ (current \in User => pc[current] # "schedule"))
    => current \in Highest(ready \cap enabled)

\* The idle task stops the clock only when every task waits for an event and
\* none is pending.
IdleMeansNoWork ==
  (current = IDLE /\ ~pendsv /\ enabled = Tasks)
    => \A t \in User : pc[t] = "check" /\ events[t] = {}

\* Once task_wait_event has returned its timer is neither armed nor about to
\* deliver an event ("Ensure timer event is clear, we no longer care about it",
\* task.c, line 347), and timer_arm of the next wait does not fail.
NoStaleTimer ==
  \A t \in User : pc[t] = "run" => t \notin armed /\ "TIMER" \notin events[t]

\* Every event that is posted is received.
EventsReceived == \A t \in User : events[t] # {} ~> events[t] = {}
=============================================================================
