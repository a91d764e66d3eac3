------------------------------- MODULE Kernel -------------------------------
(***************************************************************************)
(* The scheduling state of core/cortex-m0 and the exceptions that change   *)
(* it.  Tasks are numbered by priority, 0 is the idle task.  A task is     *)
(* preemptible between any two of its steps: an access made with the       *)
(* interrupts masked (the operations of atomic.h, cpsid ... cpsie) is one  *)
(* step.  Interrupt handlers run above every task; the SVC handler runs    *)
(* above every interrupt, and PendSV below all of them but above the       *)
(* tasks, so that no task makes a step while it is pending.                *)
(*                                                                         *)
(* Modules about programs that run on the scheduler extend this one and    *)
(* supply the steps of the tasks.                                          *)
(***************************************************************************)
EXTENDS Integers, FiniteSets

CONSTANT NTasks    \* tasks besides the idle task: HOOKS, CONSOLE, SNIFFER

ASSUME NTasksAssumption == NTasks \in Nat \ {0}

VARIABLES
  current,   \* current_task; NoTask while it points to the scratch pad
  ready,     \* tasks_ready
  enabled,   \* tasks_enabled
  events,    \* events of each task
  started,   \* start_called
  pendsv     \* PendSV is pending

kernelVars == <<current, ready, enabled, events, started, pendsv>>

IDLE   == 0
HOOKS  == 1
NoTask == -1
Tasks  == 0 .. NTasks

KernelInit ==
  /\ current = NoTask
  /\ ready = {HOOKS} /\ enabled = {HOOKS, IDLE}
  /\ events = [t \in Tasks |-> {}]
  /\ started = FALSE /\ pendsv = FALSE

\* The tasks of S with the highest priority: __fls.
Highest(S) == {t \in S : \A s \in S : s <= t}

\* Mutant: a task that waits is descheduled whatever its events.
DeschedAlways(desched) == IF desched THEN {current} ELSE {}

\* The ready bits that __svc_handler clears, and the one it sets.
Descheduled(desched) ==
  IF desched /\ events[current] = {} THEN {current} ELSE {}
Resumed(t) == {t}

(***************************************************************************)
(* __svc_handler(desched, resched) and the context switch.  It needs a     *)
(* ready and enabled task: ASSERT(tasks_ready & tasks_enabled).            *)
(***************************************************************************)
SvcHandler(desched, resched) ==
  /\ ready' = (ready \ Descheduled(desched)) \cup Resumed(resched)
  /\ current' \in Highest(ready' \cap enabled)
  /\ UNCHANGED <<enabled, events, started>>

\* task_start: start_called is set and the first task is scheduled.
Start ==
  /\ ~started
  /\ started' = TRUE
  /\ current' \in Highest((ready \cup {IDLE}) \cap enabled)
  /\ ready' = ready \cup {IDLE}
  /\ UNCHANGED <<enabled, events, pendsv>>

\* pendsv_handler: taken when no interrupt is active.
PendSv ==
  /\ pendsv
  /\ pendsv' = FALSE
  /\ SvcHandler(FALSE, IDLE)

PendSvRequested == pendsv \/ started

\* task_set_event(t, bits, 0) in an interrupt handler.
SetEventFromIrq(t, bits) ==
  /\ events' = [events EXCEPT ![t] = @ \cup bits]
  /\ ready' = ready \cup {t}
  /\ pendsv' = PendSvRequested
  /\ UNCHANGED <<current, enabled, started>>

\* Task t may make a step.
Running(t) == started /\ current = t /\ ~pendsv

KernelTypeOK ==
  /\ current \in Tasks \cup {NoTask}
  /\ ready \subseteq Tasks /\ enabled \subseteq Tasks
  /\ started \in BOOLEAN /\ pendsv \in BOOLEAN
=============================================================================
