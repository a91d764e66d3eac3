-------------------------- MODULE TaskSched_proofs --------------------------
(***************************************************************************)
(* Theorems about the scheduler, for every number of tasks, any set of     *)
(* events and any number of posts: no wake-up is lost, the highest ready   *)
(* task runs, the idle task runs only when there is nothing to do, and no  *)
(* timer event outlives the wait it belongs to.                            *)
(***************************************************************************)
EXTENDS TaskSched, TLAPS

\* The scheduler keeps its types, and schedules a highest task.
LEMMA SvcType ==
  ASSUME KernelTypeOK, NEW x \in BOOLEAN, NEW t \in Tasks, SvcHandler(x, t)
  PROVE  /\ current' \in Tasks /\ ready' \subseteq Tasks
         /\ current' \in Highest(ready' \cap enabled')
<1>1. ready' \subseteq Tasks
  BY DEF KernelTypeOK, SvcHandler, Resumed
<1>2. current' \in Highest(ready' \cap enabled')
  BY DEF SvcHandler
<1> QED BY <1>1, <1>2 DEF Highest

LEMMA IdleTask == IDLE \in Tasks /\ HOOKS \in Tasks /\ User \subseteq Tasks
BY NTasksAssumption DEF IDLE, HOOKS, Tasks, User

-----------------------------------------------------------------------------
(* Types.                                                                  *)

LEMMA TypeInit == Init => TypeOK
<1> SUFFICES ASSUME Init PROVE TypeOK
  OBVIOUS
<1>1. KernelTypeOK /\ events \in [Tasks -> SUBSET Events]
  BY IdleTask DEF Init, KernelInit, KernelTypeOK
<1> QED
  BY <1>1, IdleTask DEF Init, TypeOK, Labels

LEMMA TypeNext == TypeOK /\ [Next]_vars => TypeOK'
<1> SUFFICES ASSUME TypeOK, [Next]_vars PROVE TypeOK'
  OBVIOUS
<1> USE IdleTask, BoundAssumption DEF TypeOK, kernelVars, schedVars, Goto, Labels
<1>1. CASE Boot
  <2>1. current' \in Tasks
    BY <1>1 DEF Boot, Start, Highest, KernelTypeOK
  <2> QED BY <1>1, <2>1 DEF Boot, Start, KernelTypeOK
<1>2. CASE Preempt
  <2>1. current' \in Tasks /\ ready' \subseteq Tasks
    BY <1>2, SvcType DEF Preempt, PendSv
  <2> QED BY <1>2, <2>1 DEF Preempt, PendSv, SvcHandler, KernelTypeOK
<1>3. ASSUME NEW t \in User, EnableAllTasks(t) PROVE TypeOK'
  BY <1>3 DEF EnableAllTasks, KernelTypeOK
<1>4. ASSUME NEW t \in User, NEW r \in User, NEW e \in Custom, NEW w \in BOOLEAN,
             SetEvent(t, r, e, w) PROVE TypeOK'
  <2>1. events' \in [Tasks -> SUBSET Events]
    BY <1>4 DEF SetEvent, Events
  <2>2. pc' \in [User -> Labels]
    BY <1>4 DEF SetEvent
  <2> QED BY <1>4, <2>1, <2>2 DEF SetEvent, KernelTypeOK
<1>5. ASSUME NEW t \in User, NEW limit \in BOOLEAN, Wait(t, limit) PROVE TypeOK'
  <2>1. posts' \in Nat /\ armed' \subseteq User
    BY <1>5 DEF Wait
  <2> QED BY <1>5, <2>1 DEF Wait, KernelTypeOK
<1>6. ASSUME NEW t \in User, Service(t) PROVE TypeOK'
  <2>1. CASE Schedule(t)
    <3>1. current' \in Tasks /\ ready' \subseteq Tasks
      BY <2>1, SvcType DEF Schedule
    <3> QED BY <2>1, <3>1 DEF Schedule, SvcHandler, KernelTypeOK
  <2>2. CASE Check(t)
    <3>1. pc' \in [User -> Labels]
      BY <2>2 DEF Check, AfterWait
    <3> QED BY <2>2, <3>1 DEF Check, KernelTypeOK
  <2>3. CASE Deschedule(t)
    <3>1. current' \in Tasks /\ ready' \subseteq Tasks
      BY <2>3, SvcType DEF Deschedule
    <3> QED BY <2>3, <3>1 DEF Deschedule, SvcHandler, KernelTypeOK
  <2>4. CASE Cancel(t) \/ ClearTimer(t)
    BY <2>4 DEF Cancel, ClearTimer, KernelTypeOK
  <2> QED BY <1>6, <2>1, <2>2, <2>3, <2>4 DEF Service
<1>7. ASSUME NEW t \in User, (\E e \in Custom : DeviceIrq(t, e)) \/ TimerIrq(t)
      PROVE TypeOK'
  <2>1. pendsv' \in BOOLEAN
    BY <1>7 DEF DeviceIrq, TimerIrq, SetEventFromIrq, PendSvRequested, KernelTypeOK
  <2> QED BY <1>7, <2>1 DEF DeviceIrq, TimerIrq, SetEventFromIrq, KernelTypeOK, Events
<1>8. CASE UNCHANGED vars
  BY <1>8 DEF vars, KernelTypeOK
<1> QED
  BY <1>1, <1>2, <1>3, <1>4, <1>5, <1>6, <1>7, <1>8 DEF Next

\* The state of the scheduler keeps its types.
THEOREM TypeCorrect == Spec => []TypeOK
BY TypeInit, TypeNext, PTL DEF Spec

-----------------------------------------------------------------------------
(* The processor runs the highest ready task.                              *)

LEMMA HighestNext == TypeOK /\ HighestRuns /\ [Next]_vars => HighestRuns'
<1> SUFFICES ASSUME TypeOK, HighestRuns, [Next]_vars PROVE HighestRuns'
  OBVIOUS
<1> USE IdleTask DEF TypeOK, HighestRuns, kernelVars, schedVars, Goto, Running
<1>1. CASE Boot
  <2>1. current' \in Highest(ready' \cap enabled')
    BY <1>1 DEF Boot, Start
  <2> QED BY <2>1
<1>2. CASE Preempt
  <2>1. current' \in Highest(ready' \cap enabled')
    BY <1>2, SvcType DEF Preempt, PendSv
  <2> QED BY <2>1
<1>3. ASSUME NEW t \in User, EnableAllTasks(t) PROVE HighestRuns'
  BY <1>3 DEF EnableAllTasks
<1>4. ASSUME NEW t \in User, NEW r \in User, NEW e \in Custom, NEW w \in BOOLEAN,
             SetEvent(t, r, e, w) PROVE HighestRuns'
  BY <1>4 DEF SetEvent
<1>5. ASSUME NEW t \in User, NEW limit \in BOOLEAN, Wait(t, limit)
      PROVE HighestRuns'
  BY <1>5 DEF Wait
<1>6. ASSUME NEW t \in User, Schedule(t) \/ Deschedule(t) PROVE HighestRuns'
  <2>1. current' \in Highest(ready' \cap enabled')
    BY <1>6, SvcType DEF Schedule, Deschedule
  <2> QED BY <2>1
<1>7. ASSUME NEW t \in User, Check(t) \/ Cancel(t) \/ ClearTimer(t)
      PROVE HighestRuns'
  BY <1>7 DEF Check, Cancel, ClearTimer
<1>8. ASSUME NEW t \in User, (\E e \in Custom : DeviceIrq(t, e)) \/ TimerIrq(t)
      PROVE HighestRuns'
  <2>1. started => pendsv'
    BY <1>8 DEF DeviceIrq, TimerIrq, SetEventFromIrq, PendSvRequested
  <2>2. started' = started
    BY <1>8 DEF DeviceIrq, TimerIrq, SetEventFromIrq
  <2> QED BY <2>1, <2>2
<1>9. CASE UNCHANGED vars
  BY <1>9 DEF vars
<1> QED
  BY <1>1, <1>2, <1>3, <1>4, <1>5, <1>6, <1>7, <1>8, <1>9 DEF Next, Service

\* The processor always runs the ready task of the highest priority, up to the
\* rescheduling that an interrupt or a task has just asked for.
THEOREM HighestAlwaysRuns == Spec => []HighestRuns
<1>1. Init => HighestRuns
  BY DEF Init, KernelInit, HighestRuns
<1> QED
  BY <1>1, HighestNext, TypeCorrect, PTL DEF Spec

-----------------------------------------------------------------------------
(* Wake-ups.                                                               *)

(***************************************************************************)
(* A task in the loop of __wait_evt resumes nobody (the event it posted    *)
(* has been scheduled before it waits), so that what it consumes cannot    *)
(* cancel the wake-up of another; and once all tasks are enabled the ones  *)
(* that are not ready are those that wait.                                 *)
(***************************************************************************)
WakeInv ==
  /\ NoLostWakeup
  /\ \A t \in User : pc[t] \in {"check", "deschedule"} => resched[t] = IDLE
  /\ enabled = Tasks => \A t \in User \ ready : pc[t] = "check"

NoSync == SyncPosts = FALSE

LEMMA WakeNext ==
  ASSUME NoSync, TypeOK, HighestRuns, WakeInv, [Next]_vars
  PROVE  WakeInv'
<1> USE IdleTask DEF TypeOK, WakeInv, NoLostWakeup, WakeUpInFlight, Labels,
        kernelVars, schedVars, Goto, Running, KernelTypeOK
<1>0. \A t \in User : t # IDLE
  BY DEF User
<1>1. CASE Boot
  BY <1>1 DEF Boot, Start
<1>2. CASE Preempt
  BY <1>2 DEF Preempt, PendSv, SvcHandler, Descheduled, Resumed
<1>3. ASSUME NEW t \in User, EnableAllTasks(t) PROVE WakeInv'
  BY <1>3 DEF EnableAllTasks
<1>4. ASSUME NEW t \in User, NEW r \in User, NEW e \in Custom,
             SetEvent(t, r, e, FALSE) PROVE WakeInv'
  <2>1. /\ pc' = [pc EXCEPT ![t] = "schedule"] /\ pc[t] = "run"
        /\ resched' = [resched EXCEPT ![t] = r]
        /\ events' = [events EXCEPT ![r] = @ \cup {e}]
        /\ UNCHANGED <<ready, enabled>>
    BY <1>4 DEF SetEvent
  <2>2. ASSUME NEW s \in User, events'[s] # {}, s \notin ready'
        PROVE  WakeUpInFlight(s)'
    <3>1. CASE s = r
      BY <2>1, <3>1
    <3>2. CASE s # r
      <4>1. PICK v \in User : resched[v] = s /\ pc[v] \in {"schedule", "check", "deschedule"}
        BY <2>1, <2>2, <3>2
      <4>2. v # t
        BY <2>1, <4>1
      <4> QED BY <2>1, <4>1, <4>2
    <3> QED BY <3>1, <3>2
  <2>3. (\A s \in User : pc[s] \in {"check", "deschedule"} => resched[s] = IDLE)'
    BY <2>1
  <2>4. (enabled = Tasks => \A s \in User \ ready : pc[s] = "check")'
    BY <2>1
  <2> QED BY <2>2, <2>3, <2>4
<1>5. ASSUME NEW t \in User, NEW limit \in BOOLEAN, Wait(t, limit) PROVE WakeInv'
  <2>1. /\ pc' = [pc EXCEPT ![t] = "check"] /\ pc[t] = "run"
        /\ resched' = [resched EXCEPT ![t] = IDLE]
        /\ UNCHANGED <<ready, enabled, events>>
    BY <1>5 DEF Wait
  <2> QED BY <2>1, <1>0
<1>6. ASSUME NEW t \in User, Schedule(t) PROVE WakeInv'
  <2>1. /\ pc' = [pc EXCEPT ![t] = "run"] /\ pc[t] = "schedule"
        /\ ready' = ready \cup {resched[t]}
        /\ UNCHANGED <<enabled, events, resched>>
    BY <1>6 DEF Schedule, SvcHandler, Descheduled, Resumed
  <2> QED BY <2>1
<1>7. ASSUME NEW t \in User, Deschedule(t) PROVE WakeInv'
  <2>1. /\ pc' = [pc EXCEPT ![t] = "check"] /\ pc[t] = "deschedule"
        /\ resched[t] = IDLE /\ resched' = [resched EXCEPT ![t] = IDLE]
        /\ UNCHANGED <<enabled, events>>
    BY <1>7 DEF Deschedule, SvcHandler
  <2>2. ready' = (ready \ (IF events[t] = {} THEN {t} ELSE {})) \cup {IDLE}
    BY <1>7 DEF Deschedule, SvcHandler, Descheduled, Resumed
  <2>3. ASSUME NEW s \in User, events'[s] # {}, s \notin ready'
        PROVE  WakeUpInFlight(s)'
    <3>1. s \notin ready
      BY <2>1, <2>2, <2>3
    <3>2. PICK v \in User : resched[v] = s /\ pc[v] \in {"schedule", "check", "deschedule"}
      BY <2>1, <2>3, <3>1
    <3>3. v # t
      BY <1>0, <2>1, <3>2
    <3> QED BY <2>1, <3>2, <3>3
  <2>4. (enabled = Tasks => \A s \in User \ ready : pc[s] = "check")'
    BY <2>1, <2>2
  <2> QED BY <2>1, <2>3, <2>4
<1>8. ASSUME NEW t \in User, Check(t) PROVE WakeInv'
  <2>1. /\ pc[t] = "check" /\ resched[t] = IDLE
        /\ pc' = [pc EXCEPT ![t] = pc'[t]]
        /\ events' = [events EXCEPT ![t] = {}]
        /\ UNCHANGED <<ready, enabled, resched>>
    BY <1>8 DEF Check
  <2>2. t \in ready
    BY <1>8 DEF Check, HighestRuns, Highest
  <2>3. ASSUME NEW s \in User, events'[s] # {}, s \notin ready'
        PROVE  WakeUpInFlight(s)'
    <3>1. PICK v \in User : resched[v] = s /\ pc[v] \in {"schedule", "check", "deschedule"}
      BY <2>1, <2>3
    <3>2. v # t
      BY <1>0, <2>1, <3>1
    <3> QED BY <2>1, <3>1, <3>2
  <2> QED BY <2>1, <2>2, <2>3
<1>9. ASSUME NEW t \in User, Cancel(t) \/ ClearTimer(t) PROVE WakeInv'
  BY <1>9 DEF Cancel, ClearTimer
<1>10. ASSUME NEW t \in User, (\E e \in Custom : DeviceIrq(t, e)) \/ TimerIrq(t)
       PROVE WakeInv'
  BY <1>10 DEF DeviceIrq, TimerIrq, SetEventFromIrq
<1>11. CASE UNCHANGED vars
  BY <1>11 DEF vars
<1> QED
  <2>1. ASSUME NEW t \in User, NEW r \in User, NEW e \in Custom, NEW w \in BOOLEAN,
               w => SyncPosts, SetEvent(t, r, e, w)
        PROVE  SetEvent(t, r, e, FALSE)
    BY <2>1, NoSync DEF NoSync
  <2> HIDE DEF TypeOK, WakeInv, NoLostWakeup, WakeUpInFlight, Labels, kernelVars,
               schedVars, Goto, Running, KernelTypeOK
  <2> QED
    BY <1>1, <1>2, <1>3, <1>4, <1>5, <1>6, <1>7, <1>8, <1>9, <1>10, <1>11, <2>1
    DEF Next, Service

\* Only a started scheduler has a current task or a pending PendSV.
StartInv == current # NoTask \/ pendsv => started

LEMMA WakeInvariant == ASSUME NoSync PROVE Spec => [](HighestRuns /\ WakeInv)
<1>1. Init => WakeInv
  BY IdleTask
  DEF Init, KernelInit, WakeInv, NoLostWakeup, User, Tasks, IDLE, HOOKS
<1>2. ASSUME TypeOK, HighestRuns, WakeInv, [Next]_vars PROVE WakeInv'
  BY <1>2, WakeNext
<1> QED
  BY <1>1, <1>2, HighestAlwaysRuns, TypeCorrect, PTL DEF Spec

\* Without task_set_event(..., wait), which no code of this firmware calls, a
\* task with a pending event is ready or about to be made ready.
THEOREM WakeupsKept == ASSUME NoSync PROVE Spec => []NoLostWakeup
<1>1. WakeInv => NoLostWakeup
  BY DEF WakeInv
<1> QED BY <1>1, WakeInvariant, PTL

\* The idle task runs only when every task waits and has no event.
THEOREM IdleIsIdle == ASSUME NoSync PROVE Spec => []IdleMeansNoWork
<1>1. TypeOK /\ HighestRuns /\ WakeInv /\ StartInv
        => IdleMeansNoWork
  <2> SUFFICES ASSUME TypeOK, HighestRuns, WakeInv, StartInv,
                      current = IDLE, ~pendsv, enabled = Tasks, NEW t \in User
               PROVE  pc[t] = "check" /\ events[t] = {}
    BY DEF IdleMeansNoWork
  <2>1. current \notin User /\ started
    BY DEF User, IDLE, NoTask, StartInv
  <2>2. \A s \in User : s \notin ready
    <3>1. IDLE \in Highest(ready \cap Tasks)
      BY <2>1 DEF HighestRuns
    <3>2. \A s \in ready \cap Tasks : s <= 0
      BY <3>1 DEF Highest, IDLE
    <3>3. \A s \in User : s \in Tasks /\ ~(s <= 0)
      BY NTasksAssumption DEF User, Tasks, IDLE
    <3> QED BY <3>2, <3>3
  <2>3. \A s \in User : pc[s] = "check" /\ resched[s] = IDLE
    BY <2>2 DEF WakeInv
  <2>4. ~WakeUpInFlight(t)
    BY <2>3 DEF WakeUpInFlight, User
  <2> QED
    BY <2>2, <2>3, <2>4 DEF WakeInv, NoLostWakeup
<1>2. Init => StartInv
  BY DEF Init, KernelInit, StartInv
<1>3. StartInv /\ [Next]_vars => StartInv'
  <2> SUFFICES ASSUME StartInv, [Next]_vars PROVE StartInv'
    OBVIOUS
  <2>1. started => started'
    BY DEF Next, Boot, Start, Preempt, PendSv, EnableAllTasks, SetEvent, Wait,
           Service, Schedule, Check, Deschedule, Cancel, ClearTimer, DeviceIrq,
           TimerIrq, SetEventFromIrq, SvcHandler, kernelVars, vars
  <2>2. CASE Preempt
    BY <2>1, <2>2 DEF Preempt, PendSv, StartInv
  <2>3. ASSUME NEW t \in User, Running(t) PROVE StartInv'
    BY <2>1, <2>3 DEF Running, StartInv
  <2>4. ASSUME NEW t \in User, (\E e \in Custom : DeviceIrq(t, e)) \/ TimerIrq(t)
        PROVE  StartInv'
    BY <2>1, <2>4 DEF DeviceIrq, TimerIrq, SetEventFromIrq, PendSvRequested, StartInv
  <2>5. CASE Boot
    BY <2>5 DEF Boot, Start, StartInv
  <2>6. CASE UNCHANGED vars
    BY <2>6 DEF vars, kernelVars, StartInv
  <2>7. ASSUME NEW t \in User,
               \/ EnableAllTasks(t) \/ Service(t)
               \/ \E limit \in BOOLEAN : Wait(t, limit)
               \/ \E r \in User, e \in Custom, w \in BOOLEAN : SetEvent(t, r, e, w)
        PROVE  Running(t)
    BY <2>7 DEF EnableAllTasks, Service, Wait, SetEvent, Schedule, Check, Deschedule,
                Cancel, ClearTimer
  <2> QED BY <2>2, <2>3, <2>4, <2>5, <2>6, <2>7 DEF Next
<1> QED
  BY <1>1, <1>2, <1>3, WakeInvariant, TypeCorrect, PTL DEF Spec

-----------------------------------------------------------------------------
(* Timers.                                                                 *)

\* A timer, or its event, belongs to a wait with a time limit in progress.
TimerInv ==
  \A t \in User :
    /\ t \in armed => timed[t] /\ pc[t] \in {"check", "deschedule", "cancel"}
    /\ "TIMER" \in events[t] =>
         timed[t] /\ pc[t] \in {"check", "deschedule", "cancel", "clear"}

LEMMA TimerNext == TypeOK /\ TimerInv /\ [Next]_vars => TimerInv'
<1> SUFFICES ASSUME TypeOK, TimerInv, [Next]_vars PROVE TimerInv'
  OBVIOUS
<1> USE IdleTask, CustomAssumption DEF TypeOK, TimerInv, kernelVars, schedVars, Goto,
        Labels
<1>1. CASE Boot \/ Preempt
  BY <1>1 DEF Boot, Start, Preempt, PendSv, SvcHandler
<1>2. ASSUME NEW t \in User, EnableAllTasks(t) PROVE TimerInv'
  BY <1>2 DEF EnableAllTasks
<1>3. ASSUME NEW t \in User, NEW r \in User, NEW e \in Custom, NEW w \in BOOLEAN,
             SetEvent(t, r, e, w) PROVE TimerInv'
  BY <1>3 DEF SetEvent
<1>4. ASSUME NEW t \in User, NEW limit \in BOOLEAN, Wait(t, limit) PROVE TimerInv'
  BY <1>4 DEF Wait
<1>5. ASSUME NEW t \in User, Schedule(t) \/ Deschedule(t) PROVE TimerInv'
  BY <1>5 DEF Schedule, Deschedule, SvcHandler
<1>6. ASSUME NEW t \in User, Check(t) PROVE TimerInv'
  BY <1>6 DEF Check, AfterWait
<1>7. ASSUME NEW t \in User, Cancel(t) \/ ClearTimer(t) PROVE TimerInv'
  BY <1>7 DEF Cancel, ClearTimer
<1>8. ASSUME NEW t \in User, NEW e \in Custom, DeviceIrq(t, e) PROVE TimerInv'
  BY <1>8 DEF DeviceIrq, SetEventFromIrq
<1>9. ASSUME NEW t \in User, TimerIrq(t) PROVE TimerInv'
  BY <1>9 DEF TimerIrq, SetEventFromIrq
<1>10. CASE UNCHANGED vars
  BY <1>10 DEF vars
<1> HIDE DEF TypeOK, TimerInv, kernelVars, schedVars, Goto, Labels
<1> QED
  BY <1>1, <1>2, <1>3, <1>4, <1>5, <1>6, <1>7, <1>8, <1>9, <1>10 DEF Next, Service

\* Back from a wait, a task has neither an armed timer nor a timer event.
THEOREM TimerIsGone == Spec => []NoStaleTimer
<1>1. Init => TimerInv
  BY IdleTask DEF Init, KernelInit, TimerInv
<1>2. TimerInv => NoStaleTimer
  BY DEF TimerInv, NoStaleTimer
<1> QED
  BY <1>1, <1>2, TimerNext, TypeCorrect, PTL DEF Spec
=============================================================================
