---------------------------- MODULE Mutex_proofs ----------------------------
(***************************************************************************)
(* Theorems about the mutex, for every number of tasks and any amount of   *)
(* work: types, mutual exclusion (as the refinement of Lock), and that no  *)
(* task sleeps on a free mutex.                                            *)
(***************************************************************************)
EXTENDS Mutex, TLAPS

\* The scheduler keeps its types and touches nothing else.
LEMMA SvcType ==
  ASSUME KernelTypeOK, NEW x \in BOOLEAN, NEW t \in Tasks, SvcHandler(x, t)
  PROVE  current' \in Tasks /\ ready' \subseteq Tasks
<1>1. ready' \subseteq Tasks
  BY DEF KernelTypeOK, SvcHandler, Resumed
<1>2. current' \in ready'
  BY DEF SvcHandler, Highest
<1> QED BY <1>1, <1>2

LEMMA IdleTask == IDLE \in Tasks /\ HOOKS \in Tasks /\ User \subseteq Tasks
BY NTasksAssumption DEF IDLE, HOOKS, Tasks, User

-----------------------------------------------------------------------------
(* Types.                                                                  *)

AllEvents == {"mutex", "device", "work"}

LEMMA TypeInit == Init => TypeOK
<1> SUFFICES ASSUME Init PROVE TypeOK
  OBVIOUS
<1>1. KernelTypeOK /\ events \in [Tasks -> SUBSET AllEvents]
  BY IdleTask DEF Init, KernelInit, KernelTypeOK, AllEvents
<1> QED
  BY <1>1, IdleTask DEF Init, TypeOK, Labels, AllEvents

LEMMA TypeNext == TypeOK /\ [Next]_vars => TypeOK'
<1> SUFFICES ASSUME TypeOK, [Next]_vars PROVE TypeOK'
  OBVIOUS
<1> USE IdleTask DEF TypeOK, kernelVars, waitVars, mutexVars, workVars, rest, Goto, At
<1>1. CASE Boot
  <2>1. current' \in Tasks
    BY <1>1 DEF Boot, Start, Highest, KernelTypeOK
  <2> QED BY <1>1, <2>1 DEF Boot, Start, KernelTypeOK
<1>2. CASE Preempt
  <2>1. current' \in Tasks /\ ready' \subseteq Tasks
    BY <1>2, SvcType DEF Preempt, PendSv
  <2> QED BY <1>2, <2>1 DEF Preempt, PendSv, SvcHandler, KernelTypeOK
<1>3. ASSUME NEW t \in User, EnableAllTasks(t) PROVE TypeOK'
  <2>1. current' \in Tasks
    BY <1>3 DEF EnableAllTasks, Highest
  <2> QED BY <1>3, <2>1 DEF EnableAllTasks, KernelTypeOK
<1>4. ASSUME NEW t \in User, Check(t) PROVE TypeOK'
  <2>1. KernelTypeOK'
    BY <1>4 DEF Check, KernelTypeOK
  <2>2. pc' \in [User -> Labels]
    BY <1>4 DEF Check, Labels
  <2> QED BY <1>4, <2>1, <2>2 DEF Check
<1>5. ASSUME NEW t \in User, Deschedule(t) PROVE TypeOK'
  <2>1. current' \in Tasks /\ ready' \subseteq Tasks
    BY <1>5, SvcType DEF Deschedule
  <2> QED BY <1>5, <2>1 DEF Deschedule, SvcHandler, KernelTypeOK, Labels
<1>6. ASSUME NEW t \in User, Repost(t) PROVE TypeOK'
  <2>1. KernelTypeOK'
    BY <1>6 DEF Repost, KernelTypeOK
  <2>2. pc' \in [User -> Labels]
    BY <1>6 DEF Repost, Labels
  <2>3. events' \in [Tasks -> SUBSET AllEvents]
    BY <1>6 DEF Repost, Others, AllEvents
  <2> QED BY <1>6, <2>1, <2>2, <2>3 DEF Repost, AllEvents
<1>7. ASSUME NEW t \in User, Lock1(t) PROVE TypeOK'
  BY <1>7 DEF Lock1, WithWaiter, KernelTypeOK, Labels
<1>8. ASSUME NEW t \in User, Try(t) PROVE TypeOK'
  BY <1>8 DEF Try, KernelTypeOK, Labels
<1>9. ASSUME NEW t \in User, Unwait(t) PROVE TypeOK'
  BY <1>9 DEF Unwait, KernelTypeOK, Labels
<1>10. ASSUME NEW t \in User, Hold(t) PROVE TypeOK'
  BY <1>10 DEF Hold, KernelTypeOK, Labels
<1>11. ASSUME NEW t \in User, Unlock1(t) PROVE TypeOK'
  BY <1>11 DEF Unlock1, AllWaiters, KernelTypeOK, Labels
<1>12. ASSUME NEW t \in User, Post(t) PROVE TypeOK'
  <2>1. PICK w \in Highest(snapshot[t]) :
          /\ snapshot' = [snapshot EXCEPT ![t] = @ \ {w}]
          /\ events' = [events EXCEPT ![w] = @ \cup {"mutex"}]
          /\ waking' = [waking EXCEPT ![t] = w]
    BY <1>12 DEF Post
  <2>2. w \in User
    BY DEF Highest
  <2> QED BY <1>12, <2>1, <2>2 DEF Post, KernelTypeOK, Labels
<1>13. ASSUME NEW t \in User, Schedule(t) PROVE TypeOK'
  <2>1. current' \in Tasks /\ ready' \subseteq Tasks
    BY <1>13, SvcType DEF Schedule
  <2> QED BY <1>13, <2>1 DEF Schedule, SvcHandler, KernelTypeOK, Labels
<1>14. ASSUME NEW t \in User, ClearMutexEvent(t) PROVE TypeOK'
  BY <1>14 DEF ClearMutexEvent, KernelTypeOK, Labels
<1>15. ASSUME NEW t \in User, GiveWork(t) PROVE TypeOK'
  <2>1. pendsv' \in BOOLEAN
    BY <1>15 DEF GiveWork, SetEventFromIrq, PendSvRequested, KernelTypeOK
  <2> QED BY <1>15, <2>1 DEF GiveWork, SetEventFromIrq, KernelTypeOK
<1>16. ASSUME NEW t \in User, DeviceIrq(t) PROVE TypeOK'
  <2>1. pendsv' \in BOOLEAN
    BY <1>16 DEF DeviceIrq, SetEventFromIrq, PendSvRequested, KernelTypeOK
  <2> QED BY <1>16, <2>1 DEF DeviceIrq, SetEventFromIrq, KernelTypeOK
<1>17. CASE UNCHANGED vars
  BY <1>17 DEF vars, KernelTypeOK
<1> QED
  BY <1>1, <1>2, <1>3, <1>4, <1>5, <1>6, <1>7, <1>8, <1>9, <1>10, <1>11, <1>12,
     <1>13, <1>14, <1>15, <1>16, <1>17 DEF Next, TaskStep

\* The state of the mutex and of the scheduler keeps its types.
THEOREM TypeCorrect == Spec => []TypeOK
BY TypeInit, TypeNext, PTL DEF Spec

-----------------------------------------------------------------------------
(* Mutual exclusion.                                                       *)

\* The lock word tells whether somebody holds the mutex, and one task does.
LockInv ==
  /\ lock = 0 => Holding = {}
  /\ \A s, t \in Holding : s = t

LEMMA LockInit == Init => LockInv /\ Holding = {}
<1> SUFFICES ASSUME Init PROVE LockInv /\ Holding = {}
  OBVIOUS
<1>1. \A t \in User : ~Holds(t)
  BY DEF Init, Holds, Asleep
<1> QED BY <1>1 DEF LockInv, Holding

\* A step that leaves the control state of every task alone.
LEMMA HoldingSame ==
  ASSUME pc' = pc, back' = back
  PROVE  Holding' = Holding
BY DEF Holding, Holds, Asleep

\* A step of one task from one label to another.
LEMMA HoldingStep ==
  ASSUME TypeOK, NEW t \in User, NEW label, pc' = [pc EXCEPT ![t] = label],
         \A s \in User \ {t} : back'[s] = back[s]
  PROVE  /\ \A s \in User \ {t} : s \in Holding' <=> s \in Holding
         /\ pc'[t] = label
BY DEF TypeOK, Holding, Holds, Asleep

(***************************************************************************)
(* What a step does to the lock: it is taken while it is free and nobody   *)
(* holds it, it is released by a holder, or the holders stay the same.     *)
(***************************************************************************)
LockStep ==
  \/ lock = 0 /\ lock' = 2 /\ \E t \in User : Holding' = Holding \cup {t}
  \/ lock' = 0 /\ \E t \in Holding : Holding' = Holding \ {t}
  \/ lock' = lock /\ Holding' = Holding

LEMMA StepOfLock == TypeOK /\ [Next]_vars => LockStep
<1> SUFFICES ASSUME TypeOK, [Next]_vars PROVE LockStep
  OBVIOUS
<1> USE DEF kernelVars, waitVars, mutexVars, workVars, rest, Goto, At
<1>1. CASE Boot
  BY <1>1, HoldingSame DEF Boot, LockStep
<1>2. CASE Preempt
  BY <1>2, HoldingSame DEF Preempt, LockStep
<1>3. ASSUME NEW t \in User, EnableAllTasks(t) PROVE LockStep
  BY <1>3, HoldingSame DEF EnableAllTasks, LockStep
<1>4. ASSUME NEW t \in User, Check(t) PROVE LockStep
  <2>1. \E label \in {"check", "deschedule", "repost"} : pc' = [pc EXCEPT ![t] = label]
    BY <1>4 DEF Check
  <2>2. back' = back /\ lock' = lock /\ pc[t] = "check"
    BY <1>4 DEF Check
  <2>3. t \in Holding' <=> t \in Holding
    BY <2>1, <2>2 DEF Holding, Holds, Asleep, TypeOK
  <2>4. Holding' = Holding
    BY <2>1, <2>2, <2>3, HoldingStep DEF Holding
  <2> QED BY <2>2, <2>4 DEF LockStep
<1>5. ASSUME NEW t \in User, Deschedule(t) PROVE LockStep
  <2>1. pc' = [pc EXCEPT ![t] = "check"] /\ pc[t] = "deschedule"
        /\ back' = back /\ lock' = lock
    BY <1>5 DEF Deschedule
  <2>2. t \in Holding' <=> t \in Holding
    BY <2>1 DEF Holding, Holds, Asleep, TypeOK
  <2>3. Holding' = Holding
    BY <2>1, <2>2, HoldingStep DEF Holding
  <2> QED BY <2>1, <2>3 DEF LockStep
<1>6. ASSUME NEW t \in User, Repost(t) PROVE LockStep
  <2>1. back' = back /\ lock' = lock /\ pc[t] = "repost"
    BY <1>6 DEF Repost
  <2>2. PICK label \in Labels : pc' = [pc EXCEPT ![t] = label]
                                /\ label = (CASE back[t] = "mutex"  -> "try"
                                              [] back[t] = "device" -> "critical"
                                              [] back[t] = "work"   ->
                                                   IF "work" \in collected[t]
                                                   THEN "lock" ELSE "check")
    BY <1>6 DEF Repost, Labels, TypeOK
  <2>3. back[t] \in {"work", "mutex", "device"}
    BY DEF TypeOK
  <2>4. t \in Holding' <=> t \in Holding
    BY <2>1, <2>2, <2>3 DEF Holding, Holds, Asleep, TypeOK
  <2>5. Holding' = Holding
    BY <2>1, <2>2, <2>4, HoldingStep DEF Holding
  <2> QED BY <2>1, <2>5 DEF LockStep
<1>7. ASSUME NEW t \in User, Lock1(t) PROVE LockStep
  <2>1. pc' = [pc EXCEPT ![t] = "try"] /\ pc[t] = "lock"
        /\ back' = back /\ lock' = lock
    BY <1>7 DEF Lock1
  <2>2. t \notin Holding' /\ t \notin Holding
    BY <2>1 DEF Holding, Holds, Asleep, TypeOK
  <2>3. Holding' = Holding
    BY <2>1, <2>2, HoldingStep DEF Holding
  <2> QED BY <2>1, <2>3 DEF LockStep
<1>8. ASSUME NEW t \in User, Try(t) PROVE LockStep
  <2>1. pc[t] = "try" /\ t \notin Holding
    BY <1>8 DEF Try, Holding, Holds, Asleep
  <2>2. CASE Taken
    <3>1. pc' = [pc EXCEPT ![t] = "check"] /\ back' = [back EXCEPT ![t] = "mutex"]
          /\ lock' = lock
      BY <1>8, <2>2 DEF Try
    <3>2. t \notin Holding'
      BY <3>1 DEF Holding, Holds, Asleep, TypeOK
    <3>3. \A s \in User \ {t} : back'[s] = back[s]
      BY <3>1 DEF TypeOK
    <3>4. Holding' = Holding
      BY <2>1, <3>1, <3>2, <3>3, HoldingStep DEF Holding
    <3> QED BY <3>1, <3>4 DEF LockStep
  <2>3. CASE ~Taken
    <3>1. pc' = [pc EXCEPT ![t] = "unwait"] /\ back' = back /\ lock = 0 /\ lock' = 2
      BY <1>8, <2>3 DEF Try, Taken
    <3>2. t \in Holding'
      BY <3>1 DEF Holding, Holds, TypeOK
    <3>3. Holding' = Holding \cup {t}
      BY <3>1, <3>2, HoldingStep DEF Holding
    <3> QED BY <3>1, <3>3 DEF LockStep
  <2> QED BY <2>2, <2>3
<1>9. ASSUME NEW t \in User, Unwait(t) PROVE LockStep
  <2>1. pc' = [pc EXCEPT ![t] = "critical"] /\ pc[t] = "unwait"
        /\ back' = back /\ lock' = lock
    BY <1>9 DEF Unwait
  <2>2. t \in Holding' /\ t \in Holding
    BY <2>1 DEF Holding, Holds, TypeOK
  <2>3. Holding' = Holding
    BY <2>1, <2>2, HoldingStep DEF Holding
  <2> QED BY <2>1, <2>3 DEF LockStep
<1>10. ASSUME NEW t \in User, Hold(t) PROVE LockStep
  <2>1. pc' = [pc EXCEPT ![t] = "check"] /\ back' = [back EXCEPT ![t] = "device"]
        /\ lock' = lock /\ pc[t] = "critical"
    BY <1>10 DEF Hold
  <2>2. t \in Holding' /\ t \in Holding
    BY <2>1 DEF Holding, Holds, Asleep, TypeOK
  <2>3. \A s \in User \ {t} : back'[s] = back[s]
    BY <2>1 DEF TypeOK
  <2>4. Holding' = Holding
    BY <2>1, <2>2, <2>3, HoldingStep DEF Holding
  <2> QED BY <2>1, <2>4 DEF LockStep
<1>11. ASSUME NEW t \in User, Unlock1(t) PROVE LockStep
  <2>1. pc' = [pc EXCEPT ![t] = "post"] /\ pc[t] = "critical"
        /\ back' = back /\ lock' = 0
    BY <1>11 DEF Unlock1
  <2>2. t \notin Holding' /\ t \in Holding
    BY <2>1 DEF Holding, Holds, Asleep, TypeOK
  <2>3. Holding' = Holding \ {t}
    BY <2>1, <2>2, HoldingStep DEF Holding
  <2> QED BY <2>1, <2>2, <2>3 DEF LockStep
<1>12. ASSUME NEW t \in User, Post(t) \/ Schedule(t) PROVE LockStep
  <2>1. \E label \in {"schedule", "post"} : pc' = [pc EXCEPT ![t] = label]
    BY <1>12 DEF Post, Schedule
  <2>2. back' = back /\ lock' = lock /\ pc[t] \in {"schedule", "post"}
    BY <1>12 DEF Post, Schedule
  <2>3. t \notin Holding' /\ t \notin Holding
    BY <2>1, <2>2 DEF Holding, Holds, Asleep, TypeOK
  <2>4. Holding' = Holding
    BY <2>1, <2>2, <2>3, HoldingStep DEF Holding
  <2> QED BY <2>2, <2>4 DEF LockStep
<1>13. ASSUME NEW t \in User, ClearMutexEvent(t) PROVE LockStep
  <2>1. pc' = [pc EXCEPT ![t] = "check"] /\ back' = [back EXCEPT ![t] = "work"]
        /\ lock' = lock /\ pc[t] = "post"
    BY <1>13 DEF ClearMutexEvent
  <2>2. t \notin Holding' /\ t \notin Holding
    BY <2>1 DEF Holding, Holds, Asleep, TypeOK
  <2>3. \A s \in User \ {t} : back'[s] = back[s]
    BY <2>1 DEF TypeOK
  <2>4. Holding' = Holding
    BY <2>1, <2>2, <2>3, HoldingStep DEF Holding
  <2> QED BY <2>1, <2>4 DEF LockStep
<1>14. ASSUME NEW t \in User, GiveWork(t) \/ DeviceIrq(t) PROVE LockStep
  BY <1>14, HoldingSame DEF GiveWork, DeviceIrq, LockStep
<1>15. CASE UNCHANGED vars
  BY <1>15, HoldingSame DEF vars, LockStep
<1> QED
  BY <1>1, <1>2, <1>3, <1>4, <1>5, <1>6, <1>7, <1>8, <1>9, <1>10, <1>11, <1>12,
     <1>13, <1>14, <1>15 DEF Next, TaskStep

LEMMA LockInvariant == Spec => [](TypeOK /\ LockInv)
<1>1. LockInv /\ LockStep => LockInv'
  BY DEF LockInv, LockStep
<1> QED
  BY <1>1, LockInit, TypeInit, TypeNext, StepOfLock, PTL DEF Spec

\* Mutual exclusion: mutex_lock and mutex_unlock implement Lock, whatever the
\* interrupts and the preemptions.
THEOREM MutexImplementsLock == Spec => LockSpec
<1>1. Init => AbstractLock!Init
  BY LockInit DEF AbstractLock!Init
<1>2. TypeOK /\ LockInv /\ [Next]_vars => [AbstractLock!Next]_Holding
  <2> SUFFICES ASSUME LockInv, LockStep
               PROVE  AbstractLock!Next \/ Holding' = Holding
    BY StepOfLock
  <2>1. CASE lock = 0 /\ \E t \in User : Holding' = Holding \cup {t}
    BY <2>1 DEF LockInv, AbstractLock!Next, AbstractLock!Acquire
  <2>2. CASE \E t \in Holding : Holding' = Holding \ {t}
    BY <2>2 DEF AbstractLock!Next, AbstractLock!Release, Holding
  <2> QED BY <2>1, <2>2 DEF LockStep
<1> QED
  BY <1>1, <1>2, LockInvariant, PTL DEF Spec, LockSpec, AbstractLock!Spec

-----------------------------------------------------------------------------
(* No task sleeps on a free mutex.                                         *)

\* A contender stays on the list of waiters from before it tests the lock until
\* it has it: the snapshot of mutex_unlock cannot miss it.
SleepInv ==
  /\ \A t \in User : pc[t] = "try" \/ (Asleep(t) /\ back[t] = "mutex")
                       => t \in waiters
  /\ NoSleepOnFreeMutex

LEMMA SleepNext == TypeOK /\ SleepInv /\ [Next]_vars => SleepInv'
<1> SUFFICES ASSUME TypeOK, SleepInv, [Next]_vars PROVE SleepInv'
  OBVIOUS
<1> USE IdleTask DEF TypeOK, SleepInv, NoSleepOnFreeMutex, Asleep, kernelVars,
        waitVars, mutexVars, workVars, rest, Goto, At, Labels
<1>1. CASE Boot \/ Preempt
  BY <1>1 DEF Boot, Start, Preempt, PendSv, SvcHandler
<1>2. ASSUME NEW t \in User, EnableAllTasks(t) PROVE SleepInv'
  BY <1>2 DEF EnableAllTasks
<1>3. ASSUME NEW t \in User, Check(t) PROVE SleepInv'
  BY <1>3 DEF Check
<1>4. ASSUME NEW t \in User, Deschedule(t) PROVE SleepInv'
  BY <1>4 DEF Deschedule, SvcHandler
<1>5. ASSUME NEW t \in User, Repost(t) PROVE SleepInv'
  BY <1>5 DEF Repost, Others
<1>6. ASSUME NEW t \in User, Lock1(t) PROVE SleepInv'
  BY <1>6 DEF Lock1, WithWaiter
<1>7. ASSUME NEW t \in User, Try(t) PROVE SleepInv'
  BY <1>7 DEF Try, Taken
<1>8. ASSUME NEW t \in User, Unwait(t) PROVE SleepInv'
  BY <1>8 DEF Unwait
<1>9. ASSUME NEW t \in User, Hold(t) PROVE SleepInv'
  BY <1>9 DEF Hold
<1>10. ASSUME NEW t \in User, Unlock1(t) PROVE SleepInv'
  BY <1>10 DEF Unlock1, AllWaiters
<1>11. ASSUME NEW t \in User, Post(t) PROVE SleepInv'
  <2>1. PICK w \in Highest(snapshot[t]) :
          /\ snapshot' = [snapshot EXCEPT ![t] = @ \ {w}]
          /\ events' = [events EXCEPT ![w] = @ \cup {"mutex"}]
    BY <1>11 DEF Post
  <2>2. w \in User /\ w \in Tasks
    BY IdleTask DEF Highest
  <2> QED BY <1>11, <2>1, <2>2 DEF Post
<1>12. ASSUME NEW t \in User, Schedule(t) PROVE SleepInv'
  BY <1>12 DEF Schedule, SvcHandler
<1>13. ASSUME NEW t \in User, ClearMutexEvent(t) PROVE SleepInv'
  BY <1>13 DEF ClearMutexEvent
<1>14. ASSUME NEW t \in User, GiveWork(t) PROVE SleepInv'
  BY <1>14 DEF GiveWork, SetEventFromIrq
<1>15. ASSUME NEW t \in User, DeviceIrq(t) PROVE SleepInv'
  BY <1>15 DEF DeviceIrq, SetEventFromIrq
<1>16. CASE UNCHANGED vars
  BY <1>16 DEF vars
<1> QED
  BY <1>1, <1>2, <1>3, <1>4, <1>5, <1>6, <1>7, <1>8, <1>9, <1>10, <1>11, <1>12, <1>13, <1>14, <1>15, <1>16
  DEF Next, TaskStep

\* A release of the mutex reaches every task that sleeps for it.
THEOREM ReleaseIsSeen == Spec => []NoSleepOnFreeMutex
<1>1. Init => SleepInv
  BY DEF Init, SleepInv, NoSleepOnFreeMutex, Asleep
<1>2. SleepInv => NoSleepOnFreeMutex
  BY DEF SleepInv
<1> QED
  BY <1>1, <1>2, SleepNext, TypeCorrect, PTL DEF Spec
-----------------------------------------------------------------------------
(* Work is not lost.                                                       *)

\* Each step either leaves the pending and the received events of a task what
\* they are together, adds to them, or takes the work itself.
LEMMA WorkNext == TypeOK /\ WorkKept /\ [Next]_vars => WorkKept'
<1> SUFFICES ASSUME TypeOK, WorkKept, [Next]_vars PROVE WorkKept'
  OBVIOUS
<1> USE IdleTask DEF TypeOK, WorkKept, kernelVars, waitVars, mutexVars, workVars,
        rest, Goto, At
<1>1. CASE Boot \/ Preempt
  BY <1>1 DEF Boot, Start, Preempt, PendSv, SvcHandler
<1>2. ASSUME NEW t \in User, EnableAllTasks(t) PROVE WorkKept'
  BY <1>2 DEF EnableAllTasks
<1>3. ASSUME NEW t \in User, Check(t) PROVE WorkKept'
  BY <1>3 DEF Check
<1>4. ASSUME NEW t \in User, Deschedule(t) \/ Schedule(t) PROVE WorkKept'
  BY <1>4 DEF Deschedule, Schedule, SvcHandler
<1>5. ASSUME NEW t \in User, Repost(t) PROVE WorkKept'
  <2>2. /\ events' = [events EXCEPT ![t] = @ \cup (collected[t] \ Wanted(t))]
        /\ collected' = [collected EXCEPT ![t] = {}]
        /\ owed' = IF back[t] = "work" /\ "work" \in collected[t] THEN owed \ {t}
                                                                  ELSE owed
    BY <1>5 DEF Repost, Others
  <2>3. back[t] # "work" => "work" \notin Wanted(t)
    BY DEF Wanted
  <2>4. t \in owed' => "work" \in events'[t]
    BY <2>2, <2>3
  <2> QED BY <2>2, <2>4
<1>6. ASSUME NEW t \in User, Lock1(t) \/ Try(t) \/ Unwait(t) \/ Hold(t) \/ Unlock1(t)
      PROVE  WorkKept'
  BY <1>6 DEF Lock1, Try, Unwait, Hold, Unlock1
<1>7. ASSUME NEW t \in User, Post(t) PROVE WorkKept'
  <2>1. PICK w \in Highest(snapshot[t]) :
          events' = [events EXCEPT ![w] = @ \cup {"mutex"}]
    BY <1>7 DEF Post
  <2>2. collected' = collected /\ owed' = owed
    BY <1>7 DEF Post
  <2>3. \A s \in User : "work" \in events[s] => "work" \in events'[s]
    BY <2>1
  <2> QED BY <2>2, <2>3
<1>8. ASSUME NEW t \in User, ClearMutexEvent(t) PROVE WorkKept'
  BY <1>8 DEF ClearMutexEvent
<1>9. ASSUME NEW t \in User, GiveWork(t) PROVE WorkKept'
  BY <1>9 DEF GiveWork, SetEventFromIrq
<1>10. ASSUME NEW t \in User, DeviceIrq(t) PROVE WorkKept'
  BY <1>10 DEF DeviceIrq, SetEventFromIrq
<1>11. CASE UNCHANGED vars
  BY <1>11 DEF vars
<1> QED
  BY <1>1, <1>2, <1>3, <1>4, <1>5, <1>6, <1>7, <1>8, <1>9, <1>10, <1>11
  DEF Next, TaskStep

\* Work that is given to a task while it waits for the mutex or for a device stays
\* among its events, pending or received, until the task takes it up: the wait for
\* one event posts the others again.
THEOREM WorkIsKept == Spec => []WorkKept
<1>1. Init => WorkKept
  BY DEF Init, WorkKept
<1> QED
  BY <1>1, WorkNext, TypeCorrect, PTL DEF Spec
=============================================================================
