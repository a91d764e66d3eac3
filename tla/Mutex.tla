------------------------------- MODULE Mutex -------------------------------
(***************************************************************************)
(* mutex_lock and mutex_unlock of core/cortex-m0/task.c on top of the      *)
(* scheduler, with task_wait_event_mask, through which a contender sleeps. *)
(*                                                                         *)
(* Every task runs the same program, the one of the users of a mutex in    *)
(* this firmware (i2c_lock, adc_lock): it sleeps in task_wait_event until  *)
(* it is given work, takes the mutex, may sleep while it holds the mutex   *)
(* until a device is done, and releases the mutex.  Work may be given to a *)
(* task at any time.                                                       *)
(***************************************************************************)
EXTENDS Kernel

CONSTANT MaxWork   \* bound on the pieces of work given to the tasks

ASSUME MaxWorkAssumption == MaxWork \in Nat

VARIABLES
  pc,        \* control state of each task
  back,      \* why a task sleeps: "work", "mutex" or "device"
  collected, \* events: what task_wait_event_mask has received so far
  lock,      \* mtx->lock
  waiters,   \* mtx->waiters
  snapshot,  \* the copy of waiters in mutex_unlock, per task
  waking,    \* the waiter that is being resumed, per task
  io,        \* tasks for which a device is at work
  owed,      \* tasks that were given work they have not received yet
  given      \* pieces of work given so far

mutexVars == <<lock, waiters, snapshot>>
waitVars  == <<back, collected>>
workVars  == <<io, owed, given>>
vars == <<kernelVars, pc, waitVars, mutexVars, waking, workVars>>

User == Tasks \ {IDLE}

Init ==
  /\ KernelInit
  /\ pc = [t \in User |-> "check"] /\ back = [t \in User |-> "work"]
  /\ collected = [t \in User |-> {}]
  /\ lock = 0 /\ waiters = {}
  /\ snapshot = [t \in User |-> {}] /\ waking = [t \in User |-> IDLE]
  /\ io = {} /\ owed = {} /\ given = 0

Goto(t, label) == pc' = [pc EXCEPT ![t] = label]

\* The first wait of the hooks task comes after it has enabled all the tasks.
EnableAllTasks(t) ==
  /\ Running(t) /\ t = HOOKS /\ enabled # Tasks
  /\ ready' = Tasks /\ enabled' = Tasks
  /\ current' \in Highest(Tasks)
  /\ UNCHANGED <<events, started, pendsv, pc, waitVars, mutexVars, waking, workVars>>

At(t, label) == Running(t) /\ pc[t] = label /\ enabled = Tasks

-----------------------------------------------------------------------------
(* task_wait_event (any event ends the wait) and task_wait_event_mask.     *)

Wanted(t) == CASE back[t] = "work"   -> {"mutex", "device", "work"}
               [] back[t] = "mutex"  -> {"mutex"}
               [] back[t] = "device" -> {"device"}

\* One turn of the loops of __wait_evt and task_wait_event_mask.
Check(t) ==
  /\ At(t, "check")
  /\ events' = [events EXCEPT ![t] = {}]
  /\ collected' = [collected EXCEPT ![t] = @ \cup events[t]]
  /\ Goto(t, IF events[t] = {} THEN "deschedule"
             ELSE IF collected'[t] \cap Wanted(t) # {} THEN "repost"
             ELSE "check")
  /\ UNCHANGED <<current, ready, enabled, started, pendsv, back, mutexVars, waking,
                 workVars>>

Deschedule(t) ==
  /\ At(t, "deschedule")
  /\ SvcHandler(TRUE, IDLE)
  /\ Goto(t, "check")
  /\ UNCHANGED <<pendsv, waitVars, mutexVars, waking, workVars>>

\* Mutant: the events that were not waited for are dropped.
DropOthers(t) == {}
\* events & ~event_mask
Others(t) == collected[t] \ Wanted(t)

\* The other events are posted again, and the wait returns to its caller.
Repost(t) ==
  /\ At(t, "repost")
  /\ events' = [events EXCEPT ![t] = @ \cup Others(t)]
  /\ collected' = [collected EXCEPT ![t] = {}]
  /\ Goto(t, CASE back[t] = "mutex"  -> "try"
               [] back[t] = "device" -> "critical"
               [] back[t] = "work"   ->
                    IF "work" \in collected[t] THEN "lock" ELSE "check")
  /\ owed' = IF back[t] = "work" /\ "work" \in collected[t] THEN owed \ {t}
                                                            ELSE owed
  /\ UNCHANGED <<current, ready, enabled, started, pendsv, back, mutexVars, waking,
                 io, given>>

-----------------------------------------------------------------------------
(* mutex_lock.                                                             *)

\* Mutant: the contender is not noted.
NotNoted(t) == waiters
WithWaiter(t) == waiters \cup {t}

\* atomic_or(&mtx->waiters, id)
Lock1(t) ==
  /\ At(t, "lock")
  /\ waiters' = WithWaiter(t)
  /\ Goto(t, "try")
  /\ UNCHANGED <<kernelVars, waitVars, lock, snapshot, waking, workVars>>

\* Mutant: the lock is taken without looking.
TakenBlindly == FALSE
Taken == lock # 0

\* With interrupts masked: the lock is tested, and set when it is free.
Try(t) ==
  /\ At(t, "try")
  /\ IF Taken
     THEN /\ Goto(t, "check") /\ back' = [back EXCEPT ![t] = "mutex"]
          /\ UNCHANGED lock
     ELSE /\ Goto(t, "unwait") /\ lock' = 2 /\ UNCHANGED back
  /\ UNCHANGED <<kernelVars, collected, waiters, snapshot, waking, workVars>>

\* atomic_clear(&mtx->waiters, id)
Unwait(t) ==
  /\ At(t, "unwait")
  /\ waiters' = waiters \ {t}
  /\ Goto(t, "critical")
  /\ UNCHANGED <<kernelVars, waitVars, lock, snapshot, waking, workVars>>

\* The holder starts a transfer on I2C (i2c_lock) and sleeps in it until it is done.
Hold(t) ==
  /\ At(t, "critical") /\ given < MaxWork
  /\ given' = given + 1 /\ io' = io \cup {t}
  /\ back' = [back EXCEPT ![t] = "device"]
  /\ Goto(t, "check")
  /\ UNCHANGED <<kernelVars, collected, mutexVars, waking, owed>>

-----------------------------------------------------------------------------
(* mutex_unlock.                                                           *)

\* Mutant: only the waiter with the highest priority is remembered.
FirstWaiter == Highest(waiters)
AllWaiters  == waiters

\* With interrupts masked: the waiters are remembered and the lock is free.
Unlock1(t) ==
  /\ At(t, "critical")
  /\ snapshot' = [snapshot EXCEPT ![t] = AllWaiters]
  /\ lock' = 0
  /\ Goto(t, "post")
  /\ UNCHANGED <<kernelVars, waitVars, waiters, waking, workVars>>

\* task_set_event(id, TASK_EVENT_MUTEX, 0) for each waiter, highest first.
Post(t) ==
  /\ At(t, "post")
  /\ \E w \in Highest(snapshot[t]) :
       /\ snapshot' = [snapshot EXCEPT ![t] = @ \ {w}]
       /\ events' = [events EXCEPT ![w] = @ \cup {"mutex"}]
       /\ waking' = [waking EXCEPT ![t] = w]
  /\ Goto(t, "schedule")
  /\ UNCHANGED <<current, ready, enabled, started, pendsv, waitVars, lock, waiters,
                 workVars>>

Schedule(t) ==
  /\ At(t, "schedule")
  /\ SvcHandler(FALSE, waking[t])
  /\ Goto(t, "post")
  /\ waking' = [waking EXCEPT ![t] = IDLE]
  /\ UNCHANGED <<pendsv, waitVars, mutexVars, workVars>>

\* atomic_clear(&tsk->events, TASK_EVENT_MUTEX); back to waiting for work.
ClearMutexEvent(t) ==
  /\ At(t, "post") /\ snapshot[t] = {}
  /\ events' = [events EXCEPT ![t] = @ \ {"mutex"}]
  /\ Goto(t, "check") /\ back' = [back EXCEPT ![t] = "work"]
  /\ UNCHANGED <<current, ready, enabled, started, pendsv, collected, mutexVars,
                 waking, workVars>>

-----------------------------------------------------------------------------
(* Interrupts.                                                             *)

GiveWork(t) ==
  /\ given < MaxWork
  /\ given' = given + 1 /\ owed' = owed \cup {t}
  /\ SetEventFromIrq(t, {"work"})
  /\ UNCHANGED <<pc, waitVars, mutexVars, waking, io>>

DeviceIrq(t) ==
  /\ t \in io
  /\ io' = io \ {t}
  /\ SetEventFromIrq(t, {"device"})
  /\ UNCHANGED <<pc, waitVars, mutexVars, waking, owed, given>>

-----------------------------------------------------------------------------
rest == <<pc, waitVars, mutexVars, waking, workVars>>
Boot    == Start /\ UNCHANGED rest
Preempt == PendSv /\ UNCHANGED rest

TaskStep(t) ==
  \/ EnableAllTasks(t) \/ Check(t) \/ Deschedule(t) \/ Repost(t)
  \/ Lock1(t) \/ Try(t) \/ Unwait(t)
  \/ Unlock1(t) \/ Post(t) \/ Schedule(t) \/ ClearMutexEvent(t)

Next ==
  \/ Boot \/ Preempt
  \/ \E t \in User : TaskStep(t) \/ Hold(t) \/ GiveWork(t) \/ DeviceIrq(t)

Spec == Init /\ [][Next]_vars

\* The processor executes, a holder releases, a device comes to an end.
Fairness ==
  /\ WF_vars(Boot) /\ WF_vars(Preempt)
  /\ \A t \in User : WF_vars(TaskStep(t)) /\ WF_vars(DeviceIrq(t))

FairSpec == Spec /\ Fairness

-----------------------------------------------------------------------------
(* Properties.                                                             *)

Labels == {"check", "deschedule", "repost", "lock", "try", "unwait", "critical",
           "post", "schedule"}
Asleep(t) == pc[t] \in {"check", "deschedule", "repost"}

TypeOK ==
  /\ KernelTypeOK
  /\ events \in [Tasks -> SUBSET {"mutex", "device", "work"}]
  /\ pc \in [User -> Labels] /\ back \in [User -> {"work", "mutex", "device"}]
  /\ collected \in [User -> SUBSET {"mutex", "device", "work"}]
  /\ lock \in {0, 2} /\ waiters \subseteq User
  /\ snapshot \in [User -> SUBSET User] /\ waking \in [User -> Tasks]
  /\ io \subseteq User /\ owed \subseteq User /\ given \in Nat

\* From the acquisition in mutex_lock to the release in mutex_unlock.
Holds(t) == \/ pc[t] \in {"unwait", "critical"}
            \/ Asleep(t) /\ back[t] = "device"
Holding == {t \in User : Holds(t)}

\* The mutex implements a lock: it is acquired only when nobody holds it.
AbstractLock == INSTANCE Lock WITH Clients <- User, holders <- Holding
LockSpec == AbstractLock!Spec

\* A task does not sleep on a free mutex: it has the event of the release, or
\* the releasing task still has it on its list.
NoSleepOnFreeMutex ==
  \A t \in User :
    (lock = 0 /\ back[t] = "mutex" /\ pc[t] \in {"check", "deschedule"})
      => \/ "mutex" \in events[t] \cup collected[t]
         \/ \E s \in User : t \in snapshot[s]

\* Work given to a task while it waits for the mutex or for a device is not lost.
WorkKept == \A t \in owed : "work" \in events[t] \cup collected[t]

\* Whoever asks for the mutex gets it.
Granted == \A t \in User : pc[t] = "lock" ~> pc[t] = "critical"

\* "Ensure no event is remaining from mutex wake-up" (task.c, line 531): a task
\* that is back from mutex_unlock has no mutex event pending.
NoStaleMutexEvent ==
  \A t \in User : Asleep(t) /\ back[t] = "work" => "mutex" \notin events[t]
=============================================================================
