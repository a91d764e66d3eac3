---------------------------- MODULE Time_proofs -----------------------------
(***************************************************************************)
(* Time: the timers of the tasks (Timer), and the loop of hook_task that   *)
(* sleeps until the next deferred call (Hooks).                            *)
(*                                                                         *)
(* Timer, for every size of the counters, set of tasks and delays, and     *)
(* however the ticks fall between the steps of the handler and the tasks:  *)
(* the timers implement alarms whatever happens around the wrap of the     *)
(* counters.  If the counters do not wrap between the read and the         *)
(* clearing of the status register (NoWindow), the high word counts every  *)
(* wrap, get_time is right, no deadline is missed and no sleep lasts       *)
(* longer than twice its delay.                                            *)
(*                                                                         *)
(* Hooks, for every number of routines, delay, interval and size of a      *)
(* word: HOOKS arms no waking past a deadline but for the time it is kept  *)
(* from sleeping, and calls no routine early unless a deadline changes     *)
(* while it reads or clears its halves.                                    *)
(***************************************************************************)
EXTENDS Timer, Hooks, TLAPS

-----------------------------------------------------------------------------
(* Words and halves of words.                                              *)

\* Quotient and remainder, what determines them, and their order.
LEMMA DivMod ==
  ASSUME NEW m \in Nat, m > 0, NEW a \in Nat
  PROVE  /\ a \div m \in Nat /\ a % m \in 0 .. m - 1
         /\ a = m * (a \div m) + (a % m)
OBVIOUS

LEMMA DivUnique ==
  ASSUME NEW m \in Nat, m > 0, NEW k \in Nat, NEW r \in 0 .. m - 1
  PROVE  (m * k + r) \div m = k /\ (m * k + r) % m = r
OBVIOUS

LEMMA Multiples ==
  ASSUME NEW m \in Nat, NEW j \in Int, NEW k \in Int, j < k
  PROVE  m * j + m <= m * k
<1>1. m * (k - j - 1) >= 0
  OBVIOUS
<1>2. m * (k - j - 1) = m * k - m * j - m
  OBVIOUS
<1> QED BY <1>1, <1>2

LEMMA NextDiv ==
  ASSUME NEW m \in Nat, m > 0, NEW a \in Nat
  PROVE  \/ /\ a % m < m - 1 /\ (a + 1) % m = (a % m) + 1
            /\ (a + 1) \div m = a \div m
         \/ /\ a % m = m - 1 /\ (a + 1) % m = 0
            /\ (a + 1) \div m = (a \div m) + 1
<1> DEFINE k == a \div m
           r == a % m
<1>1. k \in Nat /\ r \in 0 .. m - 1 /\ a = m * k + r
  BY DivMod
<1>2. CASE r < m - 1
  <2>1. a + 1 = m * k + (r + 1) /\ r + 1 \in 0 .. m - 1
    <3> HIDE DEF k, r
    <3> QED BY <1>1, <1>2
  <2> HIDE DEF k, r
  <2>2. (a + 1) \div m = k /\ (a + 1) % m = r + 1
    BY <1>1, <2>1, DivUnique
  <2> QED BY <1>2, <2>2 DEF k, r
<1>3. CASE r = m - 1
  <2>1. a + 1 = m * (k + 1) + 0 /\ 0 \in 0 .. m - 1 /\ k + 1 \in Nat
    <3> HIDE DEF k, r
    <3> QED BY <1>1, <1>3
  <2> HIDE DEF k, r
  <2>2. (m * (k + 1) + 0) \div m = k + 1 /\ (m * (k + 1) + 0) % m = 0
    BY <2>1, DivUnique
  <2>3. (a + 1) \div m = k + 1 /\ (a + 1) % m = 0
    BY <2>1, <2>2
  <2> QED BY <1>3, <2>3 DEF k, r
<1>4. r < m - 1 \/ r = m - 1
  <2> HIDE DEF k, r
  <2> QED BY <1>1
<1> QED BY <1>2, <1>3, <1>4

LEMMA DivOrder ==
  ASSUME NEW m \in Nat, m > 0, NEW a \in Nat, NEW c \in Nat
  PROVE  /\ a \div m < c \div m => a < c
         /\ a \div m = c \div m => (a < c <=> a % m < c % m)
<1> DEFINE j == a \div m
           k == c \div m
           q == a % m
           r == c % m
<1>1. /\ j \in Nat /\ q \in 0 .. m - 1 /\ a = m * j + q
      /\ k \in Nat /\ r \in 0 .. m - 1 /\ c = m * k + r
  BY DivMod
<1> HIDE DEF j, k, q, r
<1>2. j < k => a < c
  BY <1>1, Multiples
<1>3. j = k => (a < c <=> q < r)
  BY <1>1
<1> QED BY <1>2, <1>3 DEF j, k, q, r

LEMMA WordTypes == W \in Nat /\ W > 1 /\ Lsb \in Nat /\ Lsb > 0 /\ Msb \in Nat /\ Msb > 1
<1>1. Lsb \in Nat /\ Lsb > 0 /\ Msb \in Nat /\ Msb > 1
  BY SizesAssumption
<1>2. Lsb * Msb \in Nat
  BY <1>1
<1>3. Lsb * Msb > 1
  <2>1. Lsb * 1 + Lsb <= Lsb * Msb
    BY <1>1, Multiples
  <2> QED BY <1>1, <2>1
<1> QED BY <1>1, <1>2, <1>3 DEF W

\* The two words of a time.
LEMMA Words ==
  ASSUME NEW x \in Nat
  PROVE  Hi(x) \in Nat /\ Lo(x) \in 0 .. W - 1 /\ x = W * Hi(x) + Lo(x)
BY WordTypes, DivMod DEF Hi, Lo

LEMMA WordsUnique ==
  ASSUME NEW h \in Nat, NEW l \in 0 .. W - 1
  PROVE  Hi(W * h + l) = h /\ Lo(W * h + l) = l
BY WordTypes, DivUnique DEF Hi, Lo

LEMMA WordOrder ==
  ASSUME NEW x \in Nat, NEW y \in Nat
  PROVE  /\ Hi(x) < Hi(y) => x < y
         /\ Hi(x) = Hi(y) => (x < y <=> Lo(x) < Lo(y))
         /\ x <= y => Hi(x) <= Hi(y)
<1>1. /\ Hi(x) < Hi(y) => x < y
      /\ Hi(y) < Hi(x) => y < x
      /\ Hi(x) = Hi(y) => (x < y <=> Lo(x) < Lo(y))
  BY WordTypes, DivOrder DEF Hi, Lo
<1>2. Hi(x) \in Nat /\ Hi(y) \in Nat
  BY Words
<1> QED BY <1>1, <1>2

LEMMA WordTick ==
  ASSUME NEW x \in Nat
  PROVE  \/ Lo(x) < W - 1 /\ Lo(x + 1) = Lo(x) + 1 /\ Hi(x + 1) = Hi(x)
         \/ Lo(x) = W - 1 /\ Lo(x + 1) = 0 /\ Hi(x + 1) = Hi(x) + 1
BY WordTypes, NextDiv DEF Hi, Lo

\* The two halves of a low word, as the two counters see it.
LEMMA Halves ==
  ASSUME NEW l \in 0 .. W - 1
  PROVE  /\ MsbOf(l) \in 0 .. Msb - 1 /\ l % Lsb \in 0 .. Lsb - 1
         /\ l = Lsb * MsbOf(l) + (l % Lsb)
<1>1. Lsb \in Nat /\ Lsb > 0 /\ Msb \in Nat /\ l \in Nat /\ l < W
  BY WordTypes
<1>2. MsbOf(l) \in Nat /\ l % Lsb \in 0 .. Lsb - 1 /\ l = Lsb * MsbOf(l) + (l % Lsb)
  BY <1>1, DivMod DEF MsbOf
<1>3. MsbOf(l) < Msb
  <2>1. SUFFICES ASSUME MsbOf(l) >= Msb PROVE FALSE
    BY <1>1, <1>2
  <2>2. Lsb * Msb <= Lsb * MsbOf(l)
    <3>1. CASE MsbOf(l) = Msb
      BY <1>1, <1>2, <3>1
    <3>2. CASE Msb < MsbOf(l)
      BY <1>1, <1>2, <3>2, Multiples
    <3> QED BY <1>1, <1>2, <2>1, <3>1, <3>2
  <2>3. W = Lsb * Msb /\ Lsb * Msb \in Nat /\ Lsb * MsbOf(l) \in Nat
    BY <1>1, <1>2 DEF W
  <2> QED BY <1>1, <1>2, <2>2, <2>3
<1> QED BY <1>1, <1>2, <1>3

LEMMA HalfOrder ==
  ASSUME NEW l \in 0 .. W - 1, NEW n \in 0 .. W - 1
  PROVE  /\ MsbOf(l) < MsbOf(n) => l < n
         /\ MsbOf(l) = MsbOf(n) => (l < n <=> l % Lsb < n % Lsb)
         /\ l <= n => MsbOf(l) <= MsbOf(n)
<1>0. l \in Nat /\ n \in Nat /\ Lsb \in Nat /\ Lsb > 0
  BY WordTypes
<1>1. /\ MsbOf(l) < MsbOf(n) => l < n
      /\ MsbOf(n) < MsbOf(l) => n < l
      /\ MsbOf(l) = MsbOf(n) => (l < n <=> l % Lsb < n % Lsb)
  BY <1>0, DivOrder DEF MsbOf
<1>2. MsbOf(l) \in Nat /\ MsbOf(n) \in Nat
  BY Halves
<1> QED BY <1>0, <1>1, <1>2

LEMMA HalfTick ==
  ASSUME NEW l \in Nat
  PROVE  \/ l % Lsb < Lsb - 1 /\ (l + 1) % Lsb = (l % Lsb) + 1 /\ MsbOf(l + 1) = MsbOf(l)
         \/ l % Lsb = Lsb - 1 /\ (l + 1) % Lsb = 0 /\ MsbOf(l + 1) = MsbOf(l) + 1
BY WordTypes, NextDiv DEF MsbOf

\* The counter of the low half does not see the high word.
LEMMA LowHalf ==
  ASSUME NEW x \in Nat
  PROVE  x % Lsb = Lo(x) % Lsb
<1> DEFINE h == Hi(x)
           l == Lo(x)
           m == MsbOf(l)
           r == l % Lsb
<1>1. h \in Nat /\ l \in 0 .. W - 1 /\ x = W * h + l
  BY Words
<1>2. m \in Nat /\ r \in 0 .. Lsb - 1 /\ l = Lsb * m + r
  <2> HIDE DEF l
  <2> QED BY <1>1, Halves DEF m, r
<1>3. Lsb \in Nat /\ Lsb > 0 /\ Msb \in Nat /\ W = Lsb * Msb
  BY WordTypes DEF W
<1> HIDE DEF h, l, m, r
<1>4. Msb * h + m \in Nat /\ x = Lsb * (Msb * h + m) + r
  <2>1. W * h = Lsb * (Msb * h)
    BY <1>1, <1>3
  <2>2. Msb * h \in Nat
    BY <1>1, <1>3
  <2>3. Lsb * (Msb * h + m) = Lsb * (Msb * h) + Lsb * m
    BY <1>2, <1>3, <2>2
  <2>4. Lsb * (Msb * h) \in Nat /\ Lsb * m \in Nat
    BY <1>2, <1>3, <2>2
  <2> QED BY <1>1, <1>2, <2>1, <2>2, <2>3, <2>4
<1> DEFINE k == Msb * h + m
<1>5. k \in Nat /\ x = Lsb * k + r
  BY <1>4
<1> HIDE DEF k
<1>6. x % Lsb = r
  BY <1>2, <1>3, <1>5, DivUnique
<1> QED BY <1>6 DEF r, l

-----------------------------------------------------------------------------
(* Types.                                                                  *)

LEMMA TypeInit == Init => TypeOK
<1> SUFFICES ASSUME Init PROVE TypeOK
  OBVIOUS
<1>1. W - 1 \in 0 .. W - 1 /\ 0 \in 0 .. Msb - 1 /\ 0 \in 0 .. Lsb - 1
  BY WordTypes
<1> QED BY <1>1 DEF Init, TypeOK

\* The two match registers hold values of their counters.
LEMMA RegisterTypes ==
  ASSUME NEW n \in Nat
  PROVE  MsbOf(Lo(n)) \in 0 .. Msb - 1 /\ n % Lsb \in 0 .. Lsb - 1
<1>1. Lo(n) \in 0 .. W - 1
  BY Words
<1> QED BY <1>1, Halves, LowHalf

LEMMA HandlerTypes == TypeOK /\ Handler => TypeOK'
<1> SUFFICES ASSUME TypeOK, Handler PROVE TypeOK'
  OBVIOUS
<1> USE DEF TypeOK, hwVars, isrVars, timerVars, taskVars, isrRest
<1>1. CASE Status
  <2>1. overflow' \in BOOLEAN
    BY <1>1, Zenon DEF Status, Overflowed
  <2> QED BY <1>1, <2>1 DEF Status
<1>2. CASE Clear
  <2>1. clksrc_high' \in Nat
    BY <1>2 DEF Clear
  <2>2. /\ uif' = FALSE /\ match' = {} /\ overflow' = FALSE /\ isr' = "scan"
        /\ UNCHANGED <<isrRest, ccr, dier, trigger, next, timerVars, next_deadline, evt>>
    BY <1>2 DEF Clear
  <2> QED BY <2>1, <2>2
<1>3. CASE Scan
  <2> DEFINE expired == {t \in timer_running : Expired(timer_deadline[t], IsrTime)}
             ahead == {timer_deadline[t] : t \in {s \in timer_running \ expired :
                        /\ Hi(timer_deadline[s]) = clksrc_high
                        /\ Lo(timer_deadline[s]) < W - 1}}
  <2>1. ahead \subseteq Nat
    OBVIOUS
  <2>2. /\ timer_running' = timer_running \ expired
        /\ evt' = [t \in Sleepers |-> IF t \in expired THEN evt[t] \cup {"TIMER"}
                                                       ELSE evt[t]]
        /\ UNCHANGED <<clk, lag, taskVars, posted, uif, match, ccr, trigger, overflow,
                       clksrc_high, timer_deadline>>
        /\ \/ isr' = "off" /\ next' = 0 /\ dier' = {} /\ next_deadline' = W - 1
           \/ isr' = "msb" /\ next' \in ahead /\ UNCHANGED <<dier, next_deadline>>
    BY <1>3 DEF Scan
  <2>3. evt' \in [Sleepers -> SUBSET {"TIMER", "OTHER"}]
    <3> HIDE DEF expired, ahead
    <3> QED BY <2>2
  <2>4. timer_running' \subseteq Sleepers
    <3> HIDE DEF expired, ahead
    <3> QED BY <2>2
  <2>5. W - 1 \in 0 .. W - 1
    BY WordTypes
  <2>6. /\ isr' \in {"off", "msb"} /\ next' \in Nat /\ next_deadline' \in 0 .. W - 1
        /\ dier' \subseteq {"msb", "lsb"}
    <3> HIDE DEF expired, ahead
    <3>1. CASE next' = 0 /\ isr' = "off" /\ dier' = {} /\ next_deadline' = W - 1
      BY <2>5, <3>1
    <3>2. CASE isr' = "msb" /\ next' \in ahead /\ UNCHANGED <<dier, next_deadline>>
      BY <2>1, <3>2
    <3> QED BY <2>2, <3>1, <3>2
  <2> HIDE DEF expired, ahead
  <2> QED BY <2>2, <2>3, <2>4, <2>6
<1>4. CASE EventMsb
  <2>1. ccr' \in [msb: 0 .. Msb - 1, lsb: 0 .. Lsb - 1]
    <3>1. MsbOf(Lo(next)) \in 0 .. Msb - 1
      BY RegisterTypes
    <3> QED BY <1>4, <3>1 DEF EventMsb
  <2>2. isr' \in {"msb2", "lsb"} /\ dier' \subseteq {"msb", "lsb"}
    BY <1>4 DEF EventMsb
  <2> QED BY <1>4, <2>1, <2>2 DEF EventMsb
<1>5. CASE EnableMsb
  BY <1>5 DEF EnableMsb
<1>6. CASE EventLsb
  <2>1. ccr' \in [msb: 0 .. Msb - 1, lsb: 0 .. Lsb - 1]
    <3>1. next % Lsb \in 0 .. Lsb - 1
      BY RegisterTypes
    <3> QED BY <1>6, <3>1 DEF EventLsb
  <2>2. isr' \in {"lsb2", "check"} /\ dier' \subseteq {"msb", "lsb"}
    BY <1>6 DEF EventLsb
  <2> QED BY <1>6, <2>1, <2>2 DEF EventLsb
<1>7. CASE EnableLsb
  BY <1>7 DEF EnableLsb
<1>8. CASE Recheck
  <2>1. next_deadline' \in 0 .. W - 1
    BY <1>8, Words DEF Recheck, LowWord
  <2>2. isr' \in {"scan", "off"} /\ next' \in Nat
    BY <1>8 DEF Recheck
  <2> QED BY <1>8, <2>1, <2>2 DEF Recheck
<1> QED BY <1>1, <1>2, <1>3, <1>4, <1>5, <1>6, <1>7, <1>8 DEF Handler

\* The labels of a task.
Labels == {"work", "hi", "lo", "recheck", "lo2", "arm", "past", "first", "sleep",
           "cancel", "clear", "test", "requeue"}

LEMMA ReturnTypes ==
  ASSUME TypeOK, NEW t \in Sleepers, Return(t)
  PROVE  TypeOK'
<1> USE DEF TypeOK, hwVars, isrVars, timerVars, taskVars, taskRest
<1>1. clksrc_high * W \in Nat /\ Lo(clk) \in Nat /\ ts[t] + Lo(clk) \in Nat
  BY WordTypes, Words
<1>2. CASE ReadHigh(t) \/ ReadLow(t) \/ ReadAgain(t) \/ ReadLowAgain(t)
  <2>1. ts' \in [Sleepers -> Nat]
    BY <1>1, <1>2 DEF ReadHigh, ReadLow, ReadAgain, ReadLowAgain, __hw_clock_source_read
  <2>2. pc' \in [Sleepers -> Labels]
    BY <1>2 DEF ReadHigh, ReadLow, ReadAgain, ReadLowAgain, Goto, Labels
  <2>3. UNCHANGED <<clk, lag, hwVars, trigger, isrVars, clksrc_high, timerVars,
                    next_deadline, us, since, got, evt, posted>>
    BY <1>2 DEF ReadHigh, ReadLow, ReadAgain, ReadLowAgain
  <2> QED BY <2>1, <2>2, <2>3 DEF Labels
<1>3. CASE Arm(t)
  <2>1. timer_deadline' \in [Sleepers -> Nat] /\ ts' \in [Sleepers -> Nat]
    BY <1>3 DEF Arm
  <2>2. pc' \in [Sleepers -> Labels] /\ timer_running' \subseteq Sleepers
    BY <1>3 DEF Arm, Goto, Labels
  <2>3. UNCHANGED <<clk, lag, hwVars, trigger, isrVars, clksrc_high, next_deadline,
                    us, since, got, evt, posted>>
    BY <1>3 DEF Arm
  <2> QED BY <2>1, <2>2, <2>3 DEF Labels
<1>4. CASE InPast(t) \/ First(t)
  <2>1. trigger' \in BOOLEAN
    <3>1. CASE InPast(t)
      BY <3>1 DEF InPast
    <3>2. CASE First(t)
      BY <3>2, Zenon DEF First, ComesFirst
    <3> QED BY <1>4, <3>1, <3>2
  <2>2. pc' \in [Sleepers -> Labels]
    BY <1>4 DEF InPast, First, Goto, Labels
  <2>3. UNCHANGED <<clk, lag, hwVars, isrVars, clksrc_high, timerVars, next_deadline,
                    us, ts, since, got, evt, posted>>
    BY <1>4 DEF InPast, First
  <2> QED BY <2>1, <2>2, <2>3 DEF Labels
<1>5. CASE WakeUp(t) \/ Cancel(t) \/ ClearTimerEvent(t) \/ Test(t)
  <2>1. /\ evt' \in [Sleepers -> SUBSET {"TIMER", "OTHER"}]
        /\ got' \in [Sleepers -> SUBSET {"TIMER", "OTHER"}]
    BY <1>5 DEF WakeUp, Cancel, ClearTimerEvent, Test
  <2>2. pc' \in [Sleepers -> Labels] /\ timer_running' \subseteq Sleepers
    <3>1. Test(t) => pc' \in [Sleepers -> Labels]
      BY DEF Test, Goto, Labels
    <3> QED BY <1>5, <3>1 DEF WakeUp, Cancel, ClearTimerEvent, Test, Goto, Labels
  <2>3. UNCHANGED <<clk, lag, hwVars, trigger, isrVars, clksrc_high, timer_deadline,
                    next_deadline, us, ts, since, posted>>
    BY <1>5 DEF WakeUp, Cancel, ClearTimerEvent, Test
  <2> QED BY <2>1, <2>2, <2>3 DEF Labels
<1>6. CASE Requeue(t)
  <2>1. /\ evt' \in [Sleepers -> SUBSET {"TIMER", "OTHER"}]
        /\ got' \in [Sleepers -> SUBSET {"TIMER", "OTHER"}]
        /\ us' \in [Sleepers -> Nat] /\ since' \in [Sleepers -> Nat]
    BY <1>6 DEF Requeue
  <2>2. pc' \in [Sleepers -> Labels]
    BY <1>6 DEF Requeue, Goto, Labels
  <2>3. UNCHANGED <<clk, lag, hwVars, trigger, isrVars, clksrc_high, timerVars,
                    next_deadline, ts, posted>>
    BY <1>6 DEF Requeue
  <2> QED BY <2>1, <2>2, <2>3 DEF Labels
<1> QED BY <1>2, <1>3, <1>4, <1>5, <1>6 DEF Return

LEMMA TypeNext == TypeOK /\ [Next]_vars => TypeOK'
<1> SUFFICES ASSUME TypeOK, [Next]_vars PROVE TypeOK'
  OBVIOUS
<1> USE DEF TypeOK, hwVars, isrVars, timerVars, taskVars, taskRest
<1>1. CASE Tick
  <2>1. uif' \in BOOLEAN
    BY <1>1, Zenon DEF Tick
  <2>2. clk' \in Nat /\ lag' \in Nat /\ match' \subseteq {"msb", "lsb"}
    BY <1>1 DEF Tick
  <2>3. UNCHANGED <<ccr, dier, trigger, isrVars, clksrc_high, timerVars, next_deadline,
                    taskVars, evt, posted>>
    BY <1>1 DEF Tick
  <2> QED BY <2>1, <2>2, <2>3
<1>2. ASSUME NEW t \in Sleepers, NEW delay \in Delays, Usleep(t, delay)
      PROVE  TypeOK'
  <2>1. delay \in Nat
    BY BoundsAssumption
  <2>2. us' \in [Sleepers -> Nat] /\ since' \in [Sleepers -> Nat] /\ lag' \in Nat
    BY <1>2, <2>1 DEF Usleep
  <2>3. pc' \in [Sleepers -> Labels]
    BY <1>2 DEF Usleep, Goto, Labels
  <2>4. UNCHANGED <<clk, hwVars, isrVars, trigger, clksrc_high, timerVars, next_deadline,
                    ts, got, evt, posted>>
    BY <1>2 DEF Usleep
  <2> QED BY <2>2, <2>3, <2>4 DEF Labels
<1>3. ASSUME NEW t \in Sleepers, Post(t) \/ TakeEvents(t)
      PROVE  TypeOK'
  <2>1. /\ evt' \in [Sleepers -> SUBSET {"TIMER", "OTHER"}]
        /\ lag' \in Nat /\ posted' \in Nat
    BY <1>3 DEF Post, TakeEvents
  <2>2. UNCHANGED <<clk, hwVars, isrVars, trigger, clksrc_high, timerVars, next_deadline,
                    taskVars>>
    BY <1>3 DEF Post, TakeEvents
  <2> QED BY <2>1, <2>2
<1>4. CASE UNCHANGED vars
  BY <1>4 DEF vars
<1> QED
  BY <1>1, <1>2, <1>3, <1>4, HandlerTypes, ReturnTypes DEF Next

\* The registers hold values of their counters, the deadlines are natural numbers.
THEOREM TypeCorrect == Spec => []TypeOK
BY TypeInit, TypeNext, PTL DEF Spec

-----------------------------------------------------------------------------
(* The high word never runs ahead, and the timers are alarms.              *)

\* The overflow that is raised or read, and not yet counted.
Uncounted == IF uif \/ overflow THEN 1 ELSE 0
HighInv == clksrc_high + Uncounted <= Hi(clk)

\* What the steps of the handler that set a match, and those of the tasks, leave
\* alone.
HighKept == UNCHANGED <<clk, uif, overflow, clksrc_high>>

LEMMA SettingFrame ==
  ASSUME Handler, ~Status, ~Clear
  PROVE  UNCHANGED <<clk, lag, uif, overflow, clksrc_high, trigger, taskVars, posted,
                     timer_deadline>>
BY DEF Handler, Scan, EventMsb, EnableMsb, EventLsb, EnableLsb, Recheck, isrRest,
       hwVars, timerVars

\* A step of a task.
TaskStep(t) == (\E delay \in Delays : Usleep(t, delay)) \/ Return(t) \/ Post(t)
               \/ TakeEvents(t)

LEMMA TaskFrame ==
  ASSUME NEW t \in Sleepers, TaskStep(t)
  PROVE  UNCHANGED <<clk, uif, match, ccr, dier, isr, overflow, next, clksrc_high,
                     next_deadline>>
BY DEF TaskStep, Usleep, Return, ReadHigh, ReadLow, ReadAgain, ReadLowAgain, Arm, InPast,
       First, WakeUp, Cancel, ClearTimerEvent, Test, Requeue, Post, TakeEvents, taskRest,
       hwVars, isrVars

LEMMA HighNext == TypeOK /\ HighInv /\ [Next]_vars => HighInv'
<1> SUFFICES ASSUME TypeOK, HighInv, [Next]_vars PROVE HighInv'
  OBVIOUS
<1>0. clksrc_high \in Nat /\ clk \in Nat /\ Hi(clk) \in Nat
  BY Words DEF TypeOK
<1>1. CASE Tick
  <2>1. /\ clk' = clk + 1 /\ overflow' = overflow /\ clksrc_high' = clksrc_high
        /\ uif' = (uif \/ Lo(clk + 1) = 0)
    BY <1>1 DEF Tick, isrVars
  <2>2. CASE Lo(clk + 1) # 0
    <3>1. uif' = uif
      BY <2>1, <2>2, Zenon DEF TypeOK
    <3>2. Hi(clk + 1) = Hi(clk)
      BY <1>0, <2>2, WordTick
    <3>3. Uncounted' = Uncounted /\ Hi(clk)' = Hi(clk)
      BY <2>1, <3>1, <3>2 DEF Uncounted
    <3> QED BY <2>1, <3>3 DEF HighInv
  <2>3. CASE Lo(clk + 1) = 0
    <3>1. Hi(clk + 1) = Hi(clk) + 1
      BY <1>0, <2>3, Words, WordTick
    <3>2. clksrc_high <= Hi(clk)
      BY <1>0 DEF HighInv, Uncounted
    <3>3. Hi(clk)' = Hi(clk) + 1
      BY <2>1, <3>1
    <3>4. clksrc_high' = clksrc_high /\ Uncounted' \in {0, 1}
      BY <2>1 DEF Uncounted
    <3>5. clksrc_high' + Uncounted' <= Hi(clk) + 1
      BY <1>0, <3>2, <3>4
    <3> QED BY <3>3, <3>5 DEF HighInv
  <2> QED BY <2>2, <2>3
<1>2. CASE Status
  <2>1. /\ clk' = clk /\ uif' = uif /\ overflow' = uif /\ clksrc_high' = clksrc_high
    BY <1>2 DEF Status, Overflowed, isrRest, hwVars
  <2> QED BY <1>0, <2>1 DEF HighInv, Uncounted
<1>3. CASE Clear
  <2>1. /\ clk' = clk /\ ~uif' /\ ~overflow'
        /\ clksrc_high' = IF overflow THEN clksrc_high + 1 ELSE clksrc_high
    BY <1>3 DEF Clear, isrRest
  <2>2. clksrc_high' <= clksrc_high + Uncounted
    BY <1>0, <2>1 DEF Uncounted
  <2>3. Uncounted' = 0 /\ Uncounted \in Nat /\ clksrc_high' \in Nat
    BY <1>0, <2>1 DEF Uncounted
  <2>4. Hi(clk)' = Hi(clk)
    BY <2>1
  <2> QED BY <1>0, <2>2, <2>3, <2>4 DEF HighInv
<1>4. CASE HighKept
  BY <1>4 DEF HighKept, HighInv, Uncounted
<1>5. CASE Handler /\ ~Status /\ ~Clear
  BY <1>4, <1>5, SettingFrame DEF HighKept
<1>6. CASE UNCHANGED vars
  BY <1>4, <1>6 DEF HighKept, vars, hwVars, isrVars
<1>7. ASSUME NEW t \in Sleepers, TaskStep(t) PROVE HighInv'
  BY <1>4, <1>7, TaskFrame DEF HighKept
<1> QED BY <1>1, <1>2, <1>3, <1>5, <1>6, <1>7 DEF Next, TaskStep

LEMMA HighInvariant == Spec => [](TypeOK /\ HighInv)
<1>1. Init => TypeOK /\ HighInv
  <2> SUFFICES ASSUME Init PROVE HighInv
    BY TypeInit
  <2>1. clk = 0 /\ clksrc_high = 0 /\ ~uif /\ ~overflow /\ Hi(clk) \in Nat
    BY Words DEF Init
  <2> QED BY <2>1 DEF HighInv, Uncounted
<1> QED BY <1>1, TypeNext, HighNext, PTL DEF Spec

\* The handler reads a time that is not ahead of the clock.
LEMMA HandlerTime == TypeOK /\ HighInv => IsrTime \in Nat /\ IsrTime <= clk
<1> SUFFICES ASSUME TypeOK, HighInv PROVE IsrTime \in Nat /\ IsrTime <= clk
  BY Zenon
<1>1. /\ clksrc_high \in Nat /\ Hi(clk) \in Nat /\ Lo(clk) \in Nat /\ W \in Nat
      /\ clk = W * Hi(clk) + Lo(clk) /\ clk \in Nat
  <2>1. clk \in Nat /\ clksrc_high \in Nat /\ W \in Nat
    BY WordTypes DEF TypeOK
  <2>2. Hi(clk) \in Nat /\ Lo(clk) \in 0 .. W - 1 /\ clk = W * Hi(clk) + Lo(clk)
    BY <2>1, Words
  <2> QED BY <2>1, <2>2
<1>2. clksrc_high <= Hi(clk)
  BY <1>1 DEF HighInv, Uncounted
<1>3. W * clksrc_high <= W * Hi(clk)
  <2>1. CASE clksrc_high = Hi(clk)
    BY <1>1, <2>1
  <2>2. CASE clksrc_high < Hi(clk)
    BY <1>1, <2>2, Multiples
  <2> QED BY <1>1, <1>2, <2>1, <2>2
<1>4. IsrTime = W * clksrc_high + Lo(clk)
  BY <1>1 DEF IsrTime, __hw_clock_source_read
<1>5. W * clksrc_high \in Nat /\ W * Hi(clk) \in Nat
  BY <1>1
<1> QED BY <1>1, <1>3, <1>4, <1>5

\* The clients' alarms and the rung ones, as Alarms sees them.
AlarmOf == [t \in Sleepers |-> IF t \in timer_running THEN timer_deadline[t] ELSE -1]
RungOf  == {t \in Sleepers : "TIMER" \in evt[t]}

AlarmStep ==
  \/ UNCHANGED <<clk, AlarmOf, RungOf>>
  \/ clk' = clk + 1 /\ UNCHANGED <<AlarmOf, RungOf>>
  \/ \E S \in SUBSET Sleepers :
       /\ S # {} /\ \A c \in S : AlarmOf[c] # -1 /\ AlarmOf[c] <= clk
       /\ AlarmOf' = [c \in Sleepers |-> IF c \in S THEN -1 ELSE AlarmOf[c]]
       /\ RungOf' = RungOf \cup S /\ clk' = clk
  \/ \E c \in Sleepers : /\ AlarmOf[c] = -1 /\ AlarmOf'[c] \in Nat
                         /\ AlarmOf' = [AlarmOf EXCEPT ![c] = AlarmOf'[c]]
                         /\ UNCHANGED <<clk, RungOf>>
  \/ \E c \in Sleepers : /\ AlarmOf' = [AlarmOf EXCEPT ![c] = -1]
                         /\ UNCHANGED <<clk, RungOf>>
  \/ \E c \in Sleepers : RungOf' = RungOf \ {c} /\ UNCHANGED <<clk, AlarmOf>>

\* A step of the handler lets the expired timers ring, or changes no alarm.
LEMMA HandlerRings == TypeOK /\ HighInv /\ Handler => AlarmStep
<1> SUFFICES ASSUME TypeOK, HighInv, Handler PROVE AlarmStep
  OBVIOUS
<1>1. CASE Scan
  <2> DEFINE expired == {t \in timer_running : Expired(timer_deadline[t], IsrTime)}
  <2>1. /\ timer_running' = timer_running \ expired
        /\ evt' = [t \in Sleepers |-> IF t \in expired THEN evt[t] \cup {"TIMER"}
                                                       ELSE evt[t]]
        /\ UNCHANGED <<clk, timer_deadline>>
    BY <1>1 DEF Scan, isrRest
  <2>2. \A t \in expired : t \in timer_running /\ timer_deadline[t] <= clk
                           /\ timer_deadline[t] \in Nat
    <3>1. \A t \in expired : /\ t \in timer_running /\ timer_deadline[t] <= IsrTime
                             /\ timer_deadline[t] \in Nat
      BY DEF TypeOK, Expired
    <3> HIDE DEF expired
    <3> QED BY <3>1, HandlerTime DEF TypeOK
  <2>3. expired \subseteq Sleepers /\ timer_running \subseteq Sleepers
        /\ evt \in [Sleepers -> SUBSET {"TIMER", "OTHER"}]
    BY DEF TypeOK
  <2> HIDE DEF expired
  <2>4. AlarmOf' = [c \in Sleepers |-> IF c \in expired THEN -1 ELSE AlarmOf[c]]
    BY <2>1, <2>3 DEF AlarmOf
  <2>5. RungOf' = RungOf \cup expired
    BY <2>1, <2>3 DEF RungOf
  <2>6. CASE expired = {}
    <3>1. AlarmOf' = AlarmOf /\ RungOf' = RungOf
      BY <2>1, <2>3, <2>5, <2>6 DEF AlarmOf
    <3> QED BY <2>1, <3>1 DEF AlarmStep
  <2>7. CASE expired # {}
    <3>1. \A c \in expired : AlarmOf[c] # -1 /\ AlarmOf[c] <= clk
      BY <2>2, <2>3 DEF AlarmOf
    <3> QED BY <2>1, <2>3, <2>4, <2>5, <2>7, <3>1 DEF AlarmStep
  <2> QED BY <2>6, <2>7
<1>2. CASE ~Scan
  <2>1. UNCHANGED <<clk, timer_running, timer_deadline, evt>>
    BY <1>2 DEF Handler, Status, Clear, EventMsb, EnableMsb, EventLsb, EnableLsb,
                Recheck, isrRest, timerVars
  <2> QED BY <2>1 DEF AlarmStep, AlarmOf, RungOf
<1> QED BY <1>1, <1>2

LEMMA ReturnAlarms ==
  ASSUME TypeOK, NEW t \in Sleepers, Return(t)
  PROVE  AlarmStep
<1> USE DEF taskRest, timerVars
<1>1. CASE /\ UNCHANGED <<clk, timer_running, timer_deadline>>
           /\ RungOf' = RungOf \/ RungOf' = RungOf \ {t}
  BY <1>1 DEF AlarmStep, AlarmOf
<1>2. CASE ReadHigh(t) \/ ReadLow(t) \/ ReadAgain(t) \/ ReadLowAgain(t)
           \/ InPast(t) \/ First(t) \/ Test(t)
  <2>1. UNCHANGED <<clk, timer_running, timer_deadline, evt>>
    BY <1>2 DEF ReadHigh, ReadLow, ReadAgain, ReadLowAgain, InPast, First, Test
  <2> QED BY <1>1, <2>1 DEF RungOf
<1>3. CASE Arm(t)
  <2>1. /\ t \notin timer_running /\ timer_running' = timer_running \cup {t}
        /\ timer_deadline' = [timer_deadline EXCEPT ![t] = ts[t] + us[t]]
        /\ ts[t] + us[t] \in Nat /\ timer_deadline \in [Sleepers -> Nat]
        /\ clk' = clk /\ evt' = evt
    BY <1>3 DEF Arm, TypeOK
  <2>2. AlarmOf[t] = -1 /\ AlarmOf'[t] = ts[t] + us[t]
    BY <2>1 DEF AlarmOf
  <2>3. AlarmOf' = [AlarmOf EXCEPT ![t] = ts[t] + us[t]]
    BY <2>1 DEF AlarmOf
  <2>4. RungOf' = RungOf
    BY <2>1 DEF RungOf
  <2> QED BY <2>1, <2>2, <2>3, <2>4 DEF AlarmStep
<1>4. CASE Cancel(t)
  <2>1. timer_running' = timer_running \ {t} /\ UNCHANGED <<clk, timer_deadline, evt>>
    BY <1>4 DEF Cancel
  <2>2. AlarmOf' = [AlarmOf EXCEPT ![t] = -1] /\ RungOf' = RungOf
    BY <2>1 DEF AlarmOf, RungOf
  <2> QED BY <2>1, <2>2 DEF AlarmStep
<1>5. CASE WakeUp(t) \/ ClearTimerEvent(t)
  <2>1. /\ UNCHANGED <<clk, timer_running, timer_deadline>>
        /\ \/ evt' = [evt EXCEPT ![t] = {}]
           \/ evt' = [evt EXCEPT ![t] = @ \ {"TIMER"}]
    BY <1>5 DEF WakeUp, ClearTimerEvent
  <2>2. RungOf' = RungOf \ {t}
    BY <2>1 DEF RungOf, TypeOK
  <2> QED BY <1>1, <2>1, <2>2
<1>6. CASE Requeue(t)
  <2>1. /\ UNCHANGED <<clk, timer_running, timer_deadline>>
        /\ evt' = [evt EXCEPT ![t] = @ \cup (got[t] \ {"TIMER"})]
    BY <1>6 DEF Requeue
  <2>2. RungOf' = RungOf
    BY <2>1 DEF RungOf, TypeOK
  <2> QED BY <1>1, <2>1, <2>2
<1> QED BY <1>2, <1>3, <1>4, <1>5, <1>6 DEF Return

LEMMA StepOfAlarms == TypeOK /\ HighInv /\ [Next]_vars => AlarmStep
<1> SUFFICES ASSUME TypeOK, HighInv, [Next]_vars PROVE AlarmStep
  OBVIOUS
<1>1. CASE Tick
  <2>1. clk' = clk + 1 /\ UNCHANGED <<timer_running, timer_deadline, evt>>
    BY <1>1 DEF Tick, timerVars
  <2> QED BY <2>1 DEF AlarmStep, AlarmOf, RungOf
<1>2. ASSUME NEW t \in Sleepers, NEW delay \in Delays, Usleep(t, delay)
      PROVE  AlarmStep
  <2>1. UNCHANGED <<clk, timer_running, timer_deadline, evt>>
    BY <1>2 DEF Usleep, taskRest, timerVars
  <2> QED BY <2>1 DEF AlarmStep, AlarmOf, RungOf
<1>3. ASSUME NEW t \in Sleepers, Post(t) \/ TakeEvents(t) PROVE AlarmStep
  <2>1. /\ UNCHANGED <<clk, timer_running, timer_deadline>>
        /\ \/ evt' = [evt EXCEPT ![t] = @ \cup {"OTHER"}]
           \/ evt' = [evt EXCEPT ![t] = {}]
    BY <1>3 DEF Post, TakeEvents, taskRest, timerVars
  <2>2. RungOf' = RungOf \/ RungOf' = RungOf \ {t}
    BY <2>1 DEF RungOf, TypeOK
  <2>3. AlarmOf' = AlarmOf
    BY <2>1 DEF AlarmOf
  <2> QED BY <2>1, <2>2, <2>3 DEF AlarmStep
<1>4. CASE UNCHANGED vars
  BY <1>4 DEF vars, timerVars, AlarmStep, AlarmOf, RungOf
<1> QED
  BY <1>1, <1>2, <1>3, <1>4, HandlerRings, ReturnAlarms DEF Next

\* The timers implement alarms: one rings only for a timer that runs, and not before
\* its deadline, whatever the clock does around the wrap of the counters and
\* whether or not an overflow is lost there.
THEOREM TimersAreAlarms == Spec => AlarmSpec
<1>1. Init => AlarmClock!Init
  BY DEF Init, AlarmClock!Init, AlarmClock!None
<1> DEFINE alarms == <<clk,
                       [t \in Sleepers |-> IF t \in timer_running
                                          THEN timer_deadline[t] ELSE -1],
                       {t \in Sleepers : "TIMER" \in evt[t]}>>
<1>2. TypeOK /\ HighInv /\ [Next]_vars => [AlarmClock!Next]_alarms
  <2> SUFFICES ASSUME AlarmStep
               PROVE  AlarmClock!Next \/ UNCHANGED <<clk, AlarmOf, RungOf>>
    BY StepOfAlarms DEF AlarmOf, RungOf
  <2> QED
    BY DEF AlarmStep, AlarmOf, RungOf, AlarmClock!Next, AlarmClock!Tick, AlarmClock!Ring,
           AlarmClock!Due, AlarmClock!None, AlarmClock!Set, AlarmClock!Cancel,
           AlarmClock!Notice
<1> QED
  BY <1>1, <1>2, HighInvariant, PTL DEF Spec, AlarmSpec, AlarmClock!Spec

-----------------------------------------------------------------------------
(* The time that get_time returns.                                         *)

(***************************************************************************)
(* From here on the counters do not wrap between the read and the clearing *)
(* of the status register, and there is a delay, so that the time the      *)
(* processor may be busy is less than half the range of the counters.      *)
(***************************************************************************)
NoWindow == ~Window /\ Delays # {}

LEMMA LagSize == ASSUME NoWindow PROVE MaxLag \in Nat /\ 2 * MaxLag + 2 < W
<1>1. PICK delay \in Delays : 2 * (delay + MaxLag) < W
  BY NoWindow, DelaysAssumption DEF NoWindow, W
<1>2. delay \in Nat \ {0} /\ MaxLag \in Nat
  BY BoundsAssumption
<1> QED BY <1>1, <1>2, WordTypes

\* The high word is right but for an overflow that is still raised, and that wrap
\* is no older than the time the processor has been busy.
WrapInv ==
  /\ lag <= MaxLag /\ lag <= clk
  /\ isr = "clear" => overflow = uif
  /\ isr # "clear" => ~overflow
  /\ clksrc_high + (IF uif THEN 1 ELSE 0) = Hi(clk)
  /\ uif => Lo(clk) <= lag

\* What a tick does: it wraps the counters, which raises the flag, or not.
LEMMA TickEffect ==
  ASSUME TypeOK, Tick
  PROVE  /\ clk' = clk + 1 /\ lag' \in Nat
         /\ Idle => lag' = 0
         /\ ~Idle => lag' = lag + 1 /\ lag < MaxLag
         /\ UNCHANGED <<ccr, dier, trigger, isrVars, clksrc_high, timerVars,
                        next_deadline, taskVars, evt, posted>>
         /\ \/ /\ Lo(clk) < W - 1 /\ Lo(clk') = Lo(clk) + 1 /\ Hi(clk') = Hi(clk)
               /\ uif' = uif
            \/ /\ Lo(clk) = W - 1 /\ Lo(clk') = 0 /\ Hi(clk') = Hi(clk) + 1
               /\ uif'
<1>1. /\ clk' = clk + 1 /\ clk \in Nat /\ lag \in Nat /\ uif \in BOOLEAN
      /\ lag' = IF Idle THEN 0 ELSE lag + 1
      /\ ~Idle => lag < MaxLag
      /\ UNCHANGED <<ccr, dier, trigger, isrVars, clksrc_high, timerVars,
                     next_deadline, taskVars, evt, posted>>
      /\ uif' = (uif \/ Lo(clk + 1) = 0)
  BY DEF Tick, TypeOK
<1>2. \/ /\ Lo(clk) < W - 1 /\ Lo(clk + 1) = Lo(clk) + 1 /\ Hi(clk + 1) = Hi(clk)
      \/ /\ Lo(clk) = W - 1 /\ Lo(clk + 1) = 0 /\ Hi(clk + 1) = Hi(clk) + 1
  BY <1>1, WordTick
<1>3. Lo(clk) \in 0 .. W - 1
  BY <1>1, Words
<1>4. CASE Lo(clk + 1) = Lo(clk) + 1 /\ Lo(clk) < W - 1 /\ Hi(clk + 1) = Hi(clk)
  <2>1. Lo(clk + 1) # 0
    BY <1>3, <1>4
  <2>2. uif' = uif
    BY <1>1, <2>1, Zenon
  <2> QED BY <1>1, <1>4, <2>2
<1>5. CASE Lo(clk) = W - 1 /\ Lo(clk + 1) = 0 /\ Hi(clk + 1) = Hi(clk) + 1
  <2>1. uif'
    BY <1>1, <1>5, Zenon
  <2> QED BY <1>1, <1>5, <2>1
<1> QED BY <1>2, <1>4, <1>5

LEMMA WrapTick ==
  ASSUME TypeOK, WrapInv, Tick, NoWindow
  PROVE  /\ WrapInv'
         /\ Lo(clk) = W - 1 => ~uif /\ uif' /\ isr # "clear"
<1>1. /\ clk \in Nat /\ lag \in Nat /\ Lo(clk) \in 0 .. W - 1 /\ Hi(clk) \in Nat
      /\ clksrc_high \in Nat
  BY Words DEF TypeOK
<1>2. MaxLag \in Nat /\ 2 * MaxLag + 2 < W
  BY NoWindow, LagSize
<1>3. lag' <= MaxLag /\ lag' <= clk'
  BY <1>1, <1>2, TickEffect DEF WrapInv
<1>4. isr' = isr /\ overflow' = overflow /\ clksrc_high' = clksrc_high
  BY TickEffect DEF isrVars
<1>5. uif => ~Idle
  BY DEF Idle, Pending
<1>6. CASE Lo(clk) < W - 1 /\ Lo(clk') = Lo(clk) + 1 /\ Hi(clk') = Hi(clk) /\ uif' = uif
  <2>1. uif' => Lo(clk') <= lag'
    BY <1>1, <1>5, <1>6, TickEffect DEF WrapInv
  <2> QED BY <1>1, <1>3, <1>4, <1>6, <2>1 DEF WrapInv
<1>7. CASE Lo(clk) = W - 1 /\ Lo(clk') = 0 /\ Hi(clk') = Hi(clk) + 1 /\ uif'
  <2>1. ~uif
    <3> SUFFICES ASSUME uif PROVE FALSE
      OBVIOUS
    <3>1. Lo(clk) <= lag /\ lag <= MaxLag
      BY DEF WrapInv
    <3>2. Lo(clk) = W - 1
      BY <1>7
    <3>3. W \in Nat
      BY WordTypes
    <3> QED BY <1>1, <1>2, <3>1, <3>2, <3>3
  <2>2. isr # "clear"
    BY <1>7, NoWindow, TickEffect DEF Tick, NoWindow
  <2>3. lag' >= 0
    BY TickEffect
  <2>4. clksrc_high' + (IF uif' THEN 1 ELSE 0) = Hi(clk')
    BY <1>1, <1>4, <1>7, <2>1 DEF WrapInv
  <2> QED BY <1>3, <1>4, <1>7, <2>1, <2>2, <2>3, <2>4 DEF WrapInv
<1> QED BY <1>1, <1>6, <1>7, TickEffect

\* A task that calls, or an event, may find the processor idle, and starts the time
\* it is busy.
LEMMA TaskLag ==
  ASSUME TypeOK, NEW t \in Sleepers, TaskStep(t)
  PROVE  lag' = lag \/ (Idle /\ lag' = 0)
BY DEF TaskStep, Usleep, Return, ReadHigh, ReadLow, ReadAgain, ReadLowAgain, Arm, InPast,
       First, WakeUp, Cancel, ClearTimerEvent, Test, Requeue, Post, TakeEvents

LEMMA WrapNext == NoWindow /\ TypeOK /\ WrapInv /\ [Next]_vars => WrapInv'
<1> SUFFICES ASSUME NoWindow, TypeOK, WrapInv, [Next]_vars PROVE WrapInv'
  OBVIOUS
<1>0. /\ clk \in Nat /\ lag \in Nat /\ clksrc_high \in Nat
      /\ uif \in BOOLEAN /\ overflow \in BOOLEAN
  BY DEF TypeOK
<1>1. CASE Tick
  BY <1>1, WrapTick
<1>2. CASE Status
  <2>1. /\ isr' = "clear" /\ overflow' = uif /\ uif' = uif
        /\ UNCHANGED <<clk, lag, clksrc_high>>
    BY <1>2, Zenon DEF Status, Overflowed, isrRest, hwVars
  <2> QED BY <2>1 DEF WrapInv
<1>3. CASE Clear
  <2>1. /\ isr = "clear" /\ isr' = "scan" /\ ~overflow' /\ ~uif'
        /\ clksrc_high' = IF overflow THEN clksrc_high + 1 ELSE clksrc_high
        /\ UNCHANGED <<clk, lag>>
    BY <1>3 DEF Clear, isrRest
  <2>2. overflow = uif /\ clksrc_high + (IF uif THEN 1 ELSE 0) = Hi(clk)
    BY <2>1 DEF WrapInv
  <2>3. clksrc_high' = Hi(clk)
    BY <1>0, <2>1, <2>2
  <2>4. Hi(clk)' = Hi(clk) /\ clksrc_high' \in Nat
    BY <1>0, <2>1
  <2>5. (clksrc_high + (IF uif THEN 1 ELSE 0) = Hi(clk))'
    BY <2>1, <2>3, <2>4
  <2> QED BY <2>1, <2>5 DEF WrapInv
<1>4. CASE UNCHANGED <<clk, lag, uif, overflow, clksrc_high>>
           /\ isr # "clear" /\ isr' # "clear"
  BY <1>4 DEF WrapInv
<1>5. CASE Handler /\ ~Status /\ ~Clear
  <2>1. isr # "clear" /\ isr' # "clear"
    BY <1>5 DEF Handler, Scan, EventMsb, EnableMsb, EventLsb, EnableLsb, Recheck
  <2> QED BY <1>4, <1>5, <2>1, SettingFrame
<1>6. CASE UNCHANGED vars
  BY <1>6 DEF vars, hwVars, isrVars, WrapInv
<1>7. ASSUME NEW t \in Sleepers, TaskStep(t) PROVE WrapInv'
  <2>1. UNCHANGED <<clk, uif, isr, overflow, clksrc_high>>
    BY <1>7, TaskFrame
  <2>2. CASE lag' = lag
    BY <2>1, <2>2 DEF WrapInv
  <2>3. CASE Idle /\ lag' = 0
    <3>1. ~uif /\ MaxLag \in Nat
      BY <2>3, BoundsAssumption DEF Idle, Pending
    <3>2. lag' <= MaxLag /\ lag' <= clk'
      BY <1>0, <2>1, <2>3, <3>1
    <3> QED BY <2>1, <3>1, <3>2 DEF WrapInv
  <2> QED BY <1>7, <2>2, <2>3, TaskLag
<1> QED BY <1>1, <1>2, <1>3, <1>5, <1>6, <1>7 DEF Next, TaskStep

LEMMA WrapInit == ASSUME NoWindow PROVE Init => WrapInv
<1> SUFFICES ASSUME Init PROVE WrapInv
  OBVIOUS
<1>1. clk = 0 /\ lag = 0 /\ ~uif /\ ~overflow /\ isr = "off" /\ clksrc_high = 0
  BY DEF Init
<1>2. Hi(0) = 0
  <2>1. 0 = W * 0 + 0 /\ 0 \in 0 .. W - 1
    BY WordTypes
  <2> QED BY <2>1, WordsUnique
<1> QED BY <1>1, <1>2, BoundsAssumption DEF WrapInv

\* The high word counts every wrap of the counters.
THEOREM WrapsAreCounted == ASSUME NoWindow PROVE Spec => []WrapsCounted
<1>1. WrapInv /\ TypeOK => WrapsCounted
  BY DEF WrapInv, WrapsCounted, Pending, TypeOK
<1> QED BY <1>1, NoWindow, TypeInit, WrapInit, TypeNext, WrapNext, PTL DEF Spec

-----------------------------------------------------------------------------
(* The times that get_time returns.                                        *)

\* When the processor became busy.
Start == clk - lag

LEMMA Cases ==
  [Next]_vars => \/ Tick \/ Handler \/ UNCHANGED vars
                 \/ \E t \in Sleepers : TaskStep(t)
BY DEF Next, TaskStep

\* A task changes its own state only.
LEMMA OthersKept ==
  ASSUME TypeOK, NEW s \in Sleepers, TaskStep(s), NEW t \in Sleepers, t # s
  PROVE  /\ pc'[t] = pc[t] /\ us'[t] = us[t] /\ ts'[t] = ts[t] /\ since'[t] = since[t]
         /\ evt'[t] = evt[t] /\ got'[t] = got[t]
         /\ t \in timer_running' <=> t \in timer_running
         /\ timer_deadline'[t] = timer_deadline[t]
<1> USE DEF TypeOK, timerVars, taskVars, Goto
<1>1. CASE (\E delay \in Delays : Usleep(s, delay)) \/ Post(s) \/ TakeEvents(s)
  BY <1>1 DEF Usleep, Post, TakeEvents
<1>2. CASE ReadHigh(s) \/ ReadLow(s) \/ ReadAgain(s) \/ ReadLowAgain(s)
  BY <1>2 DEF ReadHigh, ReadLow, ReadAgain, ReadLowAgain
<1>3. CASE Arm(s) \/ InPast(s) \/ First(s)
  BY <1>3 DEF Arm, InPast, First
<1>4. CASE WakeUp(s) \/ Cancel(s) \/ ClearTimerEvent(s) \/ Test(s) \/ Requeue(s)
  BY <1>4 DEF WakeUp, Cancel, ClearTimerEvent, Test, Requeue
<1> QED BY <1>1, <1>2, <1>3, <1>4 DEF TaskStep, Return

\* Ticks and the handler leave the tasks alone.
LEMMA TasksKept ==
  ASSUME Tick \/ Handler \/ UNCHANGED vars
  PROVE  UNCHANGED <<pc, us, ts, since, got, timer_deadline, posted>>
BY DEF Tick, Handler, Status, Clear, Scan, EventMsb, EnableMsb, EventLsb, EnableLsb,
       Recheck, isrRest, taskVars, timerVars, vars

\* While a task is neither at work nor asleep the time it counts from stays.
LEMMA BusyStep ==
  ASSUME TypeOK, [Next]_vars, NEW t \in Sleepers, pc[t] \notin {"work", "sleep"}
  PROVE  Start' = Start /\ clk' \in {clk, clk + 1}
<1>1. clk \in Nat /\ lag \in Nat
  BY DEF TypeOK
<1>2. ~Idle
  BY DEF Idle
<1>3. CASE Tick
  BY <1>1, <1>2, <1>3, TickEffect DEF Start
<1>4. CASE UNCHANGED <<clk, lag>>
  BY <1>1, <1>4 DEF Start
<1>5. Handler \/ UNCHANGED vars => UNCHANGED <<clk, lag>>
  BY DEF Handler, Status, Clear, Scan, EventMsb, EnableMsb, EventLsb, EnableLsb,
         Recheck, isrRest, vars
<1>6. ASSUME NEW s \in Sleepers, TaskStep(s) PROVE UNCHANGED <<clk, lag>>
  BY <1>2, <1>6, TaskFrame, TaskLag
<1> QED BY <1>3, <1>4, <1>5, <1>6, Cases

LEMMA Quiet ==
  ASSUME TypeOK, WrapInv, isr = "off", ~Pending
  PROVE  clksrc_high = Hi(clk) /\ ~uif
BY DEF WrapInv, Pending, TypeOK

\* What a task in get_time has read.
TimeOf(t) ==
  /\ pc[t] # "work" => since[t] <= clk
  /\ pc[t] = "lo" => /\ Lo(ts[t]) = 0 /\ ts[t] <= clk
                     /\ Start < ts[t] + W /\ since[t] < ts[t] + W
  /\ pc[t] = "recheck" => /\ ts[t] <= clk /\ Start < W * Hi(ts[t]) + W
                          /\ since[t] <= ts[t] \/ Hi(ts[t]) < Hi(clk)
  /\ pc[t] = "lo2" => Lo(ts[t]) = 0 /\ Start <= ts[t] /\ ts[t] <= clk
  /\ pc[t] = "arm" => since[t] <= ts[t] /\ ts[t] <= clk
TimeInv == \A t \in Sleepers : TimeOf(t)

LEMMA TimeTypes ==
  ASSUME TypeOK, NEW t \in Sleepers
  PROVE  /\ clk \in Nat /\ lag \in Nat /\ Start \in Int /\ W \in Nat /\ W > 1
         /\ ts[t] \in Nat /\ since[t] \in Nat /\ us[t] \in Nat
         /\ timer_deadline[t] \in Nat
         /\ Hi(clk) \in Nat /\ Lo(clk) \in 0 .. W - 1 /\ clk = W * Hi(clk) + Lo(clk)
         /\ Hi(ts[t]) \in Nat /\ Lo(ts[t]) \in 0 .. W - 1
         /\ ts[t] = W * Hi(ts[t]) + Lo(ts[t])
         /\ W * Hi(clk) \in Nat /\ W * Hi(ts[t]) \in Nat
         /\ Start <= clk
<1>1. /\ clk \in Nat /\ lag \in Nat /\ ts[t] \in Nat /\ since[t] \in Nat /\ us[t] \in Nat
      /\ timer_deadline[t] \in Nat
  BY DEF TypeOK
<1>2. W \in Nat /\ W > 1
  BY WordTypes
<1>3. Hi(clk) \in Nat /\ Lo(clk) \in 0 .. W - 1 /\ clk = W * Hi(clk) + Lo(clk)
  BY <1>1, Words
<1>4. /\ Hi(ts[t]) \in Nat /\ Lo(ts[t]) \in 0 .. W - 1
      /\ ts[t] = W * Hi(ts[t]) + Lo(ts[t])
  BY <1>1, Words
<1>5. W * Hi(clk) \in Nat /\ W * Hi(ts[t]) \in Nat
  BY <1>2, <1>3, <1>4
<1>6. Start \in Int /\ Start <= clk
  BY <1>1 DEF Start
<1> QED BY <1>1, <1>2, <1>3, <1>4, <1>5, <1>6

\* A step that is not the task's own.
LEMMA TimeKept ==
  ASSUME TypeOK, [Next]_vars, NEW t \in Sleepers, TimeOf(t),
         pc'[t] = pc[t] /\ ts'[t] = ts[t] /\ since'[t] = since[t]
  PROVE  TimeOf(t)'
<1>1. clk \in Nat /\ since[t] \in Nat /\ ts[t] \in Nat
  BY TimeTypes
<1>2. clk' \in {clk, clk + 1}
  <2>1. Tick => clk' = clk + 1
    BY DEF Tick
  <2>2. Handler \/ UNCHANGED vars => clk' = clk
    BY DEF Handler, Status, Clear, Scan, EventMsb, EnableMsb, EventLsb, EnableLsb,
           Recheck, isrRest, vars
  <2>3. ASSUME NEW s \in Sleepers, TaskStep(s) PROVE clk' = clk
    BY <2>3, TaskFrame
  <2> QED BY <2>1, <2>2, <2>3, Cases
<1>3. Hi(clk) <= Hi(clk') /\ Hi(clk) \in Nat /\ Hi(clk') \in Nat
  <2>1. clk' \in Nat /\ clk <= clk'
    BY <1>1, <1>2
  <2> QED BY <1>1, <2>1, WordOrder, Words
<1>4. clk <= clk' /\ clk' \in Nat
  BY <1>1, <1>2
<1>5. /\ Lo(ts[t])' = Lo(ts[t]) /\ Hi(ts[t])' = Hi(ts[t]) /\ W' = W /\ Hi(clk)' = Hi(clk')
      /\ ts[t]' = ts[t] /\ since[t]' = since[t] /\ pc[t]' = pc[t]
  OBVIOUS
<1>6. Hi(ts[t]) \in Nat
  BY <1>1, Words
<1>7. CASE pc[t] \in {"work", "sleep"}
  BY <1>1, <1>4, <1>5, <1>7 DEF TimeOf
<1>8. CASE pc[t] \notin {"work", "sleep"}
  <2>1. Start' = Start
    BY <1>8, BusyStep
  <2>2. since[t] <= clk'
    BY <1>1, <1>4, <1>8 DEF TimeOf
  <2>3. ts[t] <= clk => ts[t] <= clk'
    BY <1>1, <1>4
  <2>4. Hi(ts[t]) < Hi(clk) => Hi(ts[t]) < Hi(clk')
    BY <1>3, <1>6
  <2> HIDE DEF Start
  <2> QED BY <1>5, <2>1, <2>2, <2>3, <2>4 DEF TimeOf
<1> QED BY <1>7, <1>8

\* The steps of get_time.
LEMMA TimeReads ==
  ASSUME TypeOK, WrapInv, NoWindow, NEW t \in Sleepers, TimeOf(t),
         ReadHigh(t) \/ ReadLow(t) \/ ReadAgain(t) \/ ReadLowAgain(t)
  PROVE  TimeOf(t)'
<1> DEFINE h == Hi(clk)
           l == Lo(clk)
           k == Hi(ts[t])
           x == ts[t]
           y == ts'[t]
<1>1. /\ clk \in Nat /\ Start \in Int /\ W \in Nat /\ W > 1 /\ x \in Nat
      /\ since[t] \in Nat /\ h \in Nat /\ l \in 0 .. W - 1 /\ clk = W * h + l
      /\ k \in Nat /\ Lo(x) \in 0 .. W - 1 /\ x = W * k + Lo(x)
      /\ W * h \in Nat /\ W * k \in Nat /\ Start <= clk
  BY TimeTypes
<1>2. /\ clk' = clk /\ lag' = lag /\ since' = since /\ isr = "off" /\ ~Pending
      /\ Start' = Start
  BY DEF ReadHigh, ReadLow, ReadAgain, ReadLowAgain, taskRest, At, Start
<1>3. clksrc_high = h
  BY <1>2, Quiet
<1>4. pc[t] # "work" => since[t] <= clk
  BY DEF TimeOf
<1>5. lag <= MaxLag /\ MaxLag \in Nat /\ 2 * MaxLag + 2 < W /\ lag \in Nat
  BY NoWindow, LagSize DEF WrapInv, TypeOK
<1>6. k <= h => W * k <= W * h
  <2> HIDE DEF h, k
  <2>1. CASE k = h
    BY <1>1, <2>1
  <2>2. CASE k < h
    BY <1>1, <2>2, Multiples
  <2> QED BY <1>1, <2>1, <2>2
<1>7. k < h => W * k + W <= W * h
  <2> HIDE DEF h, k
  <2> QED BY <1>1, Multiples
<1>8. x <= clk => k <= h
  BY <1>1, WordOrder
<1>9. t \in DOMAIN pc /\ t \in DOMAIN ts
  BY DEF TypeOK
<1>10. CASE ReadHigh(t)
  <2>1. pc[t] = "hi" /\ pc'[t] = "lo" /\ y = W * h
    BY <1>1, <1>3, <1>9, <1>10 DEF ReadHigh, At, Goto
  <2>2. Lo(W * h) = 0
    <3>1. 0 \in 0 .. W - 1 /\ W * h = W * h + 0
      BY <1>1
    <3> QED BY <1>1, <3>1, WordsUnique
  <2>3. Start < W * h + W /\ since[t] < W * h + W /\ W * h <= clk /\ since[t] <= clk
    <3> HIDE DEF Start, h, l
    <3> QED BY <1>1, <1>4, <2>1
  <2> HIDE DEF Start, h
  <2> QED BY <1>2, <2>1, <2>2, <2>3 DEF TimeOf
<1>11. CASE ReadLow(t)
  <2>1. pc[t] = "lo" /\ pc'[t] = "recheck" /\ y = x + l
    BY <1>9, <1>11 DEF ReadLow, At, Goto, __hw_clock_source_read
  <2>2. Lo(x) = 0 /\ x <= clk /\ Start < x + W /\ since[t] < x + W /\ since[t] <= clk
    BY <2>1 DEF TimeOf
  <2>3. x = W * k
    BY <1>1, <2>2
  <2>4. Hi(y) = k
    <3> HIDE DEF h, l, k
    <3> QED BY <1>1, <2>1, <2>3, WordsUnique
  <2>5. k <= h /\ W * k <= W * h
    BY <1>6, <1>8, <2>2
  <2>6. y <= clk /\ Start < W * k + W
    <3> HIDE DEF Start, h, l, k, x, y
    <3> QED BY <1>1, <2>1, <2>2, <2>3, <2>5
  <2>7. since[t] <= y \/ k < h
    <3>1. CASE k = h
      <4>1. y = clk
        <5> HIDE DEF h, l, k, x, y
        <5> QED BY <1>1, <2>1, <2>3, <3>1
      <4> QED BY <2>2, <4>1
    <3> QED BY <1>1, <2>5, <3>1
  <2> HIDE DEF Start, h, k
  <2> QED BY <1>2, <2>1, <2>2, <2>4, <2>6, <2>7 DEF TimeOf, h
<1>12. CASE ReadAgain(t)
  <2>1. pc[t] = "recheck" /\ x <= clk /\ Start < W * k + W /\ since[t] <= clk
        /\ (since[t] <= x \/ k < h)
    BY <1>12 DEF TimeOf, ReadAgain, At
  <2>2. k <= h
    BY <1>8, <2>1
  <2>3. CASE k # h
    <3>1. pc'[t] = "lo2" /\ y = W * h
      BY <1>1, <1>3, <1>9, <1>12, <2>3 DEF ReadAgain, Stale, Goto
    <3>2. k < h /\ W * k + W <= W * h
      <4>1. k < h
        <5> HIDE DEF h, k
        <5> QED BY <1>1, <2>2, <2>3
      <4> QED BY <1>7, <4>1
    <3>3. Start <= W * h /\ W * h <= clk
      <4> HIDE DEF Start, h, l, k, x
      <4> QED BY <1>1, <2>1, <3>2
    <3>4. Lo(W * h) = 0
      <4>1. 0 \in 0 .. W - 1 /\ W * h = W * h + 0
        BY <1>1
      <4> QED BY <1>1, <4>1, WordsUnique
    <3> HIDE DEF Start, h
    <3> QED BY <1>2, <2>1, <3>1, <3>3, <3>4 DEF TimeOf
  <2>4. CASE k = h
    <3>1. pc'[t] = "arm" /\ y = x
      BY <1>3, <1>9, <1>12, <2>4 DEF ReadAgain, Stale, Goto
    <3>2. since[t] <= x
      BY <1>1, <2>1, <2>4
    <3> HIDE DEF Start, h
    <3> QED BY <1>2, <2>1, <3>1, <3>2 DEF TimeOf
  <2> QED BY <2>3, <2>4
<1>13. CASE ReadLowAgain(t)
  <2>1. pc[t] = "lo2" /\ pc'[t] = "arm" /\ y = x + l
    BY <1>9, <1>13 DEF ReadLowAgain, At, Goto, __hw_clock_source_read
  <2>2. Lo(x) = 0 /\ x <= clk /\ Start <= x /\ since[t] <= clk
    BY <2>1 DEF TimeOf
  <2>3. x = W * k
    BY <1>1, <2>2
  <2>4. k <= h
    BY <1>8, <2>2
  <2>5. k = h
    <3>1. SUFFICES ASSUME k < h PROVE FALSE
      BY <1>1, <2>4
    <3>2. W * k + W <= W * h
      BY <1>7, <3>1
    <3>3. clk - lag <= W * k
      BY <2>2, <2>3 DEF Start
    <3> HIDE DEF h, l, k, x
    <3> QED BY <1>1, <1>5, <3>2, <3>3
  <2>6. y = clk
    <3> HIDE DEF h, l, k, x, y
    <3> QED BY <1>1, <2>1, <2>3, <2>5
  <2> HIDE DEF Start, h
  <2>7. clk <= clk
    BY <1>1
  <2> QED BY <1>2, <2>1, <2>2, <2>6, <2>7 DEF TimeOf
<1> QED BY <1>10, <1>11, <1>12, <1>13

LEMMA TimeNext == NoWindow /\ TypeOK /\ WrapInv /\ TimeInv /\ [Next]_vars => TimeInv'
<1> SUFFICES ASSUME NoWindow, TypeOK, WrapInv, TimeInv, [Next]_vars,
                    NEW t \in Sleepers
             PROVE  TimeOf(t)'
  BY DEF TimeInv
<1>1. TimeOf(t) /\ clk \in Nat /\ t \in DOMAIN pc /\ t \in DOMAIN since
  BY DEF TimeInv, TypeOK
<1>2. CASE Tick \/ Handler \/ UNCHANGED vars
  BY <1>1, <1>2, TasksKept, TimeKept
<1>3. ASSUME NEW s \in Sleepers, TaskStep(s), s # t PROVE TimeOf(t)'
  BY <1>1, <1>3, OthersKept, TimeKept
<1>4. CASE Post(t) \/ TakeEvents(t)
  BY <1>1, <1>4, TimeKept DEF Post, TakeEvents, taskVars
<1>5. CASE ReadHigh(t) \/ ReadLow(t) \/ ReadAgain(t) \/ ReadLowAgain(t)
  BY <1>1, <1>5, TimeReads
<1>6. ASSUME NEW delay \in Delays, Usleep(t, delay) PROVE TimeOf(t)'
  <2>1. pc'[t] = "hi" /\ since'[t] = clk /\ clk' = clk /\ clk <= clk
    BY <1>1, <1>6 DEF Usleep, Goto, taskRest
  <2> QED BY <2>1 DEF TimeOf
<1>7. CASE \/ Arm(t) \/ InPast(t) \/ First(t) \/ WakeUp(t) \/ Cancel(t)
           \/ ClearTimerEvent(t) \/ Test(t)
  <2>1. since' = since /\ clk' = clk
    BY <1>7 DEF Arm, InPast, First, WakeUp, Cancel, ClearTimerEvent, Test, taskRest
  <2>2. /\ pc[t] # "work"
        /\ pc'[t] \in {"past", "first", "sleep", "cancel", "clear", "test", "hi",
                       "requeue"}
    BY <1>1, <1>7 DEF Arm, InPast, First, WakeUp, Cancel, ClearTimerEvent, Test, At, Goto
  <2> QED BY <1>1, <2>1, <2>2 DEF TimeOf
<1>8. CASE Requeue(t)
  <2>1. pc'[t] = "work"
    BY <1>1, <1>8 DEF Requeue, Goto
  <2> QED BY <2>1 DEF TimeOf
<1> QED BY <1>2, <1>3, <1>4, <1>5, <1>6, <1>7, <1>8, Cases DEF TaskStep, Return

LEMMA TimeInit == Init => TimeInv
BY DEF Init, TimeInv, TimeOf

\* get_time returns a time between its call and its return, whether or not the
\* counters wrap while the task reads the two words.
THEOREM TimesAreRight == ASSUME NoWindow PROVE Spec => []TimeIsRight
<1>1. TypeOK /\ TimeInv => TimeIsRight
  BY DEF TypeOK, TimeInv, TimeOf, TimeIsRight
<1> QED
  BY <1>1, NoWindow, TypeInit, WrapInit, TimeInit, TypeNext, WrapNext, TimeNext, PTL
     DEF Spec

-----------------------------------------------------------------------------
(* The interrupt for the next deadline.                                    *)

\* A match that will be raised before or when the counters reach n, and those that
\* are raised already.
MsbArmed(n) == "msb" \in dier /\ ccr.msb = MsbOf(n) /\ MsbOf(Lo(clk)) < MsbOf(n)
LsbArmed(n) == /\ "lsb" \in dier /\ ccr.lsb = n % Lsb
               /\ MsbOf(Lo(clk)) = MsbOf(n) /\ Lo(clk) < n
MsbPast(n)  == MsbOf(n) <= MsbOf(Lo(clk))
Raised      == match \cap dier # {}

\* What one tick does to them when the counters do not wrap: a match that was armed
\* stays armed or is raised.
LEMMA ArmedTick ==
  ASSUME TypeOK, Tick, ~uif', NEW n \in 0 .. W - 1
  PROVE  /\ Raised => Raised'
         /\ MsbArmed(n) => Raised' \/ MsbArmed(n)'
         /\ LsbArmed(n) => Raised' \/ LsbArmed(n)'
         /\ MsbPast(n) => MsbPast(n)'
         /\ n <= Lo(clk) => n <= Lo(clk')
<1> DEFINE l == Lo(clk)
<1>1. /\ clk' = clk + 1 /\ ccr' = ccr /\ dier' = dier
      /\ match' = match
           \cup (IF (clk + 1) % Lsb = ccr.lsb THEN {"lsb"} ELSE {})
           \cup (IF (clk + 1) % Lsb = 0 /\ MsbOf(Lo(clk + 1)) = ccr.msb
                 THEN {"msb"} ELSE {})
  BY DEF Tick
<1>2. clk \in Nat /\ l \in 0 .. W - 1 /\ W \in Nat
  BY WordTypes, Words DEF TypeOK
<1>3. Lo(clk') = l + 1 /\ Lo(clk + 1) = l + 1 /\ l + 1 \in 0 .. W - 1
  <2>1. Lo(clk) < W - 1 /\ Lo(clk') = Lo(clk) + 1
    BY TickEffect
  <2> HIDE DEF l
  <2> QED BY <1>1, <1>2, <2>1 DEF l
<1>4. (clk + 1) % Lsb = (l + 1) % Lsb
  BY <1>2, <1>3, LowHalf
<1> HIDE DEF l
<1>5. /\ MsbOf(l) \in Nat /\ MsbOf(l + 1) \in Nat /\ MsbOf(n) \in Nat
      /\ MsbOf(l) <= MsbOf(l + 1)
  <2>1. l <= l + 1
    BY <1>2
  <2> QED BY <1>2, <1>3, <2>1, Halves, HalfOrder
<1>6. \/ MsbOf(l + 1) = MsbOf(l)
      \/ MsbOf(l + 1) = MsbOf(l) + 1 /\ (l + 1) % Lsb = 0
  <2>1. l \in Nat
    BY <1>2
  <2> QED BY <2>1, HalfTick
<1>7. Raised => Raised'
  BY <1>1 DEF Raised
<1>8. ASSUME MsbArmed(n) PROVE Raised' \/ MsbArmed(n)'
  <2>1. "msb" \in dier /\ ccr.msb = MsbOf(n) /\ MsbOf(l) < MsbOf(n)
    BY <1>8 DEF MsbArmed, l
  <2>2. CASE MsbOf(l + 1) < MsbOf(n)
    BY <1>1, <1>3, <2>1, <2>2 DEF MsbArmed
  <2>3. CASE MsbOf(l + 1) = MsbOf(n) /\ (l + 1) % Lsb = 0
    <3>1. "msb" \in match'
      BY <1>1, <1>3, <1>4, <2>1, <2>3
    <3> QED BY <1>1, <2>1, <3>1 DEF Raised
  <2> QED BY <1>5, <1>6, <2>1, <2>2, <2>3
<1>9. ASSUME LsbArmed(n) PROVE Raised' \/ LsbArmed(n)'
  <2>1. "lsb" \in dier /\ ccr.lsb = n % Lsb /\ MsbOf(l) = MsbOf(n) /\ l < n
    BY <1>9 DEF LsbArmed, l
  <2>2. CASE l + 1 < n
    <3>1. MsbOf(l + 1) <= MsbOf(n)
      BY <1>2, <1>3, <2>2, HalfOrder
    <3>2. MsbOf(l + 1) = MsbOf(n)
      BY <1>5, <2>1, <3>1
    <3> QED BY <1>1, <1>3, <2>1, <2>2, <3>2 DEF LsbArmed
  <2>3. CASE l + 1 = n
    <3>1. "lsb" \in match'
      BY <1>1, <1>4, <2>1, <2>3
    <3> QED BY <1>1, <2>1, <3>1 DEF Raised
  <2> QED BY <1>2, <2>1, <2>2, <2>3
<1>10. MsbPast(n) => MsbPast(n)'
  <2>1. MsbPast(n) <=> MsbOf(n) <= MsbOf(l)
    BY DEF MsbPast, l
  <2>2. MsbPast(n)' <=> MsbOf(n) <= MsbOf(l + 1)
    BY <1>3 DEF MsbPast
  <2> QED BY <1>5, <2>1, <2>2
<1>11. n <= Lo(clk) => n <= Lo(clk')
  BY <1>2, <1>3 DEF l
<1> QED BY <1>7, <1>8, <1>9, <1>10, <1>11

\* While the handler sets a match for next: the counters will reach the match, they
\* have passed next already, or they have wrapped.
Setting == {"msb", "msb2", "lsb", "lsb2", "check"}

Reaches(n) ==
  \/ uif
  \/ isr = "msb"
  \/ isr = "msb2" /\ ccr.msb = MsbOf(n)
  \/ isr = "lsb" /\ (Raised \/ MsbArmed(n) \/ MsbPast(n))
  \/ isr = "lsb2" /\ ccr.lsb = n % Lsb /\ MsbPast(n)
  \/ isr = "check" /\ (Raised \/ MsbArmed(n) \/ LsbArmed(n) \/ n <= Lo(clk))

\* A deadline that needs no interrupt before the one of next.
NotBefore(deadline) ==
  \/ Hi(deadline) > clksrc_high
  \/ Hi(deadline) = clksrc_high /\ (Lo(deadline) = W - 1 \/ next <= deadline)

SetInv ==
  isr \in Setting => /\ Hi(next) = clksrc_high
                     /\ \A t \in timer_running : NotBefore(timer_deadline[t])
                     /\ Reaches(Lo(next))

\* When the handler has returned and the interrupt is not pending.
Served(t) ==
  /\ pc[t] # "past" => Hi(timer_deadline[t]) >= clksrc_high
  /\ pc[t] \notin {"past", "first"} => \/ Hi(timer_deadline[t]) > clksrc_high
                                       \/ next_deadline <= Lo(timer_deadline[t])

QuietInv ==
  isr = "off" /\ ~Pending =>
    /\ next_deadline = W - 1 \/ MsbArmed(next_deadline) \/ LsbArmed(next_deadline)
    /\ \A t \in timer_running : Served(t)

LEMMA ReachesTick ==
  ASSUME TypeOK, Tick, NEW n \in 0 .. W - 1, Reaches(n)
  PROVE  Reaches(n)'
<1>1. isr' = isr /\ ccr' = ccr /\ (uif => uif')
  <2>1. uif' = (uif \/ Lo(clk + 1) = 0)
    BY DEF Tick
  <2> QED BY <2>1, TickEffect DEF isrVars
<1>2. CASE uif'
  BY <1>2 DEF Reaches
<1>3. CASE ~uif'
  BY <1>1, <1>3, ArmedTick DEF Reaches
<1> QED BY <1>2, <1>3

\* What the scan of the running timers leaves, and the deadline it chooses.
LEMMA ScanLeaves ==
  ASSUME TypeOK, Scan
  PROVE  /\ timer_running' \subseteq timer_running /\ timer_deadline' = timer_deadline
         /\ clksrc_high' = clksrc_high
         /\ \/ isr' = "off" /\ next_deadline' = W - 1
               /\ \A t \in timer_running' :
                    \/ Hi(timer_deadline[t]) > clksrc_high
                    \/ Hi(timer_deadline[t]) = clksrc_high
                       /\ Lo(timer_deadline[t]) = W - 1
            \/ isr' = "msb" /\ Hi(next') = clksrc_high
               /\ \A t \in timer_running' :
                    \/ Hi(timer_deadline[t]) > clksrc_high
                    \/ /\ Hi(timer_deadline[t]) = clksrc_high
                       /\ Lo(timer_deadline[t]) = W - 1 \/ next' <= timer_deadline[t]
<1> DEFINE expired == {t \in timer_running : Expired(timer_deadline[t], IsrTime)}
           ahead == {timer_deadline[t] : t \in {s \in timer_running \ expired :
                      /\ Hi(timer_deadline[s]) = clksrc_high
                      /\ Lo(timer_deadline[s]) < W - 1}}
<1>1. /\ timer_running' = timer_running \ expired /\ timer_deadline' = timer_deadline
      /\ clksrc_high' = clksrc_high
      /\ \/ ahead = {} /\ isr' = "off" /\ next_deadline' = W - 1
         \/ /\ isr' = "msb" /\ next' \in ahead
            /\ \A deadline \in ahead : next' <= deadline
  BY DEF Scan
<1>2. ASSUME NEW t \in timer_running'
      PROVE  \/ Hi(timer_deadline[t]) > clksrc_high
             \/ /\ Hi(timer_deadline[t]) = clksrc_high
                /\ Lo(timer_deadline[t]) = W - 1 \/ timer_deadline[t] \in ahead
  <2> DEFINE d == timer_deadline[t]
             h == Hi(d)
             l == Lo(d)
  <2>1. t \in timer_running /\ t \notin expired /\ d \in Nat
    BY <1>1, <1>2 DEF TypeOK
  <2>2. d > IsrTime
    <3>1. ~(d <= IsrTime)
      BY <2>1 DEF Expired
    <3>2. IsrTime \in Nat
      <4>1. clksrc_high \in Nat /\ W \in Nat /\ clk \in Nat
        BY WordTypes DEF TypeOK
      <4>2. clksrc_high * W \in Nat /\ Lo(clk) \in 0 .. W - 1
        BY <4>1, Words
      <4> QED BY <4>1, <4>2 DEF IsrTime, __hw_clock_source_read
    <3> QED BY <2>1, <3>1, <3>2
  <2>3. /\ h \in Nat /\ l \in 0 .. W - 1 /\ d = W * h + l /\ W \in Nat
        /\ clksrc_high \in Nat /\ Lo(clk) \in 0 .. W - 1
        /\ W * clksrc_high \in Nat /\ W * h \in Nat
    <3>1. h \in Nat /\ l \in 0 .. W - 1 /\ d = W * h + l
      BY <2>1, Words
    <3>2. clksrc_high \in Nat /\ Lo(clk) \in 0 .. W - 1 /\ W \in Nat
      BY WordTypes, Words DEF TypeOK
    <3> HIDE DEF h, l, d
    <3> QED BY <3>1, <3>2
  <2>4. IsrTime = W * clksrc_high + Lo(clk)
    BY <2>3 DEF IsrTime, __hw_clock_source_read
  <2>5. h >= clksrc_high
    <3>1. SUFFICES ASSUME h < clksrc_high PROVE FALSE
      <4> HIDE DEF h
      <4> QED BY <2>3
    <3>2. W * h + W <= W * clksrc_high
      <4> HIDE DEF h
      <4> QED BY <2>3, <3>1, Multiples
    <3> HIDE DEF h, l, d
    <3> QED BY <2>2, <2>3, <2>4, <3>2
  <2>6. CASE h = clksrc_high /\ l < W - 1
    <3>1. t \in {s \in timer_running \ expired :
                  /\ Hi(timer_deadline[s]) = clksrc_high
                  /\ Lo(timer_deadline[s]) < W - 1}
      <4> HIDE DEF expired
      <4> QED BY <2>1, <2>6
    <3>2. d \in ahead
      <4> HIDE DEF expired
      <4> QED BY <3>1
    <3> QED BY <2>6, <3>2
  <2>7. l < W - 1 \/ l = W - 1
    <3> HIDE DEF h, l, d
    <3> QED BY <2>3
  <2>8. h > clksrc_high \/ h = clksrc_high
    <3> HIDE DEF h, l, d
    <3> QED BY <2>3, <2>5
  <2> HIDE DEF ahead
  <2> QED BY <2>6, <2>7, <2>8
<1>3. \A deadline \in ahead : Hi(deadline) = clksrc_high
  OBVIOUS
<1>4. timer_running' \subseteq timer_running
  BY <1>1
<1> HIDE DEF ahead, expired
<1>5. CASE ahead = {} /\ isr' = "off" /\ next_deadline' = W - 1
  BY <1>1, <1>2, <1>4, <1>5
<1>6. CASE /\ isr' = "msb" /\ next' \in ahead
           /\ \A deadline \in ahead : next' <= deadline
  <2>1. Hi(next') = clksrc_high
    BY <1>3, <1>6
  <2>2. \A t \in timer_running' :
          \/ Hi(timer_deadline[t]) > clksrc_high
          \/ /\ Hi(timer_deadline[t]) = clksrc_high
             /\ Lo(timer_deadline[t]) = W - 1 \/ next' <= timer_deadline[t]
    BY <1>2, <1>6
  <2> QED BY <1>1, <1>4, <1>6, <2>1, <2>2
<1> QED BY <1>1, <1>5, <1>6

\* The steps that set the match.
LEMMA SetSteps ==
  ASSUME TypeOK, NEW n \in 0 .. W - 1, n = Lo(next), Reaches(n),
         EventMsb \/ EnableMsb \/ EventLsb \/ EnableLsb
  PROVE  Reaches(n)' /\ isr' \in Setting
<1>1. clk' = clk /\ uif' = uif /\ next' = next
  BY DEF EventMsb, EnableMsb, EventLsb, EnableLsb, isrRest
<1>2. /\ MsbOf(n) \in Nat /\ n \in Nat /\ Lo(clk) \in 0 .. W - 1 /\ Lo(clk) \in Nat
      /\ MsbOf(Lo(clk)) \in Nat
  <2>1. Lo(clk) \in 0 .. W - 1 /\ W \in Nat
    BY WordTypes, Words DEF TypeOK
  <2>2. MsbOf(n) \in 0 .. Msb - 1 /\ MsbOf(Lo(clk)) \in 0 .. Msb - 1
    BY <2>1, Halves
  <2> QED BY <2>1, <2>2
<1>3. isr' \in Setting
  BY DEF EventMsb, EnableMsb, EventLsb, EnableLsb, Setting
<1>4. CASE uif
  BY <1>1, <1>3, <1>4 DEF Reaches
<1>5. CASE EventMsb
  <2>1. CASE MsbOf(n) > MsbOf(Lo(clk))
    <3>1. isr' = "msb2" /\ ccr'.msb = MsbOf(n)
      BY <1>5, <2>1 DEF EventMsb, TypeOK
    <3> QED BY <1>3, <3>1 DEF Reaches
  <2>2. CASE ~(MsbOf(n) > MsbOf(Lo(clk)))
    <3>1. isr' = "lsb" /\ MsbOf(n) <= MsbOf(Lo(clk))
      BY <1>2, <1>5, <2>2 DEF EventMsb
    <3> QED BY <1>1, <1>3, <3>1 DEF Reaches, MsbPast
  <2> QED BY <2>1, <2>2
<1>6. CASE EnableMsb
  <2>1. isr = "msb2" /\ isr' = "lsb" /\ dier' = dier \cup {"msb"} /\ ccr' = ccr
    BY <1>6 DEF EnableMsb
  <2>2. CASE ccr.msb = MsbOf(n)
    <3>1. MsbArmed(n)' \/ MsbPast(n)'
      BY <1>1, <1>2, <2>1, <2>2 DEF MsbArmed, MsbPast
    <3> QED BY <1>3, <2>1, <3>1 DEF Reaches
  <2> QED BY <1>4, <2>1, <2>2 DEF Reaches
<1>7. CASE EventLsb
  <2>1. CASE MsbOf(n) = MsbOf(Lo(clk))
    <3>1. isr' = "lsb2" /\ ccr'.lsb = next % Lsb
      BY <1>7, <2>1 DEF EventLsb, LsbOnly, TypeOK
    <3>2. next % Lsb = n % Lsb
      BY LowHalf DEF TypeOK
    <3>3. MsbPast(n)'
      BY <1>1, <1>2, <2>1 DEF MsbPast
    <3> QED BY <1>3, <3>1, <3>2, <3>3 DEF Reaches
  <2>2. CASE MsbOf(n) # MsbOf(Lo(clk))
    <3>1. isr = "lsb" /\ isr' = "check" /\ ccr' = ccr /\ dier' = dier /\ match' = match
      BY <1>7, <2>2 DEF EventLsb, LsbOnly
    <3>2. MsbPast(n) => n <= Lo(clk)
      <4>1. ASSUME MsbPast(n) PROVE n <= Lo(clk)
        <5>1. MsbOf(n) < MsbOf(Lo(clk))
          BY <1>2, <2>2, <4>1 DEF MsbPast
        <5>2. n < Lo(clk)
          BY <1>2, <5>1, HalfOrder
        <5> QED BY <1>2, <5>2
      <4> QED BY <4>1
    <3>3. Raised \/ MsbArmed(n) \/ MsbPast(n) \/ uif
      BY <3>1 DEF Reaches
    <3>4. (Raised' <=> Raised) /\ (MsbArmed(n)' <=> MsbArmed(n))
      BY <1>1, <3>1 DEF Raised, MsbArmed
    <3> QED BY <1>1, <1>3, <1>4, <3>1, <3>2, <3>3, <3>4 DEF Reaches
  <2> QED BY <2>1, <2>2
<1>8. CASE EnableLsb
  <2>1. isr = "lsb2" /\ isr' = "check" /\ dier' = dier \cup {"lsb"} /\ ccr' = ccr
    BY <1>8 DEF EnableLsb
  <2>2. CASE ccr.lsb = n % Lsb /\ MsbPast(n)
    <3>1. CASE MsbOf(n) = MsbOf(Lo(clk)) /\ Lo(clk) < n
      <4>1. LsbArmed(n)'
        BY <1>1, <2>1, <2>2, <3>1 DEF LsbArmed
      <4> QED BY <1>3, <2>1, <4>1 DEF Reaches
    <3>2. CASE n <= Lo(clk)
      BY <1>1, <1>3, <2>1, <3>2 DEF Reaches
    <3>3. MsbOf(n) < MsbOf(Lo(clk)) => n < Lo(clk)
      BY <1>2, HalfOrder
    <3> QED BY <1>2, <2>2, <3>1, <3>2, <3>3 DEF MsbPast
  <2> QED BY <1>4, <2>1, <2>2 DEF Reaches
<1> QED BY <1>5, <1>6, <1>7, <1>8

LEMMA SetNext == TypeOK /\ SetInv /\ [Next]_vars => SetInv'
<1> SUFFICES ASSUME TypeOK, SetInv, [Next]_vars, isr' \in Setting
             PROVE  /\ Hi(next)' = clksrc_high'
                    /\ \A t \in timer_running' : NotBefore(timer_deadline[t])'
                    /\ Reaches(Lo(next))'
  BY DEF SetInv
<1>1. PICK n \in 0 .. W - 1 : n = Lo(next)
  BY Words DEF TypeOK
<1>2. CASE UNCHANGED <<isr, next, clksrc_high, timer_running, timer_deadline>>
           /\ Reaches(n)'
  <2>1. /\ Hi(next) = clksrc_high
        /\ \A t \in timer_running : NotBefore(timer_deadline[t])
    BY <1>2 DEF SetInv
  <2>2. Lo(next)' = n
    BY <1>1, <1>2
  <2> QED BY <1>2, <2>1, <2>2 DEF NotBefore, Reaches, MsbArmed, LsbArmed, MsbPast
<1>3. CASE Tick
  <2>1. UNCHANGED <<isr, next, clksrc_high, timer_running, timer_deadline>>
    BY <1>3 DEF Tick, isrVars, timerVars
  <2>2. Reaches(n)
    BY <1>1, <2>1 DEF SetInv
  <2> QED BY <1>2, <1>3, <2>1, <2>2, ReachesTick
<1>4. CASE Scan
  <2>1. /\ isr' = "msb" /\ Hi(next') = clksrc_high /\ clksrc_high' = clksrc_high
        /\ timer_deadline' = timer_deadline
        /\ \A t \in timer_running' :
             \/ Hi(timer_deadline[t]) > clksrc_high
             \/ /\ Hi(timer_deadline[t]) = clksrc_high
                /\ Lo(timer_deadline[t]) = W - 1 \/ next' <= timer_deadline[t]
    BY <1>4, ScanLeaves DEF Setting
  <2> QED BY <2>1 DEF NotBefore, Reaches
<1>5. CASE EventMsb \/ EnableMsb \/ EventLsb \/ EnableLsb
  <2>1. isr \in Setting
    BY <1>5 DEF EventMsb, EnableMsb, EventLsb, EnableLsb, Setting
  <2>2. UNCHANGED <<next, clksrc_high, timer_running, timer_deadline>>
    BY <1>5 DEF EventMsb, EnableMsb, EventLsb, EnableLsb, timerVars
  <2>3. Reaches(n)'
    BY <1>1, <1>5, <2>1, SetSteps DEF SetInv
  <2>4. /\ Hi(next) = clksrc_high
        /\ \A t \in timer_running : NotBefore(timer_deadline[t])
    BY <2>1 DEF SetInv
  <2>5. Lo(next)' = n
    BY <1>1, <2>2
  <2> QED BY <2>2, <2>3, <2>4, <2>5 DEF NotBefore, Reaches, MsbArmed, LsbArmed, MsbPast
<1>6. CASE Status \/ Clear \/ Recheck
  BY <1>6 DEF Status, Clear, Recheck, Setting
<1>7. CASE UNCHANGED vars
  <2>1. UNCHANGED <<isr, next, clksrc_high, timer_running, timer_deadline>>
        /\ UNCHANGED <<clk, uif, match, ccr, dier>>
    BY <1>7 DEF vars, hwVars, isrVars, timerVars
  <2>2. Reaches(n)
    BY <1>1, <2>1 DEF SetInv
  <2>3. Reaches(n)'
    BY <2>1, <2>2 DEF Reaches, Raised, MsbArmed, LsbArmed, MsbPast
  <2> QED BY <1>2, <2>1, <2>3
<1>8. ASSUME NEW s \in Sleepers, TaskStep(s)
      PROVE  UNCHANGED <<isr, next, clksrc_high, timer_running, timer_deadline>>
             /\ Reaches(n)'
  <2>1. UNCHANGED <<clk, uif, match, ccr, dier, isr, next, clksrc_high>>
    BY <1>8, TaskFrame
  <2>2. isr # "off"
    BY <2>1 DEF Setting
  <2>3. Post(s)
    BY <1>8, <2>2 DEF TaskStep, Usleep, Return, ReadHigh, ReadLow, ReadAgain,
                      ReadLowAgain, Arm, InPast, First, WakeUp, Cancel,
                      ClearTimerEvent, Test, Requeue, TakeEvents, At
  <2>4. UNCHANGED <<timer_running, timer_deadline>>
    BY <2>3 DEF Post, timerVars
  <2>5. Reaches(n)
    BY <1>1, <2>1 DEF SetInv
  <2>6. Reaches(n)'
    BY <2>1, <2>5 DEF Reaches, Raised, MsbArmed, LsbArmed, MsbPast
  <2> QED BY <2>1, <2>4, <2>6
<1> QED BY <1>2, <1>3, <1>4, <1>5, <1>6, <1>7, <1>8, Cases DEF Handler

\* The handler returns only when the deadline it chose lies ahead and a match for it
\* is armed, or when an interrupt is pending.
LEMMA HandlerQuiet ==
  ASSUME TypeOK, SetInv, Handler, isr' = "off", ~Pending'
  PROVE  /\ \/ next_deadline' = W - 1
            \/ MsbArmed(next_deadline)' \/ LsbArmed(next_deadline)'
         /\ \A t \in timer_running' : Served(t)'
<1>1. Scan \/ Recheck
  BY DEF Handler, Status, Clear, EventMsb, EnableMsb, EventLsb, EnableLsb
<1>2. CASE Scan
  <2>1. /\ next_deadline' = W - 1 /\ timer_running' \subseteq timer_running
        /\ timer_deadline' = timer_deadline /\ clksrc_high' = clksrc_high
        /\ \A t \in timer_running' :
             \/ Hi(timer_deadline[t]) > clksrc_high
             \/ Hi(timer_deadline[t]) = clksrc_high /\ Lo(timer_deadline[t]) = W - 1
    BY <1>2, ScanLeaves
  <2>2. ASSUME NEW t \in timer_running' PROVE Served(t)'
    <3>1. /\ Hi(timer_deadline[t]) \in Nat /\ clksrc_high \in Nat /\ W \in Nat
          /\ Lo(timer_deadline[t]) \in Nat
      <4>1. timer_deadline[t] \in Nat /\ clksrc_high \in Nat /\ W \in Nat
        BY <2>1, <2>2, WordTypes DEF TypeOK
      <4>2. Hi(timer_deadline[t]) \in Nat /\ Lo(timer_deadline[t]) \in 0 .. W - 1
        BY <4>1, Words
      <4> QED BY <4>1, <4>2
    <3>2. Hi(timer_deadline[t]) >= clksrc_high
      BY <2>1, <2>2, <3>1
    <3>3. Hi(timer_deadline[t]) > clksrc_high \/ W - 1 <= Lo(timer_deadline[t])
      BY <2>1, <2>2, <3>1
    <3> QED BY <2>1, <3>2, <3>3 DEF Served
  <2> QED BY <2>1, <2>2
<1>3. CASE Recheck
  <2>1. /\ isr = "check" /\ next_deadline' = Lo(next) /\ ~(next <= IsrTime)
        /\ UNCHANGED <<clk, uif, match, ccr, dier, trigger, clksrc_high,
                       timer_running, timer_deadline>>
    BY <1>3 DEF Recheck, LowWord, Again, isrRest, hwVars, timerVars
  <2>2. ~uif /\ ~Raised
    BY <2>1 DEF Pending, Raised
  <2>3. /\ Hi(next) = clksrc_high /\ Reaches(Lo(next))
        /\ \A t \in timer_running : NotBefore(timer_deadline[t])
    BY <2>1 DEF SetInv, Setting
  <2>4. MsbArmed(Lo(next)) \/ LsbArmed(Lo(next)) \/ Lo(next) <= Lo(clk)
    BY <2>1, <2>2, <2>3 DEF Reaches
  <2>5. ~(Lo(next) <= Lo(clk))
    <3> SUFFICES ASSUME Lo(next) <= Lo(clk) PROVE FALSE
      OBVIOUS
    <3> DEFINE h == Hi(next)
               l == Lo(next)
               m == Lo(clk)
    <3>1. h \in Nat /\ l \in 0 .. W - 1 /\ next = W * h + l /\ next \in Nat
      BY Words DEF TypeOK
    <3>2. m \in 0 .. W - 1 /\ W \in Nat
      BY WordTypes, Words DEF TypeOK
    <3>3. IsrTime = h * W + m
      BY <2>3 DEF IsrTime, __hw_clock_source_read
    <3>4. l <= m
      OBVIOUS
    <3> HIDE DEF h, l, m
    <3>5. W * h \in Nat /\ W * h = h * W
      BY <3>1, <3>2
    <3> QED BY <2>1, <3>1, <3>2, <3>3, <3>4, <3>5
  <2>6. MsbArmed(next_deadline)' \/ LsbArmed(next_deadline)'
    <3>1. MsbArmed(next_deadline)' <=> MsbArmed(Lo(next))
      BY <2>1 DEF MsbArmed
    <3>2. LsbArmed(next_deadline)' <=> LsbArmed(Lo(next))
      BY <2>1 DEF LsbArmed
    <3> QED BY <2>4, <2>5, <3>1, <3>2
  <2>7. ASSUME NEW t \in timer_running' PROVE Served(t)'
    <3> DEFINE d == timer_deadline[t]
    <3>1. d \in Nat /\ next \in Nat /\ clksrc_high \in Nat /\ t \in timer_running
      BY <2>1, <2>7 DEF TypeOK
    <3>2. Hi(d) \in Nat /\ Lo(d) \in 0 .. W - 1 /\ Lo(next) \in 0 .. W - 1 /\ W \in Nat
      BY <3>1, WordTypes, Words
    <3>3. \/ Hi(d) > clksrc_high
          \/ Hi(d) = clksrc_high /\ (Lo(d) = W - 1 \/ next <= d)
      BY <2>3, <3>1 DEF NotBefore
    <3>4. Hi(d) = Hi(next) /\ next <= d => Lo(next) <= Lo(d)
      <4> HIDE DEF d
      <4>1. Hi(d) = Hi(next) => (d < next <=> Lo(d) < Lo(next))
        BY <3>1, WordOrder
      <4> QED BY <3>1, <3>2, <4>1
    <3>5. Hi(d) >= clksrc_high /\ (Hi(d) > clksrc_high \/ Lo(next) <= Lo(d))
      <4> HIDE DEF d
      <4> QED BY <2>3, <3>1, <3>2, <3>3, <3>4
    <3> QED BY <2>1, <3>5 DEF Served
  <2> QED BY <2>6, <2>7
<1> QED BY <1>1, <1>2, <1>3

\* A task that arms its timer looks whether an interrupt is needed before it waits.
LEMMA ReturnServed ==
  ASSUME TypeOK, QuietInv, NEW s \in Sleepers, TaskStep(s), isr' = "off", ~Pending',
         NEW t \in timer_running'
  PROVE  Served(t)'
<1>1. /\ UNCHANGED <<uif, match, dier, isr, clksrc_high, next_deadline>>
  BY TaskFrame
<1>2. \A u \in timer_running : ~Pending => Served(u)
  BY <1>1 DEF QuietInv
<1>3. timer_running \subseteq Sleepers /\ t \in Sleepers
      /\ timer_running' \subseteq timer_running \cup {s}
  <2>1. timer_running \subseteq Sleepers
    BY DEF TypeOK
  <2>2. timer_running' \subseteq timer_running \cup {s}
    BY DEF TaskStep, Usleep, Return, ReadHigh, ReadLow, ReadAgain, ReadLowAgain, Arm,
           InPast, First, WakeUp, Cancel, ClearTimerEvent, Test, Requeue, Post,
           TakeEvents, timerVars
  <2> QED BY <2>1, <2>2
<1>4. ASSUME Post(s) PROVE ~Pending /\ pc' = pc /\ timer_deadline' = timer_deadline
                           /\ timer_running' = timer_running
  <2>1. trigger' = trigger /\ pc' = pc /\ timer_deadline' = timer_deadline
        /\ timer_running' = timer_running
    BY <1>4 DEF Post, taskVars, timerVars
  <2> QED BY <1>1, <2>1 DEF Pending
<1>5. ~Pending
  <2>1. ~Post(s) => ~Pending
    BY DEF TaskStep, Usleep, Return, ReadHigh, ReadLow, ReadAgain, ReadLowAgain, Arm,
           InPast, First, WakeUp, Cancel, ClearTimerEvent, Test, Requeue, TakeEvents, At
  <2> QED BY <1>4, <2>1
<1>6. CASE t # s
  <2>1. t \in timer_running
    BY <1>3, <1>6
  <2>2. pc'[t] = pc[t] /\ timer_deadline'[t] = timer_deadline[t]
    BY <1>3, <1>6, OthersKept
  <2> QED BY <1>1, <1>2, <1>5, <2>1, <2>2 DEF Served
<1>7. CASE t = s
  <2>1. t \in DOMAIN pc
    BY <1>3 DEF TypeOK
  <2>2. CASE Arm(t)
    <3>1. pc'[t] = "past"
      BY <2>1, <2>2 DEF Arm, Goto
    <3> QED BY <3>1 DEF Served
  <2>3. CASE InPast(t)
    <3>1. ~trigger'
      BY DEF Pending
    <3>2. /\ ~(Hi(timer_deadline[t]) < clksrc_high) /\ pc'[t] = "first"
          /\ timer_deadline' = timer_deadline
      BY <2>1, <2>3, <3>1 DEF InPast, Goto, timerVars
    <3>3. Hi(timer_deadline[t]) >= clksrc_high
      <4>1. timer_deadline[t] \in Nat /\ clksrc_high \in Nat
        BY <1>3 DEF TypeOK
      <4>2. Hi(timer_deadline[t]) \in Nat
        BY <4>1, Words
      <4> QED BY <3>2, <4>1, <4>2
    <3> QED BY <1>1, <3>2, <3>3 DEF Served
  <2>4. CASE First(t)
    <3>1. pc[t] = "first" /\ timer_deadline' = timer_deadline /\ t \in timer_running
      BY <1>3, <1>7, <2>4 DEF First, At, timerVars
    <3>2. Hi(timer_deadline[t]) >= clksrc_high
      BY <1>2, <1>5, <3>1 DEF Served
    <3>3. ~(Hi(timer_deadline[t]) = clksrc_high
            /\ Lo(timer_deadline[t]) <= next_deadline)
      <4>1. ~trigger'
        BY DEF Pending
      <4>2. trigger' = (Hi(timer_deadline[t]) = clksrc_high
                        /\ Lo(timer_deadline[t]) <= next_deadline)
        BY <2>4 DEF First, ComesFirst
      <4> QED BY <4>1, <4>2
    <3>4. Hi(timer_deadline[t]) > clksrc_high \/ next_deadline <= Lo(timer_deadline[t])
      <4>1. timer_deadline[t] \in Nat /\ clksrc_high \in Nat
            /\ next_deadline \in 0 .. W - 1 /\ W \in Nat
        BY <1>3, WordTypes DEF TypeOK
      <4>2. Hi(timer_deadline[t]) \in Nat /\ Lo(timer_deadline[t]) \in 0 .. W - 1
        BY <4>1, Words
      <4> QED BY <3>2, <3>3, <4>1, <4>2
    <3> QED BY <1>1, <3>1, <3>2, <3>4 DEF Served
  <2>5. CASE ~Arm(t) /\ ~InPast(t) /\ ~First(t)
    <3>1. /\ timer_running' \subseteq timer_running /\ timer_deadline' = timer_deadline
          /\ pc[t] \in {"past", "first"} => pc'[t] = pc[t]
      <4>1. CASE (\E delay \in Delays : Usleep(t, delay)) \/ Post(t) \/ TakeEvents(t)
        BY <2>1, <4>1 DEF Usleep, Post, TakeEvents, At, timerVars, taskVars
      <4>2. CASE ReadHigh(t) \/ ReadLow(t) \/ ReadAgain(t) \/ ReadLowAgain(t)
        BY <4>2 DEF ReadHigh, ReadLow, ReadAgain, ReadLowAgain, At, timerVars
      <4>3. CASE WakeUp(t) \/ Cancel(t) \/ ClearTimerEvent(t) \/ Test(t) \/ Requeue(t)
        BY <4>3 DEF WakeUp, Cancel, ClearTimerEvent, Test, Requeue, At, timerVars
      <4> QED BY <1>7, <2>5, <4>1, <4>2, <4>3 DEF TaskStep, Return
    <3>2. Served(t)
      BY <1>2, <1>5, <3>1
    <3>3. pc'[t] # "past" => pc[t] # "past"
      BY <3>1
    <3>4. pc'[t] \notin {"past", "first"} => pc[t] \notin {"past", "first"}
      BY <3>1
    <3> QED BY <1>1, <3>1, <3>2, <3>3, <3>4 DEF Served
  <2> QED BY <2>2, <2>3, <2>4, <2>5
<1> QED BY <1>6, <1>7

LEMMA QuietNext == TypeOK /\ SetInv /\ QuietInv /\ [Next]_vars => QuietInv'
<1> SUFFICES ASSUME TypeOK, SetInv, QuietInv, [Next]_vars, isr' = "off", ~Pending'
             PROVE  /\ \/ next_deadline' = W - 1
                       \/ MsbArmed(next_deadline)' \/ LsbArmed(next_deadline)'
                    /\ \A t \in timer_running' : Served(t)'
  BY DEF QuietInv
<1>1. CASE Tick
  <2>1. UNCHANGED <<ccr, dier, trigger, isr, clksrc_high, timer_running, timer_deadline,
                    next_deadline, pc>>
    BY <1>1 DEF Tick, isrVars, timerVars, taskVars
  <2>2. ~uif' /\ ~Raised' /\ ~trigger'
    BY DEF Pending, Raised
  <2>3. (uif => uif') /\ (Raised => Raised')
    <3>1. uif' = (uif \/ Lo(clk + 1) = 0) /\ match \subseteq match'
      BY <1>1 DEF Tick
    <3> QED BY <2>1, <3>1 DEF Raised
  <2>4. ~Pending
    BY <2>1, <2>2, <2>3 DEF Pending, Raised
  <2>5. PICK n \in 0 .. W - 1 : n = next_deadline
    BY DEF TypeOK
  <2>6. n = W - 1 \/ MsbArmed(n) \/ LsbArmed(n)
    BY <2>1, <2>4, <2>5 DEF QuietInv
  <2>7. n = W - 1 \/ MsbArmed(n)' \/ LsbArmed(n)'
    BY <1>1, <2>2, <2>5, <2>6, ArmedTick
  <2>8. \A t \in timer_running : Served(t)
    BY <2>1, <2>4 DEF QuietInv
  <2>9. \A t \in timer_running' : Served(t)'
    BY <2>1, <2>8 DEF Served
  <2>10. next_deadline' = n
    BY <2>1, <2>5
  <2> QED BY <2>7, <2>9, <2>10 DEF MsbArmed, LsbArmed
<1>2. CASE Handler
  BY <1>2, HandlerQuiet
<1>3. CASE UNCHANGED vars
  <2>1. UNCHANGED <<clk, uif, match, ccr, dier, trigger, isr, clksrc_high,
                    timer_running, timer_deadline, next_deadline, pc>>
    BY <1>3 DEF vars, hwVars, isrVars, timerVars, taskVars
  <2> QED BY <2>1 DEF QuietInv, Pending, MsbArmed, LsbArmed, Served
<1>4. ASSUME NEW s \in Sleepers, TaskStep(s)
      PROVE  /\ \/ next_deadline' = W - 1
                \/ MsbArmed(next_deadline)' \/ LsbArmed(next_deadline)'
             /\ \A t \in timer_running' : Served(t)'
  <2>1. UNCHANGED <<clk, uif, match, ccr, dier, isr, clksrc_high, next_deadline>>
    BY <1>4, TaskFrame
  <2>2. ~Pending
    <3>1. CASE Post(s)
      BY <2>1, <3>1 DEF Post, Pending
    <3>2. CASE ~Post(s)
      BY <1>4, <3>2 DEF TaskStep, Usleep, Return, ReadHigh, ReadLow, ReadAgain,
                        ReadLowAgain, Arm, InPast, First, WakeUp, Cancel,
                        ClearTimerEvent, Test, Requeue, TakeEvents, At
    <3> QED BY <3>1, <3>2
  <2>3. next_deadline = W - 1 \/ MsbArmed(next_deadline) \/ LsbArmed(next_deadline)
    BY <2>1, <2>2 DEF QuietInv
  <2>4. \/ next_deadline' = W - 1
        \/ MsbArmed(next_deadline)' \/ LsbArmed(next_deadline)'
    BY <2>1, <2>3 DEF MsbArmed, LsbArmed
  <2> QED BY <1>4, <2>4, ReturnServed
<1> QED BY <1>1, <1>2, <1>3, <1>4, Cases

LEMMA ServiceInit == Init => SetInv /\ QuietInv
BY DEF Init, SetInv, QuietInv, Setting

LEMMA ServiceInvariant == Spec => [](TypeOK /\ SetInv /\ QuietInv)
BY TypeInit, TypeNext, ServiceInit, SetNext, QuietNext, PTL DEF Spec

\* When the processor is idle a match is armed for the first deadline, which has not
\* passed.
LEMMA IdleServed ==
  ASSUME TypeOK, WrapInv, QuietInv, Idle, NEW t \in timer_running
  PROVE  /\ clk <= timer_deadline[t]
         /\ timer_deadline[t] > clk \/ Lo(timer_deadline[t]) = W - 1
<1> DEFINE d == timer_deadline[t]
<1>1. d \in Nat /\ clk \in Nat /\ t \in Sleepers /\ next_deadline \in 0 .. W - 1
      /\ W \in Nat
  BY WordTypes DEF TypeOK
<1>2. /\ Hi(d) \in Nat /\ Lo(d) \in 0 .. W - 1
      /\ Hi(clk) \in Nat /\ Lo(clk) \in 0 .. W - 1
  BY <1>1, Words
<1>3. clksrc_high = Hi(clk)
  BY Quiet DEF Idle
<1>4. next_deadline = W - 1 \/ Lo(clk) < next_deadline
  <2>1. MsbArmed(next_deadline) => Lo(clk) < next_deadline
    BY <1>1, <1>2, HalfOrder DEF MsbArmed
  <2> QED BY <2>1 DEF QuietInv, Idle, LsbArmed
<1>5. Hi(d) >= Hi(clk) /\ (Hi(d) > Hi(clk) \/ next_deadline <= Lo(d))
  <2>1. Served(t) /\ pc[t] \in {"work", "sleep"}
    BY <1>1 DEF QuietInv, Idle
  <2> QED BY <1>3, <2>1 DEF Served
<1>6. Hi(d) > Hi(clk) => d > clk
  BY <1>1, <1>2, WordOrder
<1>7. /\ Hi(d) = Hi(clk) /\ Lo(d) > Lo(clk) => d > clk
      /\ Hi(d) = Hi(clk) /\ Lo(d) >= Lo(clk) => d >= clk
  <2>1. /\ Hi(clk) = Hi(d) => (clk < d <=> Lo(clk) < Lo(d))
        /\ Hi(d) = Hi(clk) => (d < clk <=> Lo(d) < Lo(clk))
    BY <1>1, WordOrder
  <2> HIDE DEF d
  <2> QED BY <1>1, <1>2, <2>1
<1> HIDE DEF d
<1>8. d > clk \/ Lo(d) = W - 1
  BY <1>1, <1>2, <1>4, <1>5, <1>6, <1>7
<1>9. clk <= d
  BY <1>1, <1>2, <1>4, <1>5, <1>6, <1>7
<1> QED BY <1>8, <1>9 DEF d

\* When the processor has nothing to do, no deadline of a running timer has passed: a
\* match is armed for the first one, or the counters wrap before it.
THEOREM DeadlinesAreServed == ASSUME NoWindow PROVE Spec => []NoMissedDeadline
<1>1. TypeOK /\ WrapInv /\ QuietInv => NoMissedDeadline
  BY IdleServed DEF NoMissedDeadline
<1> QED
  BY <1>1, NoWindow, WrapInit, TypeInit, TypeNext, WrapNext, ServiceInvariant, PTL
     DEF Spec

-----------------------------------------------------------------------------
(* How long a task sleeps.                                                 *)

\* The difference of two counter values, as the loop of usleep computes it.
LEMMA ElapsedTime ==
  ASSUME NEW a \in Nat, NEW c \in Nat, a <= c
  PROVE  /\ (Lo(c) - Lo(a)) % W \in Nat /\ (Lo(c) - Lo(a)) % W <= c - a
         /\ c - a < W => (Lo(c) - Lo(a)) % W = c - a
<1> DEFINE h == Hi(a)
           l == Lo(a)
           k == Hi(c)
           m == Lo(c)
           e == (m - l) % W
<1>1. /\ h \in Nat /\ l \in 0 .. W - 1 /\ a = W * h + l
      /\ k \in Nat /\ m \in 0 .. W - 1 /\ c = W * k + m /\ W \in Nat /\ W > 0
  BY WordTypes, Words
<1>2. h <= k
  BY WordOrder
<1> HIDE DEF h, l, k, m
<1>3. W * h \in Nat /\ W * k \in Nat
  BY <1>1
<1>4. h = k => W * h = W * k
  OBVIOUS
<1>5. h < k => W * h + W <= W * k
  BY <1>1, Multiples
<1>6. CASE l <= m
  <2>1. e = m - l
    <3>1. m - l \in 0 .. W - 1
      BY <1>1, <1>6
    <3>2. \A x \in 0 .. W - 1 : x % W = x
      BY <1>1
    <3> QED BY <3>1, <3>2
  <2>2. e <= c - a /\ e \in Nat /\ (c - a < W => e = c - a)
    <3> HIDE DEF e
    <3> QED BY <1>1, <1>2, <1>3, <1>4, <1>5, <1>6, <2>1
  <2> QED BY <2>2 DEF l, m
<1>7. CASE m < l
  <2>1. e = m - l + W
    <3>1. m - l \in Int /\ 0 <= m - l + W /\ m - l + W < W
      BY <1>1, <1>7
    <3>2. \A x \in Int : 0 <= x + W /\ x + W < W => x % W = x + W
      BY <1>1
    <3> QED BY <3>1, <3>2
  <2>2. h < k
    <3>1. h # k
      BY <1>1, <1>3, <1>4, <1>7
    <3> QED BY <1>1, <1>2, <3>1
  <2>3. W * h + W <= W * k
    BY <1>5, <2>2
  <2>4. c - a < W => k = h + 1
    <3>1. SUFFICES ASSUME c - a < W, h + 1 < k PROVE FALSE
      BY <1>1, <2>2
    <3>2. W * (h + 1) + W <= W * k
      BY <1>1, <3>1, Multiples
    <3>3. W * (h + 1) = W * h + W
      BY <1>1
    <3>4. c - a = W * k - W * h + (m - l)
      BY <1>1, <1>3
    <3> QED BY <1>1, <1>3, <3>1, <3>2, <3>3, <3>4
  <2>5. k = h + 1 => W * k = W * h + W
    BY <1>1
  <2>6. e <= c - a /\ e \in Nat /\ (c - a < W => e = c - a)
    <3> HIDE DEF e
    <3> QED BY <1>1, <1>3, <1>7, <2>1, <2>3, <2>4, <2>5
  <2> QED BY <2>6 DEF l, m
<1> QED BY <1>1, <1>6, <1>7

\* A timer runs, or has expired, for the task that sleeps, and it expires when the
\* delay is over.
RunOf(t) ==
  /\ pc[t] # "work" => us[t] \in Delays
  /\ t \in timer_running => /\ pc[t] \in {"past", "first", "sleep", "cancel"}
                            /\ since[t] + us[t] <= timer_deadline[t]
  /\ pc[t] \in {"past", "first", "sleep"} => t \in timer_running \/ "TIMER" \in evt[t]
  /\ "TIMER" \in evt[t] => /\ pc[t] \in {"past", "first", "sleep", "cancel", "clear"}
                           /\ since[t] + us[t] <= clk
  /\ "TIMER" \in got[t] => /\ pc[t] \in {"cancel", "clear", "test", "requeue"}
                           /\ since[t] + us[t] <= clk
  /\ pc[t] = "requeue" => since[t] + us[t] <= clk
RunInv == \A t \in Sleepers : RunOf(t)

\* A step that is neither the task's own nor the end of its timer.
LEMMA RunKept ==
  ASSUME TypeOK, NEW t \in Sleepers, RunOf(t), clk' \in {clk, clk + 1},
         pc'[t] = pc[t], us'[t] = us[t], since'[t] = since[t], got'[t] = got[t],
         timer_deadline'[t] = timer_deadline[t],
         "TIMER" \in evt'[t] <=> "TIMER" \in evt[t],
         t \in timer_running' <=> t \in timer_running
  PROVE  RunOf(t)'
<1>1. since[t] \in Nat /\ us[t] \in Nat /\ clk \in Nat
  BY DEF TypeOK
<1>2. since[t] + us[t] <= clk => since'[t] + us'[t] <= clk'
  BY <1>1
<1> QED BY <1>2 DEF RunOf

LEMMA ScanRuns ==
  ASSUME TypeOK, HighInv, Scan, NEW t \in Sleepers, RunOf(t)
  PROVE  RunOf(t)'
<1> DEFINE expired == {s \in timer_running : Expired(timer_deadline[s], IsrTime)}
<1>1. /\ timer_running' = timer_running \ expired
      /\ evt' = [s \in Sleepers |-> IF s \in expired THEN evt[s] \cup {"TIMER"}
                                                     ELSE evt[s]]
      /\ UNCHANGED <<clk, pc, us, ts, since, got, timer_deadline>>
  BY DEF Scan, isrRest, taskVars
<1>2. CASE t \notin expired
  <2>1. /\ "TIMER" \in evt'[t] <=> "TIMER" \in evt[t]
        /\ t \in timer_running' <=> t \in timer_running
    <3> HIDE DEF expired
    <3> QED BY <1>1, <1>2
  <2> QED BY <1>1, <2>1, RunKept
<1>3. CASE t \in expired
  <2>1. t \in timer_running /\ timer_deadline[t] <= IsrTime
    BY <1>3 DEF Expired
  <2>2. "TIMER" \in evt'[t] /\ t \notin timer_running'
    <3> HIDE DEF expired
    <3> QED BY <1>1, <1>3
  <2>3. since[t] + us[t] <= clk
    <3>1. since[t] + us[t] <= timer_deadline[t]
      BY <2>1 DEF RunOf
    <3>2. since[t] \in Nat /\ us[t] \in Nat /\ timer_deadline[t] \in Nat /\ clk \in Nat
      BY DEF TypeOK
    <3> QED BY <2>1, <3>1, <3>2, HandlerTime
  <2>4. pc[t] \in {"past", "first", "sleep", "cancel"}
    BY <2>1 DEF RunOf
  <2> QED BY <1>1, <2>2, <2>3, <2>4 DEF RunOf
<1> QED BY <1>2, <1>3

\* The steps of usleep itself.
LEMMA ReturnRuns ==
  ASSUME TypeOK, NEW t \in Sleepers, RunOf(t), TimeOf(t), Return(t)
  PROVE  RunOf(t)'
<1>1. /\ clk' = clk /\ clk \in Nat /\ since[t] \in Nat /\ us[t] \in Nat /\ ts[t] \in Nat
      /\ t \in DOMAIN pc /\ t \in DOMAIN evt /\ t \in DOMAIN got
      /\ t \in DOMAIN timer_deadline
  BY TaskFrame DEF TypeOK, TaskStep
<1>2. CASE ReadHigh(t) \/ ReadLow(t) \/ ReadAgain(t) \/ ReadLowAgain(t)
  <2>1. /\ pc[t] \in {"hi", "lo", "recheck", "lo2"}
        /\ pc'[t] \in {"lo", "recheck", "lo2", "arm"}
        /\ UNCHANGED <<us, since, got, evt, timer_running, timer_deadline>>
    BY <1>1, <1>2 DEF ReadHigh, ReadLow, ReadAgain, ReadLowAgain, At, Goto, timerVars
  <2> QED BY <2>1 DEF RunOf
<1>3. CASE Arm(t)
  <2>1. /\ pc[t] = "arm" /\ pc'[t] = "past" /\ t \in timer_running'
        /\ timer_deadline'[t] = ts[t] + us[t]
        /\ UNCHANGED <<us, since, got, evt>>
    BY <1>1, <1>3 DEF Arm, At, Goto
  <2>2. since[t] + us[t] <= ts[t] + us[t]
    BY <1>1, <2>1 DEF TimeOf
  <2> QED BY <1>1, <2>1, <2>2 DEF RunOf
<1>4. CASE InPast(t) \/ First(t)
  <2>1. /\ pc[t] \in {"past", "first"} /\ pc'[t] \in {"first", "sleep"}
        /\ UNCHANGED <<us, since, got, evt, timer_running, timer_deadline>>
    BY <1>1, <1>4 DEF InPast, First, At, Goto, timerVars
  <2> QED BY <1>1, <2>1 DEF RunOf
<1>5. CASE WakeUp(t)
  <2>1. /\ pc[t] = "sleep" /\ pc'[t] = "cancel" /\ evt'[t] = {}
        /\ got'[t] = got[t] \cup evt[t]
        /\ UNCHANGED <<us, since, timer_running, timer_deadline>>
    BY <1>1, <1>5 DEF WakeUp, At, Goto, timerVars
  <2> QED BY <1>1, <2>1 DEF RunOf
<1>6. CASE Cancel(t)
  <2>1. /\ pc[t] = "cancel" /\ pc'[t] = "clear" /\ t \notin timer_running'
        /\ UNCHANGED <<us, since, got, evt, timer_deadline>>
    BY <1>1, <1>6 DEF Cancel, At, Goto
  <2> QED BY <1>1, <2>1 DEF RunOf
<1>7. CASE ClearTimerEvent(t)
  <2>1. /\ pc[t] = "clear" /\ pc'[t] = "test" /\ evt'[t] = evt[t] \ {"TIMER"}
        /\ UNCHANGED <<us, since, got, timer_running, timer_deadline>>
    BY <1>1, <1>7 DEF ClearTimerEvent, At, Goto, timerVars
  <2> QED BY <1>1, <2>1 DEF RunOf
<1>8. CASE Test(t)
  <2>1. /\ pc[t] = "test" /\ UNCHANGED <<us, since, got, evt, timer_running,
                                         timer_deadline>>
        /\ \/ pc'[t] = "hi" /\ "TIMER" \notin got[t]
           \/ /\ pc'[t] = "requeue"
              /\ "TIMER" \in got[t] \/ ~(Elapsed(t) < us[t])
    BY <1>1, <1>8 DEF Test, At, Goto, timerVars
  <2>2. ~(Elapsed(t) < us[t]) => since[t] + us[t] <= clk
    <3>1. since[t] <= clk
      BY <2>1 DEF TimeOf
    <3>2. Elapsed(t) \in Nat /\ Elapsed(t) <= clk - since[t]
      BY <1>1, <3>1, ElapsedTime DEF Elapsed, __hw_clock_source_read
    <3> QED BY <1>1, <3>2
  <2> QED BY <1>1, <2>1, <2>2 DEF RunOf
<1>9. CASE Requeue(t)
  <2>1. /\ pc[t] = "requeue" /\ pc'[t] = "work" /\ got'[t] = {}
        /\ evt'[t] = evt[t] \cup (got[t] \ {"TIMER"})
        /\ UNCHANGED <<timer_running, timer_deadline>>
    BY <1>1, <1>9 DEF Requeue, At, Goto, timerVars, TypeOK
  <2> QED BY <2>1 DEF RunOf
<1> QED BY <1>2, <1>3, <1>4, <1>5, <1>6, <1>7, <1>8, <1>9 DEF Return

LEMMA RunNext ==
  TypeOK /\ HighInv /\ TimeInv /\ RunInv /\ [Next]_vars => RunInv'
<1> SUFFICES ASSUME TypeOK, HighInv, TimeInv, RunInv, [Next]_vars, NEW t \in Sleepers
             PROVE  RunOf(t)'
  BY DEF RunInv
<1>1. RunOf(t) /\ TimeOf(t) /\ clk \in Nat /\ t \in DOMAIN pc /\ t \in DOMAIN evt
      /\ t \in DOMAIN us
  BY DEF RunInv, TimeInv, TypeOK
<1>2. CASE Scan
  BY <1>1, <1>2, ScanRuns
<1>3. CASE Tick \/ (Handler /\ ~Scan) \/ UNCHANGED vars
  <2>1. UNCHANGED <<pc, us, since, got, timer_deadline>>
    BY <1>3, TasksKept
  <2>2. clk' \in {clk, clk + 1} /\ UNCHANGED <<evt, timer_running>>
    BY <1>3 DEF Tick, Handler, Status, Clear, EventMsb, EnableMsb, EventLsb,
                EnableLsb, Recheck, vars, timerVars, isrRest
  <2> QED BY <1>1, <2>1, <2>2, RunKept
<1>4. ASSUME NEW s \in Sleepers, TaskStep(s), s # t PROVE RunOf(t)'
  BY <1>1, <1>4, OthersKept, TaskFrame, RunKept
<1>5. CASE Return(t)
  BY <1>1, <1>5, ReturnRuns
<1>6. CASE Post(t)
  <2>1. evt'[t] = evt[t] \cup {"OTHER"}
        /\ UNCHANGED <<clk, pc, us, since, got, timer_running, timer_deadline>>
    BY <1>1, <1>6 DEF Post, taskVars, timerVars
  <2> QED BY <1>1, <2>1, RunKept
<1>7. CASE TakeEvents(t)
  <2>1. evt'[t] = {} /\ pc[t] = "work"
        /\ UNCHANGED <<clk, pc, us, since, got, timer_running, timer_deadline>>
    BY <1>1, <1>7 DEF TakeEvents, At, taskVars, timerVars, taskRest
  <2> QED BY <1>1, <2>1 DEF RunOf
<1>8. ASSUME NEW delay \in Delays, Usleep(t, delay) PROVE RunOf(t)'
  <2>1. /\ pc[t] = "work" /\ pc'[t] = "hi" /\ us'[t] = delay
        /\ UNCHANGED <<got, evt, timer_running, timer_deadline>>
    BY <1>1, <1>8 DEF Usleep, At, Goto, timerVars
  <2> QED BY <1>1, <1>8, <2>1 DEF RunOf
<1> QED BY <1>2, <1>3, <1>4, <1>5, <1>6, <1>7, <1>8, Cases DEF TaskStep

LEMMA RunInit == Init => RunInv
BY DEF Init, RunInv, RunOf

\* A turn of the loop of usleep begins before the delay is over, and the processor
\* has been busy since a time that is no later than the bound.
BoundOf(t) ==
  /\ pc[t] \in {"hi", "lo", "recheck", "lo2", "arm"} => Start < since[t] + us[t]
  /\ t \in timer_running => timer_deadline[t] < since[t] + 2 * us[t] + MaxLag
  /\ pc[t] # "work" => Start <= since[t] + 2 * us[t] + MaxLag
BoundInv == \A t \in Sleepers : BoundOf(t)

\* The timer of a task that sleeps while the processor is idle runs.
LEMMA IdleDeadline ==
  ASSUME TypeOK, WrapInv, QuietInv, RunInv, Idle, NEW t \in Sleepers, pc[t] = "sleep"
  PROVE  t \in timer_running /\ clk <= timer_deadline[t]
<1>1. evt[t] = {}
  BY DEF Idle
<1>2. t \in timer_running
  BY <1>1 DEF RunInv, RunOf
<1> QED BY <1>2, IdleServed

\* The types of what the bounds are made of.
LEMMA BoundTypes ==
  ASSUME NoWindow, TypeOK, WrapInv, RunInv, NEW t \in Sleepers
  PROVE  /\ clk \in Nat /\ lag \in Nat /\ since[t] \in Nat /\ us[t] \in Nat
         /\ ts[t] \in Nat /\ timer_deadline[t] \in Nat /\ MaxLag \in Nat /\ W \in Nat
         /\ lag <= MaxLag /\ Start = clk - lag
         /\ pc[t] # "work" => us[t] > 0 /\ 2 * (us[t] + MaxLag) < W
<1>1. pc[t] # "work" => us[t] \in Delays
  BY DEF RunInv, RunOf
<1>2. pc[t] # "work" => us[t] > 0 /\ 2 * (us[t] + MaxLag) < W
  <2>1. \A delay \in Delays : delay > 0 /\ 2 * (delay + MaxLag) < W
    <3>1. \A delay \in Delays : delay > 0
      BY BoundsAssumption
    <3>2. \A delay \in Delays : 2 * (delay + MaxLag) < W
      BY DelaysAssumption DEF W
    <3> QED BY <3>1, <3>2
  <2> QED BY <1>1, <2>1
<1>3. MaxLag \in Nat /\ W \in Nat
  BY BoundsAssumption, WordTypes
<1> QED BY <1>2, <1>3 DEF TypeOK, WrapInv, Start

\* A step that is not the task's own.
LEMMA BoundKept ==
  ASSUME NoWindow, TypeOK, WrapInv, QuietInv, RunInv, [Next]_vars,
         NEW t \in Sleepers, BoundOf(t),
         pc'[t] = pc[t], us'[t] = us[t], since'[t] = since[t],
         timer_deadline'[t] = timer_deadline[t],
         t \in timer_running' => t \in timer_running
  PROVE  BoundOf(t)'
<1>1. /\ clk \in Nat /\ lag \in Nat /\ since[t] \in Nat /\ us[t] \in Nat
      /\ timer_deadline[t] \in Nat /\ MaxLag \in Nat
  BY BoundTypes
<1>2. CASE pc[t] \notin {"work", "sleep"}
  <2>1. Start' = Start
    BY <1>2, BusyStep
  <2> HIDE DEF Start
  <2> QED BY <2>1 DEF BoundOf
<1>3. CASE pc[t] = "work"
  BY <1>3 DEF BoundOf
<1>4. CASE pc[t] = "sleep"
  <2>1. Start <= since[t] + 2 * us[t] + MaxLag
    BY <1>4 DEF BoundOf
  <2>2. Idle => clk < since[t] + 2 * us[t] + MaxLag
    <3> SUFFICES ASSUME Idle PROVE clk < since[t] + 2 * us[t] + MaxLag
      OBVIOUS
    <3>1. t \in timer_running /\ clk <= timer_deadline[t]
      BY <1>4, IdleDeadline
    <3>2. timer_deadline[t] < since[t] + 2 * us[t] + MaxLag
      BY <3>1 DEF BoundOf
    <3> QED BY <1>1, <3>1, <3>2
  <2>3. Start' = Start \/ (Idle /\ Start' <= clk + 1)
    <3>1. CASE Tick
      <4>1. /\ clk' = clk + 1 /\ (Idle => lag' = 0) /\ (~Idle => lag' = lag + 1)
        BY <3>1, TickEffect
      <4> QED BY <1>1, <4>1 DEF Start
    <3>2. CASE Handler \/ UNCHANGED vars
      <4>1. clk' = clk /\ lag' = lag
        BY <3>2 DEF Handler, Status, Clear, Scan, EventMsb, EnableMsb, EventLsb,
                    EnableLsb, Recheck, isrRest, vars
      <4> QED BY <4>1 DEF Start
    <3>3. ASSUME NEW s \in Sleepers, TaskStep(s)
          PROVE  Start' = Start \/ (Idle /\ Start' <= clk + 1)
      <4>1. clk' = clk /\ (lag' = lag \/ (Idle /\ lag' = 0))
        BY <3>3, TaskFrame, TaskLag
      <4> QED BY <1>1, <4>1 DEF Start
    <3> QED BY <3>1, <3>2, <3>3, Cases
  <2>4. Start' <= since[t] + 2 * us[t] + MaxLag
    <3>1. CASE Start' = Start
      BY <2>1, <3>1
    <3>2. CASE Idle /\ Start' <= clk + 1
      <4>1. Start' \in Int
        <5>1. clk' \in Nat /\ lag' \in Nat
          BY TypeNext DEF TypeOK
        <5> QED BY <5>1 DEF Start
      <4> HIDE DEF Start
      <4> QED BY <1>1, <2>2, <3>2, <4>1
    <3> QED BY <2>3, <3>1, <3>2
  <2> HIDE DEF Start
  <2> QED BY <1>4, <2>4 DEF BoundOf
<1> QED BY <1>2, <1>3, <1>4

\* The steps of usleep itself: a new turn begins only while the delay is not over,
\* which the difference of the counters shows because the task has not slept for as
\* long as their range.
LEMMA ReturnBounds ==
  ASSUME NoWindow, TypeOK, WrapInv, RunInv, NEW t \in Sleepers,
         TimeOf(t), BoundOf(t), Return(t)
  PROVE  BoundOf(t)'
<1>1. /\ clk \in Nat /\ lag \in Nat /\ since[t] \in Nat /\ us[t] \in Nat
      /\ ts[t] \in Nat /\ timer_deadline[t] \in Nat /\ MaxLag \in Nat /\ W \in Nat
      /\ lag <= MaxLag /\ Start = clk - lag
      /\ pc[t] # "work" => us[t] > 0 /\ 2 * (us[t] + MaxLag) < W
  BY BoundTypes
<1>2. t \in DOMAIN pc /\ t \in DOMAIN timer_deadline
  BY DEF TypeOK
<1>3. clk' = clk /\ lag' = lag /\ Start' = Start
  BY DEF Return, ReadHigh, ReadLow, ReadAgain, ReadLowAgain, Arm, InPast, First,
         WakeUp, Cancel, ClearTimerEvent, Test, Requeue, taskRest, Start
<1>4. CASE Arm(t)
  <2>1. /\ pc[t] = "arm" /\ pc'[t] = "past" /\ UNCHANGED <<us, since>>
        /\ timer_deadline'[t] = ts[t] + us[t]
    BY <1>2, <1>4 DEF Arm, At, Goto
  <2>2. Start < since[t] + us[t] /\ ts[t] <= clk
        /\ Start <= since[t] + 2 * us[t] + MaxLag
    BY <2>1 DEF BoundOf, TimeOf
  <2>3. ts[t] + us[t] < since[t] + 2 * us[t] + MaxLag
    BY <1>1, <2>2
  <2> HIDE DEF Start
  <2> QED BY <1>3, <2>1, <2>2, <2>3 DEF BoundOf
<1>5. CASE Test(t)
  <2>1. /\ pc[t] = "test" /\ UNCHANGED <<us, since, timer_running, timer_deadline>>
        /\ \/ pc'[t] = "hi" /\ Elapsed(t) < us[t]
           \/ pc'[t] = "requeue"
    BY <1>2, <1>5 DEF Test, At, Goto, timerVars
  <2>2. Start <= since[t] + 2 * us[t] + MaxLag /\ since[t] <= clk
    BY <2>1 DEF BoundOf, TimeOf
  <2>3. clk - since[t] < W
    BY <1>1, <2>1, <2>2
  <2>4. Elapsed(t) = clk - since[t]
    BY <1>1, <2>2, <2>3, ElapsedTime DEF Elapsed, __hw_clock_source_read
  <2>5. Elapsed(t) < us[t] => Start < since[t] + us[t]
    BY <1>1, <2>4
  <2> HIDE DEF Start
  <2> QED BY <1>3, <2>1, <2>2, <2>5 DEF BoundOf
<1>6. CASE ReadHigh(t) \/ ReadLow(t) \/ ReadAgain(t) \/ ReadLowAgain(t)
  <2>1. /\ pc[t] \in {"hi", "lo", "recheck", "lo2"}
        /\ UNCHANGED <<us, since, timer_running, timer_deadline>>
    BY <1>6 DEF ReadHigh, ReadLow, ReadAgain, ReadLowAgain, At, timerVars
  <2> HIDE DEF Start
  <2> QED BY <1>3, <2>1 DEF BoundOf
<1>7. CASE InPast(t) \/ First(t) \/ WakeUp(t) \/ Cancel(t) \/ ClearTimerEvent(t)
  <2>1. /\ pc[t] # "work" /\ timer_running' \subseteq timer_running
        /\ UNCHANGED <<us, since, timer_deadline>>
        /\ pc'[t] \in {"first", "sleep", "cancel", "clear", "test"}
    BY <1>2, <1>7 DEF InPast, First, WakeUp, Cancel, ClearTimerEvent, At, Goto, timerVars
  <2> HIDE DEF Start
  <2> QED BY <1>3, <2>1 DEF BoundOf
<1>8. CASE Requeue(t)
  <2>1. pc[t] = "requeue" /\ pc'[t] = "work" /\ timer_running' = timer_running
    BY <1>2, <1>8 DEF Requeue, At, Goto, timerVars
  <2>2. t \notin timer_running
    BY <2>1 DEF RunInv, RunOf
  <2> QED BY <2>1, <2>2 DEF BoundOf
<1> QED BY <1>4, <1>5, <1>6, <1>7, <1>8 DEF Return

LEMMA BoundNext ==
  NoWindow /\ TypeOK /\ WrapInv /\ QuietInv /\ TimeInv /\ RunInv /\ BoundInv
  /\ [Next]_vars => BoundInv'
<1> SUFFICES ASSUME NoWindow, TypeOK, WrapInv, QuietInv, TimeInv, RunInv, BoundInv,
                    [Next]_vars, NEW t \in Sleepers
             PROVE  BoundOf(t)'
  BY DEF BoundInv
<1>1. BoundOf(t) /\ TimeOf(t) /\ clk \in Nat /\ t \in DOMAIN pc /\ t \in DOMAIN us
      /\ t \in DOMAIN since
  BY DEF BoundInv, TimeInv, TypeOK
<1>2. CASE Tick \/ Handler \/ UNCHANGED vars
  <2>1. t \in timer_running' => t \in timer_running
    BY <1>2 DEF Tick, Handler, Status, Clear, Scan, EventMsb, EnableMsb, EventLsb,
                EnableLsb, Recheck, vars, timerVars
  <2> QED BY <1>1, <1>2, <2>1, TasksKept, BoundKept
<1>3. ASSUME NEW s \in Sleepers, TaskStep(s), s # t PROVE BoundOf(t)'
  BY <1>1, <1>3, OthersKept, BoundKept
<1>4. CASE Post(t) \/ TakeEvents(t)
  BY <1>1, <1>4, BoundKept DEF Post, TakeEvents, taskVars, timerVars
<1>5. CASE Return(t)
  BY <1>1, <1>5, ReturnBounds
<1>6. ASSUME NEW delay \in Delays, Usleep(t, delay) PROVE BoundOf(t)'
  <2>1. /\ pc[t] = "work" /\ pc'[t] = "hi" /\ us'[t] = delay /\ since'[t] = clk
        /\ clk' = clk /\ timer_running' = timer_running /\ lag' \in {0, lag}
    BY <1>1, <1>6 DEF Usleep, At, Goto, timerVars, taskRest
  <2>2. t \notin timer_running
    BY <2>1 DEF RunInv, RunOf
  <2>3. delay \in Nat /\ delay > 0 /\ MaxLag \in Nat /\ lag \in Nat
    BY <1>6, BoundsAssumption DEF TypeOK
  <2>4. Start' <= clk
    <3>1. CASE lag' = 0
      BY <1>1, <2>1, <3>1 DEF Start
    <3>2. CASE lag' = lag
      BY <1>1, <2>1, <2>3, <3>2 DEF Start
    <3> QED BY <2>1, <3>1, <3>2
  <2>5. Start' < clk + delay /\ Start' <= clk + 2 * delay + MaxLag
    <3>1. Start' \in Int
      BY <1>1, <2>1, <2>3 DEF Start
    <3> HIDE DEF Start
    <3> QED BY <1>1, <2>3, <2>4, <3>1
  <2> HIDE DEF Start
  <2> QED BY <2>1, <2>2, <2>5 DEF BoundOf
<1> QED BY <1>2, <1>3, <1>4, <1>5, <1>6, Cases DEF TaskStep

LEMMA BoundInit == Init => BoundInv
BY DEF Init, BoundInv, BoundOf

\* usleep takes at least the delay and at most twice the delay, but for the time the
\* processor takes, however often another event wakes the task up.
THEOREM SleepsAreBounded == ASSUME NoWindow PROVE Spec => []SleepIsBounded
<1>1. TypeOK /\ WrapInv /\ RunInv /\ BoundInv => SleepIsBounded
  <2> SUFFICES ASSUME TypeOK, WrapInv, RunInv, BoundInv,
                      NEW t \in Sleepers, pc[t] = "requeue"
               PROVE  clk - since[t] \in us[t] .. 2 * us[t] + 2 * MaxLag
    BY DEF SleepIsBounded
  <2>1. /\ since[t] + us[t] <= clk
        /\ Start <= since[t] + 2 * us[t] + MaxLag
    BY DEF RunInv, RunOf, BoundInv, BoundOf
  <2>2. /\ clk \in Nat /\ lag \in Nat /\ since[t] \in Nat /\ us[t] \in Nat
        /\ MaxLag \in Nat /\ lag <= MaxLag /\ Start = clk - lag
    BY NoWindow, BoundTypes
  <2> QED BY <2>1, <2>2
<1>2. Spec => [](TypeOK /\ HighInv /\ WrapInv /\ SetInv /\ QuietInv /\ TimeInv /\ RunInv
                 /\ BoundInv)
  BY NoWindow, TypeInit, WrapInit, TimeInit, RunInit, BoundInit, TypeNext, WrapNext,
     TimeNext, RunNext, BoundNext, HighInvariant, ServiceInvariant, PTL DEF Spec
<1> QED BY <1>1, <1>2, PTL

-----------------------------------------------------------------------------
(***************************************************************************)
(* hook_task (Hooks).                                                      *)
(* SleepsNotPast is not inductive: it needs what the loop has established  *)
(* while it still scans, for the routines already seen, and what the half  *)
(* of a deadline that is loaded is worth.                                  *)
(***************************************************************************)
\* A deadline is the sum of its halves.
LEMMA Parts ==
  ASSUME NEW d \in Nat
  PROVE  Low(d) \in Nat /\ High(d) \in Nat /\ Low(d) + High(d) = d
<1>1. WordSize \in Nat /\ WordSize > 0
  BY HooksAssumption
<1>2. /\ d \div WordSize \in Nat /\ d % WordSize \in 0 .. WordSize - 1
      /\ d = WordSize * (d \div WordSize) + (d % WordSize)
  BY <1>1, DivMod
<1>3. WordSize * (d \div WordSize) \in Nat
  BY <1>1, <1>2
<1> QED BY <1>1, <1>2, <1>3 DEF Low, High

\* The half that is loaded is that of the deadline as it is now.
Current == \/ half = "low" /\ word = Low(until[hookI])
           \/ half = "high" /\ word = High(until[hookI])

\* next is not past the next tick and the deadlines of the first n - 1 routines, or
\* something new has happened.
HookSafe(n) ==
  \/ event \/ hookNext = 0
  \/ /\ hookNext <= last_tick + HOOK_TICK_INTERVAL - hookT
     /\ \A r \in Routines : r < n /\ until[r] # 0 => hookNext <= until[r] - hookT

HookScanInv ==
  /\ hookPc \in {"scan", "scan2"} => HookSafe(hookI)
  /\ hookPc = "scan2" => event \/ until[hookI] = 0 \/ Current

HookSleepInv ==
  /\ hookPc \in {"sleep", "wait"} => hookNext > 0 /\ HookSafe(N + 1)
  /\ hookPc = "wait" => wake = hookT + hookNext + late
  /\ hookT <= now

HookInv == HookTypeOK /\ HookScanInv /\ HookSleepInv

LEMMA HookInvInit == HookInit => HookInv
<1> SUFFICES ASSUME HookInit PROVE HookInv
  OBVIOUS
<1> USE HooksAssumption
<1>1. until \in [Routines -> Nat]
  <2>1. {0} \cup {now + delay : delay \in HookDelays} \subseteq Nat
    BY DEF HookInit
  <2> QED BY <2>1 DEF HookInit
<1>2. defer_new_call \in BOOLEAN
  BY Zenon DEF HookInit
<1>3. 1 - HOOK_TICK_INTERVAL \in Int /\ 1 \in 1 .. N + 1
  OBVIOUS
<1>4. HookTypeOK
  BY <1>1, <1>2, <1>3, Zenon DEF HookInit, HookTypeOK
<1>5. HookScanInv /\ HookSleepInv
  BY DEF HookInit, HookScanInv, HookSleepInv
<1> QED BY <1>4, <1>5 DEF HookInv

\* A value of the deadline that is loaded is a number.
LEMMA LoadedTypes ==
  ASSUME HookInv, hookI \in Routines
  PROVE  /\ Loaded \in Nat
         /\ Current => Loaded = until[hookI]
<1>1. until[hookI] \in Nat /\ word \in Nat
  BY DEF HookInv, HookTypeOK
<1>2. /\ Low(until[hookI]) \in Nat /\ High(until[hookI]) \in Nat
      /\ Low(until[hookI]) + High(until[hookI]) = until[hookI]
  BY <1>1, Parts
<1>3. half = "low" => Loaded = word + High(until[hookI])
  BY DEF Loaded
<1>4. half # "low" => Loaded = Low(until[hookI]) + word
  BY DEF Loaded
<1> HIDE DEF Low, High, Loaded
<1> QED BY <1>1, <1>2, <1>3, <1>4 DEF Current

\* A call and a cancellation leave the loop what it has established.
LEMMA CallKeepsHook ==
  ASSUME HookInv, NEW r \in Routines, NEW d \in Nat,
         until' = [until EXCEPT ![r] = d], Counts(r, d),
         defer_new_call' \in BOOLEAN, event' \in BOOLEAN, event => event',
         event' \/ d = 0,
         hookPc' \in {hookPc, "test"}, hookI' \in 1 .. N + 1,
         hookPc' = hookPc => hookI' = hookI, hookT' = hookT, hookNext' = hookNext,
         last_tick' = last_tick, wake' = wake, now' = now, late' = late,
         half' = half, word' = word
  PROVE  HookInv'
<1>1. HookTypeOK'
  <2>1. /\ until' \in [Routines -> Nat] /\ due' \in [Routines -> Nat] /\ calls' \in Nat
        /\ torn' \subseteq Routines
    BY DEF HookInv, HookTypeOK, Counts
  <2>2. crossed' \in BOOLEAN
    <3>1. crossed' = (crossed \/ (hookPc \in {"test2", "clear", "clear2"} /\ hookI = r))
      BY Zenon DEF Counts
    <3> QED BY <3>1, Zenon DEF HookInv, HookTypeOK
  <2> QED BY <2>1, <2>2 DEF HookInv, HookTypeOK
<1>2. \A q \in Routines : until'[q] = until[q] \/ until'[q] = 0 \/ event'
  BY DEF HookInv, HookTypeOK
<1>3. ASSUME NEW n \in Int, HookSafe(n) PROVE HookSafe(n)'
  BY <1>2, <1>3 DEF HookSafe
<1>4. ASSUME hookPc' = "scan2", ~event', until'[hookI'] # 0 PROVE Current'
  <2>1. hookPc = "scan2" /\ hookI' = hookI /\ hookI \in Routines
    BY <1>4 DEF HookInv, HookTypeOK
  <2>2. until'[hookI] = until[hookI] /\ ~event
    BY <1>2, <1>4, <2>1
  <2>3. Current
    BY <1>4, <2>1, <2>2 DEF HookInv, HookScanInv
  <2> QED BY <2>1, <2>2, <2>3 DEF Current
<1>5. HookScanInv'
  <2>1. hookPc' \in {"scan", "scan2"} => HookSafe(hookI)' /\ hookI' = hookI
    <3>1. hookI \in Int
      BY HooksAssumption DEF HookInv, HookTypeOK
    <3>2. hookPc' \in {"scan", "scan2"} => HookSafe(hookI) /\ hookI' = hookI
      BY DEF HookInv, HookScanInv
    <3> QED BY <3>1, <3>2, <1>2 DEF HookSafe
  <2> QED BY <2>1, <1>4 DEF HookScanInv
<1>6. HookSleepInv'
  <2>1. N + 1 \in Int
    BY HooksAssumption
  <2> QED BY <2>1, <1>3 DEF HookInv, HookSleepInv
<1> QED BY <1>1, <1>5, <1>6 DEF HookInv

\* So does a step that changes nothing the scan relies on.
LEMMA ScanKept ==
  ASSUME HookInv, until' = until, event' = event, hookT' = hookT, hookNext' = hookNext,
         last_tick' = last_tick
  PROVE  \A n \in Int : HookSafe(n) => HookSafe(n)'
BY DEF HookSafe

LEMMA HookNextInv == HookInv /\ [HookNext]_hookVars => HookInv'
<1> SUFFICES ASSUME HookInv, [HookNext]_hookVars PROVE HookInv'
  OBVIOUS
<1> USE HooksAssumption
<1>0. /\ hookT \in Nat /\ now \in Nat /\ hookNext \in Nat /\ last_tick \in Int
      /\ hookI \in 1 .. N + 1 /\ N + 1 \in Int /\ hookT <= now /\ late \in Nat
      /\ hookI \in Int
  BY DEF HookInv, HookTypeOK, HookSleepInv
<1>1. CASE Loop
  <2>1. HookTypeOK'
    <3>1. 1 \in 1 .. N + 1
      OBVIOUS
    <3> QED BY <1>1, <3>1, Zenon DEF Loop, history, HookInv, HookTypeOK
  <2> QED BY <1>0, <1>1, <2>1 DEF Loop, HookInv, HookScanInv, HookSleepInv
<1>2. CASE HookLoad
  <2>1. word' \in Nat /\ until[hookI] \in Nat
    <3>1. until[hookI] \in Nat
      BY <1>2 DEF HookLoad, HookInv, HookTypeOK
    <3>2. Low(until[hookI]) \in Nat /\ High(until[hookI]) \in Nat
      BY <3>1, Parts
    <3> HIDE DEF Low, High
    <3> QED BY <1>2, <3>1, <3>2 DEF HookLoad
  <2>2. /\ hookPc' \in {"test2", "scan2"} /\ half' \in {"low", "high"} /\ hookI' = hookI
        /\ hookI \in Routines /\ ~crossed' /\ crossed' \in BOOLEAN
    BY <1>2 DEF HookLoad
  <2>3. HookTypeOK'
    BY <1>2, <2>1, <2>2 DEF HookLoad, HookInv, HookTypeOK
  <2>4. Current'
    <3>1. until' = until
      BY <1>2 DEF HookLoad
    <3> QED BY <1>2, <2>2, <3>1 DEF HookLoad, Current
  <2>5. HookScanInv'
    <3>1. hookPc' = "scan2" => HookSafe(hookI)
      BY <1>2 DEF HookLoad, HookInv, HookScanInv
    <3>2. hookPc' = "scan2" => HookSafe(hookI)'
      BY <1>2, <2>2, <3>1 DEF HookLoad, HookSafe
    <3> QED BY <2>2, <2>4, <3>2 DEF HookScanInv
  <2>6. HookSleepInv'
    BY <1>2, <2>2 DEF HookLoad, HookInv, HookSleepInv
  <2> QED BY <2>3, <2>5, <2>6 DEF HookInv
<1>3. CASE HookTest
  <2>1. hookPc' \in {"clear", "test", "tick"} /\ half' = "none" /\ word' = 0
    BY <1>3 DEF HookTest
  <2>2. hookI' \in 1 .. N + 1 /\ (hookPc' = "clear" => hookI' \in Routines)
    <3>1. hookPc = "test2" => hookI \in 1 .. N
      BY DEF HookInv, HookTypeOK, Routines
    <3> QED BY <1>0, <1>3, <3>1 DEF HookTest, Routines
  <2>3. HookTypeOK'
    BY <1>3, <2>1, <2>2 DEF HookTest, history, HookInv, HookTypeOK
  <2> QED BY <1>3, <2>1, <2>3 DEF HookTest, HookInv, HookScanInv, HookSleepInv
<1>4. CASE ClearHalf
  <2>1. until' \in [Routines -> Nat]
    <3>1. hookI \in Routines /\ until \in [Routines -> Nat]
      BY <1>4 DEF ClearHalf, HookInv, HookTypeOK
    <3>2. Low(until[hookI]) \in Nat /\ High(until[hookI]) \in Nat
      BY <3>1, Parts
    <3> HIDE DEF Low, High
    <3> QED BY <1>4, <3>1, <3>2 DEF ClearHalf
  <2>2. HookTypeOK'
    BY <1>4, <2>1 DEF ClearHalf, history, HookInv, HookTypeOK
  <2> QED BY <1>4, <2>2 DEF ClearHalf, HookInv, HookScanInv, HookSleepInv
<1>5. CASE ClearTimer
  <2>1. PICK left \in Nat :
          /\ until' = [until EXCEPT ![hookI] = left]
          /\ torn' = IF left = 0 THEN torn \ {hookI} ELSE torn \cup {hookI}
    <3>1. hookI \in Routines /\ until \in [Routines -> Nat]
      BY <1>5 DEF ClearTimer, HookInv, HookTypeOK
    <3>2. Low(until[hookI]) \in Nat /\ High(until[hookI]) \in Nat
      BY <3>1, Parts
    <3> HIDE DEF Low, High
    <3> QED BY <1>5, <3>2 DEF ClearTimer
  <2>2. /\ hookI \in Routines /\ until' \in [Routines -> Nat]
        /\ torn' \subseteq Routines /\ due' \in [Routines -> Nat]
        /\ crossed' \in BOOLEAN
    BY <1>5, <2>1 DEF ClearTimer, HookInv, HookTypeOK
  <2>3. HookTypeOK'
    BY <1>5, <2>2 DEF ClearTimer, HookInv, HookTypeOK
  <2> QED BY <1>5, <2>3 DEF ClearTimer, HookInv, HookScanInv, HookSleepInv
<1>6. CASE Run
  <2>0. /\ hookI \in Routines /\ hookI + 1 \in 1 .. N + 1 /\ hookPc' = "test"
        /\ hookI' = hookI + 1
    <3>1. hookI \in Routines
      BY <1>6 DEF Run, HookInv, HookTypeOK
    <3> QED BY <1>6, <3>1 DEF Run, Routines
  <2>1. CASE UNCHANGED <<until, defer_new_call, event, history>>
    <3>1. HookTypeOK'
      BY <1>6, <2>0, <2>1 DEF Run, history, HookInv, HookTypeOK
    <3> QED BY <1>6, <2>0, <3>1 DEF Run, HookInv, HookScanInv, HookSleepInv
  <2>2. ASSUME NEW delay \in HookDelays,
               Set(hookI, delay) /\ Counts(hookI, now + delay)
        PROVE  HookInv'
    <3>1. now + delay \in Nat
      BY <1>0
    <3>2. /\ until' = [until EXCEPT ![hookI] = now + delay] /\ event' /\ event' \in BOOLEAN
          /\ defer_new_call' \in BOOLEAN
      BY <2>2 DEF Set
    <3>3. /\ hookT' = hookT /\ hookNext' = hookNext /\ last_tick' = last_tick
          /\ wake' = wake /\ now' = now /\ late' = late /\ half' = half /\ word' = word
      BY <1>6 DEF Run
    <3> QED BY <2>0, <3>1, <3>2, <3>3, <2>2, <1>6, CallKeepsHook DEF Run
  <2> QED BY <1>6, <2>1, <2>2 DEF Run
<1>7. CASE HookTick
  <2>1. HookTypeOK'
    BY <1>7 DEF HookTick, history, HookInv, HookTypeOK
  <2> QED BY <1>7, <2>1 DEF HookTick, HookInv, HookScanInv, HookSleepInv
<1>8. CASE ComputeNext
  <2>1. NextTick(now) \in Nat
    BY <1>0 DEF NextTick
  <2>2. HookTypeOK'
    <3>1. 1 \in 1 .. N + 1
      OBVIOUS
    <3> QED BY <1>8, <2>1, <3>1, Zenon DEF ComputeNext, history, HookInv, HookTypeOK
  <2>3. HookSafe(hookI)'
    <3>1. /\ hookI' = 1 /\ hookT' = now /\ hookNext' = NextTick(now)
          /\ last_tick' = last_tick
      BY <1>8 DEF ComputeNext
    <3>2. hookNext' = 0 \/ hookNext' <= last_tick' + HOOK_TICK_INTERVAL - hookT'
      BY <1>0, <3>1 DEF NextTick
    <3>3. \A r \in Routines : ~(r < hookI')
      BY <3>1 DEF Routines
    <3> QED BY <3>2, <3>3 DEF HookSafe
  <2> QED BY <1>0, <1>8, <2>2, <2>3 DEF ComputeNext, HookInv, HookScanInv, HookSleepInv
<1>9. CASE ScanTimers
  <2>1. /\ hookI \in Routines /\ until[hookI] \in Nat /\ until' = until /\ event' = event
        /\ hookI \in 1 .. N
    BY <1>9 DEF ScanTimers, HookInv, HookTypeOK, Routines
  <2>2. PICK d \in Nat : d = Loaded /\ (Current => d = until[hookI])
    BY <2>1, LoadedTypes
  <2>3. Earlier(hookNext, d) \in Nat /\ Earlier(hookNext, d) <= hookNext
    BY <1>0 DEF Earlier
  <2>4. d # 0 => \/ Earlier(hookNext, d) = 0
                 \/ Earlier(hookNext, d) <= d - hookT
    BY <1>0 DEF Earlier
  <2>5. /\ hookNext' = Earlier(hookNext, d) /\ hookI' = hookI + 1 /\ hookPc' = "scan"
        /\ hookT' = hookT /\ last_tick' = last_tick
    BY <1>9, <2>2 DEF ScanTimers
  <2>6. HookTypeOK'
    <3>1. hookNext' \in Nat /\ hookI' \in 1 .. N + 1
      BY <2>1, <2>3, <2>5
    <3> QED BY <1>9, <3>1 DEF ScanTimers, history, HookInv, HookTypeOK
  <2>7. event \/ until[hookI] = 0 \/ d = until[hookI]
    BY <1>9, <2>2 DEF ScanTimers, HookInv, HookScanInv
  <2>8. HookSafe(hookI)
    BY <1>9 DEF ScanTimers, HookInv, HookScanInv
  <2>9. HookSafe(hookI)'
    <3> SUFFICES ASSUME ~event, hookNext' # 0
                 PROVE  /\ hookNext' <= last_tick + HOOK_TICK_INTERVAL - hookT
                        /\ \A r \in Routines : r < hookI + 1 /\ until[r] # 0
                             => hookNext' <= until[r] - hookT
      BY <2>1, <2>5 DEF HookSafe
    <3>1. hookNext' <= hookNext /\ hookNext # 0 /\ hookNext' \in Nat
      BY <1>0, <2>3, <2>5
    <3>2. /\ hookNext <= last_tick + HOOK_TICK_INTERVAL - hookT
          /\ \A r \in Routines : r < hookI /\ until[r] # 0 => hookNext <= until[r] - hookT
      BY <2>8, <3>1 DEF HookSafe
    <3>3. ASSUME NEW r \in Routines, r < hookI + 1, until[r] # 0
          PROVE  hookNext' <= until[r] - hookT
      <4>1. r \in Int /\ until[r] \in Nat
        BY DEF Routines, HookInv, HookTypeOK
      <4>2. CASE r < hookI
        BY <1>0, <3>1, <3>2, <3>3, <4>1, <4>2
      <4>3. CASE r = hookI
        BY <2>4, <2>5, <2>7, <3>3, <4>3
      <4> QED BY <1>0, <3>3, <4>1, <4>2, <4>3
    <3>4. hookNext' <= last_tick + HOOK_TICK_INTERVAL - hookT
      BY <1>0, <3>1, <3>2
    <3> QED BY <3>3, <3>4
  <2>10. hookT <= now' /\ now' = now
    BY <1>0, <1>9 DEF ScanTimers
  <2> QED BY <2>5, <2>6, <2>9, <2>10 DEF HookInv, HookScanInv, HookSleepInv
<1>10. CASE Scanned
  <2>1. hookPc' \in {"sleep", "loop"} /\ UNCHANGED <<until, event, hookT, hookNext, last_tick,
                                                     now>>
    BY <1>10 DEF Scanned
  <2>2. HookTypeOK'
    BY <1>10, <2>1 DEF Scanned, history, HookInv, HookTypeOK
  <2>3. hookPc' = "sleep" => hookNext > 0 /\ HookSafe(N + 1)
    <3> SUFFICES ASSUME hookPc' = "sleep" PROVE hookNext > 0 /\ HookSafe(N + 1)
      OBVIOUS
    <3>1. hookNext > 0 /\ hookI \notin Routines /\ HookSafe(hookI)
      BY <1>10 DEF Scanned, HookInv, HookScanInv
    <3>2. hookI = N + 1
      BY <1>0, <3>1 DEF Routines
    <3> QED BY <3>1, <3>2
  <2>4. HookSafe(N + 1) => HookSafe(N + 1)'
    BY <2>1, <1>0, ScanKept
  <2> QED BY <1>0, <2>1, <2>2, <2>3, <2>4 DEF HookInv, HookScanInv, HookSleepInv
<1>11. CASE Sleep
  <2>1. /\ hookPc' = "wait" /\ wake' = now + hookNext /\ late' = now - hookT
        /\ UNCHANGED <<until, event, hookT, hookNext, last_tick, now>>
        /\ wake' \in Nat /\ late' \in Nat
    BY <1>0, <1>11 DEF Sleep
  <2>2. HookTypeOK'
    BY <1>11, <2>1 DEF Sleep, history, HookInv, HookTypeOK
  <2>3. hookNext > 0 /\ HookSafe(N + 1)
    BY <1>11 DEF Sleep, HookInv, HookSleepInv
  <2>4. HookSafe(N + 1)'
    BY <1>0, <2>1, <2>3, ScanKept
  <2>5. wake' = hookT' + hookNext' + late'
    BY <1>0, <2>1
  <2> QED BY <1>0, <2>1, <2>2, <2>3, <2>4, <2>5 DEF HookInv, HookScanInv, HookSleepInv
<1>12. CASE Wake
  <2>1. HookTypeOK'
    BY <1>12 DEF Wake, history, HookInv, HookTypeOK
  <2> QED BY <1>0, <1>12, <2>1 DEF Wake, HookInv, HookScanInv, HookSleepInv
<1>13. CASE TimePasses
  <2>1. now' = now + 1 /\ UNCHANGED <<until, defer_new_call, event, calls, due, crossed,
                                      torn>>
    BY <1>13 DEF TimePasses, history
  <2>2. UNCHANGED <<hookPc, hookT, hookI, hookNext, last_tick, half, word, wake, late>>
    BY <1>13 DEF TimePasses, task
  <2>3. HookTypeOK'
    BY <1>0, <2>1, <2>2 DEF HookInv, HookTypeOK
  <2>4. Current => Current'
    BY <2>1, <2>2 DEF Current
  <2>5. HookSafe(hookI) => HookSafe(hookI)'
    BY <2>1, <2>2 DEF HookSafe
  <2>6. HookSafe(N + 1) => HookSafe(N + 1)'
    BY <2>1, <2>2 DEF HookSafe
  <2>7. HookScanInv'
    BY <2>1, <2>2, <2>4, <2>5 DEF HookInv, HookScanInv
  <2>8. HookSleepInv'
    BY <1>0, <2>1, <2>2, <2>6 DEF HookInv, HookSleepInv
  <2> QED BY <2>3, <2>7, <2>8 DEF HookInv
<1>14. ASSUME NEW r \in Routines, CancelCall(r) PROVE HookInv'
  <2>1. /\ until' = [until EXCEPT ![r] = 0] /\ Counts(r, 0)
        /\ UNCHANGED <<defer_new_call, event, now>>
    BY <1>14 DEF CancelCall
  <2>2. UNCHANGED <<hookPc, hookT, hookI, hookNext, last_tick, half, word, wake, late>>
    BY <1>14 DEF CancelCall, task
  <2>3. defer_new_call' \in BOOLEAN /\ event' \in BOOLEAN /\ (event => event')
    BY <2>1 DEF HookInv, HookTypeOK
  <2> QED BY <1>0, <2>1, <2>2, <2>3, CallKeepsHook
<1>15. ASSUME NEW r \in Routines, NEW delay \in HookDelays, Call(r, delay)
      PROVE  HookInv'
  <2>1. now + delay \in Nat
    BY <1>0
  <2>2. /\ until' = [until EXCEPT ![r] = now + delay] /\ event' /\ event' \in BOOLEAN
        /\ defer_new_call' \in BOOLEAN /\ Counts(r, now + delay) /\ now' = now
    BY <1>15 DEF Call, Set
  <2>3. UNCHANGED <<hookPc, hookT, hookI, hookNext, last_tick, half, word, wake, late>>
    BY <1>15 DEF Call, task
  <2> QED BY <1>0, <2>1, <2>2, <2>3, CallKeepsHook
<1>16. CASE UNCHANGED hookVars
  <2>1. /\ UNCHANGED <<until, defer_new_call, event, now, calls, due, crossed, torn>>
        /\ UNCHANGED <<hookPc, hookT, hookI, hookNext, last_tick, half, word, wake, late>>
    BY <1>16 DEF hookVars, task, history
  <2>2. HookTypeOK'
    BY <2>1 DEF HookInv, HookTypeOK
  <2>3. Current => Current'
    BY <2>1 DEF Current
  <2>4. HookSafe(hookI) => HookSafe(hookI)'
    BY <2>1 DEF HookSafe
  <2>5. HookSafe(N + 1) => HookSafe(N + 1)'
    BY <2>1 DEF HookSafe
  <2> QED BY <2>1, <2>2, <2>3, <2>4, <2>5 DEF HookInv, HookScanInv, HookSleepInv
<1> QED BY <1>1, <1>2, <1>3, <1>4, <1>5, <1>6, <1>7, <1>8, <1>9, <1>10, <1>11, <1>12,
           <1>13, <1>14, <1>15, <1>16 DEF HookNext, HookTask

(* Every variable of the model of hook_task keeps its type; in particular  *)
(* the delay it computes for its sleep is never negative, HOOKS never      *)
(* sleeps before the time it read, and a routine is only called with an    *)
(* index of the table.                                                     *)
THEOREM HooksTyped == HookSpec => []HookTypeOK
<1>1. HookSpec => []HookInv
  BY HooksAssumption, HookInvInit, HookNextInv, PTL DEF HookSpec
<1>2. HookInv => HookTypeOK
  BY DEF HookInv
<1> QED BY <1>1, <1>2, PTL

(* The time hook_task arms for its waking lies no further past a deadline  *)
(* or the next tick that it has not been told of by an event than the time *)
(* it was kept from sleeping after it had read the clock.                  *)
THEOREM NeverOversleeps == HookSpec => []SleepsNotPast
<1>1. HookSpec => []HookInv
  BY HooksAssumption, HookInvInit, HookNextInv, PTL DEF HookSpec
<1>2. HookInv => SleepsNotPast
  <2> SUFFICES ASSUME HookInv, hookPc = "wait", ~event
               PROVE  /\ wake <= last_tick + HOOK_TICK_INTERVAL + late
                      /\ \A r \in Routines : until[r] # 0 => wake <= until[r] + late
    BY DEF SleepsNotPast
  <2>1. /\ hookT \in Nat /\ hookNext \in Nat /\ late \in Nat /\ last_tick \in Int
        /\ HOOK_TICK_INTERVAL \in Nat /\ N \in Nat
    BY HooksAssumption DEF HookInv, HookTypeOK
  <2>2. wake = hookT + hookNext + late /\ hookNext > 0 /\ HookSafe(N + 1)
    BY DEF HookInv, HookSleepInv
  <2>3. /\ hookNext <= last_tick + HOOK_TICK_INTERVAL - hookT
        /\ \A r \in Routines : r < N + 1 /\ until[r] # 0 => hookNext <= until[r] - hookT
    BY <2>1, <2>2 DEF HookSafe
  <2>4. ASSUME NEW r \in Routines, until[r] # 0 PROVE wake <= until[r] + late
    <3>1. r < N + 1 /\ until[r] \in Nat
      BY <2>1 DEF Routines, HookInv, HookTypeOK
    <3>2. hookNext <= until[r] - hookT
      BY <2>3, <2>4, <3>1
    <3> QED BY <2>1, <2>2, <3>1, <3>2
  <2>5. wake <= last_tick + HOOK_TICK_INTERVAL + late
    BY <2>1, <2>2, <2>3
  <2> QED BY <2>4, <2>5
<1> QED BY <1>1, <1>2, PTL

-----------------------------------------------------------------------------
(* No call is early.                                                       *)

\* Where no half of an old deadline is left, due is what the code knows itself; a
\* routine about to be called was found due, and still is unless a call for it came
\* since.
EarlyInv ==
  /\ \A r \in Routines : r \in torn \/ (hookPc = "clear2" /\ hookI = r)
                         \/ until[r] = due[r]
  /\ (hookPc = "test2" /\ ~crossed) => Current
  /\ (hookPc \in {"clear", "clear2"} /\ ~crossed /\ hookI \notin torn) =>
       due[hookI] # 0 /\ due[hookI] < hookT

LEMMA CallKeepsEarly ==
  ASSUME HookInv, EarlyInv, NEW r \in Routines, NEW d \in Nat,
         until' = [until EXCEPT ![r] = d], Counts(r, d),
         hookPc' \in {hookPc, "test"}, hookPc' = hookPc => hookI' = hookI,
         hookPc # "clear2" \/ hookPc' = hookPc,
         hookT' = hookT, half' = half, word' = word
  PROVE  EarlyInv'
<1>1. /\ until \in [Routines -> Nat] /\ due \in [Routines -> Nat]
      /\ due' = [due EXCEPT ![r] = d] /\ torn' = torn \ {r}
  BY DEF Counts, HookInv, HookTypeOK
<1>2. ASSUME NEW q \in Routines
      PROVE  q \in torn' \/ (hookPc' = "clear2" /\ hookI' = q) \/ until'[q] = due'[q]
  <2>1. CASE q = r
    BY <1>1, <2>1
  <2>2. CASE q # r
    <3>1. until'[q] = until[q] /\ due'[q] = due[q] /\ (q \in torn' <=> q \in torn)
      BY <1>1, <2>2
    <3> QED BY <3>1 DEF EarlyInv
  <2> QED BY <2>1, <2>2
<1>3. ASSUME hookPc' \in {"test2", "clear", "clear2"}, ~crossed'
      PROVE  /\ hookPc = hookPc' /\ hookI' = hookI /\ hookI # r /\ ~crossed
             /\ hookI \in Routines
  <2>1. hookPc = hookPc' /\ hookI' = hookI
    BY <1>3
  <2>2. crossed' = (crossed \/ (hookPc \in {"test2", "clear", "clear2"} /\ hookI = r))
    BY Zenon DEF Counts
  <2>3. ~crossed /\ hookI # r
    BY <1>3, <2>1, <2>2, Zenon
  <2> QED BY <1>3, <2>1, <2>3 DEF HookInv, HookTypeOK
<1>4. ASSUME hookPc' = "test2", ~crossed' PROVE Current'
  <2>1. Current /\ until'[hookI] = until[hookI]
    BY <1>1, <1>3, <1>4 DEF EarlyInv
  <2> QED BY <1>3, <1>4, <2>1 DEF Current
<1>5. ASSUME hookPc' \in {"clear", "clear2"}, ~crossed', hookI' \notin torn'
      PROVE  due'[hookI'] # 0 /\ due'[hookI'] < hookT'
  <2>1. hookI \notin torn /\ due'[hookI] = due[hookI]
    BY <1>1, <1>3, <1>5
  <2> QED BY <1>3, <1>5, <2>1 DEF EarlyInv
<1> QED BY <1>2, <1>4, <1>5 DEF EarlyInv

LEMMA NextEarly ==
  HookInv /\ EarlyInv /\ [HookNext]_hookVars => EarlyInv'
<1> SUFFICES ASSUME HookInv, EarlyInv, [HookNext]_hookVars PROVE EarlyInv'
  OBVIOUS
<1> USE HooksAssumption
<1>1. /\ hookT \in Nat /\ now \in Nat /\ until \in [Routines -> Nat]
      /\ due \in [Routines -> Nat]
  BY DEF HookInv, HookTypeOK
<1>2. CASE Loop \/ HookTick \/ ComputeNext \/ ScanTimers \/ Scanned \/ Sleep \/ Wake
  <2>1. /\ hookPc # "clear2" /\ hookPc' \notin {"test2", "clear", "clear2"}
        /\ until' = until /\ due' = due /\ torn' = torn
    BY <1>2 DEF Loop, HookTick, ComputeNext, ScanTimers, Scanned, Sleep, Wake, history
  <2> QED BY <2>1 DEF EarlyInv
<1>3. CASE HookLoad
  <2>1. /\ hookPc # "clear2" /\ hookPc' \notin {"clear", "clear2"}
        /\ until' = until /\ due' = due /\ torn' = torn /\ hookI' = hookI
    BY <1>3 DEF HookLoad
  <2>2. Current'
    BY <1>3, <2>1 DEF HookLoad, Current
  <2> QED BY <2>1, <2>2 DEF EarlyInv
<1>4. CASE HookTest
  <2>1. /\ hookPc # "clear2" /\ hookPc' \in {"clear", "test", "tick"}
        /\ until' = until /\ due' = due /\ torn' = torn /\ crossed' = crossed
        /\ hookT' = hookT
    BY <1>4 DEF HookTest, history
  <2>2. ASSUME hookPc' = "clear", ~crossed, hookI \notin torn
        PROVE  hookI' = hookI /\ due[hookI] # 0 /\ due[hookI] < hookT
    <3>1. hookPc = "test2" /\ hookI' = hookI /\ Due(Loaded) /\ hookI \in Routines
      BY <1>4, <2>2 DEF HookTest, HookInv, HookTypeOK
    <3>2. Current
      BY <2>2, <3>1 DEF EarlyInv
    <3>3. Loaded = until[hookI]
      BY <3>1, <3>2, LoadedTypes
    <3>4. until[hookI] = due[hookI]
      BY <2>2, <3>1 DEF EarlyInv
    <3> HIDE DEF Loaded
    <3> QED BY <3>1, <3>3, <3>4 DEF Due
  <2>3. hookPc' = "clear" => hookI' = hookI
    BY <1>4 DEF HookTest
  <2> QED BY <2>1, <2>2, <2>3 DEF EarlyInv
<1>5. CASE ClearHalf
  <2>1. /\ hookPc = "clear" /\ hookPc' = "clear2" /\ hookI' = hookI /\ due' = due
        /\ torn' = torn /\ crossed' = crossed /\ hookT' = hookT
    BY <1>5 DEF ClearHalf, history
  <2>2. \A r \in Routines \ {hookI} : until'[r] = until[r]
    BY <1>1, <1>5 DEF ClearHalf
  <2> QED BY <2>1, <2>2 DEF EarlyInv
<1>6. CASE ClearTimer
  <2>1. PICK left :
          /\ until' = [until EXCEPT ![hookI] = left]
          /\ torn' = IF left = 0 THEN torn \ {hookI} ELSE torn \cup {hookI}
    BY <1>6 DEF ClearTimer
  <2>2. /\ hookPc = "clear2" /\ hookPc' = "run" /\ hookI \in Routines
        /\ due' = [due EXCEPT ![hookI] = 0]
    BY <1>6 DEF ClearTimer, HookInv, HookTypeOK
  <2>3. ASSUME NEW r \in Routines PROVE r \in torn' \/ until'[r] = due'[r]
    <3>1. CASE r = hookI
      BY <1>1, <2>1, <2>2, <3>1
    <3>2. CASE r # hookI
      <4>1. until'[r] = until[r] /\ due'[r] = due[r] /\ (r \in torn' <=> r \in torn)
        BY <1>1, <2>1, <2>2, <3>2
      <4> QED BY <3>2, <4>1 DEF EarlyInv
    <3> QED BY <3>1, <3>2
  <2> QED BY <2>2, <2>3 DEF EarlyInv
<1>7. CASE Run
  <2>1. CASE UNCHANGED <<until, defer_new_call, event, history>>
    BY <1>7, <2>1 DEF EarlyInv, Run, history
  <2>2. ASSUME NEW delay \in HookDelays,
               Set(hookI, delay) /\ Counts(hookI, now + delay)
        PROVE  EarlyInv'
    <3>1. now + delay \in Nat /\ hookI \in Routines
      BY <1>1, <1>7 DEF Run, HookInv, HookTypeOK
    <3> QED BY <3>1, <2>2, <1>7, CallKeepsEarly DEF Run, Set
  <2> QED BY <1>7, <2>1, <2>2 DEF Run
<1>8. CASE TimePasses
  BY <1>8 DEF EarlyInv, TimePasses, task, history, Current
<1>9. ASSUME NEW r \in Routines, CancelCall(r) PROVE EarlyInv'
  BY <1>9, CallKeepsEarly DEF CancelCall, task
<1>10. ASSUME NEW r \in Routines, NEW delay \in HookDelays, Call(r, delay)
      PROVE  EarlyInv'
  <2>1. now + delay \in Nat
    BY <1>1
  <2> QED BY <2>1, <1>10, CallKeepsEarly DEF Call, Set, task
<1>11. CASE UNCHANGED hookVars
  BY <1>11 DEF EarlyInv, hookVars, task, history, Current
<1> QED BY <1>2, <1>3, <1>4, <1>5, <1>6, <1>7, <1>8, <1>9, <1>10, <1>11
        DEF HookNext, HookTask

(* A routine is called only after the delay that was asked for last, and   *)
(* not after a cancellation, however calls and cancellations fall between  *)
(* the steps of hook_task, unless one for this very routine came between   *)
(* the loading of the first half of its deadline and the clearing of the   *)
(* second, or such a clearing has left half of one there.                  *)
THEOREM NeverEarly == HookSpec => NotEarly
<1>1. HookInit => EarlyInv
  BY DEF HookInit, EarlyInv
<1>2. HookInv /\ EarlyInv /\ [HookNext]_hookVars =>
        [(hookPc = "clear2" /\ hookPc' = "run" /\ ~crossed /\ hookI \notin torn)
           => due[hookI] # 0 /\ due[hookI] <= now]_hookVars
  <2> SUFFICES ASSUME HookInv, EarlyInv, hookPc = "clear2", ~crossed, hookI \notin torn
               PROVE  due[hookI] # 0 /\ due[hookI] <= now
    OBVIOUS
  <2>1. due[hookI] \in Nat /\ hookT \in Nat /\ now \in Nat /\ hookT <= now
    BY DEF HookInv, HookTypeOK, HookSleepInv
  <2>2. due[hookI] # 0 /\ due[hookI] < hookT
    BY DEF EarlyInv
  <2> QED BY <2>1, <2>2
<1> QED BY HooksAssumption, HookInvInit, HookNextInv, NextEarly, <1>1, <1>2, PTL
        DEF HookSpec, NotEarly
=============================================================================
