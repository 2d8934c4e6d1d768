-------------------------- MODULE ControlStackProofs --------------------------
(***************************************************************************)
(* Proofs about what a session of control stands on: that all of the        *)
(* session's theorems hold in the stack; the pace of the nodes; the log and   *)
(* the health that the console shows; what a message becomes on the wire and  *)
(* back, for every value of its type; and the way of joint values.            *)
(***************************************************************************)
EXTENDS ControlStack, ControlSessionProofs, RobotDataPathProofs, FiniteSetTheorems

-----------------------------------------------------------------------------
(* The stack is a session, however much goes on before it.                 *)

\* Every behaviour of the stack is one of a session of control, so that whatever is proved
\* of SessionSpec holds of it.
THEOREM StackIsASession == StackSpec => SessionSpec
<1>1. StackInit => SessionInit
  BY DEF StackInit
<1>2. [StackNext]_stackVars => [SessionNext]_sessionVars
  BY DEF StackNext, MessagesStep, DataPathStep, RatesStep, FeedsStep, SessionStep, stackVars
<1>3. QED
  BY <1>1, <1>2, PTL DEF StackSpec, SessionSpec

-----------------------------------------------------------------------------
(* The pace of the nodes.                                                  *)

Process ==
    [name : NodeNames, pid : Pids, at : {"sleeping", "stepping", "gone"}, start : Nat, due : Nat,
     since : Nat \cup {Unknown}, iterations : Nat, period : Int]
RateSampleType == [of : Nat, name : NodeNames, pid : Pids, iterations : Nat, elapsed : Int]

\* The time that k periods take.
Periods(k) == k * Period

\* A deadline lies on the loop's grid, and after the period of the last step.
OnSchedule(p, time) ==
    p.at # "gone" =>
        /\ \E m \in Nat : p.due = p.start + Periods(m)
        /\ p.at = "sleeping" => p.due >= p.start + Periods(p.period + 1)
        /\ p.at = "stepping" => p.due <= time /\ p.start + Periods(p.period) <= time

\* Each iteration of a window took a period at least.
WindowCounted(p, time) ==
    /\ p.since = Unknown => p.iterations = 0
    /\ p.since # Unknown =>
         /\ p.at = "sleeping" => p.due >= p.since + Periods(p.iterations) + 1
         /\ p.at = "stepping" => /\ p.since <= time /\ p.due <= time
                                 /\ p.iterations > 0 => p.due >= p.since + Periods(p.iterations - 1) + 1

\* A sample is of the process whose name and id it carries.
OfItsProcess(ps, sample) ==
    /\ sample.of \in DOMAIN ps
    /\ ps[sample.of].name = sample.name
    /\ ps[sample.of].pid = sample.pid

RatesTyped ==
    /\ now \in 0 .. MaxNow
    /\ processes \in Seq(Process)
    /\ queued \in Seq(RateSampleType)
    /\ \A i, j \in Alive : i # j => processes[i].pid # processes[j].pid
    /\ DOMAIN observed \subseteq Pids
    /\ DOMAIN active \subseteq NodeNames
    /\ DOMAIN rates \subseteq NodeNames

ProcessesOnSchedule ==
    \A i \in DOMAIN processes :
        /\ OnSchedule(processes[i], now)
        /\ WindowCounted(processes[i], now)
        /\ processes[i].iterations \in 0 .. (ReportInterval \div Period + 1)

\* No name gets a process id twice, and every sample and answer is of the process it names.
SamplesTold ==
    /\ \A i, j \in DOMAIN processes :
         (processes[i].name = processes[j].name /\ processes[i].pid = processes[j].pid) => i = j
    /\ \A k \in DOMAIN queued : OfItsProcess(processes, queued[k])
    /\ \A pid \in DOMAIN observed : OfItsProcess(processes, observed[pid].sample) /\ observed[pid].sample.pid = pid
    /\ \A name \in DOMAIN active : active[name] \in DOMAIN processes /\ processes[active[name]].name = name

RatesInv == RatesTyped /\ ProcessesOnSchedule /\ SamplesTold /\ HealthyIsItsOwn

LEMMA PeriodType == Period \in Nat /\ Period > 0 /\ ReportInterval \in Nat /\ MaxNow \in Nat /\ Unknown \notin Int
  BY RatesAssumption

\* What a division by the period says of the periods that have passed.
LEMMA WholePeriods ==
  \A x \in Int : /\ x \div Period \in Int
                 /\ Periods(x \div Period) <= x
                 /\ x < Periods(x \div Period + 1)
  BY PeriodType DEF Periods

\* Periods add up, and more of them take longer.
LEMMA PeriodsType == /\ \A a \in Int : Periods(a) \in Int
                     /\ \A a \in Nat : Periods(a) \in Nat
                     /\ Periods(0) = 0
  BY PeriodType DEF Periods

LEMMA MorePeriods ==
  ASSUME NEW a \in Int, NEW b \in Int
  PROVE  /\ Periods(a) < Periods(b) => a < b
         /\ a <= b => Periods(a) <= Periods(b)
<1>1. Periods(a) < Periods(b) => a < b
  BY PeriodType DEF Periods
<1>2. a <= b => Periods(a) <= Periods(b)
  BY PeriodType DEF Periods
<1>3. QED
  BY <1>1, <1>2

LEMMA PeriodsAdd ==
  ASSUME NEW a \in Int, NEW b \in Int
  PROVE  Periods(a + b) = Periods(a) + Periods(b)
BY PeriodType DEF Periods

LEMMA OnePeriodMore ==
  ASSUME NEW a \in Int
  PROVE  Periods(a + 1) = Periods(a) + Period
BY PeriodType DEF Periods

\* A time on or after the period that follows period k is in a later period than k.
LEMMA LaterPeriod ==
  ASSUME NEW x \in Int, NEW k \in Int, x >= Periods(k + 1)
  PROVE  x \div Period > k
<1>1. PICK n \in Int : n = x \div Period /\ Periods(n) <= x /\ x < Periods(n + 1)
  BY WholePeriods
<1>2. (k + 1) \in Int /\ (n + 1) \in Int /\ Periods(k + 1) \in Int /\ Periods(n + 1) \in Int
  BY PeriodsType
<1>3. Periods(k + 1) < Periods(n + 1)
  BY <1>1, <1>2
<1>4. k + 1 < n + 1
  BY <1>2, <1>3, MorePeriods
<1>5. QED
  BY <1>1, <1>4

\* One process takes a step of its own; the others stay as they are.
OneProcess(i, p) ==
    /\ i \in DOMAIN processes /\ p \in Process
    /\ p.name = processes[i].name /\ p.pid = processes[i].pid
    /\ p.at # "gone" => processes[i].at # "gone"
    /\ processes' = [processes EXCEPT ![i] = p]

LEMMA OneProcessTyped ==
  ASSUME RatesTyped, NEW i, NEW p, OneProcess(i, p), now' = now, queued' \in Seq(RateSampleType),
         UNCHANGED <<observed, active, rates>>
  PROVE  RatesTyped' /\ DOMAIN processes' = DOMAIN processes
         /\ processes'[i] = p /\ \A j \in DOMAIN processes : j # i => processes'[j] = processes[j]
<1>1. /\ processes' \in Seq(Process) /\ DOMAIN processes' = DOMAIN processes
      /\ processes'[i] = p /\ \A j \in DOMAIN processes : j # i => processes'[j] = processes[j]
  BY DEF OneProcess, RatesTyped
<1>2. \A j \in Alive' : j \in Alive /\ processes'[j].pid = processes[j].pid
  BY <1>1 DEF Alive, OneProcess
<1>3. \A j, k \in Alive' : j # k => processes'[j].pid # processes'[k].pid
  BY <1>2 DEF RatesTyped
<1>4. QED
  BY <1>1, <1>3 DEF RatesTyped

LEMMA OneProcessTold ==
  ASSUME RatesTyped, SamplesTold, NEW i, NEW p, OneProcess(i, p), UNCHANGED <<observed, active>>,
         queued' = queued \/ \E s \in RateSampleType : queued' = Append(queued, s) /\ s.of = i /\ s.name = p.name /\ s.pid = p.pid
  PROVE  SamplesTold'
<1>1. /\ DOMAIN processes' = DOMAIN processes
      /\ \A j \in DOMAIN processes : processes'[j].name = processes[j].name /\ processes'[j].pid = processes[j].pid
  BY DEF OneProcess, RatesTyped
<1>2. \A s : OfItsProcess(processes, s) => OfItsProcess(processes', s)
  BY <1>1 DEF OfItsProcess
<1>3. \A k \in DOMAIN queued' : OfItsProcess(processes', queued'[k])
  <2>1. CASE queued' = queued
    BY <1>2, <2>1 DEF SamplesTold
  <2>2. ASSUME NEW s \in RateSampleType, queued' = Append(queued, s), s.of = i, s.name = p.name, s.pid = p.pid
        PROVE  \A k \in DOMAIN queued' : OfItsProcess(processes', queued'[k])
    <3>1. OfItsProcess(processes', s)
      BY <1>1, <2>2 DEF OneProcess, OfItsProcess
    <3>2. queued \in Seq(RateSampleType)
      BY DEF RatesTyped
    <3>3. \A k \in DOMAIN queued' : queued'[k] = s \/ (k \in DOMAIN queued /\ queued'[k] = queued[k])
      BY <2>2, <3>2
    <3>4. QED
      BY <1>2, <3>1, <3>3 DEF SamplesTold
  <2>3. QED
    BY <2>1, <2>2
<1>4. \A pid \in DOMAIN observed : OfItsProcess(processes', observed[pid].sample) /\ observed[pid].sample.pid = pid
  BY <1>2 DEF SamplesTold
<1>5. QED
  BY <1>1, <1>3, <1>4 DEF SamplesTold

\* What a start of a window, or a step in one, leaves of the process.
LEMMA ObservedProcess ==
  ASSUME NEW p \in Process, now \in Nat
  PROVE  LET o == ObserveIteration(p) IN
         /\ o \in Process
         /\ o.name = p.name /\ o.pid = p.pid /\ o.start = p.start /\ o.due = p.due
         /\ \/ o.since = now /\ p.since = Unknown /\ o.iterations = p.iterations
            \/ o.since = p.since /\ p.since # Unknown /\ now - p.since < ReportInterval /\ o.iterations = p.iterations + 1
            \/ o.since = now /\ p.since # Unknown /\ now - p.since >= ReportInterval /\ o.iterations = 0
<1>1. CASE p.since = Unknown
  BY <1>1 DEF ObserveIteration, Process
<1>2. CASE p.since # Unknown /\ now - p.since < ReportInterval
  BY <1>2 DEF ObserveIteration, Process
<1>3. CASE p.since # Unknown /\ ~(now - p.since < ReportInterval)
  <2>1. ObserveIteration(p) = [p EXCEPT !.since = now, !.iterations = 0]
    BY <1>3 DEF ObserveIteration
  <2>2. now - p.since >= ReportInterval
    BY <1>3, PeriodType DEF Process
  <2> DEFINE r == [p EXCEPT !.since = now, !.iterations = 0]
  <2>3. /\ r \in Process
        /\ r.name = p.name /\ r.pid = p.pid /\ r.start = p.start /\ r.due = p.due
        /\ r.since = now /\ r.iterations = 0
    BY DEF Process
  <2> HIDE DEF r
  <2>4. QED
    BY <1>3, <2>1, <2>2, <2>3 DEF r
<1>4. QED
  <2>1. p.since = Unknown \/ p.since \in Nat
    BY DEF Process
  <2>2. QED
    BY <1>1, <1>2, <1>3

\* A process that steps, or begins to wait, leaves the invariant to be shown of itself alone.
LEMMA OneProcessKeeps ==
  ASSUME RatesInv, NEW i, NEW p, OneProcess(i, p), UNCHANGED <<now, observed, active, rates>>,
         queued' = queued \/ \E s \in RateSampleType : queued' = Append(queued, s) /\ s.of = i /\ s.name = p.name /\ s.pid = p.pid,
         OnSchedule(p, now), WindowCounted(p, now), p.iterations \in 0 .. (ReportInterval \div Period + 1)
  PROVE  RatesInv'
<1>1. queued' \in Seq(RateSampleType)
  BY DEF RatesInv, RatesTyped
<1>2. /\ RatesTyped' /\ DOMAIN processes' = DOMAIN processes
      /\ processes'[i] = p /\ \A j \in DOMAIN processes : j # i => processes'[j] = processes[j]
  BY <1>1, OneProcessTyped DEF RatesInv
<1>3. SamplesTold'
  BY OneProcessTold DEF RatesInv
<1>4. ProcessesOnSchedule'
  BY <1>2 DEF ProcessesOnSchedule, RatesInv
<1>5. QED
  BY <1>2, <1>3, <1>4 DEF RatesInv, HealthyIsItsOwn

\* A step begins in a later period than the last one, and counts one more iteration.
LEMMA StepBeginsKeeps ==
  ASSUME RatesInv, NEW i \in DOMAIN processes, StepBegins(i)
  PROVE  RatesInv' /\ processes'[i].period > processes[i].period
         /\ \A j \in DOMAIN processes : j # i => processes'[j] = processes[j]
<1> DEFINE p == processes[i]
           o == ObserveIteration(p)
           x == now - p.start
           q == [o EXCEPT !.at = "stepping", !.period = x \div Period]
<1>1. /\ p.at = "sleeping" /\ p.due <= now /\ processes' = [processes EXCEPT ![i] = q]
      /\ UNCHANGED <<now, observed, active, rates>>
      /\ queued' = IF WindowFull(p) THEN Append(queued, RateSample(i, p, p.iterations + 1, now - p.since)) ELSE queued
  BY DEF StepBegins
<1>2. p \in Process /\ now \in Nat /\ x \in Int /\ Period \in Nat /\ Period > 0 /\ ReportInterval \in Nat
  <2>1. p \in Process /\ now \in Nat
    BY PeriodType DEF RatesInv, RatesTyped
  <2>2. QED
    BY <2>1, PeriodType DEF Process
<1>3. /\ o \in Process
      /\ o.name = p.name /\ o.pid = p.pid /\ o.start = p.start /\ o.due = p.due
      /\ \/ o.since = now /\ p.since = Unknown /\ o.iterations = p.iterations
         \/ o.since = p.since /\ p.since # Unknown /\ now - p.since < ReportInterval /\ o.iterations = p.iterations + 1
         \/ o.since = now /\ p.since # Unknown /\ now - p.since >= ReportInterval /\ o.iterations = 0
  BY <1>2, ObservedProcess
<1>4. x \div Period \in Int /\ Periods(x \div Period) <= x /\ x < Periods(x \div Period + 1)
  BY <1>2, WholePeriods
<1>5. p.start \in Nat /\ p.due \in Nat /\ p.period \in Int /\ p.iterations \in Nat /\ p.since \in Nat \cup {Unknown}
  BY <1>2 DEF Process
<1> HIDE DEF o
<1>6. /\ q \in Process /\ q.name = p.name /\ q.pid = p.pid /\ q.at = "stepping" /\ q.start = p.start /\ q.due = p.due
      /\ q.period = x \div Period /\ q.since = o.since /\ q.iterations = o.iterations
  <2>1. x \div Period \in Int
    BY <1>4
  <2> HIDE DEF x, p
  <2>2. QED
    BY <1>3, <2>1 DEF Process
<1> HIDE DEF q
<1>7. /\ \E m \in Nat : p.due = p.start + Periods(m)
      /\ p.due >= p.start + Periods(p.period + 1)
      /\ p.since = Unknown => p.iterations = 0
      /\ p.since # Unknown => p.due >= p.since + Periods(p.iterations) + 1
  BY <1>1 DEF RatesInv, ProcessesOnSchedule, OnSchedule, WindowCounted
<1>8. q.period > p.period
  <2>1. Periods(p.period + 1) \in Int
    BY <1>5, PeriodsType
  <2>2. PICK c \in Int : c = Periods(p.period + 1)
    BY <2>1
  <2>3. p.due >= p.start + c
    BY <1>7, <2>2
  <2>4. x >= c
    BY <1>1, <1>2, <1>5, <2>3
  <2>5. QED
    BY <1>2, <1>5, <1>6, <2>2, <2>4, LaterPeriod
<1>9. OnSchedule(q, now)
  <2>1. Periods(x \div Period) \in Int
    BY <1>4, PeriodsType
  <2>2. p.start + Periods(x \div Period) <= now
    BY <1>2, <1>4, <1>5, <2>1
  <2>3. QED
    BY <1>1, <1>6, <1>7, <2>2 DEF OnSchedule
<1>10. q.since \in Nat \cup {Unknown} /\ q.iterations \in Nat /\ q.since # Unknown
  BY <1>2, <1>3, <1>5, <1>6, PeriodType DEF Process
<1>11. PICK c \in Nat : c = Periods(p.iterations)
  BY <1>5, PeriodsType
<1>12. WindowCounted(q, now)
  <2>1. q.since <= now /\ q.due <= now
    <3>1. p.due <= now
      BY <1>1, <1>2
    <3>2. p.since # Unknown => p.since \in Nat /\ p.due >= p.since + c + 1
      BY <1>5, <1>7, <1>11
    <3>3. p.since # Unknown => p.since <= now
      BY <1>2, <1>5, <3>1, <3>2
    <3>4. o.since \in {now, p.since} /\ o.since # Unknown
      BY <1>2, <1>3, <1>6, <1>10
    <3>5. q.since <= now
      BY <1>2, <1>6, <3>3, <3>4
    <3>6. QED
      BY <1>6, <3>1, <3>5
  <2>2. q.iterations > 0 => q.due >= q.since + Periods(q.iterations - 1) + 1
    <3>1. CASE o.iterations = p.iterations + 1 /\ o.since = p.since /\ p.since # Unknown
      <4>1. q.iterations - 1 = p.iterations
        BY <1>5, <1>6, <3>1
      <4>2. QED
        BY <1>6, <1>7, <3>1, <4>1
    <3>2. CASE o.iterations = 0
      BY <1>6, <3>2
    <3>3. QED
      BY <1>3, <1>7, <3>1, <3>2
  <2>3. QED
    BY <1>6, <1>10, <2>1, <2>2 DEF WindowCounted
<1>13. q.iterations \in 0 .. (ReportInterval \div Period + 1)
  <2>1. p.iterations \in 0 .. (ReportInterval \div Period + 1) /\ ReportInterval \div Period \in Int
    BY <1>2, WholePeriods DEF RatesInv, ProcessesOnSchedule
  <2>2. CASE o.iterations = p.iterations + 1 /\ now - p.since < ReportInterval /\ p.since # Unknown
    <3>1. ReportInterval >= c
      <4>1. p.since \in Nat /\ p.due >= p.since + c + 1
        BY <1>5, <1>7, <1>11, <2>2
      <4>2. QED
        BY <1>1, <1>2, <1>5, <2>2, <4>1
    <3>2. (p.iterations - 1) + 1 = p.iterations /\ p.iterations - 1 \in Int /\ ReportInterval \in Int
      BY <1>2, <1>5
    <3>3. ReportInterval \div Period > p.iterations - 1
      BY <1>11, <3>1, <3>2, LaterPeriod
    <3>4. QED
      BY <1>5, <1>6, <2>1, <2>2, <3>3
  <2>3. CASE o.iterations = 0 \/ o.iterations = p.iterations
    BY <1>6, <2>1, <2>3, <1>2, PeriodType
  <2>4. QED
    BY <1>3, <2>2, <2>3
<1>14. OneProcess(i, q)
  BY <1>1, <1>6 DEF OneProcess
<1>15. queued' = queued \/ \E s \in RateSampleType : queued' = Append(queued, s) /\ s.of = i /\ s.name = q.name /\ s.pid = q.pid
  <2>1. CASE ~WindowFull(p)
    BY <1>1, <2>1
  <2>2. CASE WindowFull(p)
    <3> DEFINE s == RateSample(i, p, p.iterations + 1, now - p.since)
    <3>1. i \in Nat
      BY DEF RatesInv, RatesTyped
    <3>2. p.since \in Nat
      BY <1>5, <2>2 DEF WindowFull
    <3>3. now - p.since \in Int /\ p.iterations + 1 \in Nat
      BY <1>2, <1>5, <3>2
    <3>4. s \in RateSampleType /\ s.of = i /\ s.name = q.name /\ s.pid = q.pid
      BY <1>2, <1>6, <3>1, <3>3 DEF RateSample, RateSampleType, Process
    <3>5. queued' = Append(queued, s)
      BY <1>1, <2>2
    <3>6. QED
      BY <3>4, <3>5
  <2>3. QED
    BY <2>1, <2>2
<1>16. RatesInv'
  BY <1>1, <1>9, <1>12, <1>13, <1>14, <1>15, OneProcessKeeps
<1>17. processes'[i] = q /\ \A j \in DOMAIN processes : j # i => processes'[j] = processes[j]
  BY <1>1 DEF RatesInv, RatesTyped
<1>18. QED
  BY <1>8, <1>16, <1>17 DEF p

\* The next deadline is ahead, a period or more after the last one and on its grid.
LEMMA DeadlineAhead ==
  ASSUME NEW previous \in Nat, now \in Nat
  PROVE  /\ NextDeadline(previous) \in Nat
         /\ NextDeadline(previous) > now
         /\ NextDeadline(previous) >= previous + Period
         /\ \E j \in Nat : NextDeadline(previous) = previous + Periods(j)
<1> DEFINE deadline == previous + Period
<1>1. deadline \in Nat /\ Period \in Nat /\ Period > 0
  BY PeriodType
<1>2. CASE now < deadline
  <2>1. NextDeadline(previous) = deadline
    BY <1>2 DEF NextDeadline
  <2>2. previous + Periods(1) = deadline
    BY <1>1, PeriodType DEF Periods
  <2>3. QED
    BY <1>1, <1>2, <2>1, <2>2
<1>3. CASE ~(now < deadline)
  <2> DEFINE n == (now - deadline) \div Period
  <2>1. now - deadline \in Int
    BY <1>1
  <2>2. n \in Int /\ now - deadline < Periods(n + 1)
    BY <2>1, WholePeriods
  <2>3. NextDeadline(previous) = deadline + Periods(n + 1)
    BY <1>3 DEF NextDeadline, Periods
  <2> HIDE DEF n
  <2>4. n + 1 \in Int /\ n + 2 \in Int /\ n + 2 = (n + 1) + 1
    BY <2>2
  <2>5. Periods(n + 1) \in Int /\ Periods(n + 2) = Periods(n + 1) + Period
    BY <2>4, PeriodsType, OnePeriodMore
  <2>6. Periods(n + 1) > 0 /\ now < deadline + Periods(n + 1)
    BY <1>1, <1>3, <2>2, <2>5
  <2>7. 0 < n + 1
    BY <2>4, <2>6, PeriodsType, MorePeriods
  <2>8. n + 2 \in Nat
    BY <2>4, <2>7
  <2>9. deadline + Periods(n + 1) = previous + Periods(n + 2)
    BY <1>1, <2>5
  <2>10. deadline + Periods(n + 1) \in Nat
    BY <1>1, <2>5, <2>6
  <2>11. QED
    BY <1>1, <2>3, <2>5, <2>6, <2>8, <2>9, <2>10
<1>4. QED
  BY <1>2, <1>3

\* A step ends, however late: the process waits for a period that has not begun.
LEMMA StepEndsKeeps ==
  ASSUME RatesInv, NEW i \in DOMAIN processes, StepEnds(i)
  PROVE  RatesInv' /\ \A j \in DOMAIN processes : processes'[j].at = "stepping" => processes'[j] = processes[j]
<1> DEFINE p == processes[i]
           q == [p EXCEPT !.at = "sleeping", !.due = NextDeadline(p.due)]
<1>1. p.at = "stepping" /\ UNCHANGED <<now, queued, observed, active, rates>>
  BY DEF StepEnds
<1>2. p \in Process /\ now \in Nat /\ processes \in Seq(Process)
  BY PeriodType DEF RatesInv, RatesTyped
<1>3. p.start \in Nat /\ p.due \in Nat /\ p.period \in Int /\ p.iterations \in Nat /\ p.since \in Nat \cup {Unknown}
  BY <1>2 DEF Process
<1>4. PICK d \in Nat : /\ d = NextDeadline(p.due) /\ d > now /\ d >= p.due + Period
                       /\ \E j \in Nat : d = p.due + Periods(j)
  BY <1>2, <1>3, DeadlineAhead
<1>5. processes' = [processes EXCEPT ![i] = q]
  BY <1>2 DEF StepEnds
<1>6. /\ \E m \in Nat : p.due = p.start + Periods(m)
      /\ p.start + Periods(p.period) <= now
      /\ p.since = Unknown => p.iterations = 0
      /\ p.since # Unknown => p.since <= now
      /\ (p.since # Unknown /\ p.iterations > 0) => p.due >= p.since + Periods(p.iterations - 1) + 1
      /\ p.iterations \in 0 .. (ReportInterval \div Period + 1)
  BY <1>1 DEF RatesInv, ProcessesOnSchedule, OnSchedule, WindowCounted
<1> HIDE DEF p
<1>7. /\ q \in Process /\ q.name = p.name /\ q.pid = p.pid /\ q.at = "sleeping" /\ q.start = p.start /\ q.due = d
      /\ q.period = p.period /\ q.since = p.since /\ q.iterations = p.iterations
  BY <1>2, <1>4 DEF Process
<1> HIDE DEF q
<1>8. PICK m \in Nat : d = p.start + Periods(m)
  <2>1. PICK k \in Nat : p.due = p.start + Periods(k)
    BY <1>6
  <2>2. PICK j \in Nat : d = p.due + Periods(j)
    BY <1>4
  <2>3. k + j \in Nat /\ Periods(k + j) = Periods(k) + Periods(j) /\ Periods(k) \in Nat /\ Periods(j) \in Nat
    BY PeriodsAdd, PeriodsType
  <2>4. d = p.start + Periods(k + j)
    BY <1>3, <2>1, <2>2, <2>3
  <2>5. QED
    BY <2>3, <2>4
<1>9. d >= p.start + Periods(p.period + 1)
  <2>1. Periods(p.period) \in Int /\ Periods(m) \in Int /\ p.period + 1 \in Int
    BY <1>3, PeriodsType
  <2>2. Periods(p.period) < Periods(m)
    <3>1. PICK a \in Int, b \in Int : a = Periods(p.period) /\ b = Periods(m)
      BY <2>1
    <3>2. p.start + a <= now /\ now < d /\ d = p.start + b
      BY <1>4, <1>6, <1>8, <3>1
    <3>3. a < b
      BY <1>2, <1>3, <1>4, <3>2
    <3>4. QED
      BY <3>1, <3>3
  <2>3. p.period < m
    BY <1>3, <2>2, MorePeriods
  <2>4. p.period + 1 <= m
    BY <1>3, <2>3
  <2>5. Periods(p.period + 1) <= Periods(m) /\ Periods(p.period + 1) \in Int
    BY <2>1, <2>4, PeriodsType, MorePeriods
  <2>6. QED
    BY <1>3, <1>8, <2>1, <2>5
<1>10. OnSchedule(q, now)
  BY <1>7, <1>8, <1>9 DEF OnSchedule
<1>11. WindowCounted(q, now)
  <2>1. ASSUME p.since # Unknown PROVE d >= p.since + Periods(p.iterations) + 1
    <3>1. CASE p.iterations = 0
      <4>1. Periods(p.iterations) = 0
        BY <3>1, PeriodsType
      <4>2. QED
        BY <1>2, <1>3, <1>4, <1>6, <2>1, <4>1
    <3>2. CASE p.iterations > 0
      <4>1. PICK k \in Nat : p.iterations = k + 1
        BY <1>3, <3>2
      <4>2. p.iterations - 1 = k /\ Periods(p.iterations) = Periods(k) + Period /\ Periods(k) \in Nat
        BY <4>1, PeriodsType, OnePeriodMore
      <4>3. PICK c \in Nat : c = Periods(k)
        BY <4>2
      <4>4. p.due >= p.since + c + 1
        BY <1>6, <2>1, <3>2, <4>2, <4>3
      <4>5. d >= p.since + (c + Period) + 1
        BY <1>3, <1>4, <2>1, <4>4, PeriodType
      <4>6. QED
        BY <4>2, <4>3, <4>5
    <3>3. QED
      BY <1>3, <3>1, <3>2
  <2>2. QED
    BY <1>6, <1>7, <2>1 DEF WindowCounted
<1>12. OneProcess(i, q)
  BY <1>1, <1>5, <1>7 DEF OneProcess, p
<1>13. RatesInv'
  BY <1>1, <1>6, <1>7, <1>10, <1>11, <1>12, OneProcessKeeps
<1>14. processes'[i] = q /\ \A j \in DOMAIN processes : j # i => processes'[j] = processes[j]
  BY <1>2, <1>5
<1>15. QED
  BY <1>7, <1>13, <1>14

LEMMA NodeDiesKeeps ==
  ASSUME RatesInv, NEW i \in DOMAIN processes, NodeDies(i)
  PROVE  RatesInv' /\ \A j \in DOMAIN processes : processes'[j].at = "stepping" => processes'[j] = processes[j]
<1> DEFINE p == processes[i]
           q == [p EXCEPT !.at = "gone", !.start = 0, !.due = 0, !.since = Unknown, !.iterations = 0, !.period = -1]
<1>1. p.at # "gone" /\ processes' = [processes EXCEPT ![i] = q] /\ UNCHANGED <<now, queued, observed, active, rates>>
  BY DEF NodeDies, Alive
<1>2. p \in Process /\ processes \in Seq(Process)
  BY DEF RatesInv, RatesTyped
<1>3. q \in Process /\ q.name = p.name /\ q.pid = p.pid /\ q.at = "gone" /\ q.since = Unknown /\ q.iterations = 0
  <2>1. -1 \in Int /\ 0 \in Nat
    OBVIOUS
  <2> HIDE DEF p
  <2>2. QED
    BY <1>2, <2>1 DEF Process
<1>4. ReportInterval \div Period \in Int /\ ReportInterval \div Period > -1
  <2>1. ReportInterval >= Periods(-1 + 1) /\ -1 \in Int /\ ReportInterval \in Int
    BY PeriodType, PeriodsType
  <2>2. QED
    BY <2>1, WholePeriods, LaterPeriod
<1>5. OnSchedule(q, now) /\ WindowCounted(q, now) /\ q.iterations \in 0 .. (ReportInterval \div Period + 1)
  BY <1>3, <1>4 DEF OnSchedule, WindowCounted
<1>6. OneProcess(i, q)
  BY <1>1, <1>3 DEF OneProcess
<1>7. RatesInv'
  BY <1>1, <1>5, <1>6, OneProcessKeeps
<1>8. QED
  BY <1>1, <1>2, <1>3, <1>7

\* A process starts with an id that its name has not had, and says so.
LEMMA StartNodeKeeps ==
  ASSUME RatesInv, NEW name \in NodeNames, NEW pid \in Pids, StartNode(name, pid)
  PROVE  RatesInv' /\ \A i \in DOMAIN processes : processes'[i] = processes[i]
<1> DEFINE n == Len(processes) + 1
           p == [name |-> name, pid |-> pid, at |-> "sleeping", start |-> now, due |-> now,
                 since |-> Unknown, iterations |-> 0, period |-> -1]
           s == RateSample(n, p, 0, 1)
<1>1. /\ \A i \in Alive : processes[i].pid # pid
      /\ \A i \in DOMAIN processes : processes[i].name = name => processes[i].pid # pid
      /\ processes' = Append(processes, p) /\ queued' = Append(queued, s)
      /\ UNCHANGED <<now, observed, active, rates>>
  BY DEF StartNode
<1>2. now \in Nat /\ processes \in Seq(Process) /\ queued \in Seq(RateSampleType)
  BY PeriodType DEF RatesInv, RatesTyped
<1>3. n \in Nat /\ p \in Process /\ s \in RateSampleType
  <2>1. n \in Nat /\ -1 \in Int /\ 0 \in Nat /\ 1 \in Int
    BY <1>2
  <2>2. p \in Process
    BY <1>2, <2>1 DEF Process
  <2>3. QED
    BY <2>1, <2>2 DEF RateSample, RateSampleType
<1>4. p.name = name /\ p.pid = pid /\ s.of = n /\ s.name = name /\ s.pid = pid
  BY DEF RateSample
<1>5. OnSchedule(p, now) /\ WindowCounted(p, now) /\ p.iterations \in 0 .. (ReportInterval \div Period + 1)
  <2>1. now = now + Periods(0) /\ Periods(p.period + 1) = 0
    BY <1>2, PeriodsType
  <2>2. OnSchedule(p, now)
    BY <1>2, <2>1 DEF OnSchedule
  <2>3. ReportInterval >= Periods(-1 + 1) /\ -1 \in Int /\ ReportInterval \in Int
    BY PeriodType, PeriodsType
  <2>4. ReportInterval \div Period > -1 /\ ReportInterval \div Period \in Int
    BY <2>3, WholePeriods, LaterPeriod
  <2>5. QED
    BY <2>2, <2>4 DEF WindowCounted
<1> HIDE DEF p, s
<1>6. /\ processes' \in Seq(Process) /\ queued' \in Seq(RateSampleType)
      /\ DOMAIN processes' = DOMAIN processes \cup {n} /\ n \notin DOMAIN processes
      /\ processes'[n] = p /\ \A i \in DOMAIN processes : processes'[i] = processes[i]
      /\ \A k \in DOMAIN queued' : queued'[k] = s \/ (k \in DOMAIN queued /\ queued'[k] = queued[k])
  BY <1>1, <1>2, <1>3
<1> HIDE DEF n
<1>7. \A i, j \in Alive' : i # j => processes'[i].pid # processes'[j].pid
  <2>1. Alive' \subseteq Alive \cup {n}
    BY <1>6 DEF Alive
  <2>2. Alive \subseteq DOMAIN processes
    BY DEF Alive
  <2>3. QED
    BY <1>1, <1>4, <1>6, <2>1, <2>2 DEF RatesInv, RatesTyped
<1>8. RatesTyped'
  BY <1>1, <1>6, <1>7 DEF RatesInv, RatesTyped
<1>9. ProcessesOnSchedule'
  BY <1>1, <1>5, <1>6 DEF RatesInv, ProcessesOnSchedule
<1>10. \A t : OfItsProcess(processes, t) => OfItsProcess(processes', t)
  BY <1>6 DEF OfItsProcess
<1>11. OfItsProcess(processes', s)
  BY <1>4, <1>6 DEF OfItsProcess
<1>12. \A i, j \in DOMAIN processes' :
         (processes'[i].name = processes'[j].name /\ processes'[i].pid = processes'[j].pid) => i = j
  BY <1>1, <1>4, <1>6 DEF RatesInv, SamplesTold
<1>13. \A k \in DOMAIN queued' : OfItsProcess(processes', queued'[k])
  BY <1>6, <1>10, <1>11 DEF RatesInv, SamplesTold
<1>14. SamplesTold'
  <2>1. \A o \in DOMAIN observed' :
          OfItsProcess(processes', observed'[o].sample) /\ observed'[o].sample.pid = o
    BY <1>1, <1>10 DEF RatesInv, SamplesTold
  <2>2. \A a \in DOMAIN active' : active'[a] \in DOMAIN processes' /\ processes'[active'[a]].name = a
    BY <1>1, <1>6 DEF RatesInv, SamplesTold
  <2>3. QED
    BY <1>12, <1>13, <2>1, <2>2 DEF SamplesTold
<1>15. QED
  BY <1>1, <1>6, <1>8, <1>9, <1>14 DEF RatesInv, HealthyIsItsOwn

\* What lay behind still does when time passes.
LEMMA TickKeeps ==
  ASSUME RatesInv, Tick
  PROVE  RatesInv'
<1>1. /\ now < MaxNow /\ now' = now + 1
      /\ UNCHANGED <<processes, queued, observed, active, rates>>
  BY DEF Tick
<1>2. now \in Nat /\ now' \in 0 .. MaxNow /\ processes \in Seq(Process)
  BY <1>1, PeriodType DEF RatesInv, RatesTyped
<1>3. RatesTyped'
  BY <1>1, <1>2 DEF RatesInv, RatesTyped, Alive
<1>4. ASSUME NEW i \in DOMAIN processes
      PROVE  OnSchedule(processes[i], now') /\ WindowCounted(processes[i], now')
  <2> DEFINE p == processes[i]
  <2>1. p \in Process /\ OnSchedule(p, now) /\ WindowCounted(p, now)
    BY <1>2 DEF RatesInv, ProcessesOnSchedule
  <2>2. p.start \in Nat /\ p.due \in Nat /\ p.period \in Int /\ p.since \in Nat \cup {Unknown} /\ Periods(p.period) \in Int
    BY <2>1, PeriodsType DEF Process
  <2> HIDE DEF p
  <2>3. OnSchedule(p, now')
    BY <1>1, <1>2, <2>1, <2>2 DEF OnSchedule
  <2>4. WindowCounted(p, now')
    BY <1>1, <1>2, <2>1, <2>2 DEF WindowCounted
  <2>5. QED
    BY <2>3, <2>4 DEF p
<1>5. ProcessesOnSchedule'
  BY <1>1, <1>4 DEF RatesInv, ProcessesOnSchedule
<1>6. QED
  BY <1>1, <1>3, <1>5 DEF RatesInv, SamplesTold, HealthyIsItsOwn, OfItsProcess

\* The monitor keeps what the process said of itself.
LEMMA ConsumeSampleKeeps ==
  ASSUME RatesInv, ConsumeSample
  PROVE  RatesInv'
<1> DEFINE s == Head(queued)
<1>1. /\ queued # <<>> /\ queued' = Tail(queued)
      /\ observed' = [pid \in DOMAIN observed \cup {s.pid} |->
                        IF pid = s.pid THEN [sample |-> s, at |-> now] ELSE observed[pid]]
      /\ UNCHANGED <<now, processes, active, rates>>
  BY DEF ConsumeSample
<1>2. /\ queued \in Seq(RateSampleType) /\ queued' \in Seq(RateSampleType)
      /\ 1 \in DOMAIN queued /\ s = queued[1] /\ s \in RateSampleType
      /\ \A k \in DOMAIN queued' : k + 1 \in DOMAIN queued /\ queued'[k] = queued[k + 1]
  BY <1>1 DEF RatesInv, RatesTyped
<1>3. OfItsProcess(processes, s) /\ \A k \in DOMAIN queued' : OfItsProcess(processes, queued'[k])
  BY <1>2 DEF RatesInv, SamplesTold
<1> HIDE DEF s
<1>4. DOMAIN observed' \subseteq Pids
  BY <1>1, <1>2 DEF RatesInv, RatesTyped, RateSampleType
<1>5. \A pid \in DOMAIN observed' : OfItsProcess(processes, observed'[pid].sample) /\ observed'[pid].sample.pid = pid
  BY <1>1, <1>3 DEF RatesInv, SamplesTold
<1>6. RatesTyped'
  BY <1>1, <1>2, <1>4 DEF RatesInv, RatesTyped, Alive
<1>7. SamplesTold'
  BY <1>1, <1>3, <1>5 DEF RatesInv, SamplesTold
<1>8. QED
  BY <1>1, <1>6, <1>7 DEF RatesInv, ProcessesOnSchedule, HealthyIsItsOwn

LEMMA ReadActiveNodesKeeps ==
  ASSUME RatesInv, ReadActiveNodes
  PROVE  RatesInv'
<1>1. /\ active' = [name \in {processes[i].name : i \in Alive} |-> CHOOSE i \in Alive : processes[i].name = name]
      /\ rates' = <<>> /\ UNCHANGED <<now, processes, queued, observed>>
  BY DEF ReadActiveNodes
<1>2. DOMAIN rates' = {}
  BY <1>1
<1>3. Alive \subseteq DOMAIN processes /\ processes \in Seq(Process)
  BY DEF RatesInv, RatesTyped, Alive
<1>4. \A name \in DOMAIN active' : active'[name] \in DOMAIN processes /\ processes[active'[name]].name = name
  BY <1>1, <1>3
<1>5. DOMAIN active' \subseteq NodeNames
  <2>1. \A i \in Alive : processes[i].name \in NodeNames
    <3>1. \A i \in Alive : processes[i] \in Process
      BY <1>3
    <3>2. \A p \in Process : p.name \in NodeNames
      BY DEF Process
    <3>3. QED
      BY <3>1, <3>2
  <2>2. DOMAIN active' = {processes[i].name : i \in Alive}
    BY <1>1
  <2>3. QED
    BY <2>1, <2>2
<1>6. RatesTyped'
  BY <1>1, <1>2, <1>5 DEF RatesInv, RatesTyped, Alive
<1>7. SamplesTold'
  BY <1>1, <1>4 DEF RatesInv, SamplesTold, OfItsProcess
<1>8. QED
  BY <1>1, <1>2, <1>6, <1>7 DEF RatesInv, ProcessesOnSchedule, HealthyIsItsOwn

\* A sample that has the name and the id of the active process is that process's own.
LEMMA SnapshotRatesKeeps ==
  ASSUME RatesInv, SnapshotRates
  PROVE  RatesInv'
<1>1. /\ observed' = [pid \in DOMAIN observed \cap {processes[active[name]].pid : name \in DOMAIN active} |-> observed[pid]]
      /\ rates' = [name \in DOMAIN active |->
                    [status |-> RateStatus(name, processes[active[name]].pid), asked |-> active[name]]]
      /\ active' = <<>> /\ UNCHANGED <<now, processes, queued>>
  BY DEF SnapshotRates
<1>2. DOMAIN active' = {} /\ DOMAIN rates' = DOMAIN active /\ DOMAIN observed' \subseteq DOMAIN observed
      /\ \A pid \in DOMAIN observed' : observed'[pid] = observed[pid]
  BY <1>1
<1>3. ASSUME NEW name \in DOMAIN active, RateStatus(name, processes[active[name]].pid).known
      PROVE  RateStatus(name, processes[active[name]].pid).of = active[name]
  <2> DEFINE pid == processes[active[name]].pid
             sample == observed[pid].sample
  <2>1. pid \in DOMAIN observed /\ sample.name = name
    BY <1>3 DEF RateStatus
  <2>2. RateStatus(name, pid).of = sample.of
    BY <2>1 DEF RateStatus
  <2>3. /\ sample.of \in DOMAIN processes /\ processes[sample.of].name = name /\ processes[sample.of].pid = pid
    BY <2>1 DEF RatesInv, SamplesTold, OfItsProcess
  <2>4. active[name] \in DOMAIN processes /\ processes[active[name]].name = name
    BY DEF RatesInv, SamplesTold
  <2>5. QED
    BY <2>2, <2>3, <2>4 DEF RatesInv, SamplesTold
<1>4. HealthyIsItsOwn'
  BY <1>1, <1>2, <1>3 DEF HealthyIsItsOwn
<1>5. RatesTyped'
  BY <1>1, <1>2 DEF RatesInv, RatesTyped, Alive
<1>6. SamplesTold'
  BY <1>1, <1>2 DEF RatesInv, SamplesTold, OfItsProcess
<1>7. QED
  BY <1>1, <1>4, <1>5, <1>6 DEF RatesInv, ProcessesOnSchedule

LEMMA RatesStart ==
  ASSUME NEW time \in 0 .. MaxNow, RatesAt(time)
  PROVE  RatesInv
<1>1. /\ now = time /\ processes = <<>> /\ queued = <<>>
      /\ DOMAIN processes = {} /\ DOMAIN queued = {} /\ DOMAIN observed = {} /\ DOMAIN active = {} /\ DOMAIN rates = {}
  BY DEF RatesAt
<1>2. RatesTyped
  BY <1>1 DEF RatesTyped, Alive
<1>3. QED
  BY <1>1, <1>2 DEF RatesInv, ProcessesOnSchedule, SamplesTold, HealthyIsItsOwn

\* Every step of the pace of the nodes, and what it does to a process.
LEMMA RatesStepKeeps ==
  ASSUME RatesInv, [RatesNext]_ratesVars
  PROVE  RatesInv' /\ \A i \in DOMAIN processes \cap DOMAIN processes' :
                         (processes[i].at = "sleeping" /\ processes'[i].at = "stepping")
                         => processes'[i].period > processes[i].period
<1> DEFINE Later == \A i \in DOMAIN processes \cap DOMAIN processes' :
                         (processes[i].at = "sleeping" /\ processes'[i].at = "stepping")
                         => processes'[i].period > processes[i].period
<1>1. ASSUME NEW name \in NodeNames, NEW pid \in Pids, StartNode(name, pid)
      PROVE  RatesInv' /\ Later
  BY <1>1, StartNodeKeeps
<1>2. ASSUME NEW i \in DOMAIN processes, StepBegins(i)
      PROVE  RatesInv' /\ Later
  BY <1>2, StepBeginsKeeps
<1>3. ASSUME NEW i \in DOMAIN processes, StepEnds(i)
      PROVE  RatesInv' /\ Later
  BY <1>3, StepEndsKeeps
<1>4. ASSUME NEW i \in DOMAIN processes, NodeDies(i)
      PROVE  RatesInv' /\ Later
  BY <1>4, NodeDiesKeeps
<1>5. ASSUME processes' = processes
      PROVE  Later
  BY <1>5
<1>6. CASE Tick
  BY <1>5, <1>6, TickKeeps DEF Tick
<1>7. CASE ConsumeSample
  BY <1>5, <1>7, ConsumeSampleKeeps DEF ConsumeSample
<1>8. CASE ReadActiveNodes
  BY <1>5, <1>8, ReadActiveNodesKeeps DEF ReadActiveNodes
<1>9. CASE SnapshotRates
  BY <1>5, <1>9, SnapshotRatesKeeps DEF SnapshotRates
<1>10. CASE UNCHANGED ratesVars
  <2>1. RatesInv'
    BY <1>10 DEF ratesVars, RatesInv, RatesTyped, ProcessesOnSchedule, SamplesTold, HealthyIsItsOwn, OnSchedule,
                 WindowCounted, OfItsProcess, Alive
  <2>2. QED
    BY <1>5, <1>10, <2>1 DEF ratesVars
<1>11. QED
  BY <1>1, <1>2, <1>3, <1>4, <1>6, <1>7, <1>8, <1>9, <1>10 DEF RatesNext

\* A step of the stack is one of the nodes' pace, or leaves it.
LEMMA StackLeavesRates == [StackNext]_stackVars => [RatesNext]_ratesVars
  BY DEF StackNext, MessagesStep, DataPathStep, RatesStep, FeedsStep, SessionStep, stackVars, ratesVars

\* The clock, the processes and what is known of them are what they are declared to be.
THEOREM RatesTypeCorrect == StackSpec => []RatesInv
<1>1. StackInit => RatesInv
  <2>1. StackInit => RatesAt(0) \/ RatesAt(MaxNow)
    BY DEF StackInit, RatesOver, RatesInit
  <2>2. 0 \in 0 .. MaxNow /\ MaxNow \in 0 .. MaxNow
    BY PeriodType
  <2>3. QED
    BY <2>1, <2>2, RatesStart
<1>2. RatesInv /\ [StackNext]_stackVars => RatesInv'
  BY StackLeavesRates, RatesStepKeeps
<1>3. QED
  BY <1>1, <1>2, PTL DEF StackSpec

\* A node that is shown as healthy has itself run at its rate: a sample is never taken for one
\* of another process that had the name or the process id before (NodeRateMonitor._status).
THEOREM HealthIsOfTheProcess == StackSpec => []HealthyIsItsOwn
<1>1. RatesInv => HealthyIsItsOwn
  BY DEF RatesInv
<1>2. QED
  BY <1>1, RatesTypeCorrect, PTL

\* However late a step begins and however long it takes, the next one of the same loop begins
\* in a later period of its schedule: nothing is caught up with (loop_at_rate, _next_deadline).
THEOREM NothingIsCaughtUp == StackSpec => NoCatchUp
<1> DEFINE Later == \A i \in DOMAIN processes \cap DOMAIN processes' :
                         (processes[i].at = "sleeping" /\ processes'[i].at = "stepping")
                         => processes'[i].period > processes[i].period
<1>1. RatesInv /\ [StackNext]_stackVars => [Later]_ratesVars
  BY StackLeavesRates, RatesStepKeeps
<1>2. StackSpec => [][Later]_ratesVars
  BY <1>1, RatesTypeCorrect, PTL DEF StackSpec
<1>3. QED
  BY <1>2 DEF NoCatchUp

-----------------------------------------------------------------------------
(* The actuators' health.                                                  *)

Report == [number : Nat, fault : BOOLEAN]

\* Reports overtake nothing: what is shown is older than what waits, and that than what comes.
ReportsInOrder ==
    /\ reports \in Nat
    /\ report = Nobody \/ (report \in Report /\ report.number <= reports)
    /\ mailbox = Nobody \/ (mailbox \in Report /\ mailbox.number <= reports)
    /\ health = Nobody \/ (health \in Report /\ health.number <= reports)
    /\ (report # Nobody /\ mailbox # Nobody) => mailbox.number < report.number
    /\ (report # Nobody /\ health # Nobody) => health.number < report.number
    /\ (mailbox # Nobody /\ health # Nobody) => health.number < mailbox.number

FaultStaysOrIsReplaced ==
    (health # Nobody /\ health.fault /\ health' # health)
    => (stacks' > stacks \/ (health' # Nobody /\ health'.number > health.number))

LEMMA FeedsStepKeeps ==
  ASSUME ReportsInOrder, stacks \in Nat, [FeedsNext]_feedsVars
  PROVE  ReportsInOrder' /\ stacks' \in Nat /\ FaultStaysOrIsReplaced
<1>1. ASSUME UNCHANGED healthVars
      PROVE  ReportsInOrder' /\ stacks' \in Nat /\ FaultStaysOrIsReplaced
  BY <1>1 DEF healthVars, ReportsInOrder, FaultStaysOrIsReplaced
<1>2. ASSUME NEW fault \in BOOLEAN, reports' = reports + 1, report = Nobody,
             report' = [number |-> reports + 1, fault |-> fault], UNCHANGED <<stacks, mailbox, health>>
      PROVE  ReportsInOrder' /\ stacks' \in Nat /\ FaultStaysOrIsReplaced
  <2>1. reports' \in Nat /\ report' \in Report /\ report'.number = reports' /\ reports' = reports + 1
    BY <1>2 DEF ReportsInOrder, Report
  <2>2. mailbox # Nobody => mailbox.number \in Nat /\ mailbox.number < reports'
    BY <1>2 DEF ReportsInOrder, Report
  <2>3. health # Nobody => health.number \in Nat /\ health.number < reports'
    BY <1>2 DEF ReportsInOrder, Report
  <2>4. QED
    BY <1>2, <2>1, <2>2, <2>3 DEF ReportsInOrder, FaultStaysOrIsReplaced
<1>3. ASSUME NEW fault \in BOOLEAN, DriverReports(fault)
      PROVE  ReportsInOrder' /\ stacks' \in Nat /\ FaultStaysOrIsReplaced
  BY <1>2, <1>3 DEF DriverReports
<1>4. CASE CloseFails
  BY <1>2, <1>4 DEF CloseFails
<1>5. CASE DriverGone
  BY <1>5 DEF DriverGone, ReportsInOrder, FaultStaysOrIsReplaced
<1>6. CASE ReportArrives
  BY <1>6 DEF ReportArrives, ReportsInOrder, FaultStaysOrIsReplaced
<1>7. CASE ReportIsLost
  BY <1>7 DEF ReportIsLost, ReportsInOrder, FaultStaysOrIsReplaced
<1>8. ASSUME NEW stale \in BOOLEAN, SnapshotHealth(stale)
      PROVE  ReportsInOrder' /\ stacks' \in Nat /\ FaultStaysOrIsReplaced
  BY <1>8 DEF SnapshotHealth, Retains, ReportsInOrder, FaultStaysOrIsReplaced
<1>9. CASE StackStartsAnew
  BY <1>9 DEF StackStartsAnew, ReportsInOrder, FaultStaysOrIsReplaced
<1>10. ConsoleStarts \/ (\E lines \in 1..2 : LogMessage(lines)) \/ SnapshotLog \/ TabShows \/ RequestFails
       => UNCHANGED healthVars
  BY DEF ConsoleStarts, LogMessage, SnapshotLog, TabShows, RequestFails
<1>11. UNCHANGED feedsVars => UNCHANGED healthVars
  BY DEF feedsVars
<1>12. QED
  BY <1>1, <1>3, <1>4, <1>5, <1>6, <1>7, <1>8, <1>9, <1>10, <1>11 DEF FeedsNext

\* A step of the stack is one of the feeds, or leaves them.
LEMMA StackLeavesFeeds == [StackNext]_stackVars => [FeedsNext]_feedsVars
  BY DEF StackNext, MessagesStep, DataPathStep, RatesStep, FeedsStep, SessionStep, stackVars

\* Whatever reports are late or lost, those of the actuators arrive in order.
THEOREM ReportsArriveInOrder == StackSpec => [](ReportsInOrder /\ stacks \in Nat)
<1>1. StackInit => ReportsInOrder /\ stacks \in Nat
  <2>1. StackInit => FeedsAt(0, 0) \/ FeedsAt(MaxLives, MaxStacks)
    BY DEF StackInit, FeedsOver, FeedsInit
  <2>2. QED
    BY <2>1, FeedsAssumption DEF FeedsAt, ReportsInOrder
<1>2. (ReportsInOrder /\ stacks \in Nat) /\ [StackNext]_stackVars => (ReportsInOrder /\ stacks \in Nat)'
  BY StackLeavesFeeds, FeedsStepKeeps
<1>3. QED
  BY <1>1, <1>2, PTL DEF StackSpec

\* A fault that is shown stays on show after its driver has ended, until the stack is started
\* anew or a driver reports again (ActuatorHealthMonitor): one half of ConsoleForgetsNothing.
THEOREM FaultsStayOnShow == StackSpec => FaultOutlivesDriver
<1>1. (ReportsInOrder /\ stacks \in Nat) /\ [StackNext]_stackVars => [FaultStaysOrIsReplaced]_feedsVars
  BY StackLeavesFeeds, FeedsStepKeeps
<1>2. StackSpec => [][FaultStaysOrIsReplaced]_feedsVars
  BY <1>1, ReportsArriveInOrder, PTL DEF StackSpec
<1>3. QED
  BY <1>2 DEF FaultOutlivesDriver, FaultStaysOrIsReplaced

-----------------------------------------------------------------------------
(* The application log.                                                    *)

LogEntry == [cursor : Nat, message : Nat]

\* As many messages as there are, up to what is retained.
Kept(messages) == IF messages <= Capacity THEN messages ELSE Capacity

\* The messages up to a cursor, as far as the console still retains them.
UpTo(messages, at) ==
    /\ at \in Nat /\ at <= cursor /\ Len(messages) = Kept(at)
    /\ \A k \in DOMAIN messages, i \in DOMAIN entries :
         entries[i].cursor = at - Len(messages) + k => messages[k] = entries[i].message

\* What the tab shows once the answer has come.
Shown(r) == LastOnes((IF r.reset THEN <<>> ELSE tab.messages) \o Messages(r.entries), Capacity)

EntriesConsecutive ==
    /\ life \in 0..MaxLives /\ cursor \in Nat /\ logged \in Seq(Nat)
    /\ entries \in Seq(LogEntry) /\ Len(entries) = Kept(cursor)
    /\ \A i \in DOMAIN entries : entries[i].cursor = cursor - Len(entries) + i

TabFollows ==
    /\ tab \in [messages : Seq(Nat), after : Nat \cup {Nobody}, of : 0..life]
    /\ Len(tab.messages) <= Capacity
    /\ tab.after = Nobody => tab.messages = <<>> /\ tab.of = 0
    /\ (tab.of = life /\ life > 0) => UpTo(tab.messages, tab.after) /\ tab.messages = retained

ReplyCompletes ==
    reply # Nobody =>
        /\ life > 0
        /\ reply \in [cursor : Nat, entries : Seq(LogEntry), reset : BOOLEAN, retained : Seq(Nat), anew : BOOLEAN]
        /\ UpTo(reply.retained, reply.cursor)
        /\ (reply.anew \/ tab.of = life) => Shown(reply) = reply.retained

LogInv == EntriesConsecutive /\ TabFollows /\ ReplyCompletes

LEMMA LogConstants == /\ Capacity \in Nat /\ Capacity > 0 /\ MaxLives \in Nat /\ MaxStacks \in Nat /\ MaxReports \in Nat
                      /\ Nobody \notin Nat
  BY FeedsAssumption

\* The last n of a sequence, and which they are.
LEMMA LastOnesOf ==
  ASSUME NEW T, NEW s \in Seq(T), NEW n \in Nat
  PROVE  /\ LastOnes(s, n) \in Seq(T)
         /\ Len(LastOnes(s, n)) = IF Len(s) <= n THEN Len(s) ELSE n
         /\ \A k \in 1 .. Len(LastOnes(s, n)) : LastOnes(s, n)[k] = s[Len(s) - Len(LastOnes(s, n)) + k]
<1>1. CASE Len(s) <= n
  BY <1>1 DEF LastOnes
<1>2. CASE ~(Len(s) <= n)
  <2>1. LastOnes(s, n) = SubSeq(s, Len(s) - n + 1, Len(s))
    BY <1>2 DEF LastOnes
  <2>2. Len(s) - n + 1 \in Nat /\ Len(s) - n + 1 >= 1 /\ Len(s) \in Nat
    BY <1>2
  <2>3. /\ SubSeq(s, Len(s) - n + 1, Len(s)) \in Seq(T)
        /\ Len(SubSeq(s, Len(s) - n + 1, Len(s))) = n
        /\ \A k \in 1 .. n : SubSeq(s, Len(s) - n + 1, Len(s))[k] = s[Len(s) - n + k]
    BY <2>2, <1>2
  <2>4. QED
    BY <1>2, <2>1, <2>3
<1>3. QED
  BY <1>1, <1>2

LEMMA MessagesOf ==
  ASSUME NEW s \in Seq(LogEntry)
  PROVE  /\ Messages(s) \in Seq(Nat) /\ Len(Messages(s)) = Len(s)
         /\ \A k \in 1 .. Len(s) : Messages(s)[k] = s[k].message
<1>1. Len(s) \in Nat /\ DOMAIN s = 1 .. Len(s) /\ \A k \in 1 .. Len(s) : s[k] \in LogEntry
  OBVIOUS
<1>2. \A k \in 1 .. Len(s) : s[k].message \in Nat
  BY <1>1 DEF LogEntry
<1>3. Messages(s) = [k \in 1 .. Len(s) |-> s[k].message]
  BY <1>1 DEF Messages
<1>4. QED
  BY <1>1, <1>2, <1>3

\* What is newer than a cursor that the console can still follow is its last entries.
LEMMA NewerAreLast ==
  ASSUME EntriesConsecutive, NEW after \in Nat, after <= cursor, after >= cursor - Len(entries)
  PROVE  Cardinality({i \in DOMAIN entries : entries[i].cursor > after}) = cursor - after
<1>1. cursor \in Nat /\ Len(entries) \in Nat /\ DOMAIN entries = 1 .. Len(entries)
  BY DEF EntriesConsecutive
<1>2. {i \in DOMAIN entries : entries[i].cursor > after} = (after - cursor + Len(entries) + 1) .. Len(entries)
  BY <1>1 DEF EntriesConsecutive
<1>3. Cardinality((after - cursor + Len(entries) + 1) .. Len(entries)) = cursor - after
  <2> DEFINE a == after - cursor + Len(entries) + 1
             b == Len(entries)
  <2>1. a \in Int /\ b \in Int /\ a = after - cursor + b + 1 /\ a >= 1 /\ a <= b + 1
    BY <1>1
  <2> HIDE DEF a, b
  <2>2. Cardinality(a .. b) = IF a > b THEN 0 ELSE b - a + 1
    BY <2>1, FS_Interval
  <2>3. QED
    BY <1>1, <2>1, <2>2 DEF a, b
<1>4. QED
  BY <1>2, <1>3

\* The answer to a tab that follows this console adds what the tab has not got.
LEMMA AnswerAdds ==
  ASSUME LogInv, tab.of = life, life > 0, ~LogReset(tab.after)
  PROVE  /\ tab.after <= cursor
         /\ LastOnes(tab.messages \o Messages(LastOnes(entries, cursor - tab.after)), Capacity) = Messages(entries)
         /\ Cardinality({i \in DOMAIN entries : entries[i].cursor > tab.after}) = cursor - tab.after
<1> DEFINE ms == tab.messages
           after == tab.after
           new == LastOnes(entries, cursor - after)
           shown == LastOnes(ms \o Messages(new), Capacity)
<1>1. /\ after \in Nat /\ after <= cursor /\ cursor \in Nat
      /\ ms \in Seq(Nat) /\ Len(ms) = Kept(after)
      /\ \A k \in DOMAIN ms, i \in DOMAIN entries : entries[i].cursor = after - Len(ms) + k => ms[k] = entries[i].message
  BY DEF LogInv, TabFollows, UpTo, EntriesConsecutive
<1>2. /\ entries \in Seq(LogEntry) /\ Len(entries) \in Nat /\ Len(entries) = Kept(cursor)
      /\ \A i \in 1 .. Len(entries) : entries[i].cursor = cursor - Len(entries) + i
  BY DEF LogInv, EntriesConsecutive
<1>3. after >= cursor - Len(entries)
  <2>1. CASE entries = <<>>
    BY <1>1, <1>2, <2>1, LogConstants DEF Kept
  <2>2. CASE entries # <<>>
    <3>1. 1 \in 1 .. Len(entries) /\ entries[1].cursor = cursor - Len(entries) + 1
      BY <1>2, <2>2
    <3>2. ~(after < entries[1].cursor - 1)
      BY <2>2 DEF LogReset
    <3>3. QED
      BY <1>1, <1>2, <3>1, <3>2
  <2>3. QED
    BY <2>1, <2>2
<1>4. Cardinality({i \in DOMAIN entries : entries[i].cursor > after}) = cursor - after
  BY <1>1, <1>3, NewerAreLast DEF LogInv
<1>5. /\ new \in Seq(LogEntry) /\ Len(new) = cursor - after
      /\ \A k \in 1 .. Len(new) : new[k] = entries[Len(entries) - Len(new) + k]
  <2>1. PICK n \in Nat : n = cursor - after /\ n <= Len(entries)
    BY <1>1, <1>2, <1>3
  <2>2. new = LastOnes(entries, n) /\ entries \in Seq(LogEntry) /\ Len(entries) \in Nat
    BY <1>2, <2>1
  <2> HIDE DEF new, shown
  <2>3. /\ new \in Seq(LogEntry) /\ Len(new) = IF Len(entries) <= n THEN Len(entries) ELSE n
        /\ \A k \in 1 .. Len(new) : new[k] = entries[Len(entries) - Len(new) + k]
    BY <2>2, LastOnesOf
  <2>4. QED
    BY <2>1, <2>2, <2>3
<1> HIDE DEF new, ms, after
<1>6. /\ Messages(new) \in Seq(Nat) /\ Len(Messages(new)) = cursor - after
      /\ \A k \in 1 .. Len(new) : Messages(new)[k] = new[k].message
  BY <1>5, MessagesOf
<1> DEFINE both == ms \o Messages(new)
<1>7. /\ both \in Seq(Nat) /\ Len(both) = Len(ms) + (cursor - after)
      /\ \A k \in 1 .. Len(ms) : both[k] = ms[k]
      /\ \A k \in 1 .. Len(new) : both[Len(ms) + k] = new[k].message
  <2>1. /\ both \in Seq(Nat) /\ Len(both) = Len(ms) + Len(Messages(new))
        /\ \A k \in 1 .. Len(ms) + Len(Messages(new)) :
             both[k] = IF k <= Len(ms) THEN ms[k] ELSE Messages(new)[k - Len(ms)]
    BY <1>1, <1>6, ConcatProperties
  <2>2. Len(ms) \in Nat /\ Len(new) \in Nat /\ Len(Messages(new)) = Len(new)
    BY <1>1, <1>5, <1>6
  <2>3. ASSUME NEW k \in 1 .. Len(new)
        PROVE  both[Len(ms) + k] = new[k].message
    <3>1. Len(ms) + k \in 1 .. Len(ms) + Len(Messages(new)) /\ ~(Len(ms) + k <= Len(ms)) /\ Len(ms) + k - Len(ms) = k
      BY <2>2
    <3>2. QED
      BY <1>6, <2>1, <3>1
  <2>4. ASSUME NEW k \in 1 .. Len(ms)
        PROVE  both[k] = ms[k]
    BY <2>1, <2>2
  <2>5. QED
    BY <1>6, <2>1, <2>3, <2>4
<1> HIDE DEF both
<1>8. /\ LastOnes(both, Capacity) \in Seq(Nat)
      /\ Len(LastOnes(both, Capacity)) = IF Len(both) <= Capacity THEN Len(both) ELSE Capacity
      /\ \A k \in 1 .. Len(LastOnes(both, Capacity)) :
           LastOnes(both, Capacity)[k] = both[Len(both) - Len(LastOnes(both, Capacity)) + k]
  <2>1. both \in Seq(Nat) /\ Capacity \in Nat
    BY <1>7, LogConstants
  <2>2. QED
    BY <2>1, LastOnesOf
<1>9. Len(LastOnes(both, Capacity)) = Len(entries)
  <2>1. Len(both) = Kept(after) + (cursor - after) /\ Len(entries) = Kept(cursor)
    BY <1>1, <1>2, <1>7
  <2>2. QED
    BY <1>1, <1>8, <2>1, LogConstants DEF Kept
<1>10. /\ Messages(entries) \in Seq(Nat) /\ Len(Messages(entries)) = Len(entries)
       /\ \A k \in 1 .. Len(entries) : Messages(entries)[k] = entries[k].message
  BY <1>2, MessagesOf
<1>11. ASSUME NEW k \in 1 .. Len(entries)
       PROVE  LastOnes(both, Capacity)[k] = entries[k].message
  <2> DEFINE p == Len(both) - Len(entries) + k
  <2>1. LastOnes(both, Capacity)[k] = both[p]
    BY <1>8, <1>9
  <2>2. Len(both) \in Nat /\ p \in Int /\ Len(ms) \in Nat /\ Len(new) \in Nat /\ k \in Nat
    BY <1>1, <1>2, <1>5, <1>7
  <2>3. p = Len(both) - Len(entries) + k /\ Len(entries) \in Nat /\ k >= 1 /\ k <= Len(entries)
    BY <1>2
  <2> HIDE DEF p
  <2>4. p >= 1 /\ p <= Len(both)
    <3>1. Len(entries) <= Len(both)
      BY <1>8, <1>9, <2>2, LogConstants
    <3>2. QED
      BY <2>3, <2>2, <3>1
  <2>5. CASE p <= Len(ms)
    <3>1. both[p] = ms[p] /\ p \in DOMAIN ms
      BY <1>1, <1>7, <2>2, <2>4, <2>5
    <3>2. entries[k].cursor = after - Len(ms) + p
      <4>1. entries[k].cursor = cursor - Len(entries) + k /\ Len(entries) \in Nat
        BY <1>2
      <4>2. Len(both) = Len(ms) + (cursor - after) /\ cursor \in Nat /\ after \in Nat
        BY <1>1, <1>7
      <4>3. cursor - Len(entries) + k = after - Len(ms) + p
        BY <2>3, <2>2, <4>1, <4>2
      <4>4. QED
        BY <4>1, <4>3
    <3>3. k \in DOMAIN entries
      BY <1>2
    <3>4. QED
      BY <1>1, <2>1, <3>1, <3>2, <3>3
  <2>6. CASE ~(p <= Len(ms))
    <3>1. p - Len(ms) \in Int
      BY <2>2
    <3>2. PICK j \in Int : j = p - Len(ms)
      BY <3>1
    <3>3. Len(both) = Len(ms) + Len(new)
      BY <1>5, <1>7
    <3>4. j \in 1 .. Len(new) /\ Len(ms) + j = p
      BY <2>2, <2>4, <2>6, <3>2, <3>3
    <3>5. both[p] = new[j].message
      BY <1>7, <3>4
    <3>6. new[j] = entries[Len(entries) - Len(new) + j]
      BY <1>5, <3>4
    <3>7. p = Len(both) - Len(entries) + k /\ Len(entries) \in Nat
      BY <1>2, <2>3
    <3>8. Len(entries) - Len(new) + j = k
      BY <2>2, <3>2, <3>3, <3>7
    <3>9. QED
      BY <2>1, <3>5, <3>6, <3>8
  <2>7. QED
    BY <2>5, <2>6
<1>12. LastOnes(both, Capacity) = Messages(entries)
  BY <1>8, <1>9, <1>10, <1>11, SeqEqual
<1>13. QED
  BY <1>1, <1>4, <1>12 DEF both, new, ms, after

\* Everything that is retained, to a tab that follows nothing or has to start anew.
LEMMA AnswerIsAll ==
  ASSUME EntriesConsecutive
  PROVE  /\ LastOnes(<<>> \o Messages(LastOnes(entries, Cardinality(DOMAIN entries))), Capacity) = Messages(entries)
         /\ LastOnes(entries, Cardinality(DOMAIN entries)) \in Seq(LogEntry)
<1>1. entries \in Seq(LogEntry) /\ Len(entries) \in Nat /\ Len(entries) <= Capacity /\ DOMAIN entries = 1 .. Len(entries)
  BY LogConstants DEF EntriesConsecutive, Kept
<1>2. Cardinality(DOMAIN entries) = Len(entries)
  BY <1>1, FS_Interval
<1>3. LastOnes(entries, Cardinality(DOMAIN entries)) = entries
  BY <1>1, <1>2 DEF LastOnes
<1>4. Messages(entries) \in Seq(Nat) /\ Len(Messages(entries)) = Len(entries)
  BY <1>1, MessagesOf
<1>5. <<>> \o Messages(entries) = Messages(entries)
  BY <1>4
<1>6. LastOnes(Messages(entries), Capacity) = Messages(entries)
  BY <1>1, <1>4, LogConstants DEF LastOnes
<1>7. QED
  BY <1>1, <1>3, <1>5, <1>6

\* What the console retains is what there is up to its cursor.
LEMMA RetainedUpTo ==
  ASSUME EntriesConsecutive
  PROVE  Messages(entries) \in Seq(Nat) /\ UpTo(Messages(entries), cursor)
<1>1. entries \in Seq(LogEntry) /\ Len(entries) \in Nat /\ cursor \in Nat /\ Len(entries) = Kept(cursor)
  BY DEF EntriesConsecutive
<1>2. /\ Messages(entries) \in Seq(Nat) /\ Len(Messages(entries)) = Len(entries)
      /\ \A k \in 1 .. Len(entries) : Messages(entries)[k] = entries[k].message
  BY <1>1, MessagesOf
<1>3. ASSUME NEW k \in 1 .. Len(entries), NEW i \in DOMAIN entries, entries[i].cursor = cursor - Len(entries) + k
      PROVE  i = k
  <2>1. entries[i].cursor = cursor - Len(entries) + i /\ i \in Nat
    BY <1>1 DEF EntriesConsecutive
  <2>2. QED
    BY <1>1, <1>3, <2>1
<1>4. DOMAIN Messages(entries) = 1 .. Len(entries)
  BY <1>2
<1>5. \A k \in DOMAIN Messages(entries), i \in DOMAIN entries :
         entries[i].cursor = cursor - Len(Messages(entries)) + k => Messages(entries)[k] = entries[i].message
  BY <1>2, <1>3, <1>4
<1>6. QED
  BY <1>1, <1>2, <1>5 DEF UpTo

LEMMA LogParts ==
  /\ LogInv <=> EntriesConsecutive /\ TabFollows /\ ReplyCompletes
  /\ LogInv' <=> EntriesConsecutive' /\ TabFollows' /\ ReplyCompletes'
BY DEF LogInv

\* A console starts: whatever the tab shows, it does not yet follow this console.
LEMMA ConsoleStartsKeeps ==
  ASSUME LogInv, ConsoleStarts
  PROVE  LogInv'
<1> DEFINE lines == LastOnes(logged, Capacity)
<1>1. /\ life < MaxLives /\ life' = life + 1 /\ reply' = Nobody /\ cursor' = Len(lines)
      /\ entries' = [i \in DOMAIN lines |-> [cursor |-> i, message |-> lines[i]]]
      /\ UNCHANGED <<logged, retained, tab>>
  BY DEF ConsoleStarts
<1>2. /\ life \in 0 .. MaxLives /\ logged \in Seq(Nat) /\ tab \in [messages : Seq(Nat), after : Nat \cup {Nobody}, of : 0 .. life]
      /\ Len(tab.messages) <= Capacity /\ (tab.after = Nobody => tab.messages = <<>> /\ tab.of = 0)
  BY DEF LogInv, EntriesConsecutive, TabFollows
<1>3. /\ lines \in Seq(Nat) /\ Len(lines) <= Capacity /\ Len(lines) \in Nat /\ DOMAIN lines = 1 .. Len(lines)
      /\ \A i \in 1 .. Len(lines) : lines[i] \in Nat
  <2>1. lines \in Seq(Nat) /\ Len(lines) <= Capacity
    BY <1>2, LogConstants, LastOnesOf
  <2> HIDE DEF lines
  <2>2. QED
    BY <2>1
<1> HIDE DEF lines
<1>4. /\ entries' \in Seq(LogEntry) /\ Len(entries') = Len(lines)
      /\ \A i \in DOMAIN entries' : entries'[i].cursor = i
  <2>1. \A i \in 1 .. Len(lines) : [cursor |-> i, message |-> lines[i]] \in LogEntry
    BY <1>3 DEF LogEntry
  <2>2. entries' = [i \in 1 .. Len(lines) |-> [cursor |-> i, message |-> lines[i]]]
    BY <1>1, <1>3
  <2>3. QED
    BY <1>3, <2>1, <2>2
<1>5. EntriesConsecutive'
  BY <1>1, <1>2, <1>3, <1>4, LogConstants DEF EntriesConsecutive, Kept
<1>6. TabFollows'
  <2>1. tab.of \in 0 .. life /\ 0 .. life \subseteq 0 .. life' /\ tab.of # life'
    BY <1>1, <1>2
  <2>2. tab' \in [messages : Seq(Nat), after : Nat \cup {Nobody}, of : 0 .. life']
    BY <1>1, <1>2, <2>1
  <2>3. QED
    BY <1>1, <1>2, <2>1, <2>2 DEF TabFollows
<1>7. ReplyCompletes'
  BY <1>1 DEF ReplyCompletes
<1>8. QED
  BY <1>5, <1>6, <1>7, LogParts

\* A message that is logged changes nothing of what was retained up to an earlier cursor.
LEMMA LogMessageKeeps ==
  ASSUME LogInv, NEW lines \in 1 .. 2, LogMessage(lines)
  PROVE  LogInv'
<1> DEFINE entry == [cursor |-> cursor + 1, message |-> MessagesLogged + 1]
           all == Append(entries, entry)
<1>1. /\ cursor' = cursor + 1 /\ entries' = LastOnes(all, Capacity)
      /\ logged' = logged \o [i \in 1 .. lines |-> MessagesLogged + 1]
      /\ UNCHANGED <<life, reply, retained, tab>>
  BY DEF LogMessage
<1>2. /\ life \in 0 .. MaxLives /\ cursor \in Nat /\ logged \in Seq(Nat) /\ entries \in Seq(LogEntry)
      /\ Len(entries) = Kept(cursor) /\ Len(entries) \in Nat
      /\ \A i \in 1 .. Len(entries) : entries[i].cursor = cursor - Len(entries) + i
  BY DEF LogInv, EntriesConsecutive
<1>3. MessagesLogged + 1 \in Nat
  <2>1. logged # <<>> => Len(logged) \in 1 .. Len(logged)
    BY <1>2
  <2>2. logged # <<>> => logged[Len(logged)] \in Nat
    BY <1>2, <2>1
  <2>3. QED
    BY <2>2 DEF MessagesLogged
<1>4. logged' \in Seq(Nat)
  <2>1. [i \in 1 .. lines |-> MessagesLogged + 1] \in Seq(Nat)
    BY <1>3
  <2>2. QED
    BY <1>1, <1>2, <2>1
<1>5. entry \in LogEntry /\ entry.cursor = cursor + 1
  BY <1>2, <1>3 DEF LogEntry
<1> HIDE DEF entry
<1>6. /\ all \in Seq(LogEntry) /\ Len(all) = Len(entries) + 1
      /\ \A i \in 1 .. Len(entries) : all[i] = entries[i]
      /\ all[Len(entries) + 1] = entry
  BY <1>2, <1>5, AppendProperties
<1> HIDE DEF all
<1>7. /\ entries' \in Seq(LogEntry) /\ Len(entries') = IF Len(all) <= Capacity THEN Len(all) ELSE Capacity
      /\ \A k \in 1 .. Len(entries') : entries'[k] = all[Len(all) - Len(entries') + k]
  <2>1. all \in Seq(LogEntry) /\ Capacity \in Nat
    BY <1>6, LogConstants
  <2>2. QED
    BY <1>1, <2>1, LastOnesOf
<1>8. Len(entries') = Kept(cursor') /\ Len(entries') \in Nat /\ Len(entries') <= Len(entries) + 1 /\ DOMAIN entries' = 1 .. Len(entries')
  BY <1>1, <1>2, <1>6, <1>7, LogConstants DEF Kept
<1>9. ASSUME NEW i \in DOMAIN entries'
      PROVE  /\ entries'[i].cursor = cursor' - Len(entries') + i
             /\ entries'[i].cursor # cursor' => \E j \in DOMAIN entries : entries'[i] = entries[j]
  <2>1. Len(entries) + 1 - Len(entries') + i \in Int
    BY <1>2, <1>8
  <2>2. PICK j \in Int : j = Len(entries) + 1 - Len(entries') + i
    BY <2>1
  <2>3. entries'[i] = all[j] /\ j \in 1 .. Len(entries) + 1
    <3>1. i \in 1 .. Len(entries') /\ i \in Nat
      BY <1>8
    <3>2. entries'[i] = all[Len(all) - Len(entries') + i]
      BY <1>7, <3>1
    <3>3. Len(all) - Len(entries') + i = j
      BY <1>6, <2>2
    <3>4. j \in 1 .. Len(entries) + 1
      BY <1>2, <1>8, <2>2, <3>1
    <3>5. QED
      BY <3>2, <3>3, <3>4
  <2>4. CASE j = Len(entries) + 1
    BY <1>1, <1>2, <1>5, <1>6, <1>8, <2>2, <2>3, <2>4
  <2>5. CASE j # Len(entries) + 1
    <3>1. j \in 1 .. Len(entries)
      BY <1>2, <2>3, <2>5
    <3>2. entries'[i] = entries[j] /\ entries[j].cursor = cursor - Len(entries) + j
      BY <1>2, <1>6, <2>3, <3>1
    <3>3. DOMAIN entries = 1 .. Len(entries)
      BY <1>2
    <3>4. cursor - Len(entries) + j = cursor' - Len(entries') + i
      <4>1. cursor \in Nat /\ Len(entries) \in Nat /\ Len(entries') \in Nat /\ i \in Nat /\ cursor' = cursor + 1
        BY <1>1, <1>2, <1>8
      <4>2. j = Len(entries) + 1 - Len(entries') + i
        BY <2>2
      <4>3. QED
        BY <4>1, <4>2
    <3>5. QED
      BY <3>1, <3>2, <3>3, <3>4
  <2>6. QED
    BY <2>4, <2>5
<1>10. ASSUME NEW ms \in Seq(Nat), NEW at, UpTo(ms, at)
       PROVE  UpTo(ms, at)'
  <2>1. at \in Nat /\ at <= cursor /\ Len(ms) = Kept(at) /\ at <= cursor' /\ at # cursor' /\ Len(ms) \in Nat
    BY <1>1, <1>2, <1>10 DEF UpTo
  <2>2. ASSUME NEW k \in DOMAIN ms, NEW i \in DOMAIN entries', entries'[i].cursor = at - Len(ms) + k
        PROVE  ms[k] = entries'[i].message
    <3>1. k <= Len(ms) /\ k \in Nat
      BY <2>1
    <3>2. entries'[i].cursor # cursor'
      BY <1>1, <1>2, <2>1, <2>2, <3>1
    <3>3. PICK j \in DOMAIN entries : entries'[i] = entries[j]
      BY <1>9, <3>2
    <3>4. QED
      BY <1>10, <2>2, <3>3 DEF UpTo
  <2>3. QED
    BY <2>1, <2>2 DEF UpTo, Kept
<1>11. EntriesConsecutive'
  BY <1>1, <1>2, <1>4, <1>7, <1>8, <1>9 DEF EntriesConsecutive
<1>12. TabFollows'
  <2>1. tab.messages \in Seq(Nat)
    BY DEF LogInv, TabFollows
  <2>2. UpTo(tab.messages, tab.after) => UpTo(tab.messages, tab.after)'
    BY <1>1, <1>10, <2>1
  <2>3. QED
    BY <1>1, <2>2 DEF LogInv, TabFollows
<1>13. ReplyCompletes'
  <2>1. CASE reply # Nobody
    <3>1. reply.retained \in Seq(Nat) /\ UpTo(reply.retained, reply.cursor)
      BY <2>1 DEF LogInv, ReplyCompletes
    <3>2. UpTo(reply.retained, reply.cursor)'
      BY <1>1, <1>10, <3>1
    <3>3. Shown(reply)' = Shown(reply)
      BY <1>1 DEF Shown
    <3>4. QED
      BY <1>1, <3>2, <3>3 DEF LogInv, ReplyCompletes
  <2>2. CASE reply = Nobody
    BY <1>1, <2>2 DEF ReplyCompletes
  <2>3. QED
    BY <2>1, <2>2
<1>14. QED
  BY <1>11, <1>12, <1>13, LogParts

\* The answer, put behind what a tab of this console shows, is what the console retains.
LEMMA SnapshotLogKeeps ==
  ASSUME LogInv, SnapshotLog
  PROVE  LogInv'
<1> DEFINE after == tab.after
           reset == after # Nobody /\ LogReset(after)
           new == {i \in DOMAIN entries : after = Nobody \/ reset \/ entries[i].cursor > after}
           anew == after = Nobody \/ after > cursor \/ reset
           added == LastOnes(entries, Cardinality(new))
<1>1. /\ life > 0 /\ reply = Nobody
      /\ reply' = [cursor |-> cursor, entries |-> added, reset |-> reset, retained |-> Messages(entries), anew |-> anew]
      /\ UNCHANGED <<logged, life, cursor, entries, retained, tab>>
  BY DEF SnapshotLog
<1>2. EntriesConsecutive /\ TabFollows
  BY DEF LogInv
<1>3. UpTo(Messages(entries), cursor) /\ Messages(entries) \in Seq(Nat)
  BY <1>2, RetainedUpTo
<1>4. after \in Nat \cup {Nobody} /\ cursor \in Nat /\ tab.messages \in Seq(Nat) /\ entries \in Seq(LogEntry)
  BY <1>2 DEF TabFollows, EntriesConsecutive
<1>5. (after = Nobody \/ reset) => new = DOMAIN entries
  OBVIOUS
<1>6. (after # Nobody /\ after > cursor) => reset
  BY DEF LogReset
<1>7. ~(after = Nobody \/ reset) => new = {i \in DOMAIN entries : entries[i].cursor > after}
  OBVIOUS
<1>8. added \in Seq(LogEntry)
  <2>1. IsFiniteSet(new)
    <3>1. IsFiniteSet(DOMAIN entries)
      BY <1>4, FS_Interval
    <3>2. new \subseteq DOMAIN entries
      OBVIOUS
    <3>3. QED
      BY <3>1, <3>2, FS_Subset
  <2>2. Cardinality(new) \in Nat
    BY <2>1, FS_CardinalityType
  <2> HIDE DEF new
  <2>3. QED
    BY <1>4, <2>2, LastOnesOf
<1>9. ASSUME after = Nobody \/ reset
      PROVE  Shown(reply') = Messages(entries)
  <2>1. (IF reset THEN <<>> ELSE tab.messages) = <<>>
    BY <1>2, <1>9 DEF TabFollows
  <2>2. new = DOMAIN entries
    BY <1>5, <1>9
  <2>3. LastOnes(<<>> \o Messages(added), Capacity) = Messages(entries)
    BY <1>2, <2>2, AnswerIsAll
  <2> HIDE DEF added, reset
  <2>4. Shown(reply') = Messages(entries)
    BY <1>1, <2>1, <2>3 DEF Shown
  <2>5. QED
    BY <2>4
<1>10. ASSUME ~(after = Nobody \/ reset), tab.of = life
       PROVE  Shown(reply') = Messages(entries)
  <2>1. new = {i \in DOMAIN entries : entries[i].cursor > after} /\ ~LogReset(after)
    BY <1>7, <1>10
  <2>2. /\ LastOnes(tab.messages \o Messages(LastOnes(entries, cursor - tab.after)), Capacity) = Messages(entries)
        /\ Cardinality({i \in DOMAIN entries : entries[i].cursor > tab.after}) = cursor - tab.after
    BY <1>1, <1>10, <2>1, AnswerAdds
  <2>3. LastOnes(tab.messages \o Messages(added), Capacity) = Messages(entries)
    BY <2>1, <2>2
  <2> HIDE DEF added, reset
  <2>4. Shown(reply') = Messages(entries)
    BY <1>1, <1>10, <2>3 DEF Shown
  <2>5. QED
    BY <2>4
<1>11. (anew \/ tab.of = life) => Shown(reply') = Messages(entries)
  BY <1>6, <1>9, <1>10
<1>12. reset \in BOOLEAN /\ anew \in BOOLEAN
  OBVIOUS
<1> HIDE DEF reset, anew, added
<1>13. Shown(reply)' = Shown(reply')
  BY <1>1 DEF Shown
<1>14. UpTo(reply.retained, reply.cursor)'
  BY <1>1, <1>3 DEF UpTo, Kept
<1>15. /\ reply' \in [cursor : Nat, entries : Seq(LogEntry), reset : BOOLEAN, retained : Seq(Nat), anew : BOOLEAN]
       /\ reply'.anew = anew /\ reply'.retained = Messages(entries)
  BY <1>1, <1>3, <1>4, <1>8, <1>12
<1>16. ReplyCompletes'
  <2>1. (reply.anew)' = anew /\ (tab.of = life)' = (tab.of = life) /\ (reply.retained)' = Messages(entries)
    BY <1>1, <1>15
  <2>2. QED
    BY <1>1, <1>11, <1>13, <1>14, <1>15, <2>1 DEF ReplyCompletes
<1>17. EntriesConsecutive'
  BY <1>1, <1>2 DEF EntriesConsecutive
<1>18. TabFollows'
  BY <1>1, <1>2 DEF TabFollows, UpTo
<1>19. QED
  BY <1>16, <1>17, <1>18, LogParts

\* The tab follows the console that answered it.
LEMMA TabShowsKeeps ==
  ASSUME LogInv, TabShows
  PROVE  LogInv'
<1>1. /\ reply # Nobody /\ retained' = reply.retained /\ reply' = Nobody
      /\ tab' = [messages |-> Shown(reply), after |-> reply.cursor, of |-> IF reply.anew THEN life ELSE tab.of]
      /\ UNCHANGED <<logged, life, cursor, entries>>
  BY DEF TabShows, Shown
<1>2. /\ life > 0 /\ UpTo(reply.retained, reply.cursor) /\ reply.cursor \in Nat
      /\ reply.entries \in Seq(LogEntry) /\ reply.retained \in Seq(Nat)
      /\ (reply.anew \/ tab.of = life) => Shown(reply) = reply.retained
  BY <1>1 DEF LogInv, ReplyCompletes
<1>3. EntriesConsecutive /\ tab.messages \in Seq(Nat) /\ tab.of \in 0 .. life /\ life \in Nat
  BY DEF LogInv, TabFollows, EntriesConsecutive
<1>4. Shown(reply) \in Seq(Nat) /\ Len(Shown(reply)) <= Capacity
  <2> DEFINE kept == IF reply.reset THEN <<>> ELSE tab.messages
  <2>1. kept \in Seq(Nat) /\ Messages(reply.entries) \in Seq(Nat)
    BY <1>2, <1>3, MessagesOf
  <2>2. kept \o Messages(reply.entries) \in Seq(Nat)
    BY <2>1, ConcatProperties
  <2> DEFINE all == kept \o Messages(reply.entries)
  <2>3. Shown(reply) = LastOnes(all, Capacity)
    BY DEF Shown
  <2> HIDE DEF all
  <2>4. all \in Seq(Nat) /\ Capacity \in Nat
    BY <2>2, LogConstants DEF all
  <2>5. LastOnes(all, Capacity) \in Seq(Nat) /\ Len(LastOnes(all, Capacity)) = IF Len(all) <= Capacity THEN Len(all) ELSE Capacity
    BY <2>4, LastOnesOf
  <2>6. QED
    BY <2>3, <2>4, <2>5
<1>5. EntriesConsecutive' /\ ReplyCompletes'
  BY <1>1, <1>3 DEF EntriesConsecutive, ReplyCompletes
<1>6. tab' \in [messages : Seq(Nat), after : Nat \cup {Nobody}, of : 0 .. life]
  BY <1>1, <1>2, <1>3, <1>4
<1>7. /\ (tab.messages)' = Shown(reply) /\ (tab.after)' = reply.cursor /\ (tab.of)' = IF reply.anew THEN life ELSE tab.of
      /\ (tab.after)' # Nobody
  BY <1>1, <1>2, LogConstants
<1>8. (tab.of = life)' => Shown(reply) = reply.retained
  BY <1>1, <1>2, <1>7
<1>9. (tab.of = life)' => UpTo(tab.messages, tab.after)' /\ (tab.messages = retained)'
  <2>1. SUFFICES ASSUME (tab.of = life)' PROVE UpTo(tab.messages, tab.after)' /\ (tab.messages = retained)'
    OBVIOUS
  <2>2. (tab.messages)' = reply.retained /\ (tab.after)' = reply.cursor
    BY <1>7, <1>8, <2>1
  <2>3. QED
    BY <1>1, <1>2, <2>2 DEF UpTo, Kept
<1>10. TabFollows'
  BY <1>1, <1>4, <1>6, <1>7, <1>9 DEF TabFollows
<1>11. QED
  BY <1>5, <1>10, LogParts

\* Every step of the feeds, as the application log sees it.
LEMMA LogStepKeeps ==
  ASSUME LogInv, [FeedsNext]_feedsVars
  PROVE  LogInv'
<1>1. ASSUME UNCHANGED <<logged, life, cursor, entries, retained, tab>>, reply' = reply \/ reply' = Nobody
      PROVE  LogInv'
  <2>1. EntriesConsecutive' /\ TabFollows'
    BY <1>1 DEF LogInv, EntriesConsecutive, TabFollows, UpTo
  <2>2. ReplyCompletes'
    BY <1>1 DEF LogInv, ReplyCompletes, UpTo, Shown
  <2>3. QED
    BY <2>1, <2>2, LogParts
<1>2. CASE ConsoleStarts
  BY <1>2, ConsoleStartsKeeps
<1>3. CASE \E lines \in 1 .. 2 : LogMessage(lines)
  BY <1>3, LogMessageKeeps
<1>4. CASE SnapshotLog
  BY <1>4, SnapshotLogKeeps
<1>5. CASE TabShows
  BY <1>5, TabShowsKeeps
<1>6. CASE RequestFails
  BY <1>1, <1>6 DEF RequestFails
<1>7. CASE UNCHANGED logVars
  BY <1>1, <1>7 DEF logVars
<1>8. StackStartsAnew \/ (\E fault \in BOOLEAN : DriverReports(fault)) \/ CloseFails \/ DriverGone \/ ReportArrives
      \/ ReportIsLost \/ (\E stale \in BOOLEAN : SnapshotHealth(stale)) \/ UNCHANGED feedsVars
      => UNCHANGED logVars
  BY DEF StackStartsAnew, DriverReports, CloseFails, DriverGone, ReportArrives, ReportIsLost, SnapshotHealth, feedsVars
<1>9. QED
  BY <1>2, <1>3, <1>4, <1>5, <1>6, <1>7, <1>8 DEF FeedsNext

LEMMA LogStarts ==
  ASSUME NEW lives \in 0 .. MaxLives, NEW starts, FeedsAt(lives, starts)
  PROVE  LogInv
<1>1. /\ logged = <<>> /\ life = lives /\ cursor = 0 /\ entries = <<>> /\ reply = Nobody /\ retained = <<>>
      /\ tab = [messages |-> <<>>, after |-> Nobody, of |-> 0]
  BY DEF FeedsAt, EmptyTab
<1>2. lives \in Nat /\ lives <= MaxLives
  BY LogConstants
<1>3. EntriesConsecutive
  BY <1>1, <1>2, LogConstants DEF EntriesConsecutive, Kept
<1>4. TabFollows
  BY <1>1, <1>2, LogConstants DEF TabFollows
<1>5. ReplyCompletes
  BY <1>1 DEF ReplyCompletes
<1>6. QED
  BY <1>3, <1>4, <1>5 DEF LogInv

DriverTyped == driver \in {"none", "runs", "closing"} /\ stacks \in 0..MaxStacks /\ reports \in 0..MaxReports

LEMMA DriverStepKeeps ==
  ASSUME DriverTyped, [FeedsNext]_feedsVars
  PROVE  DriverTyped'
<1>1. CASE UNCHANGED <<stacks, driver, reports>>
  BY <1>1 DEF DriverTyped
<1>2. ASSUME NEW fault \in BOOLEAN, DriverReports(fault)
      PROVE  DriverTyped'
  BY <1>2, LogConstants DEF DriverReports, DriverTyped
<1>3. CASE CloseFails
  BY <1>3, LogConstants DEF CloseFails, DriverTyped
<1>4. CASE DriverGone
  BY <1>4 DEF DriverGone, DriverTyped
<1>5. CASE StackStartsAnew
  BY <1>5, LogConstants DEF StackStartsAnew, DriverTyped
<1>6. ConsoleStarts \/ (\E lines \in 1..2 : LogMessage(lines)) \/ SnapshotLog \/ TabShows \/ RequestFails \/ ReportArrives
      \/ ReportIsLost \/ (\E stale \in BOOLEAN : SnapshotHealth(stale)) \/ UNCHANGED feedsVars
      => UNCHANGED <<stacks, driver, reports>>
  BY DEF ConsoleStarts, LogMessage, SnapshotLog, TabShows, RequestFails, ReportArrives, ReportIsLost, SnapshotHealth,
         feedsVars, healthVars
<1>7. QED
  BY <1>1, <1>2, <1>3, <1>4, <1>5, <1>6 DEF FeedsNext

LEMMA FeedsTypeFollows == LogInv /\ DriverTyped => FeedsTypeOK
<1> SUFFICES ASSUME LogInv, DriverTyped PROVE FeedsTypeOK
  OBVIOUS
<1>1. Len(entries) <= Capacity
  BY LogConstants DEF LogInv, EntriesConsecutive, Kept
<1>2. QED
  BY <1>1 DEF LogInv, EntriesConsecutive, TabFollows, DriverTyped, FeedsTypeOK

\* A tab of this console shows what the console retained when it last answered.
LEMMA LogShown == LogInv => TabMissesNothing
  BY DEF LogInv, TabFollows, TabMissesNothing

\* Buffer, tab and answer under way always say the same of the log, and the driver's lives and
\* reports are counted within their bounds.
THEOREM LogIsFollowed == StackSpec => [](LogInv /\ DriverTyped)
<1>1. StackInit => LogInv /\ DriverTyped
  <2>1. StackInit => FeedsAt(0, 0) \/ FeedsAt(MaxLives, MaxStacks)
    BY DEF StackInit, FeedsOver, FeedsInit
  <2>2. 0 \in 0 .. MaxLives /\ MaxLives \in 0 .. MaxLives
    BY LogConstants
  <2>3. StackInit => LogInv
    BY <2>1, <2>2, LogStarts
  <2>4. StackInit => DriverTyped
    BY <2>1, LogConstants DEF FeedsAt, DriverTyped
  <2>5. QED
    BY <2>3, <2>4
<1>2. (LogInv /\ DriverTyped) /\ [StackNext]_stackVars => (LogInv /\ DriverTyped)'
  BY StackLeavesFeeds, LogStepKeeps, DriverStepKeeps
<1>3. QED
  BY <1>1, <1>2, PTL DEF StackSpec

\* A tab that follows this console has shown every line the console retained when it last
\* answered, each once, and a fault stays on show after its driver has ended.
THEOREM ConsoleKeepsEverything == StackSpec => ConsoleForgetsNothing
<1>1. LogInv /\ DriverTyped => TabMissesNothing
  BY LogShown
<1>2. StackSpec => []TabMissesNothing
  BY <1>1, LogIsFollowed, PTL
<1>3. QED
  BY <1>2, FaultsStayOnShow DEF ConsoleForgetsNothing

-----------------------------------------------------------------------------
(* The messages.                                                           *)

\* What is said of a topic while it is subscribed to: only what may be published was sent; what is on the air was
\* sent or comes of another release; and what was read of it waits in the queue, or was refused.
OnTheAir ==
    /\ topic \in DOMAIN TOPIC_TO_TYPE
    /\ sent \subseteq {m \in Samples : Publishable(m)} /\ IsFiniteSet(sent) /\ Cardinality(sent) <= MaxSent
    /\ air \subseteq {Packet(m) : m \in sent} \cup OtherReleases(TOPIC_TO_TYPE[topic])
    /\ refused \subseteq {units \in air : ~Readable(units)}
    /\ inbox \in Seq({Delivered(units) : units \in {u \in air : Readable(u)}}) /\ Len(inbox) <= QueueSize

MessagesInv ==
    /\ topic \in {NoValue} \cup DOMAIN TOPIC_TO_TYPE
    /\ IF topic = NoValue THEN sent = {} /\ air = {} /\ inbox = <<>> /\ refused = {} ELSE OnTheAir

LEMMA HandleMessageKeeps ==
  ASSUME MessagesInv, NEW units \in air, HandleMessage(units)
  PROVE  MessagesInv'
<1> DEFINE read == {Delivered(u) : u \in {u \in air : Readable(u)}}
<1>1. topic # NoValue /\ UNCHANGED <<topic, sent, air>> /\ OnTheAir /\ topic \in DOMAIN TOPIC_TO_TYPE
  BY DEF HandleMessage, MessagesInv
<1>2. \A u : /\ Readable(u)' = Readable(u) /\ Delivered(u)' = Delivered(u)
             /\ Publishable(u)' = Publishable(u) 
  BY <1>1 DEF Readable, Delivered, Publishable
<1>3. inbox \in Seq(read) /\ Len(inbox) <= QueueSize /\ QueueSize \in Nat \ {0}
  BY <1>1, MessagesAssumption DEF OnTheAir
<1>4. read' = read
  BY <1>1, <1>2
<1>5. CASE Readable(units)
  <2> DEFINE room == IF Len(inbox) = QueueSize THEN Tail(inbox) ELSE inbox
  <2>1. inbox' = Append(room, Delivered(units)) /\ refused' = refused
    BY <1>5 DEF HandleMessage
  <2>2. Delivered(units) \in read
    BY <1>5
  <2> HIDE DEF read
  <2>3. room \in Seq(read) /\ Len(room) < QueueSize
    <3>1. CASE Len(inbox) = QueueSize
      <4>1. inbox # <<>> /\ Len(inbox) \in Nat
        BY <1>3, <3>1
      <4>2. Tail(inbox) \in Seq(read) /\ Len(Tail(inbox)) = Len(inbox) - 1
        BY <1>3, <4>1
      <4>3. QED
        BY <1>3, <3>1, <4>1, <4>2
    <3>2. CASE Len(inbox) # QueueSize
      BY <1>3, <3>2
    <3>3. QED
      BY <3>1, <3>2
  <2> HIDE DEF room
  <2>4. inbox' \in Seq(read) /\ Len(inbox') <= QueueSize
    BY <1>3, <2>1, <2>2, <2>3
  <2>5. inbox' \in Seq(read')
    BY <1>4, <2>4
  <2>6. QED
    BY <1>1, <1>2, <2>1, <2>4, <2>5 DEF MessagesInv, OnTheAir, read
<1>6. CASE ~Readable(units)
  <2>1. inbox' = inbox /\ refused' = refused \cup {units}
    BY <1>6 DEF HandleMessage
  <2>2. inbox' \in Seq(read')
    BY <1>3, <1>4, <2>1
  <2>3. refused' \subseteq {u \in air : ~Readable(u)}
    BY <1>1, <1>6, <2>1 DEF OnTheAir
  <2>4. QED
    BY <1>1, <1>2, <1>3, <2>1, <2>2, <2>3 DEF MessagesInv, OnTheAir
<1>7. QED
  BY <1>5, <1>6
LEMMA SendKeeps ==
  ASSUME MessagesInv, topic # NoValue, NEW m \in Samples, Send(m)
  PROVE  MessagesInv'
<1>1. /\ Cardinality(sent) < MaxSent /\ m \notin sent /\ Publishable(m)
      /\ sent' = sent \cup {m} /\ air' = air \cup {Packet(m)}
      /\ UNCHANGED <<topic, inbox, refused>> /\ OnTheAir /\ topic \in DOMAIN TOPIC_TO_TYPE
  BY DEF Send, MessagesInv
<1>2. \A u : Readable(u)' = Readable(u) /\ Delivered(u)' = Delivered(u) /\ Publishable(u)' = Publishable(u)
  BY <1>1 DEF Readable, Delivered, Publishable
<1>3. sent' \subseteq {x \in Samples : Publishable(x)} /\ IsFiniteSet(sent') /\ Cardinality(sent') <= MaxSent
  <2>1. IsFiniteSet(sent) /\ Cardinality(sent) \in Nat
    BY <1>1, FS_CardinalityType DEF OnTheAir
  <2>2. IsFiniteSet(sent') /\ Cardinality(sent') = Cardinality(sent) + 1
    BY <1>1, <2>1, FS_AddElement
  <2>3. QED
    BY <1>1, <2>1, <2>2, MessagesAssumption DEF OnTheAir
<1>4. air' \subseteq {Packet(x) : x \in sent'} \cup OtherReleases(TOPIC_TO_TYPE[topic])
  BY <1>1 DEF OnTheAir
<1>5. refused' \subseteq {u \in air' : ~Readable(u)}
  BY <1>1 DEF OnTheAir
<1>6. inbox' \in Seq({Delivered(u) : u \in {u \in air' : Readable(u)}})
  <2> DEFINE before == {Delivered(u) : u \in {u \in air : Readable(u)}}
             after == {Delivered(u) : u \in {u \in air' : Readable(u)}}
  <2>1. before \subseteq after
    BY <1>1
  <2>2. inbox \in Seq(before)
    BY <1>1 DEF OnTheAir
  <2> HIDE DEF before, after
  <2>3. inbox \in Seq(after)
    BY <2>1, <2>2
  <2>4. QED
    BY <1>1, <2>3 DEF after
<1>7. QED
  BY <1>1, <1>2, <1>3, <1>4, <1>5, <1>6 DEF MessagesInv, OnTheAir

LEMMA SendOtherKeeps ==
  ASSUME MessagesInv, topic # NoValue, NEW units \in OtherReleases(TOPIC_TO_TYPE[topic]), SendOther(units)
  PROVE  MessagesInv'
<1>1. /\ air' = air \cup {units} /\ UNCHANGED <<topic, sent, inbox, refused>>
      /\ OnTheAir /\ topic \in DOMAIN TOPIC_TO_TYPE
  BY DEF SendOther, MessagesInv
<1>2. \A u : Readable(u)' = Readable(u) /\ Delivered(u)' = Delivered(u) /\ Publishable(u)' = Publishable(u)
  BY <1>1 DEF Readable, Delivered, Publishable
<1>3. air' \subseteq {Packet(x) : x \in sent'} \cup OtherReleases(TOPIC_TO_TYPE[topic])
  BY <1>1 DEF OnTheAir
<1>4. refused' \subseteq {u \in air' : ~Readable(u)}
  BY <1>1 DEF OnTheAir
<1>5. inbox' \in Seq({Delivered(u) : u \in {u \in air' : Readable(u)}})
  <2> DEFINE before == {Delivered(u) : u \in {u \in air : Readable(u)}}
             after == {Delivered(u) : u \in {u \in air' : Readable(u)}}
  <2>1. before \subseteq after
    BY <1>1
  <2>2. inbox \in Seq(before)
    BY <1>1 DEF OnTheAir
  <2> HIDE DEF before, after
  <2>3. inbox \in Seq(after)
    BY <2>1, <2>2
  <2>4. QED
    BY <1>1, <2>3 DEF after
<1>6. QED
  BY <1>1, <1>2, <1>3, <1>4, <1>5 DEF MessagesInv, OnTheAir

LEMMA ReceiveKeeps ==
  ASSUME MessagesInv, Receive
  PROVE  MessagesInv'
<1>1. inbox # <<>> /\ inbox' = Tail(inbox) /\ UNCHANGED <<topic, sent, air, refused>>
  BY DEF Receive
<1>2. topic # NoValue /\ OnTheAir /\ topic \in DOMAIN TOPIC_TO_TYPE
  BY <1>1 DEF MessagesInv
<1>3. \A u : Readable(u)' = Readable(u) /\ Delivered(u)' = Delivered(u) /\ Publishable(u)' = Publishable(u)
  BY <1>1 DEF Readable, Delivered, Publishable
<1> DEFINE read == {Delivered(u) : u \in {u \in air : Readable(u)}}
<1>4. inbox \in Seq(read) /\ Len(inbox) <= QueueSize /\ QueueSize \in Nat
  BY <1>2, MessagesAssumption DEF OnTheAir
<1>5. read' = read
  BY <1>1, <1>3
<1> HIDE DEF read
<1>6. inbox' \in Seq(read) /\ Len(inbox') <= QueueSize
  <2>1. Len(inbox) \in Nat /\ Tail(inbox) \in Seq(read) /\ Len(Tail(inbox)) = Len(inbox) - 1
    BY <1>1, <1>4
  <2>2. QED
    BY <1>1, <1>4, <2>1
<1>7. inbox' \in Seq(read')
  BY <1>5, <1>6
<1>8. QED
  BY <1>1, <1>2, <1>3, <1>6, <1>7 DEF MessagesInv, OnTheAir, read

LEMMA SubscribeKeeps ==
  ASSUME MessagesInv, NEW t \in DOMAIN TOPIC_TO_TYPE, Subscribe(t)
  PROVE  MessagesInv'
<1>1. topic = NoValue /\ topic' = t /\ UNCHANGED <<sent, air, inbox, refused>>
  BY DEF Subscribe
<1>2. sent' = {} /\ air' = {} /\ inbox' = <<>> /\ refused' = {}
  BY <1>1 DEF MessagesInv
<1>3. IsFiniteSet(sent') /\ Cardinality(sent') <= MaxSent /\ Len(inbox') <= QueueSize
  BY <1>2, FS_EmptySet, MessagesAssumption
<1>4. inbox' \in Seq({Delivered(u) : u \in {u \in air : Readable(u)}})'
  BY <1>2
<1>5. QED
  BY <1>1, <1>2, <1>3, <1>4 DEF MessagesInv, OnTheAir

LEMMA MessagesStepKeeps ==
  ASSUME MessagesInv, [MessagesNext]_messageVars
  PROVE  MessagesInv'
<1>1. ASSUME NEW t \in DOMAIN TOPIC_TO_TYPE, Subscribe(t) PROVE MessagesInv'
  BY <1>1, SubscribeKeeps
<1>2. ASSUME topic # NoValue, NEW m \in Samples, Send(m) PROVE MessagesInv'
  BY <1>2, SendKeeps
<1>3. ASSUME topic # NoValue, NEW units \in OtherReleases(TOPIC_TO_TYPE[topic]), SendOther(units) PROVE MessagesInv'
  BY <1>3, SendOtherKeeps
<1>4. ASSUME NEW units \in air, HandleMessage(units) PROVE MessagesInv'
  BY <1>4, HandleMessageKeeps
<1>5. CASE Receive
  BY <1>5, ReceiveKeeps
<1>6. CASE MessagesEnd
  BY <1>6 DEF MessagesEnd, MessagesInv
<1>7. CASE UNCHANGED messageVars
  <2>1. UNCHANGED <<topic, sent, air, inbox, refused>>
    BY <1>7 DEF messageVars
  <2>2. \A u : Readable(u)' = Readable(u) /\ Delivered(u)' = Delivered(u) /\ Publishable(u)' = Publishable(u)
    BY <2>1 DEF Readable, Delivered, Publishable
  <2>3. OnTheAir => OnTheAir'
    BY <2>1, <2>2 DEF OnTheAir
  <2>4. QED
    BY <2>1, <2>3 DEF MessagesInv
<1>8. QED
  BY <1>1, <1>2, <1>3, <1>4, <1>5, <1>6, <1>7 DEF MessagesNext

Types ==
    {"node_rate_sample", "actuator_health_report", "robot_state", "robot_joint_command", "robot_tool_command",
     "robot_base_command", "orchestrator_mode", "orchestrator_event", "logging_status", "homing_target"}

LEMMA TopicsHaveTypes == \A p \in DOMAIN TOPIC_TO_TYPE : TOPIC_TO_TYPE[p] \in Types
BY DEF TOPIC_TO_TYPE, Types

\* A message that was converted back says of what type it is.
LEMMA FromLcmType ==
  ASSUME NEW t \in Types, NEW m
  PROVE  FromLcm(t, m).type = t
<1>1. CASE t = "actuator_health_report"
  BY <1>1 DEF FromLcm, actuator_health_report_from_lcm
<1>2. CASE t = "robot_joint_command"
  BY <1>2 DEF FromLcm, robot_joint_command_from_lcm
<1>3. CASE t = "robot_state"
  BY <1>3 DEF FromLcm, robot_state_from_lcm
<1>4. CASE t = "robot_tool_command"
  BY <1>4 DEF FromLcm, robot_tool_command_from_lcm
<1>5. CASE t = "robot_base_command"
  BY <1>5 DEF FromLcm, robot_base_command_from_lcm
<1>6. CASE t = "homing_target"
  BY <1>6 DEF FromLcm, homing_target_from_lcm
<1>7. CASE t = "logging_status"
  BY <1>7 DEF FromLcm, logging_status_from_lcm
<1>8. CASE t \in {"node_rate_sample", "orchestrator_mode", "orchestrator_event"}
  <2>1. FromLcm(t, m) = PlainFrom(t, m)
    BY <1>8 DEF FromLcm
  <2>2. QED
    BY <2>1 DEF PlainFrom, WithField
<1>9. QED
  BY <1>1, <1>2, <1>3, <1>4, <1>5, <1>6, <1>7, <1>8 DEF Types

LEMMA MessagesTypeFollows ==
  ASSUME MessagesInv
  PROVE  MessagesTypeOK
<1>1. CASE topic = NoValue
  BY <1>1, FS_EmptySet, MessagesAssumption DEF MessagesInv, MessagesTypeOK
<1>2. CASE topic # NoValue
  <2>1. OnTheAir /\ topic \in DOMAIN TOPIC_TO_TYPE
    BY <1>2 DEF MessagesInv
  <2>2. ASSUME NEW i \in DOMAIN inbox
        PROVE  inbox[i].type = TOPIC_TO_TYPE[topic]
    <3>1. PICK u : inbox[i] = Delivered(u)
      <4> DEFINE read == {Delivered(u) : u \in {u \in air : Readable(u)}}
      <4>1. inbox \in Seq(read)
        BY <2>1 DEF OnTheAir
      <4>2. inbox[i] \in read
        <5> HIDE DEF read
        <5>1. QED
          BY <4>1
      <4>3. QED
        BY <4>2
    <3>2. inbox[i] = FromLcm(TOPIC_TO_TYPE[topic], Decode(TOPIC_TO_TYPE[topic], u))
      BY <3>1 DEF Delivered
    <3>3. QED
      BY <2>1, <3>2, TopicsHaveTypes, FromLcmType
  <2>3. refused \subseteq air
    BY <2>1 DEF OnTheAir
  <2>4. QED
    BY <2>1, <2>2, <2>3 DEF OnTheAir, MessagesTypeOK
<1>3. QED
  BY <1>1, <1>2

-----------------------------------------------------------------------------
(* The wire.                                                               *)

\* What a message has on the wire for one field, and for all of them one behind the other.
Part(m, f) == IF f[2] = "one" THEN <<m[f[1]]>> ELSE SubSeq(m[f[1]], 1, Count(f, m))
Joined(n, fields, m, f) == [i \in 0 .. n |-> IF i = 0 THEN <<>> ELSE f[i - 1] \o Part(m, fields[i])]

LEMMA JoinedExists ==
  ASSUME NEW N \in Nat, NEW fields, NEW m, \A i \in 1 .. N : Part(m, fields[i]) \in Seq(Int)
  PROVE  \E f \in [0 .. N -> Seq(Int)] : f = Joined(N, fields, m, f)
<1> DEFINE Upto(k, f) == \A i \in 0 .. N : i <= k => f[i] = IF i = 0 THEN <<>> ELSE f[i - 1] \o Part(m, fields[i])
           S == {k \in Nat : \E f \in [0 .. N -> Seq(Int)] : Upto(k, f)}
<1>1. 0 \in S
  <2>1. [i \in 0 .. N |-> <<>>] \in [0 .. N -> Seq(Int)]
    OBVIOUS
  <2>2. Upto(0, [i \in 0 .. N |-> <<>>])
    <3> SUFFICES ASSUME NEW i \in 0 .. N, i <= 0
                 PROVE  [k \in 0 .. N |-> <<>>][i] =
                          IF i = 0 THEN <<>> ELSE [k \in 0 .. N |-> <<>>][i - 1] \o Part(m, fields[i])
      OBVIOUS
    <3>1. i = 0
      OBVIOUS
    <3>2. QED
      BY <3>1
  <2>3. QED
    BY <2>1, <2>2
<1>2. ASSUME NEW k \in S
      PROVE  k + 1 \in S
  <2>1. PICK f \in [0 .. N -> Seq(Int)] : Upto(k, f)
    OBVIOUS
  <2>2. k \in Nat
    OBVIOUS
  <2> DEFINE value == f[k] \o Part(m, fields[k + 1])
             g == [i \in 0 .. N |-> IF i = k + 1 THEN value ELSE f[i]]
  <2>3. k + 1 \in 0 .. N => value \in Seq(Int)
    <3> SUFFICES ASSUME k + 1 \in 0 .. N PROVE f[k] \o Part(m, fields[k + 1]) \in Seq(Int)
      OBVIOUS
    <3>1. k \in 0 .. N /\ k + 1 \in 1 .. N
      BY <2>2
    <3>2. f[k] \in Seq(Int) /\ Part(m, fields[k + 1]) \in Seq(Int)
      BY <3>1
    <3>3. QED
      BY <3>2
  <2> HIDE DEF value
  <2>4. g \in [0 .. N -> Seq(Int)]
    BY <2>3
  <2>5. Upto(k + 1, g)
    <3> SUFFICES ASSUME NEW i \in 0 .. N, i <= k + 1
                 PROVE  g[i] = IF i = 0 THEN <<>> ELSE g[i - 1] \o Part(m, fields[i])
      OBVIOUS
    <3>1. CASE i = k + 1
      <4>1. i # 0 /\ i - 1 = k /\ k \in 0 .. N /\ k # k + 1
        BY <2>2, <3>1
      <4>2. g[i - 1] = f[k] /\ g[i] = value
        BY <3>1, <4>1
      <4>3. QED
        BY <3>1, <4>1, <4>2 DEF value
    <3>2. CASE i # k + 1
      <4>1. i <= k /\ g[i] = f[i]
        BY <2>2, <3>2
      <4>2. i # 0 => i - 1 \in 0 .. N /\ i - 1 # k + 1
        BY <2>2, <4>1
      <4>3. i # 0 => g[i - 1] = f[i - 1]
        BY <4>2
      <4>4. f[i] = IF i = 0 THEN <<>> ELSE f[i - 1] \o Part(m, fields[i])
        BY <2>1, <4>1
      <4>5. QED
        BY <4>1, <4>3, <4>4
    <3>3. QED
      BY <3>1, <3>2
  <2> HIDE DEF g, Upto
  <2>6. k + 1 \in Nat
    BY <2>2
  <2>7. QED
    BY <2>4, <2>5, <2>6
<1>3. N \in S
  <2>1. S \in SUBSET Nat
    OBVIOUS
  <2> HIDE DEF S
  <2>2. QED
    BY <1>1, <1>2, <2>1, Induction
<1>4. PICK f \in [0 .. N -> Seq(Int)] : Upto(N, f)
  BY <1>3
<1>5. f = Joined(N, fields, m, f)
  <2>1. ASSUME NEW i \in 0 .. N
        PROVE  f[i] = IF i = 0 THEN <<>> ELSE f[i - 1] \o Part(m, fields[i])
    <3>1. i <= N
      OBVIOUS
    <3>2. QED
      BY <1>4, <3>1
  <2> HIDE DEF Upto
  <2>2. QED
    BY <2>1 DEF Joined
<1>6. QED
  BY <1>5

LEMMA JoinedTyped ==
  ASSUME NEW N \in Nat, NEW fields, NEW m, \A i \in 1 .. N : Part(m, fields[i]) \in Seq(Int),
         NEW f, f = Joined(N, fields, m, f)
  PROVE  f \in [0 .. N -> Seq(Int)]
<1> DEFINE S == {k \in Nat : k \in 0 .. N => f[k] \in Seq(Int)}
<1>1. DOMAIN f = 0 .. N /\ f = [i \in 0 .. N |-> f[i]]
  BY DEF Joined
<1>2. ASSUME NEW i \in 0 .. N
      PROVE  f[i] = IF i = 0 THEN <<>> ELSE f[i - 1] \o Part(m, fields[i])
  <2>1. f[i] = Joined(N, fields, m, f)[i]
    OBVIOUS
  <2>2. QED
    BY <2>1 DEF Joined
<1>3. 0 \in S
  <2>1. f[0] = <<>> /\ <<>> \in Seq(Int)
    BY <1>2
  <2>2. f[0] \in Seq(Int)
    BY <2>1, Zenon
  <2>3. QED
    BY <2>2
<1>4. ASSUME NEW k \in S
      PROVE  k + 1 \in S
  <2> SUFFICES ASSUME k + 1 \in 0 .. N PROVE f[k + 1] \in Seq(Int)
    OBVIOUS
  <2>1. k \in 0 .. N /\ k + 1 \in 1 .. N /\ k + 1 # 0 /\ (k + 1) - 1 = k
    OBVIOUS
  <2>2. f[k] \in Seq(Int) /\ Part(m, fields[k + 1]) \in Seq(Int)
    BY <2>1
  <2>3. f[k + 1] = f[k] \o Part(m, fields[k + 1])
    BY <1>2, <2>1
  <2>4. QED
    BY <2>2, <2>3
<1>5. S = Nat
  <2>1. S \in SUBSET Nat
    OBVIOUS
  <2> HIDE DEF S
  <2>2. QED
    BY <1>3, <1>4, <2>1, Induction
<1>6. \A k \in 0 .. N : f[k] \in Seq(Int)
  BY <1>5
<1>7. QED
  BY <1>1, <1>6

\* One array is the beginning of another.
StaysIn(f, i, j) == Len(f[i]) <= Len(f[j]) /\ \A k \in 1 .. Len(f[i]) : f[j][k] = f[i][k]

\* What was put together up to some array stays where it is.
LEMMA JoinedKeeps ==
  ASSUME NEW N \in Nat, NEW fields, NEW m, \A i \in 1 .. N : Part(m, fields[i]) \in Seq(Int),
         NEW f \in [0 .. N -> Seq(Int)], f = Joined(N, fields, m, f), NEW i \in 0 .. N
  PROVE  StaysIn(f, i, N)
<1> DEFINE S == {d \in Nat : i + d \in 0 .. N => StaysIn(f, i, i + d)}
<1>1. \A j \in 0 .. N : f[j] \in Seq(Int) /\ Len(f[j]) \in Nat
  OBVIOUS
<1>2. ASSUME NEW j \in 1 .. N
      PROVE  f[j] = f[j - 1] \o Part(m, fields[j])
  <2>1. f[j] = Joined(N, fields, m, f)[j]
    OBVIOUS
  <2>2. j \in 0 .. N /\ j # 0
    OBVIOUS
  <2>3. QED
    BY <2>1, <2>2 DEF Joined
<1>3. 0 \in S
  <2>1. i + 0 = i
    OBVIOUS
  <2>2. StaysIn(f, i, i)
    BY <1>1 DEF StaysIn
  <2>3. QED
    BY <2>1, <2>2
<1>4. ASSUME NEW d \in S
      PROVE  d + 1 \in S
  <2> SUFFICES ASSUME i + (d + 1) \in 0 .. N PROVE StaysIn(f, i, i + (d + 1))
    OBVIOUS
  <2>1. PICK j \in Nat : j = i + d
    OBVIOUS
  <2>2. j \in 0 .. N /\ j + 1 \in 1 .. N /\ i + (d + 1) = j + 1 /\ (j + 1) - 1 = j
    BY <2>1
  <2>3. StaysIn(f, i, j)
    BY <2>1, <2>2
  <2>4. f[j + 1] = f[j] \o Part(m, fields[j + 1]) /\ f[j] \in Seq(Int) /\ Part(m, fields[j + 1]) \in Seq(Int) /\ f[i] \in Seq(Int)
    BY <1>1, <1>2, <2>2
  <2>5. Len(f[j]) <= Len(f[j + 1]) /\ \A k \in 1 .. Len(f[j]) : f[j + 1][k] = f[j][k]
    <3> DEFINE piece == Part(m, fields[j + 1])
               base == f[j]
    <3>1. base \in Seq(Int) /\ piece \in Seq(Int) /\ f[j + 1] = base \o piece
      BY <2>4
    <3> HIDE DEF piece, base
    <3>2. Len(base \o piece) = Len(base) + Len(piece) /\ Len(base) \in Nat /\ Len(piece) \in Nat
      BY <3>1
    <3>3. \A k \in 1 .. Len(base) : (base \o piece)[k] = base[k]
      BY <3>1, <3>2
    <3> DEFINE both == base \o piece
    <3>4. both = f[j + 1] /\ Len(base) <= Len(both) /\ \A k \in 1 .. Len(base) : both[k] = base[k]
      BY <3>1, <3>2, <3>3
    <3> HIDE DEF both
    <3>5. base = f[j]
      BY DEF base
    <3>6. QED
      BY <3>4, <3>5
  <2>6. Len(f[i]) \in Nat /\ Len(f[j]) \in Nat /\ Len(f[j + 1]) \in Nat
    BY <1>1, <2>2
  <2>7. StaysIn(f, i, j + 1)
    <3> DEFINE a == Len(f[i])
               b == Len(f[j])
               c == Len(f[j + 1])
    <3>1. a \in Nat /\ b \in Nat /\ c \in Nat /\ a <= b /\ b <= c
      BY <2>3, <2>5, <2>6 DEF StaysIn
    <3>2. a <= c /\ \A k \in 1 .. a : k \in 1 .. b
      <4> HIDE DEF a, b, c
      <4>1. QED
        BY <3>1
    <3>3. QED
      BY <2>3, <2>5, <3>2 DEF StaysIn
  <2>8. QED
    BY <2>2, <2>7
<1>5. S = Nat
  <2>1. S \in SUBSET Nat
    OBVIOUS
  <2> HIDE DEF S
  <2>2. QED
    BY <1>3, <1>4, <2>1, Induction
<1>6. N - i \in Nat /\ i + (N - i) = N /\ N \in 0 .. N
  OBVIOUS
<1>7. StaysIn(f, i, N)
  <2>1. N - i \in S
    <3> HIDE DEF S
    <3>1. QED
      BY <1>5, <1>6
  <2>2. QED
    BY <1>6, <2>1
<1>8. QED
  BY <1>7


\* A number is on the wire itself, and an array is as long as its count says.
Suits(m, f) ==
    IF f[2] = "one" THEN m[f[1]] \in Int
    ELSE m[f[1]] \in Seq(Int) /\ Len(m[f[1]]) = Count(f, m)

\* What counts an array is before it.
CountedBefore(fields) ==
    \A i \in DOMAIN fields :
        fields[i][2] \in {"one", "three", "four"} \/ \E j \in 1 .. i - 1 : fields[j][1] = fields[i][2]

LEMMA PartOf ==
  ASSUME NEW m, NEW f, Suits(m, f)
  PROVE  /\ Part(m, f) \in Seq(Int) /\ Len(Part(m, f)) = Count(f, m) /\ Count(f, m) \in Nat
         /\ IF f[2] = "one" THEN Part(m, f)[1] = m[f[1]] /\ Count(f, m) = 1 ELSE Part(m, f) = m[f[1]]
<1>1. CASE f[2] = "one"
  <2>1. Count(f, m) = 1
    BY <1>1 DEF Count, Fixed
  <2>2. m[f[1]] \in Int /\ Part(m, f) = <<m[f[1]]>>
    BY <1>1 DEF Suits, Part
  <2>3. QED
    BY <1>1, <2>1, <2>2
<1>2. CASE f[2] # "one"
  <2>1. PICK s \in Seq(Int) : s = m[f[1]] /\ Len(s) = Count(f, m) /\ Part(m, f) = SubSeq(s, 1, Count(f, m))
    BY <1>2 DEF Suits, Part
  <2>2. SubSeq(s, 1, Len(s)) = s
    BY <2>1
  <2>3. Part(m, f) = s /\ Len(s) \in Nat
    BY <2>1, <2>2
  <2>4. QED
    BY <1>2, <2>1, <2>3
<1>3. QED
  BY <1>1, <1>2

\* What a message that suits its type becomes: its fingerprint, and the parts one behind the other.
LEMMA EncodeIs ==
  ASSUME NEW t, NEW m, Len(Schema[t]) \in Nat, \A i \in 1 .. Len(Schema[t]) : Suits(m, Schema[t][i])
  PROVE  \E f \in [0 .. Len(Schema[t]) -> Seq(Int)] :
            f = Joined(Len(Schema[t]), Schema[t], m, f) /\ Encode(t, m) = <<Fingerprint[t]>> \o f[Len(Schema[t])]
<1> DEFINE N == Len(Schema[t])
           whole == CHOOSE f : f = Joined(N, Schema[t], m, f)
<1>1. Encode(t, m) = <<Fingerprint[t]>> \o whole[N]
  BY DEF Encode, Joined, Part
<1>2. \A i \in 1 .. N : Part(m, Schema[t][i]) \in Seq(Int)
  BY PartOf
<1>3. \E f \in [0 .. N -> Seq(Int)] : f = Joined(N, Schema[t], m, f)
  <2>1. N \in Nat
    OBVIOUS
  <2> HIDE DEF N
  <2>2. QED
    BY <1>2, <2>1, JoinedExists
<1>4. whole = Joined(N, Schema[t], m, whole)
  BY <1>3
<1>5. whole \in [0 .. N -> Seq(Int)]
  <2>1. N \in Nat
    OBVIOUS
  <2> HIDE DEF N, whole
  <2>2. QED
    BY <1>2, <1>4, <2>1, JoinedTyped
<1>6. QED
  BY <1>1, <1>4, <1>5

\* What is read of a packet up to a field.
ReadSoFar(fields, m, f, i) ==
    [at |-> 2 + Len(f[i]), m |-> [g \in {fields[j][1] : j \in 1 .. i} |-> m[g]], ok |-> TRUE]

\* _decode_one for one field after those before it.
FieldRead(field, units, r) ==
    IF ~r.ok THEN r
    ELSE LET n == Count(field, r.m)
             value == IF field[2] = "one" THEN units[r.at] ELSE SubSeq(units, r.at, r.at + n - 1)
         IN  IF n < 0 \/ r.at + n - 1 > Len(units) THEN [r EXCEPT !.ok = FALSE]
             ELSE [at |-> r.at + n, m |-> WithField(r.m, field[1], value), ok |-> TRUE]

UnpackStep(n, fields, units, read) ==
    [i \in 0 .. n |-> IF i = 0 THEN [at |-> 2, m |-> <<>>, ok |-> TRUE] ELSE FieldRead(fields[i], units, read[i - 1])]

\* A message that suits its type, and what was written of it.
Written(N, fields, m, f) ==
    /\ N \in Nat /\ DOMAIN fields = 1 .. N /\ CountedBefore(fields) /\ \A k \in 1 .. N : Suits(m, fields[k])
    /\ f \in [0 .. N -> Seq(Int)] /\ f = Joined(N, fields, m, f)

\* What the writer has written of the first fields stays where it is.
LEMMA WrittenKeeps ==
  ASSUME NEW N, NEW fields, NEW m, NEW f, Written(N, fields, m, f), NEW i \in 0 .. N
  PROVE  StaysIn(f, i, N)
<1>1. /\ N \in Nat /\ f \in [0 .. N -> Seq(Int)] /\ f = Joined(N, fields, m, f)
      /\ \A k \in 1 .. N : Suits(m, fields[k])
  BY DEF Written
<1>2. \A k \in 1 .. N : Part(m, fields[k]) \in Seq(Int)
  BY <1>1, PartOf
<1>3. QED
  BY <1>1, <1>2, JoinedKeeps

\* A field that was written at its place is read there.
LEMMA FieldReads ==
  ASSUME NEW N, NEW fields, NEW m, NEW f, Written(N, fields, m, f), NEW print \in Int, NEW i \in 1 .. N
  PROVE  FieldRead(fields[i], <<print>> \o f[N], ReadSoFar(fields, m, f, i - 1)) = ReadSoFar(fields, m, f, i)
<1> DEFINE field == fields[i]
           r == ReadSoFar(fields, m, f, i - 1)
           units == <<print>> \o f[N]
           names == {fields[j][1] : j \in 1 .. i - 1}
           n == Count(field, m)
           at == 2 + Len(f[i - 1])
           value == IF field[2] = "one" THEN units[at] ELSE SubSeq(units, at, at + n - 1)
<1>1. /\ N \in Nat /\ DOMAIN fields = 1 .. N /\ CountedBefore(fields) /\ \A k \in 1 .. N : Suits(m, fields[k])
      /\ f \in [0 .. N -> Seq(Int)] /\ f = Joined(N, fields, m, f)
  BY DEF Written
<1> USE <1>1
<1>2. Suits(m, field) /\ i - 1 \in 0 .. N /\ i # 0 /\ i \in 0 .. N /\ N \in 0 .. N
  OBVIOUS
<1>3. /\ Part(m, field) \in Seq(Int) /\ Len(Part(m, field)) = n /\ n \in Nat
      /\ IF field[2] = "one" THEN Part(m, field)[1] = m[field[1]] /\ n = 1 ELSE Part(m, field) = m[field[1]]
  <2> HIDE DEF field
  <2>1. QED
    BY <1>2, PartOf
<1>4. f[i] = f[i - 1] \o Part(m, field)
  <2>1. f[i] = Joined(N, fields, m, f)[i]
    OBVIOUS
  <2>2. QED
    BY <1>2, <2>1 DEF Joined
<1>5. f[i - 1] \in Seq(Int) /\ f[i] \in Seq(Int) /\ f[N] \in Seq(Int)
  BY <1>2
<1>6. r.at = at /\ r.ok = TRUE /\ r.m = [g \in names |-> m[g]]
  BY DEF ReadSoFar
<1>7. Count(field, r.m) = n
  <2>1. field[2] \in {"one", "three", "four"} \/ \E j \in 1 .. i - 1 : fields[j][1] = field[2]
    BY DEF CountedBefore
  <2>2. CASE field[2] \in {"one", "three", "four"}
    <3> HIDE DEF field, r
    <3>1. QED
      BY <2>2 DEF Count, Fixed
  <2>3. CASE field[2] \in names
    <3> HIDE DEF field, r, names
    <3>1. r.m[field[2]] = m[field[2]]
      BY <1>6, <2>3
    <3>2. QED
      BY <3>1 DEF Count
  <2>4. QED
    BY <2>1, <2>2, <2>3
<1>8. /\ Len(f[i]) = Len(f[i - 1]) + n /\ Len(f[i - 1]) \in Nat /\ Len(f[i]) \in Nat /\ Len(f[N]) \in Nat
      /\ \A k \in 1 .. n : f[i][Len(f[i - 1]) + k] = Part(m, field)[k]
  <2> DEFINE before == f[i - 1]
             piece == Part(m, field)
             both == before \o piece
  <2>1. before \in Seq(Int) /\ piece \in Seq(Int) /\ Len(piece) = n /\ n \in Nat /\ both = f[i]
    BY <1>3, <1>4, <1>5
  <2> HIDE DEF before, piece, n
  <2>2. Len(both) = Len(before) + n /\ Len(before) \in Nat /\ \A k \in 1 .. n : both[Len(before) + k] = piece[k]
    <3>1. /\ Len(both) = Len(before) + Len(piece)
          /\ \A k \in 1 .. Len(before) + Len(piece) : both[k] = IF k <= Len(before) THEN before[k]
                                                              ELSE piece[k - Len(before)]
      BY <2>1, ConcatProperties
    <3>2. Len(before) \in Nat
      BY <2>1
    <3> HIDE DEF both
    <3>3. ASSUME NEW k \in 1 .. n
          PROVE  both[Len(before) + k] = piece[k]
      <4>1. Len(before) + k \in 1 .. Len(before) + Len(piece) /\ ~(Len(before) + k <= Len(before))
            /\ (Len(before) + k) - Len(before) = k
        BY <2>1, <3>2
      <4>2. QED
        BY <3>1, <4>1
    <3>4. QED
      BY <2>1, <3>1, <3>2, <3>3
  <2> HIDE DEF both
  <2>3. Len(f[N]) \in Nat
    BY <1>5
  <2>4. QED
    BY <2>1, <2>2, <2>3 DEF before, piece
<1>9. Len(f[i]) <= Len(f[N]) /\ \A k \in 1 .. Len(f[i]) : f[N][k] = f[i][k]
  <2>1. StaysIn(f, i, N)
    BY <1>3, WrittenKeeps
  <2>2. QED
    BY <2>1 DEF StaysIn
<1>10. Len(units) = 1 + Len(f[N]) /\ units \in Seq(Int) /\ \A k \in 1 .. n : units[at + k - 1] = Part(m, field)[k]
  <2> DEFINE head == <<print>>
             whole == f[N]
  <2>1. head \in Seq(Int) /\ Len(head) = 1 /\ whole \in Seq(Int) /\ units = head \o whole
    BY <1>5
  <2> HIDE DEF head, whole
  <2>2. /\ head \o whole \in Seq(Int) /\ Len(head \o whole) = Len(head) + Len(whole)
        /\ \A k \in 1 .. Len(head) + Len(whole) : (head \o whole)[k] = IF k <= Len(head) THEN head[k]
                                                                    ELSE whole[k - Len(head)]
    BY <2>1, ConcatProperties
  <2> HIDE DEF units
  <2>3. /\ units \in Seq(Int) /\ Len(units) = 1 + Len(whole)
        /\ \A k \in 1 .. 1 + Len(whole) : units[k] = IF k <= 1 THEN head[k] ELSE whole[k - 1]
    BY <2>1, <2>2
  <2>4. whole = f[N]
    BY DEF whole
  <2> HIDE DEF n
  <2>5. ASSUME NEW k \in 1 .. n
        PROVE  units[at + k - 1] = Part(m, field)[k]
    <3> DEFINE j == Len(f[i - 1]) + k
    <3>1. j \in 1 .. Len(f[i]) /\ j + 1 \in 1 .. 1 + Len(whole) /\ ~(j + 1 <= 1) /\ at + k - 1 = j + 1 /\ (j + 1) - 1 = j
      <4> DEFINE p == Len(f[i - 1])
                 q == Len(f[i])
                 z == Len(f[N])
      <4>1. p \in Nat /\ q \in Nat /\ z \in Nat /\ n \in Nat /\ q = p + n /\ q <= z /\ Len(whole) = z /\ at = 2 + p /\ j = p + k
        BY <1>3, <1>8, <1>9, <2>4
      <4> HIDE DEF p, z, at, j
      <4>2. j \in 1 .. q /\ j + 1 \in 1 .. 1 + z /\ ~(j + 1 <= 1) /\ at + k - 1 = j + 1 /\ (j + 1) - 1 = j
        <5> HIDE DEF q
        <5>1. QED
          BY <4>1
      <4>3. QED
        BY <4>1, <4>2
    <3>2. f[i][j] = Part(m, field)[k]
      BY <1>8
    <3> HIDE DEF j, at
    <3>3. units[j + 1] = whole[j]
      BY <2>3, <3>1
    <3>4. whole[j] = f[i][j]
      BY <1>9, <2>4, <3>1
    <3>5. QED
      BY <3>1, <3>2, <3>3, <3>4
  <2>6. QED
    BY <2>3, <2>4, <2>5
<1>11. at + n - 1 <= Len(units) /\ ~(n < 0) /\ at \in Nat /\ at >= 2 /\ Len(units) \in Nat /\ n \in Nat
  <2> DEFINE p == Len(f[i - 1])
             q == Len(f[i])
             z == Len(f[N])
  <2>1. p \in Nat /\ q \in Nat /\ z \in Nat /\ n \in Nat /\ q = p + n /\ q <= z /\ Len(units) = 1 + z /\ at = 2 + p
    BY <1>3, <1>8, <1>9, <1>10
  <2> HIDE DEF p, q, z, n, units, at
  <2>2. QED
    BY <2>1
<1>12. value = m[field[1]]
  <2>1. CASE field[2] = "one"
    <3>1. n = 1 /\ 1 \in 1 .. 1
      BY <1>3, <2>1
    <3>2. units[at + 1 - 1] = Part(m, field)[1] /\ at + 1 - 1 = at
      <4> HIDE DEF n, units, at
      <4>1. QED
        BY <1>10, <1>11, <3>1
    <3>3. Part(m, field)[1] = m[field[1]]
      BY <1>3, <2>1
    <3> HIDE DEF units, at, n, field
    <3>4. QED
      BY <2>1, <3>2, <3>3
  <2>2. CASE field[2] # "one"
    <3> DEFINE piece == Part(m, field)
               got == SubSeq(units, at, at + n - 1)
    <3>1. piece = m[field[1]] /\ piece \in Seq(Int) /\ Len(piece) = n
      BY <1>3, <2>2
    <3>2. \A k \in at .. at + n - 1 : units[k] \in Int
      <4> HIDE DEF n, units, at
      <4>1. units \in Seq(Int)
        BY <1>10
      <4>2. \A k \in at .. at + n - 1 : k \in 1 .. Len(units)
        BY <1>11
      <4>3. \A k \in 1 .. Len(units) : units[k] \in Int
        BY <4>1
      <4>4. QED
        BY <4>2, <4>3
    <3>3. got \in Seq(Int) /\ Len(got) = n /\ \A k \in 1 .. n : got[k] = units[at + k - 1]
      <4> HIDE DEF n, units, at
      <4>1. at \in Int /\ at + n - 1 \in Int /\ (at + n - 1) - at + 1 = n /\ (at <= at + n - 1 <=> n # 0)
        BY <1>3, <1>11
      <4>2. /\ got \in Seq(Int) /\ Len(got) = IF at <= at + n - 1 THEN (at + n - 1) - at + 1 ELSE 0
            /\ \A k \in 1 .. (at + n - 1) - at + 1 : got[k] = units[at + k - 1]
        BY <3>2, <4>1, SubSeqProperties
      <4> HIDE DEF got
      <4>3. QED
        BY <4>1, <4>2
    <3>4. value = got
      BY <2>2
    <3>5. \A k \in 1 .. n : units[at + k - 1] = piece[k]
      BY <1>10
    <3> HIDE DEF got, piece, n, units, at, value
    <3>6. got = piece
      <4>1. got \in Seq(Int) /\ piece \in Seq(Int) /\ Len(got) = Len(piece) /\ \A k \in 1 .. Len(got) : got[k] = piece[k]
        BY <3>1, <3>3, <3>5
      <4>2. QED
        BY <4>1, SeqEqual
    <3>7. QED
      BY <3>1, <3>4, <3>6
  <2>3. QED
    BY <2>1, <2>2
<1>13. FieldRead(field, units, r) = [at |-> at + n, m |-> WithField(r.m, field[1], value), ok |-> TRUE]
  <2>1. value = IF field[2] = "one" THEN units[r.at] ELSE SubSeq(units, r.at, r.at + n - 1)
    BY <1>6
  <2> HIDE DEF field, units, r, n, at, value
  <2>2. QED
    <3>1. ~(n < 0 \/ at + n - 1 > Len(units))
      BY <1>11
    <3>2. r.ok /\ r.at = at
      BY <1>6
    <3>3. FieldRead(field, units, r) =
            [at |-> r.at + n, m |-> WithField(r.m, field[1], value), ok |-> TRUE]
      BY <1>7, <2>1, <3>1, <3>2 DEF FieldRead
    <3>4. QED
      BY <3>2, <3>3
<1>14. WithField(r.m, field[1], value) = [g \in {fields[j][1] : j \in 1 .. i} |-> m[g]]
  <2> DEFINE more == {fields[j][1] : j \in 1 .. i}
  <2>1. more = names \cup {field[1]}
    <3>1. \A j : j \in 1 .. i <=> j \in 1 .. i - 1 \/ j = i
      BY <1>2
    <3>2. QED
      BY <3>1
  <2> HIDE DEF more, names, field, value, r
  <2>2. DOMAIN r.m = names /\ \A g \in names : r.m[g] = m[g]
    BY <1>6
  <2>3. WithField(r.m, field[1], value) = [g \in more |-> IF g = field[1] THEN value ELSE r.m[g]]
    BY <2>1, <2>2 DEF WithField
  <2>4. \A g \in more : (IF g = field[1] THEN value ELSE r.m[g]) = m[g]
    BY <1>12, <2>1, <2>2
  <2>5. [g \in more |-> IF g = field[1] THEN value ELSE r.m[g]] = [g \in more |-> m[g]]
    BY <2>4
  <2>6. QED
    BY <2>3, <2>5 DEF more
<1>15. at + n = 2 + Len(f[i])
  <2> HIDE DEF n
  <2>1. QED
    BY <1>3, <1>8
<1>16. QED
  <2> HIDE DEF n, at, r, units, value
  <2>1. FieldRead(field, units, r) = ReadSoFar(fields, m, f, i)
    BY <1>13, <1>14, <1>15 DEF ReadSoFar
  <2>2. QED
    BY <2>1 DEF r, units

WellFormed(t) ==
    /\ Len(Schema[t]) \in Nat /\ DOMAIN Schema[t] = 1 .. Len(Schema[t]) /\ Fingerprint[t] \in Int
    /\ CountedBefore(Schema[t])

SuitsType(m, t) == \A i \in 1 .. Len(Schema[t]) : Suits(m, Schema[t][i])

FieldNames(t) == {Schema[t][j][1] : j \in 1 .. Len(Schema[t])}

\* What a decoder makes of a message that was encoded.
Read(t, r) == [g \in FieldNames(t) |-> r[g]]

\* What suits its type is read as it was written.
LEMMA ReadsAsWritten ==
  ASSUME NEW t, NEW m, WellFormed(t), SuitsType(m, t)
  PROVE  Decodable(t, Encode(t, m)) /\ Decode(t, Encode(t, m)) = Read(t, m)
<1> DEFINE N == Len(Schema[t])
           fields == Schema[t]
<1> USE DEF WellFormed, SuitsType
<1>1. \E f : Written(N, fields, m, f) /\ Encode(t, m) = <<Fingerprint[t]>> \o f[N]
  BY EncodeIs DEF Written
<1>2. PICK f : Written(N, fields, m, f) /\ Encode(t, m) = <<Fingerprint[t]>> \o f[N]
  BY <1>1
<1> DEFINE units == <<Fingerprint[t]>> \o f[N]
           W == [i \in 0 .. N |-> ReadSoFar(fields, m, f, i)]
<1>3. \A i \in 1 .. N : FieldRead(fields[i], units, ReadSoFar(fields, m, f, i - 1)) = ReadSoFar(fields, m, f, i)
  <2> DEFINE print == Fingerprint[t]
  <2>1. print \in Int /\ Written(N, fields, m, f)
    BY <1>2
  <2> HIDE DEF N, print, fields
  <2>2. \A i \in 1 .. N : FieldRead(fields[i], <<print>> \o f[N], ReadSoFar(fields, m, f, i - 1))
                           = ReadSoFar(fields, m, f, i)
    BY <2>1, FieldReads
  <2>3. QED
    BY <2>2 DEF print
<1>4. ReadSoFar(fields, m, f, 0) = [at |-> 2, m |-> <<>>, ok |-> TRUE]
  <2>1. f[0] = <<>>
    <3>1. f[0] = Joined(N, fields, m, f)[0] /\ 0 \in 0 .. N
      BY <1>2 DEF Written
    <3>2. QED
      BY <3>1 DEF Joined
  <2>2. Len(f[0]) = 0
    BY <2>1
  <2> DEFINE none == [g \in {fields[j][1] : j \in 1 .. 0} |-> m[g]]
  <2>3. none = <<>>
    OBVIOUS
  <2>4. ReadSoFar(fields, m, f, 0) = [at |-> 2 + Len(f[0]), m |-> none, ok |-> TRUE]
    BY DEF ReadSoFar
  <2> HIDE DEF none
  <2>5. 2 + Len(f[0]) = 2
    BY <2>2
  <2>6. QED
    BY <2>3, <2>4, <2>5
<1>5. W = UnpackStep(N, fields, units, W)
  <2> HIDE DEF units, fields, N
  <2>1. ASSUME NEW i \in 0 .. N
        PROVE  ReadSoFar(fields, m, f, i) = IF i = 0 THEN [at |-> 2, m |-> <<>>, ok |-> TRUE]
                                            ELSE FieldRead(fields[i], units, W[i - 1])
    <3>1. CASE i = 0
      BY <1>4, <3>1
    <3>2. CASE i # 0
      <4>1. i \in 1 .. N /\ i - 1 \in 0 .. N
        BY <3>2 DEF N
      <4>2. W[i - 1] = ReadSoFar(fields, m, f, i - 1)
        BY <4>1
      <4>3. QED
        BY <1>3, <3>2, <4>1, <4>2
    <3>3. QED
      BY <3>1, <3>2
  <2>2. QED
    BY <2>1 DEF UnpackStep
<1> DEFINE read == CHOOSE g : g = UnpackStep(N, fields, units, g)
<1>6. Unpacked(t, units) = read[N]
  BY DEF Unpacked, UnpackStep, FieldRead
<1>7. read = UnpackStep(N, fields, units, read)
  BY <1>5
<1>8. read[N] = W[N]
  <2> DEFINE S == {k \in Nat : k \in 0 .. N => read[k] = W[k]}
  <2>1. ASSUME NEW i \in 0 .. N
        PROVE  /\ read[i] = IF i = 0 THEN [at |-> 2, m |-> <<>>, ok |-> TRUE] ELSE FieldRead(fields[i], units, read[i - 1])
               /\ W[i] = IF i = 0 THEN [at |-> 2, m |-> <<>>, ok |-> TRUE] ELSE FieldRead(fields[i], units, W[i - 1])
    <3> HIDE DEF units, fields, N, read, W
    <3>1. read[i] = UnpackStep(N, fields, units, read)[i] /\ W[i] = UnpackStep(N, fields, units, W)[i]
      BY <1>5, <1>7
    <3>2. QED
      BY <3>1 DEF UnpackStep
  <2>2. N \in Nat
    OBVIOUS
  <2> HIDE DEF units, fields, N, read, W
  <2>3. 0 \in S
    <3>1. 0 \in 0 .. N
      BY <2>2
    <3>2. QED
      BY <2>1, <3>1
  <2>4. ASSUME NEW k \in S
        PROVE  k + 1 \in S
    <3> SUFFICES ASSUME k + 1 \in 0 .. N PROVE read[k + 1] = W[k + 1]
      OBVIOUS
    <3>1. k \in 0 .. N /\ k + 1 # 0 /\ (k + 1) - 1 = k
      BY <2>2
    <3>2. read[k] = W[k]
      BY <3>1
    <3>3. QED
      BY <2>1, <3>1, <3>2
  <2>5. S = Nat
    <3>1. S \in SUBSET Nat
      OBVIOUS
    <3> HIDE DEF S
    <3>2. QED
      BY <2>3, <2>4, <3>1, Induction
  <2>6. N \in 0 .. N /\ N \in Nat
    BY <2>2
  <2>7. QED
    BY <2>5, <2>6
<1>9. Unpacked(t, units) = ReadSoFar(fields, m, f, N)
  <2>1. N \in 0 .. N
    OBVIOUS
  <2>2. W[N] = ReadSoFar(fields, m, f, N)
    BY <2>1
  <2> HIDE DEF units, read, W, N, fields
  <2>3. QED
    BY <1>6, <1>8, <2>2
<1>10. units[1] = Fingerprint[t]
  <2>1. <<Fingerprint[t]>> \in Seq(Int) /\ f[N] \in Seq(Int)
    BY <1>2 DEF Written
  <2>2. QED
    BY <2>1
<1>11. Encode(t, m) = units
  BY <1>2
<1>12. QED
  <2> HIDE DEF units
  <2>1. Decodable(t, units)
    BY <1>9, <1>10 DEF Decodable, ReadSoFar
  <2>2. Decode(t, units) = Read(t, m)
    BY <1>9 DEF Decode, ReadSoFar, Read, FieldNames
  <2>3. QED
    BY <1>11, <2>1, <2>2
-----------------------------------------------------------------------------
(* The types on the wire.                                                  *)

LEMMA SchemasWellFormed ==
  ASSUME NEW t \in DOMAIN Schema
  PROVE  WellFormed(t)
<1>1. CASE t = "actuator_health_report"
  <2>1. Schema[t] = actuator_health_report_t /\ Fingerprint[t] \in Int
    BY <1>1 DEF Schema, Fingerprint
  <2>2. Len(actuator_health_report_t) = 9 /\ DOMAIN actuator_health_report_t = 1 .. 9
    BY DEF actuator_health_report_t
  <2>3. CountedBefore(actuator_health_report_t)
    BY DEF CountedBefore, actuator_health_report_t
  <2>4. QED
    BY <2>1, <2>2, <2>3 DEF WellFormed
<1>2. CASE t = "homing_target"
  <2>1. Schema[t] = homing_target_t /\ Fingerprint[t] \in Int
    BY <1>2 DEF Schema, Fingerprint
  <2>2. Len(homing_target_t) = 3 /\ DOMAIN homing_target_t = 1 .. 3
    BY DEF homing_target_t
  <2>3. CountedBefore(homing_target_t)
    BY DEF CountedBefore, homing_target_t
  <2>4. QED
    BY <2>1, <2>2, <2>3 DEF WellFormed
<1>3. CASE t = "logging_status"
  <2>1. Schema[t] = logging_status_t /\ Fingerprint[t] \in Int
    BY <1>3 DEF Schema, Fingerprint
  <2>2. Len(logging_status_t) = 4 /\ DOMAIN logging_status_t = 1 .. 4
    BY DEF logging_status_t
  <2>3. CountedBefore(logging_status_t)
    BY DEF CountedBefore, logging_status_t
  <2>4. QED
    BY <2>1, <2>2, <2>3 DEF WellFormed
<1>4. CASE t = "node_rate_sample"
  <2>1. Schema[t] = node_rate_sample_t /\ Fingerprint[t] \in Int
    BY <1>4 DEF Schema, Fingerprint
  <2>2. Len(node_rate_sample_t) = 7 /\ DOMAIN node_rate_sample_t = 1 .. 7
    BY DEF node_rate_sample_t
  <2>3. CountedBefore(node_rate_sample_t)
    BY DEF CountedBefore, node_rate_sample_t
  <2>4. QED
    BY <2>1, <2>2, <2>3 DEF WellFormed
<1>5. CASE t = "orchestrator_event"
  <2>1. Schema[t] = orchestrator_event_t /\ Fingerprint[t] \in Int
    BY <1>5 DEF Schema, Fingerprint
  <2>2. Len(orchestrator_event_t) = 2 /\ DOMAIN orchestrator_event_t = 1 .. 2
    BY DEF orchestrator_event_t
  <2>3. CountedBefore(orchestrator_event_t)
    BY DEF CountedBefore, orchestrator_event_t
  <2>4. QED
    BY <2>1, <2>2, <2>3 DEF WellFormed
<1>6. CASE t = "orchestrator_mode"
  <2>1. Schema[t] = orchestrator_mode_t /\ Fingerprint[t] \in Int
    BY <1>6 DEF Schema, Fingerprint
  <2>2. Len(orchestrator_mode_t) = 2 /\ DOMAIN orchestrator_mode_t = 1 .. 2
    BY DEF orchestrator_mode_t
  <2>3. CountedBefore(orchestrator_mode_t)
    BY DEF CountedBefore, orchestrator_mode_t
  <2>4. QED
    BY <2>1, <2>2, <2>3 DEF WellFormed
<1>7. CASE t = "robot_base_command"
  <2>1. Schema[t] = robot_base_command_t /\ Fingerprint[t] \in Int
    BY <1>7 DEF Schema, Fingerprint
  <2>2. Len(robot_base_command_t) = 3 /\ DOMAIN robot_base_command_t = 1 .. 3
    BY DEF robot_base_command_t
  <2>3. CountedBefore(robot_base_command_t)
    BY DEF CountedBefore, robot_base_command_t
  <2>4. QED
    BY <2>1, <2>2, <2>3 DEF WellFormed
<1>8. CASE t = "robot_joint_command"
  <2>1. Schema[t] = robot_joint_command_t /\ Fingerprint[t] \in Int
    BY <1>8 DEF Schema, Fingerprint
  <2>2. Len(robot_joint_command_t) = 5 /\ DOMAIN robot_joint_command_t = 1 .. 5
    BY DEF robot_joint_command_t
  <2>3. CountedBefore(robot_joint_command_t)
    BY DEF CountedBefore, robot_joint_command_t
  <2>4. QED
    BY <2>1, <2>2, <2>3 DEF WellFormed
<1>9. CASE t = "robot_state"
  <2>1. Schema[t] = robot_state_t /\ Fingerprint[t] \in Int
    BY <1>9 DEF Schema, Fingerprint
  <2>2. Len(robot_state_t) = 10 /\ DOMAIN robot_state_t = 1 .. 10
    BY DEF robot_state_t
  <2>3. CountedBefore(robot_state_t)
    BY DEF CountedBefore, robot_state_t
  <2>4. QED
    BY <2>1, <2>2, <2>3 DEF WellFormed
<1>10. CASE t = "robot_tool_command"
  <2>1. Schema[t] = robot_tool_command_t /\ Fingerprint[t] \in Int
    BY <1>10 DEF Schema, Fingerprint
  <2>2. Len(robot_tool_command_t) = 8 /\ DOMAIN robot_tool_command_t = 1 .. 8
    BY DEF robot_tool_command_t
  <2>3. CountedBefore(robot_tool_command_t)
    BY DEF CountedBefore, robot_tool_command_t
  <2>4. QED
    BY <2>1, <2>2, <2>3 DEF WellFormed
<1>11. QED
  BY <1>1, <1>2, <1>3, <1>4, <1>5, <1>6, <1>7, <1>8, <1>9, <1>10 DEF Schema

\* A message suits its type on the wire, and comes back as it was.
Carried(t, m) ==
    /\ \A i \in 1 .. Len(Schema[t]) : Suits(ToLcm(m), Schema[t][i])
    /\ EnumReadable(t, Read(t, ToLcm(m)))
    /\ SameMessage(m, FromLcm(t, Read(t, ToLcm(m))))

LEMMA ArraysAgain ==
  ASSUME NEW x
  PROVE  ArrayOrNone(ArrayOf(x)) = x \/ (x = <<>> /\ ArrayOrNone(ArrayOf(x)) = NoValue)
BY DEF ArrayOrNone, ArrayOf

LEMMA TextsAgain ==
  ASSUME NEW x, x # 0
  PROVE  TextOrNone(TextOf(x)) = x
BY DEF TextOrNone, TextOf

LEMMA JointCommandCarried ==
  ASSUME NEW m \in RobotJointCommand
  PROVE  Carried("robot_joint_command", m)
<1> DEFINE t == "robot_joint_command"
           r == robot_joint_command_to_lcm(m)
           d == Read(t, r)
           v == ArrayOf(m.joint_velocities)
<1>1. ToLcm(m) = r /\ Schema[t] = robot_joint_command_t /\ FromLcm(t, d) = robot_joint_command_from_lcm(d)
  BY DEF ToLcm, FromLcm, Schema, RobotJointCommand
<1>2. m.timestamp \in Int /\ m.joint_positions \in Seq(Int) /\ v \in Seq(Int)
  BY DEF RobotJointCommand, ArrayOf
<1>3. /\ r.timestamp = m.timestamp /\ r.num_positions = Len(m.joint_positions)
      /\ r.joint_positions = m.joint_positions /\ r.num_velocities = Len(v) /\ r.joint_velocities = v
  BY DEF robot_joint_command_to_lcm
<1>4. \A i \in 1 .. Len(Schema[t]) : Suits(r, Schema[t][i])
  <2> HIDE DEF r, v, d
  <2>1. /\ Suits(r, <<"timestamp", "one">>) /\ Suits(r, <<"num_positions", "one">>)
        /\ Suits(r, <<"num_velocities", "one">>)
    BY <1>2, <1>3 DEF Suits
  <2>2. Suits(r, <<"joint_positions", "num_positions">>) /\ Suits(r, <<"joint_velocities", "num_velocities">>)
    BY <1>2, <1>3 DEF Suits, Count, Fixed
  <2>3. QED
    BY <1>1, <2>1, <2>2 DEF robot_joint_command_t
<1>5. FieldNames(t) = {"timestamp", "num_positions", "num_velocities", "joint_positions", "joint_velocities"}
  BY <1>1 DEF FieldNames, robot_joint_command_t
<1>6. d.timestamp = m.timestamp /\ d.joint_positions = m.joint_positions /\ d.joint_velocities = v
  <2> HIDE DEF r, v
  <2>1. QED
    BY <1>3, <1>5 DEF Read
<1>7. EnumReadable(t, d)
  BY DEF EnumReadable
<1>8. SameMessage(m, robot_joint_command_from_lcm(d))
  <2> DEFINE b == robot_joint_command_from_lcm(d)
  <2>1. b = [type |-> t, timestamp |-> m.timestamp, joint_positions |-> m.joint_positions,
             joint_velocities |-> ArrayOrNone(v)]
    BY <1>6 DEF robot_joint_command_from_lcm
  <2> HIDE DEF b, d, r
  <2>2. DOMAIN m = DOMAIN b /\ m.type = t /\ b.type = t
    BY <2>1 DEF RobotJointCommand
  <2>3. m.joint_velocities = b.joint_velocities \/ (m.joint_velocities = <<>> /\ b.joint_velocities = NoValue)
    BY <2>1, ArraysAgain
  <2>4. DOMAIN m = {"type", "timestamp", "joint_positions", "joint_velocities"}
    BY DEF RobotJointCommand
  <2>5. b.timestamp = m.timestamp /\ b.joint_positions = m.joint_positions
    BY <2>1
  <2>6. SameMessage(m, b)
    BY <2>2, <2>3, <2>4, <2>5 DEF SameMessage, Optional
  <2>7. QED
    BY <2>6 DEF b
<1>9. QED
  <2> HIDE DEF d, r
  <2>1. QED
    BY <1>1, <1>4, <1>7, <1>8 DEF Carried, d

LEMMA PosesAre ==
  ASSUME NEW x \in SE3
  PROVE  x = <<x[1], x[2]>> /\ x[1] \in Seq(Int) /\ Len(x[1]) = 3 /\ x[2] \in Seq(Int) /\ Len(x[2]) = 4
<1>1. x = <<x[1], x[2]>> /\ x[1] \in [1 .. 3 -> Int] /\ x[2] \in [1 .. 4 -> Int]
  BY DEF SE3
<1>2. ASSUME NEW n \in Nat, NEW f \in [1 .. n -> Int]
      PROVE  f \in Seq(Int) /\ Len(f) = n
  OBVIOUS
<1>3. QED
  BY <1>1, <1>2

LEMMA VelocitiesAre ==
  ASSUME NEW x \in CartesianVelocity
  PROVE  x = <<x[1], x[2]>> /\ x[1] \in Seq(Int) /\ Len(x[1]) = 3 /\ x[2] \in Seq(Int) /\ Len(x[2]) = 3
<1>1. x = <<x[1], x[2]>> /\ x[1] \in [1 .. 3 -> Int] /\ x[2] \in [1 .. 3 -> Int]
  BY DEF CartesianVelocity
<1>2. ASSUME NEW n \in Nat, NEW f \in [1 .. n -> Int]
      PROVE  f \in Seq(Int) /\ Len(f) = n
  OBVIOUS
<1>3. QED
  BY <1>1, <1>2

LEMMA TextsAre ==
  ASSUME NEW x \in Text
  PROVE  x # 0 /\ TextOf(x) \in Int
BY MessagesAssumption DEF Text, TextOf

LEMMA BaseCommandCarried ==
  ASSUME NEW m \in RobotBaseCommand
  PROVE  Carried("robot_base_command", m)
<1> DEFINE t == "robot_base_command"
           r == robot_base_command_to_lcm(m)
           d == Read(t, r)
           p == m.pose[1]
           q == m.pose[2]
<1>1. ToLcm(m) = r /\ Schema[t] = robot_base_command_t /\ FromLcm(t, d) = robot_base_command_from_lcm(d)
  BY DEF ToLcm, FromLcm, Schema, RobotBaseCommand
<1>2. m.timestamp \in Int /\ p \in Seq(Int) /\ Len(p) = 3 /\ q \in Seq(Int) /\ Len(q) = 4 /\ m.pose = <<p, q>>
  <2>1. m.timestamp \in Int /\ m.pose \in SE3
    BY DEF RobotBaseCommand
  <2>2. QED
    BY <2>1, PosesAre
<1>3. /\ r.timestamp = m.timestamp
      /\ r.position = p
      /\ r.quaternion = q
  BY DEF robot_base_command_to_lcm
<1>4. \A i \in 1 .. Len(Schema[t]) : Suits(r, Schema[t][i])
  <2> HIDE DEF r, d, p, q
  <2>1. Suits(r, <<"timestamp", "one">>)
    BY <1>2, <1>3 DEF Suits, Count, Fixed
  <2>2. Suits(r, <<"position", "three">>)
    BY <1>2, <1>3 DEF Suits, Count, Fixed
  <2>3. Suits(r, <<"quaternion", "four">>)
    BY <1>2, <1>3 DEF Suits, Count, Fixed
  <2>4. QED
    BY <1>1, <2>1, <2>2, <2>3 DEF robot_base_command_t
<1>5. FieldNames(t) = {"timestamp", "position", "quaternion"}
  BY <1>1 DEF FieldNames, robot_base_command_t
<1>6. /\ d.timestamp = m.timestamp
      /\ d.position = p
      /\ d.quaternion = q
  <2> HIDE DEF r, p, q
  <2>1. QED
    BY <1>3, <1>5 DEF Read
<1>7. EnumReadable(t, d)
  <2> HIDE DEF d, r
  <2>1. QED
    BY <1>2, <1>6 DEF EnumReadable
<1>8. SameMessage(m, robot_base_command_from_lcm(d))
  <2> DEFINE b == robot_base_command_from_lcm(d)
  <2>1. b = [type |-> t, timestamp |-> m.timestamp,
             pose |-> <<p, q>>]
    <3> HIDE DEF d, r, p, q
    <3>1. QED
      BY <1>6 DEF robot_base_command_from_lcm
  <2> HIDE DEF b, d, r
  <2>2. DOMAIN m = DOMAIN b /\ m.type = t /\ b.type = t
    BY <2>1 DEF RobotBaseCommand
  <2>3. DOMAIN m = {"type", "timestamp", "pose"}
    BY DEF RobotBaseCommand
  <2>4. b.timestamp = m.timestamp /\ b.pose = m.pose
    BY <1>2, <2>1
  <2>5. SameMessage(m, b)
    BY <2>2, <2>3, <2>4 DEF SameMessage, Optional
  <2>6. QED
    BY <2>5 DEF b
<1>9. QED
  <2> HIDE DEF d, r
  <2>1. QED
    BY <1>1, <1>4, <1>7, <1>8 DEF Carried, d

LEMMA HomingTargetCarried ==
  ASSUME NEW m \in HomingTarget
  PROVE  Carried("homing_target", m)
<1> DEFINE t == "homing_target"
           r == homing_target_to_lcm(m)
           d == Read(t, r)
<1>1. ToLcm(m) = r /\ Schema[t] = homing_target_t /\ FromLcm(t, d) = homing_target_from_lcm(d)
  BY DEF ToLcm, FromLcm, Schema, HomingTarget
<1>2. m.timestamp \in Int /\ m.target_position \in Seq(Int)
  BY DEF HomingTarget
<1>3. /\ r.timestamp = m.timestamp
      /\ r.num_positions = Len(m.target_position)
      /\ r.target_position = m.target_position
  BY DEF homing_target_to_lcm
<1>4. \A i \in 1 .. Len(Schema[t]) : Suits(r, Schema[t][i])
  <2> HIDE DEF r, d
  <2>1. QED
    BY <1>1, <1>2, <1>3 DEF homing_target_t, Suits, Count, Fixed
<1>5. FieldNames(t) = {"timestamp", "num_positions", "target_position"}
  BY <1>1 DEF FieldNames, homing_target_t
<1>6. /\ d.timestamp = m.timestamp
      /\ d.num_positions = Len(m.target_position)
      /\ d.target_position = m.target_position
  <2> HIDE DEF r
  <2>1. QED
    BY <1>3, <1>5 DEF Read
<1>7. EnumReadable(t, d)
  <2> HIDE DEF d, r
  <2>1. QED
    BY <1>2, <1>6 DEF EnumReadable
<1>8. SameMessage(m, homing_target_from_lcm(d))
  <2> DEFINE b == homing_target_from_lcm(d)
  <2>1. b = [type |-> t, timestamp |-> m.timestamp,
             target_position |-> m.target_position]
    <3> HIDE DEF d, r
    <3>1. QED
      BY <1>6 DEF homing_target_from_lcm
  <2> HIDE DEF b, d, r
  <2>2. DOMAIN m = DOMAIN b /\ m.type = t /\ b.type = t
    BY <2>1 DEF HomingTarget
  <2>3. DOMAIN m = {"type", "timestamp", "target_position"}
    BY DEF HomingTarget
  <2>4. b.timestamp = m.timestamp /\ b.target_position = m.target_position
    BY <2>1
  <2>5. SameMessage(m, b)
    BY <2>2, <2>3, <2>4 DEF SameMessage, Optional
  <2>6. QED
    BY <2>5 DEF b
<1>9. QED
  <2> HIDE DEF d, r
  <2>1. QED
    BY <1>1, <1>4, <1>7, <1>8 DEF Carried, d

LEMMA LoggingStatusCarried ==
  ASSUME NEW m \in LoggingStatus
  PROVE  Carried("logging_status", m)
<1> DEFINE t == "logging_status"
           r == logging_status_to_lcm(m)
           d == Read(t, r)
           file == TextOf(m.file_name)
           fault == TextOf(m.error)
<1>1. ToLcm(m) = r /\ Schema[t] = logging_status_t /\ FromLcm(t, d) = logging_status_from_lcm(d)
  BY DEF ToLcm, FromLcm, Schema, LoggingStatus
<1>2. m.timestamp \in Int /\ m.state \in 1 .. 5 /\ file \in Int /\ fault \in Int /\ m.file_name # 0 /\ m.error # 0
  <2>1. m.timestamp \in Int /\ m.state \in 1 .. 5 /\ m.file_name \in Text /\ m.error \in Text
    BY DEF LoggingStatus
  <2>2. QED
    BY <2>1, TextsAre
<1>3. /\ r.timestamp = m.timestamp
      /\ r.state = m.state
      /\ r.file_name = file
      /\ r.error = fault
  BY DEF logging_status_to_lcm
<1>4. \A i \in 1 .. Len(Schema[t]) : Suits(r, Schema[t][i])
  <2> HIDE DEF r, d, file, fault
  <2>1. QED
    BY <1>1, <1>2, <1>3 DEF logging_status_t, Suits, Count, Fixed
<1>5. FieldNames(t) = {"timestamp", "state", "file_name", "error"}
  BY <1>1 DEF FieldNames, logging_status_t
<1>6. /\ d.timestamp = m.timestamp
      /\ d.state = m.state
      /\ d.file_name = file
      /\ d.error = fault
  <2> HIDE DEF r, file, fault
  <2>1. QED
    BY <1>3, <1>5 DEF Read
<1>7. EnumReadable(t, d)
  <2> HIDE DEF d, r
  <2>1. QED
    BY <1>2, <1>6 DEF EnumReadable
<1>8. SameMessage(m, logging_status_from_lcm(d))
  <2> DEFINE b == logging_status_from_lcm(d)
  <2>1. b = [type |-> t, timestamp |-> m.timestamp,
             state |-> m.state,
             file_name |-> TextOrNone(file),
             error |-> TextOrNone(fault)]
    <3> HIDE DEF d, r, file, fault
    <3>1. QED
      BY <1>6 DEF logging_status_from_lcm
  <2> HIDE DEF b, d, r
  <2>2. DOMAIN m = DOMAIN b /\ m.type = t /\ b.type = t
    BY <2>1 DEF LoggingStatus
  <2>3. DOMAIN m = {"type", "timestamp", "state", "file_name", "error"}
    BY DEF LoggingStatus
  <2>4. b.timestamp = m.timestamp /\ b.state = m.state
    BY <2>1
  <2>5. b.file_name = m.file_name /\ b.error = m.error
    BY <1>2, <2>1, TextsAgain
  <2>6. SameMessage(m, b)
    BY <2>2, <2>3, <2>4, <2>5 DEF SameMessage, Optional
  <2>7. QED
    BY <2>6 DEF b
<1>9. QED
  <2> HIDE DEF d, r
  <2>1. QED
    BY <1>1, <1>4, <1>7, <1>8 DEF Carried, d

LEMMA ToolCommandCarried ==
  ASSUME NEW m \in RobotToolCommand
  PROVE  Carried("robot_tool_command", m)
<1> DEFINE t == "robot_tool_command"
           r == robot_tool_command_to_lcm(m)
           d == Read(t, r)
           p == m.pose[1]
           q == m.pose[2]
           g == ArrayOf(m.gripper_positions)
           moving == IF m.velocity = NoValue THEN 0 ELSE 1
           linear == IF m.velocity = NoValue THEN <<0, 0, 0>> ELSE m.velocity[1]
           angular == IF m.velocity = NoValue THEN <<0, 0, 0>> ELSE m.velocity[2]
<1>1. ToLcm(m) = r /\ Schema[t] = robot_tool_command_t /\ FromLcm(t, d) = robot_tool_command_from_lcm(d)
  BY DEF ToLcm, FromLcm, Schema, RobotToolCommand
<1>2. m.timestamp \in Int /\ p \in Seq(Int) /\ Len(p) = 3 /\ q \in Seq(Int) /\ Len(q) = 4 /\ m.pose = <<p, q>>
      /\ g \in Seq(Int) /\ moving \in Int /\ linear \in Seq(Int) /\ Len(linear) = 3 /\ angular \in Seq(Int) /\ Len(angular) = 3
      /\ m.velocity = (IF moving = 0 THEN NoValue ELSE <<linear, angular>>)
  <2>1. /\ m.timestamp \in Int /\ m.pose \in SE3 /\ m.gripper_positions \in Seq(Int) \cup {NoValue}
        /\ m.velocity \in CartesianVelocity \cup {NoValue}
    BY DEF RobotToolCommand
  <2>2. p \in Seq(Int) /\ Len(p) = 3 /\ q \in Seq(Int) /\ Len(q) = 4 /\ m.pose = <<p, q>>
    BY <2>1, PosesAre
  <2>3. g \in Seq(Int)
    BY <2>1 DEF ArrayOf
  <2>4. linear \in Seq(Int) /\ Len(linear) = 3 /\ angular \in Seq(Int) /\ Len(angular) = 3
    <3>1. CASE m.velocity = NoValue
      BY <3>1
    <3>2. CASE m.velocity # NoValue
      <4>1. m.velocity \in CartesianVelocity
        BY <2>1, <3>2
      <4>2. QED
        BY <3>2, <4>1, VelocitiesAre
    <3>3. QED
      BY <3>1, <3>2
  <2>5. m.velocity = IF moving = 0 THEN NoValue ELSE <<linear, angular>>
    <3>1. CASE m.velocity = NoValue
      BY <3>1
    <3>2. CASE m.velocity # NoValue
      <4>1. m.velocity \in CartesianVelocity
        BY <2>1, <3>2
      <4>2. m.velocity = <<m.velocity[1], m.velocity[2]>>
        BY <4>1, VelocitiesAre
      <4>3. QED
        BY <3>2, <4>2
    <3>3. QED
      BY <3>1, <3>2
  <2>6. moving \in Int
    OBVIOUS
  <2>7. QED
    BY <2>1, <2>2, <2>3, <2>4, <2>5, <2>6
<1>3. /\ r.timestamp = m.timestamp
      /\ r.position = p
      /\ r.quaternion = q
      /\ r.has_velocity = moving
      /\ r.linear_velocity = linear
      /\ r.angular_velocity = angular
      /\ r.num_gripper_joints = Len(g)
      /\ r.gripper_positions = g
  BY DEF robot_tool_command_to_lcm
<1>4. \A i \in 1 .. Len(Schema[t]) : Suits(r, Schema[t][i])
  <2> HIDE DEF r, d, p, q, g, moving, linear, angular
  <2>1. Suits(r, <<"timestamp", "one">>)
    BY <1>2, <1>3 DEF Suits, Count, Fixed
  <2>2. Suits(r, <<"position", "three">>)
    BY <1>2, <1>3 DEF Suits, Count, Fixed
  <2>3. Suits(r, <<"quaternion", "four">>)
    BY <1>2, <1>3 DEF Suits, Count, Fixed
  <2>4. Suits(r, <<"has_velocity", "one">>)
    BY <1>2, <1>3 DEF Suits, Count, Fixed
  <2>5. Suits(r, <<"linear_velocity", "three">>)
    BY <1>2, <1>3 DEF Suits, Count, Fixed
  <2>6. Suits(r, <<"angular_velocity", "three">>)
    BY <1>2, <1>3 DEF Suits, Count, Fixed
  <2>7. Suits(r, <<"num_gripper_joints", "one">>)
    BY <1>2, <1>3 DEF Suits, Count, Fixed
  <2>8. Suits(r, <<"gripper_positions", "num_gripper_joints">>)
    BY <1>2, <1>3 DEF Suits, Count, Fixed
  <2>9. QED
    BY <1>1, <2>1, <2>2, <2>3, <2>4, <2>5, <2>6, <2>7, <2>8 DEF robot_tool_command_t
<1>5. FieldNames(t) = {"timestamp", "position", "quaternion", "has_velocity",
                        "linear_velocity", "angular_velocity", "num_gripper_joints", "gripper_positions"}
  BY <1>1 DEF FieldNames, robot_tool_command_t
<1>6. /\ d.timestamp = m.timestamp
      /\ d.position = p
      /\ d.quaternion = q
      /\ d.has_velocity = moving
      /\ d.linear_velocity = linear
      /\ d.angular_velocity = angular
      /\ d.num_gripper_joints = Len(g)
      /\ d.gripper_positions = g
  <2> HIDE DEF r, p, q, g, moving, linear, angular
  <2>1. QED
    BY <1>3, <1>5 DEF Read
<1>7. EnumReadable(t, d)
  <2> HIDE DEF d, r
  <2>1. QED
    BY <1>2, <1>6 DEF EnumReadable
<1>8. SameMessage(m, robot_tool_command_from_lcm(d))
  <2> DEFINE b == robot_tool_command_from_lcm(d)
  <2>1. b = [type |-> t, timestamp |-> m.timestamp,
             pose |-> <<p, q>>,
             gripper_positions |-> ArrayOrNone(g),
             velocity |-> IF moving = 0 THEN NoValue ELSE <<linear, angular>>]
    <3> HIDE DEF d, r, p, q, g, moving, linear, angular
    <3>1. QED
      BY <1>6 DEF robot_tool_command_from_lcm
  <2> HIDE DEF b, d, r
  <2>2. DOMAIN m = DOMAIN b /\ m.type = t /\ b.type = t
    BY <2>1 DEF RobotToolCommand
  <2>3. DOMAIN m = {"type", "timestamp", "pose", "gripper_positions", "velocity"}
    BY DEF RobotToolCommand
  <2>4. b.timestamp = m.timestamp /\ b.pose = m.pose /\ b.velocity = m.velocity
    BY <1>2, <2>1
  <2>5. \/ m.gripper_positions = b.gripper_positions
        \/ m.gripper_positions = <<>> /\ b.gripper_positions = NoValue
    BY <2>1, ArraysAgain
  <2>6. SameMessage(m, b)
    BY <2>2, <2>3, <2>4, <2>5 DEF SameMessage, Optional
  <2>7. QED
    BY <2>6 DEF b
<1>9. QED
  <2> HIDE DEF d, r
  <2>1. QED
    BY <1>1, <1>4, <1>7, <1>8 DEF Carried, d

LEMMA RobotStateCarried ==
  ASSUME NEW m \in RobotState, EffortsFit(m)
  PROVE  Carried("robot_state", m) /\ EffortsReadable(Read("robot_state", ToLcm(m)))
<1> DEFINE t == "robot_state"
           r == robot_state_to_lcm(m)
           d == Read(t, r)
           e == ArrayOf(m.joint_efforts)
           source == TextOf(m.effort_source)
<1>1. ToLcm(m) = r /\ Schema[t] = robot_state_t /\ FromLcm(t, d) = robot_state_from_lcm(d)
  BY DEF ToLcm, FromLcm, Schema, RobotState
<1>2. m.timestamp \in Int /\ m.joint_positions \in Seq(Int) /\ m.joint_velocities \in Seq(Int) /\ m.actuator_temperatures \in Seq(Int)
      /\ e \in Seq(Int) /\ source \in 0 .. 2 /\ TextOrNone(source) = m.effort_source /\ ArrayOrNone(e) = m.joint_efforts
      /\ Len(e) \in {0, Len(m.joint_velocities)}
  <2>1. /\ m.timestamp \in Int /\ m.joint_positions \in Seq(Int) /\ m.joint_velocities \in Seq(Int) \ {<<>>}
        /\ m.actuator_temperatures \in Seq(Int) /\ m.joint_efforts \in Seq(Int) \cup {NoValue}
        /\ m.effort_source \in {NoValue, 1, 2}
    BY DEF RobotState
  <2>2. source \in 0 .. 2 /\ m.effort_source # 0
    BY <2>1, MessagesAssumption DEF TextOf
  <2>3. TextOrNone(source) = m.effort_source
    BY <2>2, TextsAgain
  <2>4. m.joint_efforts = NoValue \/ (m.joint_efforts \in Seq(Int) /\ Len(m.joint_efforts) = Len(m.joint_velocities))
    BY <2>1 DEF EffortsFit
  <2>5. Len(<<>>) = 0 /\ m.joint_velocities # <<>> /\ Len(m.joint_velocities) # 0
    BY <2>1
  <2>6. e \in Seq(Int) /\ ArrayOrNone(e) = m.joint_efforts /\ Len(e) \in {0, Len(m.joint_velocities)}
    <3>1. CASE m.joint_efforts = NoValue
      BY <2>5, <3>1 DEF ArrayOf, ArrayOrNone
    <3>2. CASE m.joint_efforts # NoValue
      <4>1. m.joint_efforts \in Seq(Int) /\ Len(m.joint_efforts) = Len(m.joint_velocities) /\ e = m.joint_efforts
        BY <2>4, <3>2 DEF ArrayOf
      <4>2. e # <<>>
        BY <2>5, <4>1
      <4>3. QED
        BY <4>1, <4>2 DEF ArrayOrNone
    <3>3. QED
      BY <3>1, <3>2
  <2>7. QED
    BY <2>1, <2>2, <2>3, <2>6
<1>3. /\ r.timestamp = m.timestamp
      /\ r.num_joints = Len(m.actuator_temperatures)
      /\ r.num_positions = Len(m.joint_positions)
      /\ r.num_velocities = Len(m.joint_velocities)
      /\ r.effort_source = source
      /\ r.num_efforts = Len(e)
      /\ r.joint_positions = m.joint_positions
      /\ r.joint_velocities = m.joint_velocities
      /\ r.joint_efforts = e
      /\ r.actuator_temperatures = m.actuator_temperatures
  BY DEF robot_state_to_lcm
<1>4. \A i \in 1 .. Len(Schema[t]) : Suits(r, Schema[t][i])
  <2> HIDE DEF r, d, e, source
  <2>1. Suits(r, <<"timestamp", "one">>)
    BY <1>2, <1>3 DEF Suits, Count, Fixed
  <2>2. Suits(r, <<"num_joints", "one">>)
    BY <1>2, <1>3 DEF Suits, Count, Fixed
  <2>3. Suits(r, <<"num_positions", "one">>)
    BY <1>2, <1>3 DEF Suits, Count, Fixed
  <2>4. Suits(r, <<"num_velocities", "one">>)
    BY <1>2, <1>3 DEF Suits, Count, Fixed
  <2>5. Suits(r, <<"effort_source", "one">>)
    BY <1>2, <1>3 DEF Suits, Count, Fixed
  <2>6. Suits(r, <<"num_efforts", "one">>)
    BY <1>2, <1>3 DEF Suits, Count, Fixed
  <2>7. Suits(r, <<"joint_positions", "num_positions">>)
    BY <1>2, <1>3 DEF Suits, Count, Fixed
  <2>8. Suits(r, <<"joint_velocities", "num_velocities">>)
    BY <1>2, <1>3 DEF Suits, Count, Fixed
  <2>9. Suits(r, <<"joint_efforts", "num_efforts">>)
    BY <1>2, <1>3 DEF Suits, Count, Fixed
  <2>10. Suits(r, <<"actuator_temperatures", "num_joints">>)
    BY <1>2, <1>3 DEF Suits, Count, Fixed
  <2>11. QED
    BY <1>1, <2>1, <2>2, <2>3, <2>4, <2>5, <2>6, <2>7, <2>8, <2>9, <2>10 DEF robot_state_t
<1>5. FieldNames(t) = {"timestamp", "num_joints", "num_positions", "num_velocities", "effort_source",
                        "num_efforts", "joint_positions", "joint_velocities", "joint_efforts", "actuator_temperatures"}
  BY <1>1 DEF FieldNames, robot_state_t
<1>6. /\ d.timestamp = m.timestamp
      /\ d.num_joints = Len(m.actuator_temperatures)
      /\ d.num_positions = Len(m.joint_positions)
      /\ d.num_velocities = Len(m.joint_velocities)
      /\ d.effort_source = source
      /\ d.num_efforts = Len(e)
      /\ d.joint_positions = m.joint_positions
      /\ d.joint_velocities = m.joint_velocities
      /\ d.joint_efforts = e
      /\ d.actuator_temperatures = m.actuator_temperatures
  <2> HIDE DEF r, e, source
  <2>1. QED
    BY <1>3, <1>5 DEF Read
<1>7. EnumReadable(t, d)
  <2> HIDE DEF d, r
  <2>1. QED
    BY <1>2, <1>6 DEF EnumReadable
<1>8. SameMessage(m, robot_state_from_lcm(d))
  <2> DEFINE b == robot_state_from_lcm(d)
  <2>1. b = [type |-> t, timestamp |-> m.timestamp,
             joint_positions |-> m.joint_positions,
             joint_velocities |-> m.joint_velocities,
             joint_efforts |-> ArrayOrNone(e),
             actuator_temperatures |-> m.actuator_temperatures,
             effort_source |-> TextOrNone(source)]
    <3> HIDE DEF d, r, e, source
    <3>1. QED
      BY <1>6 DEF robot_state_from_lcm
  <2> HIDE DEF b, d, r
  <2>2. DOMAIN m = DOMAIN b /\ m.type = t /\ b.type = t
    BY <2>1 DEF RobotState
  <2>3. DOMAIN m = {"type", "timestamp", "joint_positions", "joint_velocities", "joint_efforts", "actuator_temperatures", "effort_source"}
    BY DEF RobotState
  <2>4. b.timestamp = m.timestamp /\ b.joint_positions = m.joint_positions /\ b.joint_velocities = m.joint_velocities
    BY <2>1
  <2>5. /\ b.actuator_temperatures = m.actuator_temperatures
        /\ b.joint_efforts = m.joint_efforts /\ b.effort_source = m.effort_source
    BY <1>2, <2>1
  <2>6. SameMessage(m, b)
    BY <2>2, <2>3, <2>4, <2>5 DEF SameMessage, Optional
  <2>7. QED
    BY <2>6 DEF b
<1>9. EffortsReadable(d)
  <2> HIDE DEF d, r, e
  <2>1. QED
    BY <1>2, <1>6 DEF EffortsReadable
<1>10. QED
  <2> HIDE DEF d, r
  <2>1. QED
    BY <1>1, <1>4, <1>7, <1>8, <1>9 DEF Carried, d

\* Modes, events and samples of rates are carried field by field.
LEMMA PlainCarried ==
  ASSUME NEW t, NEW m, m.type = t, ToLcm(m) = Plain(t, m), t # "robot_state",
         \A d : FromLcm(t, d) = PlainFrom(t, d),
         WellFormed(t), DOMAIN m = FieldNames(t) \cup {"type"}, "type" \notin FieldNames(t),
         \A i \in 1 .. Len(Schema[t]) : Schema[t][i][2] = "one" /\ m[Schema[t][i][1]] \in Int,
         EnumReadable(t, [g \in FieldNames(t) |-> m[g]])
  PROVE  Carried(t, m)
<1> DEFINE names == FieldNames(t)
           r == Plain(t, m)
           d == Read(t, r)
           b == PlainFrom(t, d)
<1>1. r = [g \in names |-> m[g]]
  BY DEF Plain, FieldNames, WellFormed
<1>2. d = [g \in names |-> m[g]]
  <2> HIDE DEF r, names
  <2>1. d = [g \in names |-> r[g]]
    BY DEF Read, names
  <2> HIDE DEF d
  <2>2. \A g \in names : r[g] = m[g]
    BY <1>1
  <2>3. QED
    BY <2>1, <2>2
<1>3. \A i \in 1 .. Len(Schema[t]) : Suits(r, Schema[t][i])
  <2> SUFFICES ASSUME NEW i \in 1 .. Len(Schema[t]) PROVE Suits(r, Schema[t][i])
    OBVIOUS
  <2>1. Schema[t][i][1] \in names
    BY DEF FieldNames
  <2> HIDE DEF names, r
  <2>2. r[Schema[t][i][1]] = m[Schema[t][i][1]]
    BY <1>1, <2>1
  <2>3. QED
    BY <2>2 DEF Suits
<1>4. SameMessage(m, b)
  <2> HIDE DEF names, r, d
  <2>1. DOMAIN d = names /\ \A g \in names : d[g] = m[g]
    BY <1>2
  <2>2. b = [g \in names \cup {"type"} |-> IF g = "type" THEN t ELSE d[g]]
    BY <2>1 DEF PlainFrom, WithField
  <2> HIDE DEF b
  <2>3. DOMAIN b = names \cup {"type"} /\ \A g \in names \cup {"type"} : b[g] = IF g = "type" THEN t ELSE d[g]
    BY <2>2
  <2>4. DOMAIN m = names \cup {"type"} /\ m["type"] = t
    BY DEF names
  <2>5. ASSUME NEW g \in names \cup {"type"}
        PROVE  m[g] = b[g]
    BY <2>1, <2>3, <2>4
  <2>6. QED
    BY <2>3, <2>4, <2>5 DEF SameMessage
<1>5. EnumReadable(t, d)
  <2> HIDE DEF d, names
  <2>1. d = [g \in FieldNames(t) |-> m[g]]
    BY <1>2 DEF names
  <2>2. QED
    BY <2>1
<1>6. QED
  <2> HIDE DEF r, d
  <2>1. ToLcm(m) = r /\ FromLcm(t, d) = b
    BY DEF r
  <2> HIDE DEF b
  <2>2. Read(t, ToLcm(m)) = d
    BY <2>1 DEF d
  <2>3. QED
    BY <1>3, <1>4, <1>5, <2>1, <2>2 DEF Carried, b

LEMMA ModeCarried ==
  ASSUME NEW m \in OrchestratorMode
  PROVE  Carried("orchestrator_mode", m)
<1> DEFINE t == "orchestrator_mode"
<1>1. Schema[t] = orchestrator_mode_t /\ WellFormed(t)
  BY SchemasWellFormed DEF Schema
<1>2. Len(orchestrator_mode_t) = 2
  BY DEF orchestrator_mode_t
<1>3. FieldNames(t) = {"timestamp", "mode"}
  BY <1>1, <1>2 DEF FieldNames, orchestrator_mode_t
<1>4. /\ m.type = t /\ DOMAIN m = FieldNames(t) \cup {"type"} /\ "type" \notin FieldNames(t)
      /\ m.timestamp \in Int /\ m.mode \in Int
  BY <1>3 DEF OrchestratorMode
<1>5. \A i \in 1 .. Len(Schema[t]) : Schema[t][i][2] = "one" /\ m[Schema[t][i][1]] \in Int
  BY <1>1, <1>2, <1>4 DEF orchestrator_mode_t
<1>6. ToLcm(m) = Plain(t, m) /\ \A d : FromLcm(t, d) = PlainFrom(t, d)
  BY <1>4 DEF ToLcm, FromLcm
<1>7. EnumReadable(t, [g \in FieldNames(t) |-> m[g]])
  <2>1. m.mode \in 1 .. 5
    BY DEF OrchestratorMode
  <2>2. [g \in FieldNames(t) |-> m[g]].mode = m.mode
    BY <1>3
  <2>3. QED
    BY <2>1, <2>2 DEF EnumReadable
<1>8. QED
  BY <1>1, <1>4, <1>5, <1>6, <1>7, PlainCarried

LEMMA EventCarried ==
  ASSUME NEW m \in OrchestratorEvent
  PROVE  Carried("orchestrator_event", m)
<1> DEFINE t == "orchestrator_event"
<1>1. Schema[t] = orchestrator_event_t /\ WellFormed(t)
  BY SchemasWellFormed DEF Schema
<1>2. Len(orchestrator_event_t) = 2
  BY DEF orchestrator_event_t
<1>3. FieldNames(t) = {"timestamp", "kind"}
  BY <1>1, <1>2 DEF FieldNames, orchestrator_event_t
<1>4. /\ m.type = t /\ DOMAIN m = FieldNames(t) \cup {"type"} /\ "type" \notin FieldNames(t)
      /\ m.timestamp \in Int /\ m.kind \in Int
  BY <1>3 DEF OrchestratorEvent
<1>5. \A i \in 1 .. Len(Schema[t]) : Schema[t][i][2] = "one" /\ m[Schema[t][i][1]] \in Int
  BY <1>1, <1>2, <1>4 DEF orchestrator_event_t
<1>6. ToLcm(m) = Plain(t, m) /\ \A d : FromLcm(t, d) = PlainFrom(t, d)
  BY <1>4 DEF ToLcm, FromLcm
<1>7. EnumReadable(t, [g \in FieldNames(t) |-> m[g]])
  <2>1. m.kind \in 1 .. 8
    BY DEF OrchestratorEvent
  <2>2. [g \in FieldNames(t) |-> m[g]].kind = m.kind
    BY <1>3
  <2>3. QED
    BY <2>1, <2>2 DEF EnumReadable
<1>8. QED
  BY <1>1, <1>4, <1>5, <1>6, <1>7, PlainCarried

LEMMA RateSampleCarried ==
  ASSUME NEW m \in NodeRateSample
  PROVE  Carried("node_rate_sample", m)
<1> DEFINE t == "node_rate_sample"
<1>1. Schema[t] = node_rate_sample_t /\ WellFormed(t)
  BY SchemasWellFormed DEF Schema
<1>2. Len(node_rate_sample_t) = 7
  BY DEF node_rate_sample_t
<1>3. FieldNames(t) = {"timestamp", "node_name", "pid", "target_rate_hz",
                        "measured_rate_hz", "cpu_percent", "memory_rss_mb"}
  BY <1>1, <1>2 DEF FieldNames, node_rate_sample_t
<1>4. /\ m.type = t /\ DOMAIN m = FieldNames(t) \cup {"type"} /\ "type" \notin FieldNames(t)
      /\ m.timestamp \in Int /\ m.node_name \in Int /\ m.pid \in Int /\ m.target_rate_hz \in Int
        /\ m.measured_rate_hz \in Int /\ m.cpu_percent \in Int /\ m.memory_rss_mb \in Int
  BY <1>3 DEF NodeRateSample
<1>5. \A i \in 1 .. Len(Schema[t]) : Schema[t][i][2] = "one" /\ m[Schema[t][i][1]] \in Int
  BY <1>1, <1>2, <1>4 DEF node_rate_sample_t
<1>6. ToLcm(m) = Plain(t, m) /\ \A d : FromLcm(t, d) = PlainFrom(t, d)
  BY <1>4 DEF ToLcm, FromLcm
<1>7. EnumReadable(t, [g \in FieldNames(t) |-> m[g]])
  BY DEF EnumReadable
<1>8. QED
  BY <1>1, <1>4, <1>5, <1>6, <1>7, PlainCarried

\* What a report says of one actuator, as columns hold it.
Row(names, controllers, ids, healthy, temperatures, issues, i) ==
    [joint_name |-> names[i], controller |-> controllers[i], actuator_id |-> ids[i], healthy |-> healthy[i] # 0,
     temperature_celsius |-> IF temperatures[i] = NaN THEN NoValue ELSE temperatures[i],
     issue |-> TextOrNone(issues[i])]

LEMMA HealthAgain ==
  ASSUME NEW h \in ActuatorHealth
  PROVE  /\ h.joint_name \in Int /\ h.controller \in Int /\ h.actuator_id \in Int
         /\ (IF h.healthy THEN 1 ELSE 0) \in Int
         /\ (IF h.temperature_celsius = NoValue THEN NaN ELSE h.temperature_celsius) \in Int
         /\ TextOf(h.issue) \in Int
         /\ h = [joint_name |-> h.joint_name, controller |-> h.controller, actuator_id |-> h.actuator_id,
                 healthy |-> (IF h.healthy THEN 1 ELSE 0) # 0,
                 temperature_celsius |->
                   IF (IF h.temperature_celsius = NoValue THEN NaN ELSE h.temperature_celsius) = NaN THEN NoValue
                   ELSE IF h.temperature_celsius = NoValue THEN NaN ELSE h.temperature_celsius,
                 issue |-> TextOrNone(TextOf(h.issue))]
<1> DEFINE warm == IF h.temperature_celsius = NoValue THEN NaN ELSE h.temperature_celsius
<1>1. /\ h.joint_name \in Int /\ h.controller \in Int /\ h.actuator_id \in Int /\ h.healthy \in BOOLEAN
      /\ h.temperature_celsius \in (Int \ {NaN}) \cup {NoValue} /\ h.issue \in Text
  BY DEF ActuatorHealth
<1>2. h = [joint_name |-> h.joint_name, controller |-> h.controller, actuator_id |-> h.actuator_id,
           healthy |-> h.healthy, temperature_celsius |-> h.temperature_celsius, issue |-> h.issue]
  BY DEF ActuatorHealth
<1>3. TextOf(h.issue) \in Int /\ TextOrNone(TextOf(h.issue)) = h.issue
  BY <1>1, TextsAre, TextsAgain
<1>4. warm \in Int /\ h.temperature_celsius = IF warm = NaN THEN NoValue ELSE warm
  BY <1>1, MessagesAssumption
<1>5. (IF h.healthy THEN 1 ELSE 0) \in Int /\ h.healthy = ((IF h.healthy THEN 1 ELSE 0) # 0)
  <2> DEFINE flag == IF h.healthy THEN 1 ELSE 0
  <2>1. CASE h.healthy = TRUE
    <3>1. flag = 1
      BY <2>1
    <3> HIDE DEF flag
    <3>2. flag # 0 /\ flag \in Int
      BY <3>1
    <3>3. QED
      BY <2>1, <3>2, Zenon DEF flag
  <2>2. CASE h.healthy = FALSE
    <3>1. flag = 0
      BY <2>2
    <3> HIDE DEF flag
    <3>2. ~(flag # 0) /\ flag \in Int
      BY <3>1
    <3>3. QED
      BY <2>2, <3>2, Zenon DEF flag
  <2>3. QED
    BY <1>1, <2>1, <2>2, Zenon
<1>6. QED
  BY <1>1, <1>2, <1>3, <1>4, <1>5

\* A report is carried actuator by actuator: each column holds one field of all of them.
LEMMA HealthReportCarried ==
  ASSUME NEW m \in ActuatorHealthReport
  PROVE  Carried("actuator_health_report", m)
<1> DEFINE t == "actuator_health_report"
           r == actuator_health_report_to_lcm(m)
           d == Read(t, r)
           a == m.actuators
           n == Len(a)
           names == [i \in 1 .. n |-> a[i].joint_name]
           controllers == [i \in 1 .. n |-> a[i].controller]
           ids == [i \in 1 .. n |-> a[i].actuator_id]
           healthy == [i \in 1 .. n |-> IF a[i].healthy THEN 1 ELSE 0]
           temperatures == [i \in 1 .. n |-> IF a[i].temperature_celsius = NoValue THEN NaN
                                            ELSE a[i].temperature_celsius]
           issues == [i \in 1 .. n |-> TextOf(a[i].issue)]
           fault == TextOf(m.error)
<1>1. ToLcm(m) = r /\ Schema[t] = actuator_health_report_t /\ FromLcm(t, d) = actuator_health_report_from_lcm(d)
  BY DEF ToLcm, FromLcm, Schema, ActuatorHealthReport
<1>2. m.timestamp \in Int /\ a \in Seq(ActuatorHealth) /\ n \in Nat /\ DOMAIN a = 1 .. n /\ m.error \in Text
  BY DEF ActuatorHealthReport
<1>3. fault \in Int /\ TextOrNone(fault) = m.error
  BY <1>2, TextsAre, TextsAgain
<1>4. \A i \in 1 .. n : a[i] \in ActuatorHealth
  BY <1>2
<1>5. /\ names \in [1 .. n -> Int] /\ controllers \in [1 .. n -> Int] /\ ids \in [1 .. n -> Int]
      /\ healthy \in [1 .. n -> Int] /\ temperatures \in [1 .. n -> Int] /\ issues \in [1 .. n -> Int]
  BY <1>4, HealthAgain
<1>6. /\ r.timestamp = m.timestamp /\ r.num_actuators = n /\ r.joint_names = names
      /\ r.controllers = controllers /\ r.actuator_ids = ids /\ r.healthy = healthy
      /\ r.temperatures_celsius = temperatures /\ r.issues = issues /\ r.error = fault
  BY <1>2 DEF actuator_health_report_to_lcm
<1>7. \A i \in 1 .. n : a[i] = Row(names, controllers, ids, healthy, temperatures, issues, i)
  BY <1>4, HealthAgain DEF Row
<1> HIDE DEF names, controllers, ids, healthy, temperatures, issues, n, fault, r
<1>8. \A i \in 1 .. Len(Schema[t]) : Suits(r, Schema[t][i])
  <2>1. \A c : c \in [1 .. n -> Int] => c \in Seq(Int) /\ Len(c) = n
    BY <1>2 DEF n
  <2>2. Suits(r, <<"timestamp", "one">>)
    BY <1>2, <1>3, <1>5, <1>6 DEF Suits, Count, Fixed
  <2>3. Suits(r, <<"num_actuators", "one">>)
    BY <1>2, <1>3, <1>5, <1>6 DEF Suits, Count, Fixed
  <2>4. Suits(r, <<"joint_names", "num_actuators">>)
    BY <1>2, <1>3, <1>5, <1>6, <2>1 DEF Suits, Count, Fixed
  <2>5. Suits(r, <<"controllers", "num_actuators">>)
    BY <1>2, <1>3, <1>5, <1>6, <2>1 DEF Suits, Count, Fixed
  <2>6. Suits(r, <<"actuator_ids", "num_actuators">>)
    BY <1>2, <1>3, <1>5, <1>6, <2>1 DEF Suits, Count, Fixed
  <2>7. Suits(r, <<"healthy", "num_actuators">>)
    BY <1>2, <1>3, <1>5, <1>6, <2>1 DEF Suits, Count, Fixed
  <2>8. Suits(r, <<"temperatures_celsius", "num_actuators">>)
    BY <1>2, <1>3, <1>5, <1>6, <2>1 DEF Suits, Count, Fixed
  <2>9. Suits(r, <<"issues", "num_actuators">>)
    BY <1>2, <1>3, <1>5, <1>6, <2>1 DEF Suits, Count, Fixed
  <2>10. Suits(r, <<"error", "one">>)
    BY <1>2, <1>3, <1>5, <1>6 DEF Suits, Count, Fixed
  <2>11. QED
    BY <1>1, <2>2, <2>3, <2>4, <2>5, <2>6, <2>7, <2>8, <2>9, <2>10 DEF actuator_health_report_t
<1>9. FieldNames(t) = {"timestamp", "num_actuators", "joint_names", "controllers", "actuator_ids", "healthy",
                         "temperatures_celsius", "issues", "error"}
  BY <1>1 DEF FieldNames, actuator_health_report_t
<1>10. /\ d.timestamp = m.timestamp /\ d.num_actuators = n /\ d.joint_names = names
       /\ d.controllers = controllers /\ d.actuator_ids = ids /\ d.healthy = healthy
       /\ d.temperatures_celsius = temperatures /\ d.issues = issues /\ d.error = fault
  BY <1>6, <1>9 DEF Read
<1>11. SameMessage(m, actuator_health_report_from_lcm(d))
  <2> DEFINE b == actuator_health_report_from_lcm(d)
  <2> HIDE DEF d
  <2>1. b = [type |-> t, timestamp |-> m.timestamp,
             actuators |-> [i \in 1 .. n |-> Row(names, controllers, ids, healthy, temperatures, issues, i)],
             error |-> TextOrNone(fault)]
    BY <1>10 DEF actuator_health_report_from_lcm, Row
  <2>2. [i \in 1 .. n |-> Row(names, controllers, ids, healthy, temperatures, issues, i)] = a
    <3>1. a = [i \in 1 .. n |-> a[i]]
      BY <1>2
    <3>2. QED
      BY <1>7, <3>1
  <2> HIDE DEF b
  <2>3. b.timestamp = m.timestamp /\ b.actuators = m.actuators /\ b.error = m.error
    BY <1>3, <2>1, <2>2
  <2>4. DOMAIN m = DOMAIN b /\ m.type = t /\ b.type = t
    BY <2>1 DEF ActuatorHealthReport
  <2>5. DOMAIN m = {"type", "timestamp", "actuators", "error"}
    BY DEF ActuatorHealthReport
  <2>6. SameMessage(m, b)
    BY <2>3, <2>4, <2>5 DEF SameMessage
  <2>7. QED
    BY <2>6 DEF b
<1>12. EnumReadable(t, d)
  BY DEF EnumReadable
<1>13. QED
  <2> HIDE DEF d
  <2>1. QED
    BY <1>1, <1>8, <1>11, <1>12 DEF Carried, d
\* Whatever the publisher may be given comes back as it was, if it lets it through.
LEMMA EveryTypeCarried ==
  ASSUME NEW m \in AcceptedTypes, m.type = "robot_state" => EffortsFit(m)
  PROVE  /\ m.type \in DOMAIN Schema /\ Carried(m.type, m)
         /\ m.type = "robot_state" => EffortsReadable(Read(m.type, ToLcm(m)))
<1>1. CASE m \in NodeRateSample
  BY <1>1, RateSampleCarried DEF NodeRateSample, Schema
<1>2. CASE m \in ActuatorHealthReport
  BY <1>2, HealthReportCarried DEF ActuatorHealthReport, Schema
<1>3. CASE m \in RobotState
  <2>1. m.type = "robot_state" /\ "robot_state" \in DOMAIN Schema
    BY <1>3 DEF RobotState, Schema
  <2>2. QED
    BY <1>3, <2>1, RobotStateCarried
<1>4. CASE m \in RobotJointCommand
  BY <1>4, JointCommandCarried DEF RobotJointCommand, Schema
<1>5. CASE m \in RobotToolCommand
  BY <1>5, ToolCommandCarried DEF RobotToolCommand, Schema
<1>6. CASE m \in RobotBaseCommand
  BY <1>6, BaseCommandCarried DEF RobotBaseCommand, Schema
<1>7. CASE m \in HomingTarget
  BY <1>7, HomingTargetCarried DEF HomingTarget, Schema
<1>8. CASE m \in OrchestratorMode
  BY <1>8, ModeCarried DEF OrchestratorMode, Schema
<1>9. CASE m \in OrchestratorEvent
  BY <1>9, EventCarried DEF OrchestratorEvent, Schema
<1>10. CASE m \in LoggingStatus
  BY <1>10, LoggingStatusCarried DEF LoggingStatus, Schema
<1>11. QED
  BY <1>1, <1>2, <1>3, <1>4, <1>5, <1>6, <1>7, <1>8, <1>9, <1>10 DEF AcceptedTypes

\* What is carried is read as it was written.
LEMMA CarriedIsRead ==
  ASSUME NEW t \in DOMAIN Schema, NEW m, Carried(t, m)
  PROVE  /\ Decodable(t, Encode(t, ToLcm(m))) /\ Decode(t, Encode(t, ToLcm(m))) = Read(t, ToLcm(m))
         /\ EnumReadable(t, Read(t, ToLcm(m))) /\ SameMessage(m, FromLcm(t, Read(t, ToLcm(m))))
<1> DEFINE r == ToLcm(m)
<1>1. WellFormed(t)
  BY SchemasWellFormed
<1>2. SuitsType(r, t)
  BY DEF Carried, SuitsType
<1>3. Decodable(t, Encode(t, r)) /\ Decode(t, Encode(t, r)) = Read(t, r)
  <2> HIDE DEF r
  <2>1. QED
    BY <1>1, <1>2, ReadsAsWritten
<1>4. QED
  BY <1>3 DEF Carried

\* What the publisher lets through can be read by a subscriber of the topic, and is what was sent.
LEMMA PublishedIsRead ==
  ASSUME topic \in DOMAIN TOPIC_TO_TYPE, NEW m \in Samples, Publishable(m)
  PROVE  Readable(Packet(m)) /\ SameMessage(m, Delivered(Packet(m)))
<1> DEFINE t == TOPIC_TO_TYPE[topic]
<1>1. m \in AcceptedTypes /\ m.type = t /\ (m.type = "robot_state" => EffortsFit(m))
  BY SamplesAssumption DEF Publishable
<1>2. t \in DOMAIN Schema /\ Carried(t, m) /\ (t = "robot_state" => EffortsReadable(Read(t, ToLcm(m))))
  <2> HIDE DEF t
  <2>1. QED
    BY <1>1, EveryTypeCarried
<1>3. Packet(m) = Encode(t, ToLcm(m))
  BY <1>1 DEF Packet
<1> HIDE DEF t
<1>4. /\ Decodable(t, Packet(m)) /\ Decode(t, Packet(m)) = Read(t, ToLcm(m))
      /\ EnumReadable(t, Read(t, ToLcm(m))) /\ SameMessage(m, FromLcm(t, Read(t, ToLcm(m))))
  BY <1>2, <1>3, CarriedIsRead
<1>5. QED
  BY <1>2, <1>4 DEF Readable, Delivered, t

LEMMA Behind ==
  ASSUME NEW a \in Seq(Int), NEW b \in Seq(Int), NEW c \in Seq(Int), Len(c) = Len(a) + Len(b),
         \A i \in 1 .. Len(c) : c[i] = IF i <= Len(a) THEN a[i] ELSE b[i - Len(a)]
  PROVE  a \o b = c
<1>1. /\ a \o b \in Seq(Int) /\ Len(a \o b) = Len(a) + Len(b)
      /\ \A i \in 1 .. Len(a) + Len(b) : (a \o b)[i] = IF i <= Len(a) THEN a[i] ELSE b[i - Len(a)]
  BY ConcatProperties
<1> DEFINE whole == a \o b
<1>2. whole \in Seq(Int) /\ Len(whole) = Len(c) /\ \A i \in 1 .. Len(whole) : whole[i] = c[i]
  BY <1>1
<1> HIDE DEF whole
<1>3. whole = c
  BY <1>2, SeqEqual
<1>4. QED
  BY <1>3 DEF whole

LEMMA PutTogether ==
  /\ <<>> \o <<7>> = <<7>>
  /\ \A x \in Int : <<7>> \o <<x>> = <<7, x>>
  /\ \A p, x \in Int : <<p>> \o <<7, x>> = <<p, 7, x>>
<1>1. <<>> \o <<7>> = <<7>>
  <2>1. <<7>> \in Seq(Int)
    OBVIOUS
  <2>2. QED
    BY <2>1, ConcatEmptySeq
<1>2. ASSUME NEW x \in Int
      PROVE  <<7>> \o <<x>> = <<7, x>>
  <2> DEFINE a == <<7>>
             b == <<x>>
             c == <<7, x>>
  <2>1. /\ a \in Seq(Int) /\ Len(a) = 1 /\ a[1] = 7 /\ b \in Seq(Int) /\ Len(b) = 1 /\ b[1] = x
        /\ c \in Seq(Int) /\ Len(c) = 2 /\ c[1] = 7 /\ c[2] = x
    OBVIOUS
  <2> HIDE DEF a, b, c
  <2>2. \A i \in 1 .. Len(c) : c[i] = IF i <= Len(a) THEN a[i] ELSE b[i - Len(a)]
    BY <2>1
  <2>3. a \o b = c
    <3>1. a \in Seq(Int) /\ b \in Seq(Int) /\ c \in Seq(Int) /\ Len(c) = Len(a) + Len(b)
      BY <2>1
    <3>2. QED
      BY <2>2, <3>1, Behind
  <2>4. QED
    BY <2>3 DEF a, b, c
<1>3. ASSUME NEW p \in Int, NEW x \in Int
      PROVE  <<p>> \o <<7, x>> = <<p, 7, x>>
  <2> DEFINE a == <<p>>
             b == <<7, x>>
             c == <<p, 7, x>>
  <2>1. /\ a \in Seq(Int) /\ Len(a) = 1 /\ a[1] = p /\ b \in Seq(Int) /\ Len(b) = 2 /\ b[1] = 7 /\ b[2] = x
        /\ c \in Seq(Int) /\ Len(c) = 3 /\ c[1] = p /\ c[2] = 7 /\ c[3] = x
    OBVIOUS
  <2> HIDE DEF a, b, c
  <2>2. \A i \in 1 .. Len(c) : c[i] = IF i <= Len(a) THEN a[i] ELSE b[i - Len(a)]
    BY <2>1
  <2>3. a \o b = c
    <3>1. a \in Seq(Int) /\ b \in Seq(Int) /\ c \in Seq(Int) /\ Len(c) = Len(a) + Len(b)
      BY <2>1
    <3>2. QED
      BY <2>2, <3>1, Behind
  <2>4. QED
    BY <2>3 DEF a, b, c
<1>4. QED
  BY <1>1, <1>2, <1>3

LEMMA SecondFieldIsRead ==
  ASSUME NEW t, NEW name, WellFormed(t), Schema[t] = <<<<"timestamp", "one">>, <<name, "one">>>>,
         name # "timestamp", NEW x \in Int
  PROVE  Decode(t, <<Fingerprint[t], 7, x>>)[name] = x
<1> DEFINE r == [g \in {"timestamp", name} |-> IF g = name THEN x ELSE 7]
<1>1. r["timestamp"] = 7 /\ r[name] = x
  OBVIOUS
<1>2. Len(Schema[t]) = 2 /\ Schema[t][1] = <<"timestamp", "one">> /\ Schema[t][2] = <<name, "one">>
  OBVIOUS
<1> HIDE DEF r
<1>3. \A i \in 1 .. Len(Schema[t]) : Suits(r, Schema[t][i])
  BY <1>1, <1>2 DEF Suits
<1>4. Part(r, Schema[t][1]) = <<7>> /\ Part(r, Schema[t][2]) = <<x>>
  BY <1>1, <1>2 DEF Part
<1>5. PICK f \in [0 .. 2 -> Seq(Int)] : f = Joined(2, Schema[t], r, f) /\ Encode(t, r) = <<Fingerprint[t]>> \o f[2]
  BY <1>2, <1>3, EncodeIs
<1>6. f[0] = <<>> /\ f[1] = f[0] \o <<7>> /\ f[2] = f[1] \o <<x>>
  <2>1. \A i \in 0 .. 2 : f[i] = Joined(2, Schema[t], r, f)[i]
    BY <1>5
  <2>2. \A i \in 0 .. 2 : f[i] = IF i = 0 THEN <<>> ELSE f[i - 1] \o Part(r, Schema[t][i])
    BY <2>1 DEF Joined
  <2>3. ASSUME NEW i \in 0 .. 1
        PROVE  f[i + 1] = f[i] \o Part(r, Schema[t][i + 1])
    <3>1. i + 1 \in 0 .. 2 /\ i + 1 # 0 /\ (i + 1) - 1 = i
      OBVIOUS
    <3>2. QED
      BY <2>2, <3>1
  <2>4. 0 \in 0 .. 1 /\ 1 \in 0 .. 1 /\ 0 + 1 = 1 /\ 1 + 1 = 2 /\ 0 \in 0 .. 2
    OBVIOUS
  <2>5. f[0] = <<>>
    BY <2>2, <2>4
  <2>6. f[1] = f[0] \o Part(r, Schema[t][1]) /\ f[2] = f[1] \o Part(r, Schema[t][2])
    BY <2>3, <2>4
  <2>7. QED
    BY <1>4, <2>5, <2>6
<1>7. Encode(t, r) = <<Fingerprint[t], 7, x>>
  <2>1. <<>> \o <<7>> = <<7>> /\ <<7>> \o <<x>> = <<7, x>>
    BY PutTogether
  <2>2. f[2] = <<7, x>>
    BY <1>6, <2>1
  <2>3. PICK print \in Int : print = Fingerprint[t]
    BY DEF WellFormed
  <2>4. <<print>> \o <<7, x>> = <<print, 7, x>>
    BY PutTogether
  <2>5. QED
    BY <1>5, <2>2, <2>3, <2>4
<1>8. Decode(t, Encode(t, r)) = Read(t, r)
  BY <1>3, ReadsAsWritten DEF SuitsType
<1>9. name \in FieldNames(t)
  BY <1>2 DEF FieldNames
<1>10. QED
  BY <1>1, <1>7, <1>8, <1>9 DEF Read

\* A packet of another schema, or with a value that this release has not, is read by nobody.
LEMMA OtherReleasesAreNotRead ==
  ASSUME topic \in DOMAIN TOPIC_TO_TYPE, NEW units \in OtherReleases(TOPIC_TO_TYPE[topic])
  PROVE  ~Readable(units)
<1> DEFINE t == TOPIC_TO_TYPE[topic]
<1>1. t \in DOMAIN Schema /\ Fingerprint[t] \in 1 .. 10
  BY DEF TOPIC_TO_TYPE, Schema, Fingerprint
<1>2. CASE units[1] = OtherRelease
  BY <1>1, <1>2 DEF Readable, Decodable, OtherRelease
<1>3. ASSUME t = "orchestrator_mode", units = <<Fingerprint[t], 7, 9>>
      PROVE  ~Readable(units)
  <2>1. WellFormed("orchestrator_mode") /\ Schema.orchestrator_mode = <<<<"timestamp", "one">>, <<"mode", "one">>>>
    BY SchemasWellFormed DEF Schema, orchestrator_mode_t
  <2>2. Decode("orchestrator_mode", <<Fingerprint.orchestrator_mode, 7, 9>>).mode = 9
    BY <2>1, SecondFieldIsRead
  <2>3. ~EnumReadable("orchestrator_mode", Decode("orchestrator_mode", <<Fingerprint.orchestrator_mode, 7, 9>>))
    BY <2>2 DEF EnumReadable
  <2>4. QED
    BY <1>3, <2>3 DEF Readable
<1>4. ASSUME t = "orchestrator_event", units = <<Fingerprint[t], 7, 9>>
      PROVE  ~Readable(units)
  <2>1. WellFormed("orchestrator_event") /\ Schema.orchestrator_event = <<<<"timestamp", "one">>, <<"kind", "one">>>>
    BY SchemasWellFormed DEF Schema, orchestrator_event_t
  <2>2. Decode("orchestrator_event", <<Fingerprint.orchestrator_event, 7, 9>>).kind = 9
    BY <2>1, SecondFieldIsRead
  <2>3. ~EnumReadable("orchestrator_event", Decode("orchestrator_event", <<Fingerprint.orchestrator_event, 7, 9>>))
    BY <2>2 DEF EnumReadable
  <2>4. QED
    BY <1>4, <2>3 DEF Readable
<1>5. QED
  BY <1>2, <1>3, <1>4 DEF OtherReleases

\* What waits in the queue was sent, and what was sent is not refused.
LEMMA MessagesFollow ==
  ASSUME MessagesInv
  PROVE  ReceivedWasSent /\ SentIsReadable
<1>1. CASE topic = NoValue
  BY <1>1 DEF MessagesInv, ReceivedWasSent, SentIsReadable
<1>2. CASE topic # NoValue
  <2>1. OnTheAir /\ topic \in DOMAIN TOPIC_TO_TYPE
    BY <1>2 DEF MessagesInv
  <2>2. \A m \in sent : Readable(Packet(m)) /\ SameMessage(m, Delivered(Packet(m)))
    BY <2>1, PublishedIsRead DEF OnTheAir
  <2>3. ASSUME NEW i \in DOMAIN inbox
        PROVE  \E m \in sent : SameMessage(m, inbox[i])
    <3>1. inbox[i] \in {Delivered(units) : units \in {u \in air : Readable(u)}}
      <4> DEFINE read == {Delivered(units) : units \in {u \in air : Readable(u)}}
      <4>1. inbox \in Seq(read)
        BY <2>1 DEF OnTheAir
      <4> HIDE DEF read
      <4>2. inbox[i] \in read
        BY <4>1
      <4>3. QED
        BY <4>2 DEF read
    <3>2. PICK units \in air : Readable(units) /\ inbox[i] = Delivered(units)
      BY <3>1
    <3>3. units \notin OtherReleases(TOPIC_TO_TYPE[topic])
      BY <2>1, <3>2, OtherReleasesAreNotRead
    <3>4. PICK m \in sent : units = Packet(m)
      BY <2>1, <3>3 DEF OnTheAir
    <3>5. QED
      BY <2>2, <3>2, <3>4
  <2>4. ASSUME NEW m \in sent
        PROVE  Packet(m) \notin refused
    BY <2>1, <2>2 DEF OnTheAir
  <2>5. QED
    BY <2>3, <2>4 DEF ReceivedWasSent, SentIsReadable
<1>3. QED
  BY <1>1, <1>2

\* A packet that is refused leaves the queue as it was.
LEMMA RefusedLeavesQueue ==
  ASSUME [MessagesNext]_messageVars
  PROVE  [refused' # refused /\ topic' = topic => inbox' = inbox]_messageVars
<1> SUFFICES ASSUME refused' # refused, topic' = topic PROVE inbox' = inbox
  OBVIOUS
<1>1. CASE \E t \in DOMAIN TOPIC_TO_TYPE : Subscribe(t)
  BY <1>1 DEF Subscribe
<1>2. CASE \E m \in Samples : Send(m)
  BY <1>2 DEF Send
<1>3. CASE \E units \in OtherReleases(TOPIC_TO_TYPE[topic]) : SendOther(units)
  BY <1>3 DEF SendOther
<1>4. CASE \E units \in air : HandleMessage(units)
  BY <1>4 DEF HandleMessage
<1>5. CASE Receive
  BY <1>5 DEF Receive
<1>6. CASE MessagesEnd
  BY <1>6 DEF MessagesEnd
<1>7. CASE UNCHANGED messageVars
  BY <1>7 DEF messageVars
<1>8. QED
  BY <1>1, <1>2, <1>3, <1>4, <1>5, <1>6, <1>7 DEF MessagesNext

-----------------------------------------------------------------------------
(* The way of joint values.                                                *)

\* A step of the stack is one of the data path, or leaves it.
LEMMA StackLeavesDataPath == [StackNext]_stackVars => [DataPathNext]_dataPathVars
  BY DEF StackNext, MessagesStep, DataPathStep, RatesStep, FeedsStep, SessionStep, stackVars, dataPathVars

\* Throughout the stack, what the driver, the controllers and the actuators hold is told of one robot.
THEOREM StackKeepsTheDataPath == StackSpec => []DataPathInv
<1>1. StackInit => DataPathInv
  BY DataPathStarts DEF StackInit
<1>2. DataPathInv /\ [StackNext]_stackVars => DataPathInv'
  BY StackLeavesDataPath, DataPathSteps
<1>3. QED
  BY <1>1, <1>2, PTL DEF StackSpec

\* In the stack too, every actuator is told what the command means for its joint, and a command without
\* velocities stops the wheels (receive() of the driver, apply_joint_command of the simulation).
THEOREM StackCommandsReachTheirJoints == StackSpec => []CommandReachesItsJoint
BY StackKeepsTheDataPath, DataPathFollows, PTL

\* In the stack too, what is published of a robot is true of it, and so is what the controllers hold without
\* looking at it again (publish() of the driver, read_robot_state, compute_control of the controllers).
THEOREM StackConfigurationsAreTrue == StackSpec => []ConfigurationsAreTheRobots
BY StackKeepsTheDataPath, DataPathFollows, PTL

-----------------------------------------------------------------------------
(* The messages in the stack, and the types of all of it.                  *)

\* A step of the stack is one of the messages, or leaves them.
LEMMA StackLeavesMessages == [StackNext]_stackVars => [MessagesNext]_messageVars
  BY DEF StackNext, MessagesStep, DataPathStep, RatesStep, FeedsStep, SessionStep, stackVars, messageVars

\* Throughout the stack, what waits in a subscriber's queue was read from the air of its topic.
THEOREM StackKeepsTheMessages == StackSpec => []MessagesInv
<1>1. StackInit => MessagesInv
  BY DEF StackInit, MessagesInit, MessagesInv
<1>2. MessagesInv /\ [StackNext]_stackVars => MessagesInv'
  BY StackLeavesMessages, MessagesStepKeeps
<1>3. QED
  BY <1>1, <1>2, PTL DEF StackSpec

\* What a node reads from the air is what was published to it and nothing published goes unread,
\* for every value of the types the program publishes, with the arrays that may be left out still
\* left out; a packet of another release harms nothing that waits (convert, publish, _handle_message).
THEOREM StackMessagesArrive == StackSpec => MessagesArriveAsSent
<1>1. StackSpec => []ReceivedWasSent
  BY StackKeepsTheMessages, MessagesFollow, PTL
<1>2. StackSpec => []SentIsReadable
  BY StackKeepsTheMessages, MessagesFollow, PTL
<1>3. StackSpec => BadPacketHarmsNothing
  BY StackLeavesMessages, RefusedLeavesQueue, PTL DEF StackSpec, BadPacketHarmsNothing
<1>4. QED
  BY <1>1, <1>2, <1>3, PTL DEF MessagesArriveAsSent

LEMMA RatesTypeFollows ==
  ASSUME RatesInv
  PROVE  RatesTypeOK
<1>1. RatesTyped /\ ProcessesOnSchedule
  BY DEF RatesInv
<1>2. \A i \in DOMAIN processes : processes[i] \in Process
  BY <1>1 DEF RatesTyped
<1>3. ASSUME NEW i \in DOMAIN processes
      PROVE  processes[i].at \in {"sleeping", "stepping", "gone"}
  <2>1. processes[i] \in Process
    BY <1>2
  <2>2. QED
    BY <2>1 DEF Process
<1>4. QED
  BY <1>1, <1>3 DEF RatesTyped, ProcessesOnSchedule, RatesTypeOK

\* Every part of the stack keeps its variables what they are declared to be, whatever the others do.
THEOREM StackTypeCorrect == StackSpec => []StackTypeOK
<1>1. StackSpec => []SessionTypeOK
  BY StackIsASession, TypeCorrect, PTL
<1>2. StackSpec => []DataPathTypeOK
  BY StackKeepsTheDataPath, DataPathFollows, PTL
<1>3. StackSpec => []MessagesTypeOK
  BY StackKeepsTheMessages, MessagesTypeFollows, PTL
<1>4. StackSpec => []RatesTypeOK
  BY RatesTypeCorrect, RatesTypeFollows, PTL
<1>5. StackSpec => []FeedsTypeOK
  BY LogIsFollowed, FeedsTypeFollows, PTL
<1>6. QED
  BY <1>1, <1>2, <1>3, <1>4, <1>5, PTL DEF StackTypeOK

-----------------------------------------------------------------------------
(* The session.                                                            *)

\* Clients, controller and orchestrator keep their promises inside the stack: the diagnostic asks
\* for IDLE last and measures a robot that followed it, keys and engagements count once, and the
\* robot moves only as it is asked to.
THEOREM StackKeepsTheSession ==
  StackSpec => /\ []DiagnosticIsSound /\ []KeysCountOnce /\ []NothingResumes
               /\ NoLeap /\ []NoMotionWithoutInput
BY StackIsASession, DiagnosticSound, KeysCount, NoResumption, CommandsDoNotLeap, NothingMovesByItself, PTL

=============================================================================
