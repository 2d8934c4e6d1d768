------------------------------- MODULE NodeRates -------------------------------
(***************************************************************************)
(* The pace of the nodes and what the console shows of it: loop_at_rate       *)
(* (utils/loop.py) with its deadlines, the reporter that measures every node's *)
(* rate (nodes/rate.py), and the monitor that keeps the last sample of every   *)
(* process (orchestrator/monitor/node.py) while processes die, restart and     *)
(* get each other's process ids.  Steps and sleeps take as long as they take.  *)
(***************************************************************************)
EXTENDS Integers, Sequences, FiniteSets

CONSTANTS
    NodeNames, Pids,
    Period,         \* of the loop, in ticks
    ReportInterval, \* report_interval_seconds, in ticks
    MaxAge,         \* max_age_seconds, in ticks
    MaxNow,         \* bound: ticks
    MaxProcesses,   \* bound: processes that are started
    MaxAlive,       \* bound: processes that run at a time
    MaxQueued,      \* bound: samples under way
    Unknown         \* no value

ASSUME RatesAssumption ==
    /\ {Period, ReportInterval} \subseteq Nat \ {0}
    /\ {MaxAge, MaxNow, MaxProcesses, MaxAlive, MaxQueued} \subseteq Nat
    /\ Unknown \notin Int

VARIABLES
    now,        \* the clock
    processes,  \* the node processes, in the order of their starts
    queued,     \* rate samples on their way to the monitor
    observed,   \* NodeRateMonitor._samples: by process id
    active,     \* active_nodes() as the console last read it: the process by name
    rates       \* the status shown: by name, nothing while the console asks for the next

ratesVars == <<now, processes, queued, observed, active, rates>>

Alive == {i \in DOMAIN processes : processes[i].at # "gone"}

\* The bound on the iterations that a window can have.
RatesTypeOK ==
    /\ now \in 0..MaxNow
    /\ \A i \in DOMAIN processes :
        /\ processes[i].at \in {"sleeping", "stepping", "gone"}
        /\ processes[i].iterations \in 0..(ReportInterval \div Period + 1)
    /\ \A i, j \in Alive : i # j => processes[i].pid # processes[j].pid
    /\ DOMAIN observed \subseteq Pids
    /\ DOMAIN rates \subseteq NodeNames

RatesAt(time) ==
    /\ now = time /\ processes = <<>> /\ queued = <<>>
    /\ observed = <<>> /\ active = <<>> /\ rates = <<>>

RatesInit == RatesAt(0)

-----------------------------------------------------------------------------
(* A node.                                                                 *)

\* A sample says its process by name and id; of is the process itself.
RateSample(i, p, iterations, elapsed) ==
    [of |-> i, name |-> p.name, pid |-> p.pid, iterations |-> iterations, elapsed |-> elapsed]

\* NodeRateReporter.start(), then the loop.  A name's earlier processes had other ids: ids
\* come round, but not that soon.
StartNode(name, pid) ==
    /\ Len(processes) < MaxProcesses /\ Cardinality(Alive) < MaxAlive /\ Len(queued) < MaxQueued
    /\ \A i \in Alive : processes[i].name # name /\ processes[i].pid # pid
    /\ \A i \in DOMAIN processes : processes[i].name = name => processes[i].pid # pid
    /\ LET p == [name |-> name, pid |-> pid, at |-> "sleeping", start |-> now, due |-> now,
                 since |-> Unknown, iterations |-> 0, period |-> -1]
       IN  /\ processes' = Append(processes, p)
           /\ queued' = Append(queued, RateSample(Len(processes) + 1, p, 0, 1))
    /\ UNCHANGED <<now, observed, active, rates>>

\* Mutant: the iterations of one window are counted in the next.
KeepCounting(p) ==
    IF p.since = Unknown THEN [p EXCEPT !.since = now]
    ELSE IF now - p.since < ReportInterval THEN [p EXCEPT !.iterations = @ + 1]
    ELSE [p EXCEPT !.since = now, !.iterations = @ + 1]

\* observe_iteration: the first only opens the window.
ObserveIteration(p) ==
    IF p.since = Unknown THEN [p EXCEPT !.since = now]
    ELSE IF now - p.since < ReportInterval THEN [p EXCEPT !.iterations = @ + 1]
    ELSE [p EXCEPT !.since = now, !.iterations = 0]

WindowFull(p) == p.since # Unknown /\ now - p.since >= ReportInterval

StepBegins(i) ==
    /\ processes[i].at = "sleeping" /\ processes[i].due <= now
    /\ Len(queued) < MaxQueued
    /\ LET p == processes[i] IN
       /\ processes' = [processes EXCEPT ![i] =
                            [ObserveIteration(p) EXCEPT !.at = "stepping", !.period = (now - p.start) \div Period]]
       /\ queued' = IF WindowFull(p) THEN Append(queued, RateSample(i, p, p.iterations + 1, now - p.since))
                    ELSE queued
    /\ UNCHANGED <<now, observed, active, rates>>

\* Mutant: what was missed is caught up with.
CatchUp(previous) == previous + Period

\* _next_deadline: deadlines that have passed are skipped.
NextDeadline(previous) ==
    LET deadline == previous + Period IN
    IF now < deadline THEN deadline
    ELSE deadline + ((now - deadline) \div Period + 1) * Period

StepEnds(i) ==
    /\ processes[i].at = "stepping"
    /\ processes' = [processes EXCEPT ![i].at = "sleeping", ![i].due = NextDeadline(@)]
    /\ UNCHANGED <<now, queued, observed, active, rates>>

NodeDies(i) ==
    /\ i \in Alive
    /\ processes' = [processes EXCEPT ![i] =
                        [@ EXCEPT !.at = "gone", !.start = 0, !.due = 0, !.since = Unknown,
                                  !.iterations = 0, !.period = -1]]
    /\ UNCHANGED <<now, queued, observed, active, rates>>

\* Time is counted from the first process on.
Tick ==
    /\ now < MaxNow /\ processes # <<>>
    /\ now' = now + 1
    /\ UNCHANGED <<processes, queued, observed, active, rates>>

-----------------------------------------------------------------------------
(* The monitor.                                                            *)

\* _consume_samples.
ConsumeSample ==
    /\ queued # <<>>
    /\ observed' = [pid \in DOMAIN observed \cup {Head(queued).pid} |->
                        IF pid = Head(queued).pid THEN [sample |-> Head(queued), at |-> now] ELSE observed[pid]]
    /\ queued' = Tail(queued)
    /\ UNCHANGED <<now, processes, active, rates>>

\* NodeManager.active_nodes, then snapshot under the monitor's own lock.
ReadActiveNodes ==
    /\ active = <<>> /\ Alive # {}
    /\ active' = [name \in {processes[i].name : i \in Alive} |->
                    CHOOSE i \in Alive : processes[i].name = name]
    /\ rates' = <<>>
    /\ UNCHANGED <<now, processes, queued, observed>>

AtRate(sample) ==
    /\ sample.iterations > 0
    /\ 10 * sample.iterations * Period >= 9 * sample.elapsed

\* Mutant: whatever was last heard from the process id counts.
StatusOfPid(name, pid) ==
    IF pid \notin DOMAIN observed THEN [known |-> FALSE, healthy |-> FALSE, of |-> Unknown]
    ELSE LET o == observed[pid] IN
         [known |-> TRUE, healthy |-> AtRate(o.sample) /\ now - o.at <= MaxAge, of |-> o.sample.of]

\* _status.
RateStatus(name, pid) ==
    IF pid \notin DOMAIN observed \/ observed[pid].sample.name # name
    THEN [known |-> FALSE, healthy |-> FALSE, of |-> Unknown]
    ELSE LET o == observed[pid] IN
         [known |-> TRUE, healthy |-> AtRate(o.sample) /\ now - o.at <= MaxAge, of |-> o.sample.of]

\* Samples of processes that do not run are forgotten.
SnapshotRates ==
    /\ active # <<>>
    /\ observed' = [pid \in DOMAIN observed \cap {processes[active[name]].pid : name \in DOMAIN active} |->
                        observed[pid]]
    /\ rates' = [name \in DOMAIN active |->
                    [status |-> RateStatus(name, processes[active[name]].pid), asked |-> active[name]]]
    /\ active' = <<>>
    /\ UNCHANGED <<now, processes, queued>>

RatesNext ==
    \/ \E name \in NodeNames, pid \in Pids : StartNode(name, pid)
    \/ \E i \in DOMAIN processes : StepBegins(i) \/ StepEnds(i) \/ NodeDies(i)
    \/ Tick
    \/ ConsumeSample
    \/ ReadActiveNodes
    \/ SnapshotRates

-----------------------------------------------------------------------------
(* Properties.                                                             *)

\* Nothing is caught up with: however late steps begin and however long they take, two steps of
\* a loop never begin within the same period of its schedule (_next_deadline, loop_at_rate).
NoCatchUp ==
    [][\A i \in DOMAIN processes \cap DOMAIN processes' :
            (processes[i].at = "sleeping" /\ processes'[i].at = "stepping")
            => processes'[i].period > processes[i].period]_ratesVars

\* A node that is shown as healthy has itself run at its rate: the sample is of the process
\* that runs now, not of one that had its name or its process id before, however late samples
\* arrive and whatever died between the reading of the active nodes and the answer (_status).
HealthyIsItsOwn == \A name \in DOMAIN rates : rates[name].status.known => rates[name].status.of = rates[name].asked

=============================================================================
