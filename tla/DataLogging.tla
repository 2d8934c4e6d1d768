------------------------------ MODULE DataLogging ------------------------------
(***************************************************************************)
(* Data logging: the logger node (nodes/robot/logger.py), which runs one   *)
(* lcm-logger process per recording, and the operator console that asks    *)
(* for it (service.set_logging) and shows it (orchestrator/monitor/        *)
(* logging.py).  Requests and reports travel on topics whose queues hold   *)
(* one message; the console marks a request as pending and gives up on it  *)
(* after a timeout.                                                        *)
(***************************************************************************)
EXTENDS Naturals, Sequences

CONSTANTS
    MaxRecordings,  \* bound: recorder processes
    MaxEvents,      \* bound: events published by the console and by others
    MaxStarts,      \* bound: starts of the stack
    MaxReports,     \* bound: status messages under way
    Lossy,          \* whether an event may get lost
    Others,         \* the events that others publish: the Oculus policy and the mode requests
    None

ASSUME LoggingAssumption ==
    /\ {MaxRecordings, MaxEvents, MaxStarts} \subseteq Nat
    /\ MaxReports \in Nat \ {0}
    /\ Lossy \in BOOLEAN
    /\ Others \subseteq {"START", "STOP", "OTHER"}
    /\ None \notin Nat

Recordings == 1..MaxRecordings
LoggingState == {"STOPPED", "STARTING", "RUNNING", "STOPPING", "FAILED"}
Report == [state : LoggingState, file : Recordings \cup {None}]
Event == {"START", "STOP", "OTHER"}

ASSUME AbsenceAssumption == None \notin Report \cup Event

VARIABLES
    recorder,       \* the state of every lcm-logger process
    at,             \* where the node is
    process,        \* RobotLoggerNode.process
    status,         \* RobotLoggerNode.logging_status
    closing,        \* whether the node is in on_close()
    event,          \* the node's queue of events
    events,         \* events published so far
    starts,         \* starts of the stack so far
    reports,        \* status messages under way
    mailbox,        \* the monitor's queue
    shown,          \* LoggingMonitor._status
    pending,        \* whether _pending_since_monotonic is set
    request         \* what the console is doing

nodeVars == <<at, process, status, closing>>
monitorVars == <<mailbox, shown, pending>>
vars == <<recorder, nodeVars, event, events, starts, reports, monitorVars, request>>

Stages == {"check", "drain", "create", "spawn", "stop", "wait", "done", "ended"}
Requests == {"idle", "mark_START", "mark_STOP", "publish_START", "publish_STOP", "report", "stop_stack"}

TypeOK ==
    /\ recorder \in [Recordings -> {"unborn", "records", "told", "clean", "broken"}]
    /\ at \in Stages
    /\ process \in Recordings \cup {None}
    /\ status \in Report
    /\ closing \in BOOLEAN
    /\ event \in Event \cup {None}
    /\ events \in 0..MaxEvents
    /\ starts \in 0..MaxStarts
    /\ reports \in Seq(Report) /\ Len(reports) <= MaxReports
    /\ mailbox \in Report \cup {None}
    /\ shown \in LoggingState
    /\ pending \in BOOLEAN
    /\ request \in Requests

Init ==
    /\ recorder = [r \in Recordings |-> "unborn"]
    /\ at = "ended" /\ process = None /\ closing = FALSE
    /\ status = [state |-> "STOPPED", file |-> None]
    /\ event = None /\ events = 0 /\ starts = 0
    /\ reports = <<>> /\ mailbox = None
    /\ shown = "STOPPED" /\ pending = FALSE
    /\ request = "idle"

Live(r) == recorder[r] \in {"records", "told"}
Exited(r) == recorder[r] \in {"clean", "broken"}

-----------------------------------------------------------------------------
(* The recorder processes.                                                 *)

\* A recorder may exit at any time, told or not, with code 0 ("clean") or another.
RecorderExits(r, outcome) ==
    /\ Live(r)
    /\ recorder' = [recorder EXCEPT ![r] = outcome]
    /\ UNCHANGED <<nodeVars, event, events, starts, reports, monitorVars, request>>

-----------------------------------------------------------------------------
(* The node.                                                               *)

PublishStatus(state, file) ==
    /\ Len(reports) < MaxReports
    /\ status' = [state |-> state, file |-> file]
    /\ reports' = Append(reports, status')

nodeFrame == <<events, starts, monitorVars, request>>

\* Mutant: a recorder that died is not noticed.
ReportNoExit ==
    /\ at = "check"
    /\ at' = "drain"
    /\ UNCHANGED <<process, status, reports, recorder, closing, event, nodeFrame>>

\* Mutant: the exit code is reported where the state belongs.
ReportExitAsState ==
    /\ at = "check"
    /\ at' = "drain"
    /\ IF process # None /\ Exited(process)
       THEN PublishStatus(recorder[process], status.file) /\ process' = None
       ELSE UNCHANGED <<process, status, reports>>
    /\ UNCHANGED <<recorder, closing, event, nodeFrame>>

\* _report_unexpected_exit.
ReportUnexpectedExit ==
    /\ at = "check"
    /\ at' = "drain"
    /\ IF process # None /\ Exited(process)
       THEN PublishStatus("FAILED", status.file) /\ process' = None
       ELSE UNCHANGED <<process, status, reports>>
    /\ UNCHANGED <<recorder, closing, event, nodeFrame>>

\* Mutant: a start does not ask whether a recorder is running already.
AlwaysStarts == TRUE

\* _start_logging does nothing, and reports nothing, while a recorder runs.
MayStart == process = None \/ Exited(process)

ReceiveEvent ==
    /\ at = "drain"
    /\ event' = None
    /\ at' = IF event = None THEN "check"
             ELSE IF event = "START" /\ MayStart THEN "create"
             ELSE IF event = "STOP" THEN "stop" ELSE "drain"
    /\ process' = IF event = "START" /\ MayStart THEN None ELSE process
    /\ UNCHANGED <<recorder, status, reports, closing, nodeFrame>>

\* STARTING is reported before anything is done for the recording.
CreateRecording ==
    /\ at = "create"
    /\ PublishStatus("STARTING", None)
    /\ at' = "spawn"
    /\ UNCHANGED <<recorder, process, closing, event, nodeFrame>>

\* The recording cannot be prepared, or lcm-logger cannot be run.
StartFails ==
    /\ at = "spawn"
    /\ PublishStatus("FAILED", None)
    /\ at' = "drain"
    /\ UNCHANGED <<recorder, process, closing, event, nodeFrame>>

\* lcm-logger is run; if it is found dead at once nothing is kept of it.
Spawn(r, alive) ==
    /\ at = "spawn" /\ recorder[r] = "unborn" /\ \A o \in 1..(r - 1) : recorder[o] # "unborn"
    /\ recorder' = [recorder EXCEPT ![r] = IF alive THEN "records" ELSE "broken"]
    /\ process' = IF alive THEN r ELSE None
    /\ PublishStatus(IF alive THEN "RUNNING" ELSE "FAILED", r)
    /\ at' = "drain"
    /\ UNCHANGED <<closing, event, nodeFrame>>

AfterStop == IF closing THEN "done" ELSE "drain"

StopNothing ==
    /\ at = "stop" /\ process = None
    /\ PublishStatus("STOPPED", None)
    /\ at' = AfterStop
    /\ UNCHANGED <<recorder, process, closing, event, nodeFrame>>

\* STOPPING, then SIGINT to a recorder that has not exited.
StopRecorder ==
    /\ at = "stop" /\ process # None
    /\ PublishStatus("STOPPING", status.file)
    /\ recorder' = IF recorder[process] = "records" THEN [recorder EXCEPT ![process] = "told"] ELSE recorder
    /\ at' = "wait"
    /\ UNCHANGED <<process, closing, event, nodeFrame>>

RecorderEnded ==
    /\ at = "wait" /\ Exited(process)
    /\ PublishStatus(IF recorder[process] = "clean" THEN "STOPPED" ELSE "FAILED", status.file)
    /\ process' = None
    /\ at' = AfterStop
    /\ UNCHANGED <<recorder, closing, event, nodeFrame>>

\* Mutant: a recorder that had to be killed counts as stopped.
RecorderKilledQuietly ==
    /\ at = "wait" /\ Live(process)
    /\ recorder' = [recorder EXCEPT ![process] = "broken"]
    /\ PublishStatus("STOPPED", status.file)
    /\ process' = None
    /\ at' = AfterStop
    /\ UNCHANGED <<closing, event, nodeFrame>>

\* Two seconds have passed.
RecorderKilled ==
    /\ at = "wait" /\ Live(process)
    /\ recorder' = [recorder EXCEPT ![process] = "broken"]
    /\ PublishStatus("FAILED", status.file)
    /\ process' = None
    /\ at' = AfterStop
    /\ UNCHANGED <<closing, event, nodeFrame>>

\* Mutant: an interrupt just ends the node.
InterruptEnds ==
    /\ at \notin {"done", "ended"} /\ ~closing /\ request = "stop_stack"
    /\ closing' = TRUE
    /\ process' = None
    /\ at' = "done"
    /\ UNCHANGED <<recorder, status, event, reports, nodeFrame>>

\* SIGINT from the process manager: on_close() stops the recording; a stop that was waiting
\* has already let go of the process.
Interrupt ==
    /\ at \notin {"done", "ended"} /\ ~closing /\ request = "stop_stack"
    /\ closing' = TRUE
    /\ process' = IF at = "wait" THEN None ELSE process
    /\ at' = "stop"
    /\ UNCHANGED <<recorder, status, event, reports, nodeFrame>>

NodeEnds ==
    /\ at = "done"
    /\ at' = "ended" /\ event' = None
    /\ UNCHANGED <<recorder, process, status, closing, reports, nodeFrame>>

-----------------------------------------------------------------------------
(* The topics.                                                             *)

\* The node keeps one event: a later one takes its place.
PublishEvent(kind) == event' = IF at = "ended" THEN None ELSE kind

SomebodyPublishes(kind) ==
    /\ events < MaxEvents
    /\ events' = events + 1
    /\ PublishEvent(kind)
    /\ UNCHANGED <<recorder, nodeVars, starts, reports, monitorVars, request>>

\* Reports arrive in order and none is lost; the monitor's queue keeps the last.
DeliverReport ==
    /\ reports # <<>>
    /\ mailbox' = Head(reports)
    /\ reports' = Tail(reports)
    /\ UNCHANGED <<recorder, nodeVars, event, events, starts, shown, pending, request>>

-----------------------------------------------------------------------------
(* The monitor.                                                            *)

\* snapshot(), when the pending request has not expired.
Snapshot ==
    IF mailbox = None THEN UNCHANGED monitorVars
    ELSE /\ mailbox' = None
         /\ shown' = mailbox.state
         /\ pending' = (mailbox.state \in {"STARTING", "STOPPING"})

\* snapshot(), when it has.
Expires ==
    /\ mailbox = None /\ pending
    /\ shown' = "FAILED" /\ pending' = FALSE
    /\ UNCHANGED mailbox

\* Mutant: the clock of the request is not started.
SetPendingUntimed(state) ==
    /\ mailbox' = None
    /\ shown' = state /\ pending' = FALSE

SetPending(state) ==
    /\ mailbox' = None
    /\ shown' = state /\ pending' = TRUE

Reset ==
    /\ mailbox' = None
    /\ shown' = "STOPPED" /\ pending' = FALSE

-----------------------------------------------------------------------------
(* The console.                                                            *)

consoleFrame == <<recorder, nodeVars, starts, reports>>

Poll ==
    /\ request = "idle"
    /\ Snapshot
    /\ UNCHANGED <<consoleFrame, event, events, request>>

PollExpired ==
    /\ request = "idle"
    /\ Expires
    /\ UNCHANGED <<consoleFrame, event, events, request>>

\* The buttons: start unless a recording is active or stopping, stop if one is active.
Offered(kind) ==
    IF kind = "START" THEN shown \in {"STOPPED", "FAILED"} ELSE shown \in {"STARTING", "RUNNING"}

\* set_logging(): the status first, then the request is marked and published, then the
\* status again.
SetLogging(kind) ==
    /\ request = "idle" /\ at # "ended" /\ events < MaxEvents
    /\ Offered(kind)
    /\ Snapshot
    /\ request' = IF kind = "START" THEN "mark_START" ELSE "mark_STOP"
    /\ events' = events + 1
    /\ UNCHANGED <<consoleFrame, event>>

MarkRequested ==
    /\ request \in {"mark_START", "mark_STOP"}
    /\ IF request = "mark_START"
       THEN SetPending("STARTING") /\ request' = "publish_START"
       ELSE SetPending("STOPPING") /\ request' = "publish_STOP"
    /\ UNCHANGED <<consoleFrame, event, events>>

PublishRequest ==
    /\ request \in {"publish_START", "publish_STOP"}
    /\ \/ PublishEvent(IF request = "publish_START" THEN "START" ELSE "STOP")
       \/ Lossy /\ UNCHANGED event
    /\ request' = "report"
    /\ UNCHANGED <<consoleFrame, events, monitorVars>>

\* Publishing raises: fail().
PublishFails ==
    /\ request \in {"publish_START", "publish_STOP"}
    /\ shown' = "FAILED" /\ pending' = FALSE
    /\ request' = "idle"
    /\ UNCHANGED <<consoleFrame, event, events, mailbox>>

ReportBack ==
    /\ request = "report"
    /\ Snapshot
    /\ request' = "idle"
    /\ UNCHANGED <<consoleFrame, event, events>>

StartStack ==
    /\ request = "idle" /\ at = "ended" /\ starts < MaxStarts
    /\ PublishStatus("STOPPED", None)
    /\ starts' = starts + 1
    /\ at' = "check" /\ process' = None /\ closing' = FALSE
    /\ UNCHANGED <<recorder, event, events, monitorVars, request>>

\* The manager interrupts the node and waits for it; then the monitor is reset.
StopStack ==
    /\ request = "idle" /\ at # "ended"
    /\ request' = "stop_stack"
    /\ UNCHANGED <<consoleFrame, event, events, monitorVars>>

StackStopped ==
    /\ request = "stop_stack" /\ at = "ended"
    /\ Reset
    /\ request' = "idle"
    /\ UNCHANGED <<consoleFrame, event, events>>

-----------------------------------------------------------------------------
NodeStep ==
    \/ ReportUnexpectedExit
    \/ ReceiveEvent
    \/ CreateRecording
    \/ StartFails
    \/ \E r \in Recordings, alive \in BOOLEAN : Spawn(r, alive)
    \/ StopNothing
    \/ StopRecorder
    \/ RecorderEnded
    \/ RecorderKilled
    \/ NodeEnds

ConsoleStep ==
    \/ MarkRequested
    \/ PublishRequest
    \/ PublishFails
    \/ ReportBack
    \/ StackStopped

Next ==
    \/ \E r \in Recordings : \E outcome \in {"clean", "broken"} : RecorderExits(r, outcome)
    \/ NodeStep
    \/ Interrupt
    \/ \E kind \in Others : SomebodyPublishes(kind)
    \/ DeliverReport
    \/ Poll
    \/ PollExpired
    \/ \E kind \in {"START", "STOP"} : SetLogging(kind)
    \/ ConsoleStep
    \/ StartStack
    \/ StopStack

Spec == Init /\ [][Next]_vars

\* The node loops at 10 Hz and is interrupted when the stack is stopped, reports arrive, a
\* request that was begun is carried out, and the console polls; it finds a pending request
\* expired sooner or later.
Fairness ==
    /\ WF_vars(NodeStep)
    /\ WF_vars(Interrupt)
    /\ WF_vars(DeliverReport)
    /\ WF_vars(ConsoleStep)
    /\ WF_vars(Poll)
    /\ SF_vars(PollExpired)

FairSpec == Spec /\ Fairness

-----------------------------------------------------------------------------
(* What holds.                                                             *)

\* No recorder is forgotten: one that has not been told to stop is the one the node holds,
\* through double starts, failing starts, stops that are interrupted and restarts; so no two
\* record at a time.
NoForgottenRecorder == \A r \in Recordings : recorder[r] = "records" => process = r

\* A recording the node reports as stopped is complete: lcm-logger flushed it and exited
\* with code 0.
StoppedIsComplete ==
    status.state = "STOPPED" /\ status.file # None => recorder[status.file] = "clean"

\* Every recorder is accounted for: known to the node while it records, complete once it is
\* reported as stopped.
RecordersAreAccounted == NoForgottenRecorder /\ StoppedIsComplete

\* A recorder that is dead when the node begins to check is not reported as running when it has
\* checked, unless an interrupt has come first, which stops the recording.
DeathIsSeen ==
    [][at = "check" /\ at' # at /\ status.state = "RUNNING" /\ Exited(status.file)
       => status'.state = "FAILED" \/ at' = "stop"]_vars

\* The node does not go on reporting a recording that has died.
DeathIsReported ==
    \A r \in Recordings :
        (status = [state |-> "RUNNING", file |-> r] /\ Exited(r))
            ~> status # [state |-> "RUNNING", file |-> r]

\* The node's last report is under way to the console, or waits to be looked at, or is what the console
\* shows; otherwise the console waits for the answer to a request, has given up on one, or knows that the stack
\* has ended.  No report is dropped for good, whatever requests cross it.
NoReportIsMissed ==
    IF reports # <<>> THEN reports[Len(reports)] = status
    ELSE IF mailbox # None THEN mailbox = status
    ELSE pending \/ shown \in {status.state, "FAILED"} \/ (at = "ended" /\ shown = "STOPPED")

\* What the console shows ends as what the node last reported, or as a failure: it never
\* goes on showing a recording that is not there, or none where there is one, whatever
\* requests crossed, whichever of them were lost or overwritten.
ConsoleErrsToFailure ==
    <>[](shown \in {status.state, "FAILED"} \/ (at = "ended" /\ shown = "STOPPED"))

(* What the repository says, and the code does not keep.                   *)

\* "Track the latest lifecycle report from RobotLoggerNode" (LoggingMonitor): the console
\* ends showing the node's last report.
ConsoleShowsLatestReport ==
    <>[](shown = status.state \/ at = "ended")

=============================================================================
