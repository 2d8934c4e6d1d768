-------------------------- MODULE OrchestratorService --------------------------
(***************************************************************************)
(* The operator service (orchestrator/service.py): requests of the console  *)
(* against the process manager, the replay manager and the orchestrator     *)
(* node.  A request holds the service lock from its first status() to its   *)
(* last, so at most one is under way; around it processes die, the startup  *)
(* thread fails the stack, mode messages arrive, and close() runs, which    *)
(* takes no lock: the web server neither ends its request threads nor waits *)
(* for them (ui/server.py).  A request's calls of the managers are atomic   *)
(* here: NodeManager models the process manager's own threads.              *)
(***************************************************************************)
EXTENDS Naturals

CONSTANTS
    Teleops,        \* the teleoperation processes, each named like its mode
    Runtimes,       \* Runtime: contains "REAL"
    Recorded,       \* the modes that a replayed log carries
    Operations,     \* what operators do under each runtime (all requests and "close", or a part)
    LateOperations, \* the requests that they make once close() has begun (likewise)
    None

Names == {"STACK", "REPLAY"} \cup Teleops
Modes == {"IDLE", "HOMING"} \cup Teleops

AllOperations == {"status", "set_runtime", "start", "stop", "request_mode", "start_replay", "stop_replay", "close"}

ASSUME ServiceAssumption ==
    /\ Operations \in [Runtimes -> SUBSET AllOperations]
    /\ LateOperations \subseteq AllOperations
    /\ Recorded \subseteq Modes
    /\ None \notin Names \cup Modes \cup Runtimes
    /\ Teleops \cap {"STACK", "REPLAY", "IDLE", "HOMING"} = {}

VARIABLES
    runtime,    \* NodeManager.runtime
    group,      \* the group of each name in NodeManager
    leftover,   \* of these an earlier, failed group is still being stopped
    player,     \* ReplayManager._process: absent, alive, or ended and not yet polled
    outcome,    \* ReplayManager._outcome
    mode,       \* OrchestratorNode.mode
    returnMode, \* OrchestratorNode.return_mode
    event,      \* its event queue
    heard,      \* the queue of ModeMonitor's subscriber
    seen,       \* the mode ModeMonitor last received, while it is fresh
    request,    \* the request under way
    at,         \* where it is
    view,       \* the processes its status() returned
    playing,    \* the replay.running its status() returned
    handled,    \* _handled_stack_failure
    closing,    \* where close() is
    late        \* history: what requests have started since close() began

managerVars == <<runtime, group, leftover>>
replayVars == <<player, outcome>>
nodeVars == <<mode, returnMode, event>>
monitorVars == <<heard, seen>>
requestVars == <<request, at, view, playing, handled>>
closeVars == <<closing, late>>
vars == <<managerVars, replayVars, nodeVars, monitorVars, requestVars, closeVars>>

\* A group is "starting" while its startup thread waits for the robot, "partial" when a
\* process of it has died and others live; it is "failing" once it counts as failed but
\* its processes are still being stopped, "stopped" when it has exit code 0.
Running == {"starting", "running", "partial"}
GroupState == Running \cup {"none", "failing", "failed", "stopped"}

Requests == UNION {Operations[r] : r \in Runtimes} \ {"close"}
Request == [op : Requests, name : Names \cup {None}, mode : Modes \cup {None},
            expected : Runtimes, acknowledged : BOOLEAN]

ASSUME NoneIsNoRequest == None \notin [call : Request, acted : BOOLEAN]

Stage == {"idle", "manager", "reconcile", "failure", "verdict", "act", "wait_idle", "stop_teleop",
          "close_stack", "wait_ready", "play", "roll_back", "done"}

TypeOK ==
    /\ runtime \in Runtimes
    /\ group \in [Names -> GroupState]
    /\ leftover \in SUBSET Names
    /\ player \in {"absent", "alive", "ok", "error"}
    /\ outcome \in {None, "COMPLETED", "FAILED", "STOPPED"}
    /\ mode \in Modes
    /\ returnMode \in Teleops \cup {None}
    /\ event \in Modes \cup {None}
    /\ heard \in Modes \cup {None}
    /\ seen \in Modes \cup {None}
    /\ request \in [call : Request, acted : BOOLEAN] \cup {None}
    /\ at \in Stage
    /\ view \in [Names -> GroupState \ {"partial"}]
    /\ playing \in BOOLEAN
    /\ handled \in {None, "failing", "failed"}
    /\ closing \in {"open", "status", "look", "close", "players", "closed"}
    /\ late \in SUBSET (Names \cup {"PLAYER"})

NoView == [n \in Names |-> "none"]

Init ==
    /\ runtime \in Runtimes
    /\ group = [n \in Names |-> "none"]
    /\ leftover = {}
    /\ player = "absent"
    /\ outcome = None
    /\ mode = "IDLE"
    /\ returnMode = None
    /\ event = None
    /\ heard = None
    /\ seen = None
    /\ request = None
    /\ at = "idle"
    /\ view = NoView
    /\ playing = FALSE
    /\ handled = None
    /\ closing = "open"
    /\ late = {}

-----------------------------------------------------------------------------
(* What the service calls.                                                 *)

\* ProcessStatus.running: False from the moment that the group counts as failed.
Runs(groups, n) == groups[n] \in Running
RunningNow(n) == Runs(group, n)

\* Whether processes of that name live, those of a failed group included that is still
\* being stopped.
Lives(n) == RunningNow(n) \/ group[n] = "failing" \/ n \in leftover
ReplayLives == Lives("REPLAY") \/ player = "alive"

\* Mutant: the siblings of a dead process live on.
StatusLeavingSiblings(groups) == groups

\* NodeManager.status: a partly dead group is stopped and failed on the way.
StatusOf(groups) == [n \in Names |-> IF groups[n] = "partial" THEN "failed" ELSE groups[n]]

\* NodeManager.stop, of one name or (close) of several.
StopAll(groups, names) ==
    [n \in Names |-> IF n \in names /\ Runs(groups, n) THEN "stopped" ELSE groups[n]]

\* ReplayManager._status_locked: a player that has ended is polled.
PolledOutcome == CASE player = "ok" -> "COMPLETED" [] player = "error" -> "FAILED" [] OTHER -> outcome

\* A request starts this; close() may be under way.
Notes(what) == late' = IF closing = "open" THEN late ELSE late \cup {what}

\* ReplayManager.stop.
StopPlayer ==
    /\ outcome' = IF player = "alive" THEN "STOPPED" ELSE PolledOutcome
    /\ player' = "absent"

ResetMonitor == heard' = None /\ seen' = None

Snapshot ==
    /\ seen' = IF heard = None THEN seen ELSE heard
    /\ heard' = None

-----------------------------------------------------------------------------
(* The outside: processes, the orchestrator node and its messages.         *)

\* A process of the group dies; its siblings, if it has any, live on.
ProcessDies(n) ==
    /\ group[n] \in {"starting", "running"}
    /\ group' = [group EXCEPT ![n] = IF n \in Teleops THEN "failed" ELSE "partial"]
    /\ UNCHANGED <<runtime, leftover, replayVars, nodeVars, monitorVars, requestVars, closeVars>>

\* All of a group's processes end with exit code 0 (an interrupt from the terminal).
GroupEnds(n) ==
    /\ group[n] \in {"running", "partial"}
    /\ group' = [group EXCEPT ![n] = "stopped"]
    /\ UNCHANGED <<runtime, leftover, replayVars, nodeVars, monitorVars, requestVars, closeVars>>

\* The startup thread has started the deferred nodes.
StartupSucceeds ==
    /\ group["STACK"] = "starting"
    /\ group' = [group EXCEPT !["STACK"] = "running"]
    /\ UNCHANGED <<runtime, leftover, replayVars, nodeVars, monitorVars, requestVars, closeVars>>

\* The startup thread fails the stack: it counts as failed before it is shut down.
StartupFails ==
    /\ group["STACK"] \in {"starting", "partial"}
    /\ group' = [group EXCEPT !["STACK"] = "failing"]
    /\ UNCHANGED <<runtime, leftover, replayVars, nodeVars, monitorVars, requestVars, closeVars>>

\* The shutdown of a failed group, or of one before it, is over.
ShutdownEnds(n) ==
    /\ \/ /\ n \in leftover
          /\ leftover' = leftover \ {n}
          /\ UNCHANGED group
       \/ /\ group[n] = "failing"
          /\ group' = [group EXCEPT ![n] = "failed"]
          /\ UNCHANGED leftover
    /\ UNCHANGED <<runtime, replayVars, nodeVars, monitorVars, requestVars, closeVars>>

PlayerEnds(exit) ==
    /\ player = "alive"
    /\ player' = exit
    /\ UNCHANGED <<managerVars, outcome, nodeVars, monitorVars, requestVars, closeVars>>

HandleEvent ==
    /\ Lives("STACK") /\ event # None
    /\ returnMode' = IF event = "HOMING" THEN (IF mode \in Teleops THEN mode ELSE returnMode) ELSE None
    /\ mode' = event
    /\ event' = None
    /\ UNCHANGED <<managerVars, replayVars, monitorVars, requestVars, closeVars>>

HomingCompletes ==
    /\ Lives("STACK") /\ mode = "HOMING"
    /\ mode' = IF returnMode = None THEN "IDLE" ELSE returnMode
    /\ returnMode' = None
    /\ UNCHANGED <<managerVars, replayVars, event, monitorVars, requestVars, closeVars>>

\* The stack's orchestrator broadcasts its mode; a replayed log carries recorded ones.
Broadcast(m) ==
    /\ (Lives("STACK") /\ m = mode) \/ (player = "alive" /\ m \in Recorded)
    /\ heard' = m
    /\ UNCHANGED <<managerVars, replayVars, nodeVars, seen, requestVars, closeVars>>

\* Two seconds pass without a message.
ModeExpires ==
    /\ seen # None /\ heard = None
    /\ seen' = None
    /\ UNCHANGED <<managerVars, replayVars, nodeVars, heard, requestVars, closeVars>>

-----------------------------------------------------------------------------
(* A request.  It ends, normally or with an error, when `at` is idle again. *)

Finish == request' = None /\ at' = "idle" /\ view' = NoView /\ playing' = FALSE

Call == request.call

\* start and stop name a process, of which the replay is none, request_mode a mode; where a
\* request has no safety context, or nobody looks at its acknowledgement, it is filled in.
Receive(call) ==
    /\ request = None
    /\ call.op \in Operations[runtime]
    /\ closing # "open" => call.op \in LateOperations
    /\ (call.op \in {"start", "stop"}) <=> (call.name # None)
    /\ (call.op = "request_mode") <=> (call.mode # None)
    /\ call.name # "REPLAY"
    /\ call.op \in {"set_runtime", "start", "start_replay"} \/ call.expected = runtime
    /\ call.op = "start_replay" \/ (call.op = "start" /\ call.name = "STACK") \/ ~call.acknowledged
    /\ request' = [call |-> call, acted |-> FALSE]
    /\ at' = IF call.op = "stop_replay" THEN "act" ELSE "manager"
    /\ UNCHANGED <<managerVars, replayVars, nodeVars, monitorVars, view, playing, handled, closeVars>>

\* status(): node_manager.status().
ManagerStatus ==
    /\ at = "manager"
    /\ group' = StatusOf(group)
    /\ view' = StatusOf(group)
    /\ at' = "reconcile"
    /\ UNCHANGED <<runtime, leftover, replayVars, nodeVars, monitorVars, request, playing,
                   handled, closeVars>>

MustFailPlayer ==
    \/ view["REPLAY"] \in {"failing", "failed"} /\ PolledOutcome # "FAILED"
    \/ player = "alive" /\ ~Runs(view, "REPLAY")

\* Mutant: the nodes of a replay whose player has ended are left running.
NeverStopReplayNodes == FALSE

MustStopReplayNodes == player # "alive" /\ Runs(view, "REPLAY")

\* status(): _reconcile_replay().
ReconcileReplay ==
    /\ at = "reconcile"
    /\ at' = "failure"
    /\ IF MustFailPlayer
       THEN /\ player' = "absent" /\ outcome' = "FAILED"
            /\ playing' = FALSE
            /\ ResetMonitor
            /\ UNCHANGED <<group, view>>
       ELSE /\ player' = IF player = "alive" THEN player ELSE "absent"
            /\ outcome' = PolledOutcome
            /\ playing' = (player = "alive")
            /\ IF MustStopReplayNodes
               THEN /\ group' = StatusOf(StopAll(group, {"REPLAY"}))
                    /\ view' = group'
                    /\ ResetMonitor
               ELSE UNCHANGED <<group, view, monitorVars>>
    /\ UNCHANGED <<runtime, leftover, nodeVars, request, handled, closeVars>>

\* status(): a new failure of the stack (or a change of its status: the process id goes
\* when its processes are gone) discards what its last mode was.
HandleStackFailure ==
    /\ at = "failure"
    /\ at' = "verdict"
    /\ handled' = IF view["STACK"] \in {"failing", "failed"} THEN view["STACK"] ELSE None
    /\ IF handled' \notin {handled, None} THEN ResetMonitor ELSE UNCHANGED monitorVars
    /\ UNCHANGED <<managerVars, replayVars, nodeVars, request, view, playing, closeVars>>

ExternalStack == seen' # None /\ ~Runs(view, "STACK") /\ ~Runs(view, "REPLAY") /\ ~playing

\* status(): the mode, and the error if somebody broadcasts one while nothing runs.
Verdict ==
    /\ at = "verdict"
    /\ Snapshot
    /\ IF ExternalStack
       THEN IF Call.op = "start_replay" /\ request.acted
            THEN at' = "roll_back" /\ UNCHANGED <<request, view, playing>>
            ELSE Finish
       ELSE IF request.acted \/ Call.op = "status"
       THEN Finish
       ELSE at' = "act" /\ UNCHANGED <<request, view, playing>>
    /\ UNCHANGED <<managerVars, replayVars, nodeVars, handled, closeVars>>

\* The operation is done: the last status() of the request.
Acted == request' = [request EXCEPT !.acted = TRUE] /\ at' = "manager" /\ UNCHANGED <<view, playing>>

Going(stage) == at' = stage /\ UNCHANGED <<request, view, playing>>

AnyRunning == \E n \in Names : Runs(view, n)

\* Mutant: the operator's view of the configuration is not compared with the current one.
AcknowledgedOnly == (runtime = "REAL") => Call.acknowledged

\* _require_expected_configuration and _require_real_hardware_acknowledgement.
Confirmed ==
    /\ Call.expected = runtime
    /\ (runtime = "REAL" => Call.acknowledged)

ReadyStack == Runs(view, "STACK") /\ seen # None

SetRuntime(r) ==
    /\ at = "act" /\ Call.op = "set_runtime"
    /\ IF Call.expected = runtime /\ \A n \in Names : ~RunningNow(n)
       THEN runtime' = r /\ Acted
       ELSE Finish /\ UNCHANGED runtime
    /\ UNCHANGED <<group, leftover, replayVars, nodeVars, monitorVars, handled, closeVars>>

\* Mutant: a running replay does not keep the stack from starting.
MayStartBesideReplay(n) ==
    IF n = "STACK" THEN Confirmed ELSE Call.expected = runtime /\ ReadyStack

MayStart(n) ==
    IF n = "STACK" THEN Confirmed /\ ~playing
    ELSE Call.expected = runtime /\ ReadyStack

\* NodeManager.start, which refuses a name that is already running and may fail.
ManagerStart(n, started) ==
    /\ group' = [group EXCEPT ![n] = IF ~started THEN "failed" ELSE IF n = "STACK" THEN "starting"
                                     ELSE "running"]
    /\ leftover' = IF group[n] = "failing" THEN leftover \cup {n} ELSE leftover
    /\ Notes(n)
    /\ IF n = "STACK" /\ started
       THEN mode' = "IDLE" /\ returnMode' = None /\ event' = None
       ELSE UNCHANGED nodeVars

Start(n, started) ==
    /\ at = "act" /\ Call.op = "start" /\ Call.name = n
    /\ IF MayStart(n) /\ ~RunningNow(n)
       THEN /\ ManagerStart(n, started)
            /\ handled' = IF n = "STACK" THEN None ELSE handled
            /\ IF started THEN Acted ELSE Finish
       ELSE Finish /\ UNCHANGED <<group, leftover, late, nodeVars, handled>>
    /\ UNCHANGED <<runtime, replayVars, monitorVars, closing>>

\* stop_process of a teleop: the robot is idled first if its mode is the active one.
StopTeleop(n) ==
    /\ at = "act" /\ Call.op = "stop" /\ Call.name = n /\ n \in Teleops
    /\ IF seen = n
       THEN event' = "IDLE" /\ Going("wait_idle")
       ELSE Going("stop_teleop") /\ UNCHANGED event
    /\ UNCHANGED <<managerVars, replayVars, mode, returnMode, monitorVars, handled, closeVars>>

\* _wait_for_mode polls until it sees IDLE, or for a second.
WaitForIdle ==
    /\ at = "wait_idle"
    /\ Snapshot
    /\ Going("stop_teleop")
    /\ UNCHANGED <<managerVars, replayVars, nodeVars, handled, closeVars>>

StopTeleopProcess ==
    /\ at = "stop_teleop"
    /\ group' = StopAll(group, {Call.name})
    /\ Acted
    /\ UNCHANGED <<runtime, leftover, replayVars, nodeVars, monitorVars, handled, closeVars>>

\* Mutant: only the stack itself is looked at.
NothingToStopButStack(groups) == ~Runs(groups, "STACK")

\* Nothing that _stop_stack would have to stop.
NothingToStop(groups) == \A n \in Names : ~Runs(groups, n)

\* _stop_stack: the player first, then node_manager.status().
StopStack ==
    /\ at = "act" /\ Call.op = "stop" /\ Call.name = "STACK"
    /\ StopPlayer
    /\ group' = StatusOf(group)
    /\ IF NothingToStop(group')
       THEN Acted /\ UNCHANGED event
       ELSE /\ event' = IF Runs(group', "STACK") THEN "IDLE" ELSE event
            /\ Going("close_stack")
    /\ UNCHANGED <<runtime, leftover, mode, returnMode, monitorVars, handled, closeVars>>

\* _stop_stack: node_manager.close() and the monitors' reset.
CloseStack ==
    /\ at = "close_stack"
    /\ group' = StopAll(group, Names)
    /\ ResetMonitor
    /\ Acted
    /\ UNCHANGED <<runtime, leftover, replayVars, nodeVars, handled, closeVars>>

RequestMode(m) ==
    /\ at = "act" /\ Call.op = "request_mode" /\ Call.mode = m
    /\ IF ReadyStack /\ (m \in Teleops => Runs(view, m))
       THEN event' = m /\ Acted
       ELSE Finish /\ UNCHANGED event
    /\ UNCHANGED <<managerVars, replayVars, mode, returnMode, monitorVars, handled, closeVars>>

\* Mutant: a replay is started beside running processes.
MayStartReplayBeside == Confirmed /\ ~playing

MayStartReplay == Confirmed /\ ~playing /\ ~AnyRunning

\* start_replay up to the start of its nodes; the recording may turn out invalid and
\* the nodes may fail to start.
StartReplay(valid, started) ==
    /\ at = "act" /\ Call.op = "start_replay"
    /\ IF MayStartReplay /\ valid /\ ~RunningNow("REPLAY")
       THEN /\ ManagerStart("REPLAY", started)
            /\ IF started THEN Going("wait_ready") ELSE Finish
       ELSE Finish /\ UNCHANGED <<group, leftover, late, nodeVars>>
    /\ UNCHANGED <<runtime, replayVars, monitorVars, handled, closing>>

\* wait_until_robot_ready.
WaitUntilReady(ready) ==
    /\ at = "wait_ready"
    /\ Going(IF ready THEN "play" ELSE "roll_back")
    /\ UNCHANGED <<managerVars, replayVars, nodeVars, monitorVars, handled, closeVars>>

\* ReplayManager.start.
Play(spawned) ==
    /\ at = "play"
    /\ IF spawned
       THEN player' = "alive" /\ outcome' = None /\ Notes("PLAYER") /\ Acted
       ELSE player' = "absent" /\ outcome' = "FAILED" /\ Going("roll_back") /\ UNCHANGED late
    /\ UNCHANGED <<managerVars, nodeVars, monitorVars, handled, closing>>

\* The except clauses of start_replay, once its nodes were started.
RollBack ==
    /\ at = "roll_back"
    /\ IF request.acted THEN StopPlayer ELSE UNCHANGED replayVars
    /\ group' = StopAll(group, {"REPLAY"})
    /\ ResetMonitor
    /\ Finish
    /\ UNCHANGED <<runtime, leftover, nodeVars, handled, closeVars>>

StopReplay ==
    /\ at = "act" /\ Call.op = "stop_replay"
    /\ StopPlayer
    /\ group' = StopAll(group, {"REPLAY"})
    /\ ResetMonitor
    /\ Acted
    /\ UNCHANGED <<runtime, leftover, nodeVars, handled, closeVars>>

RequestStep ==
    \/ ManagerStatus
    \/ ReconcileReplay
    \/ HandleStackFailure
    \/ Verdict
    \/ \E r \in Runtimes : SetRuntime(r)
    \/ \E n \in Names, started \in BOOLEAN : Start(n, started)
    \/ \E n \in Teleops : StopTeleop(n)
    \/ WaitForIdle
    \/ StopTeleopProcess
    \/ StopStack
    \/ CloseStack
    \/ \E m \in Modes : RequestMode(m)
    \/ \E valid, started \in BOOLEAN : StartReplay(valid, started)
    \/ \E ready \in BOOLEAN : WaitUntilReady(ready)
    \/ \E spawned \in BOOLEAN : Play(spawned)
    \/ RollBack
    \/ StopReplay

-----------------------------------------------------------------------------
(* close(), on the main thread, without the lock.                          *)

Close ==
    /\ closing = "open" /\ "close" \in Operations[runtime]
    /\ StopPlayer
    /\ closing' = "status"
    /\ UNCHANGED <<managerVars, nodeVars, monitorVars, requestVars, late>>

\* node_manager.status() fails a partly dead group before it shuts it down, and requests
\* go on meanwhile.
CloseStatus ==
    /\ closing = "status"
    /\ group' = [n \in Names |-> IF group[n] = "partial" THEN "failing" ELSE group[n]]
    /\ closing' = "look"
    /\ UNCHANGED <<runtime, leftover, replayVars, nodeVars, monitorVars, requestVars, late>>

\* It returns after its own shutdowns, and does not wait for that of the startup thread;
\* which of the two has failed a stack is not told apart here.
CloseLook ==
    /\ closing = "look"
    /\ group["REPLAY"] # "failing"
    /\ closing' = IF NothingToStop(group) THEN "players" ELSE "close"
    /\ event' = IF RunningNow("STACK") THEN "IDLE" ELSE event
    /\ UNCHANGED <<managerVars, replayVars, mode, returnMode, monitorVars, requestVars, late>>

CloseManager ==
    /\ closing = "close"
    /\ group' = StopAll(group, Names)
    /\ ResetMonitor
    /\ closing' = "players"
    /\ UNCHANGED <<runtime, leftover, replayVars, nodeVars, requestVars, late>>

ClosePlayers ==
    /\ closing = "players"
    /\ StopPlayer
    /\ closing' = "closed"
    /\ UNCHANGED <<managerVars, nodeVars, monitorVars, requestVars, late>>

CloseStep == CloseStatus \/ CloseLook \/ CloseManager \/ ClosePlayers

Environment ==
    \/ \E n \in Names : ProcessDies(n) \/ GroupEnds(n) \/ ShutdownEnds(n)
    \/ StartupSucceeds
    \/ StartupFails
    \/ \E exit \in {"ok", "error"} : PlayerEnds(exit)
    \/ HandleEvent
    \/ HomingCompletes
    \/ \E m \in Modes : Broadcast(m)
    \/ ModeExpires

Next ==
    \/ Environment
    \/ \E call \in Request : Receive(call)
    \/ RequestStep
    \/ Close
    \/ CloseStep

Spec == Init /\ [][Next]_vars

\* The console asks for the status.
PollStatus ==
    /\ closing = "open" /\ request = None
    /\ \E call \in Request : call.op = "status" /\ Receive(call)

\* A request thread that holds the lock goes on, so does the main thread in close(); the
\* console polls status() until it is closed; a shutdown ends, by SIGKILL if need be.
Fairness ==
    /\ WF_vars(RequestStep)
    /\ WF_vars(CloseStep)
    /\ WF_vars(PollStatus)
    /\ \A n \in Names : WF_vars(ShutdownEnds(n))

FairSpec == Spec /\ Fairness

-----------------------------------------------------------------------------
(* What holds.                                                             *)

\* Where a replay, its nodes or its player, and the stack or a teleop have live processes
\* side by side, one of them has failed and is being shut down: the stack, or, once
\* close() has begun, the replay's nodes.  Two drivers do meet there, see ReplayRunsAlone
\* below; what the requests do exclude is that both of them go on running, whatever dies
\* and whichever request comes at which moment of the other's life.
MeetOnlyInShutdown ==
    \A n \in Names \ {"REPLAY"} : (Lives(n) /\ ReplayLives) =>
        \/ n = "STACK" /\ ~RunningNow("STACK")
        \/ closing # "open" /\ ~RunningNow("REPLAY") /\ player # "alive"

\* Nodes that move a robot are only started under the runtime that the operator who
\* asked for it had in view, and on real hardware only if that operator acknowledged it.
OperatorConfirmedStart ==
    [][\A n \in {"STACK", "REPLAY"} : (~RunningNow(n) /\ RunningNow(n)') =>
         /\ Call.expected = runtime
         /\ (runtime = "REAL" => Call.acknowledged)]_vars

\* Stopping the stack stops everything that runs under the console, even when the stack
\* itself has already gone: when the request ends no group runs and no player lives.  The
\* processes of a stack that failed before may still be ending: nobody waits for them.
StackStopStopsAll ==
    [][(at \in {"act", "close_stack"} /\ at' = "manager" /\ Call.op = "stop" /\ Call.name = "STACK") =>
         /\ \A n \in Names : ~Runs(group', n)
         /\ player' # "alive"]_vars

\* Once close() is over, what runs was started by a request since close() began: close()
\* takes no lock, so that a request past its checks, or a new one, may start the stack,
\* a teleop or the player behind it.  Everything else it has stopped, whichever of them
\* was there without the others; a group that had failed may still be ending.
CloseStopsWhatItFound ==
    closing = "closed" =>
        /\ \A n \in Names : RunningNow(n) => n \in late
        /\ player = "alive" => "PLAYER" \in late

\* The nodes of a replay without its player, or the player without them.
HalfReplay == RunningNow("REPLAY") # (player = "alive")

\* A replay ends as a whole: nodes without a player and a player without its nodes do
\* not stay so, as long as the console is polled; and two drivers that have met are one
\* again after the shutdown of the failed one.
ReplayEndsWhole ==
    /\ HalfReplay ~> (~HalfReplay \/ closing # "open")
    /\ (Lives("STACK") /\ ReplayLives) ~> ~(Lives("STACK") /\ ReplayLives)

(* What the repository says, and the code does not keep.                   *)

\* "Stop the stack and teleop processes before starting replay."
\* (REPLAY_ACTIVE_PROCESSES_ERROR): start_replay asks for what runs, and a failed stack
\* does not, although its driver lives on until its shutdown ends.
ReplayRunsAlone ==
    \A n \in Names \ {"REPLAY"} : ~(Lives(n) /\ ReplayLives)

\* "Another stack is already broadcasting. Stop it before using this console."
\* (EXTERNAL_STACK_ERROR): in a world without a second stack the error is not raised.
ExternalStackIsAnother ==
    [][(at = "verdict" /\ Verdict) => ~ExternalStack]_vars

\* "Start <teleop> before activating its mode." (request_mode): homing does not activate
\* the mode of a teleop whose process was stopped meanwhile.
TeleopModeNeedsProcess ==
    [][(HomingCompletes /\ mode' \in Teleops) => group[mode'] # "stopped"]_vars

=============================================================================
