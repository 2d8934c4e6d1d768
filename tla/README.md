# Formal verification of the humanoid framework

This directory holds TLA+ models of the robot framework under `src/humanoid/`, the TLC
configurations that check them and the TLAPS proofs about them. Paths below are relative to
`src/humanoid/` of the repository.

The framework is a set of OS processes ("nodes") that exchange LCM messages over UDP
multicast, and an operator console (a threaded Flask server) that starts, monitors and stops
them. Almost everything that can go wrong in it is a matter of order: threads of the console
against each other and against dying processes, a mode request against a completion event
that overtakes it, a command that arrives one control tick too late, a motor bus that fails
half-way through a write. Some is a matter of bookkeeping: a joint's value in the wrong slot of a
vector, a packet read as something else. That is what the models are about. The numerics (the
operational-space solver, collision constraints, physics, plotting) are abstracted away.

## Inventory of the system

| Component | Code | State it keeps | Operations | What makes it correct | Modelled in |
|---|---|---|---|---|---|
| Process manager | `nodes/manager.py`, `nodes/groups.py` | configuration (runtime, robot), groups by name, each with processes, startup thread, stop event, flags | start, stop, status, close, set_runtime, set_robot; the startup thread | no process survives its group's shutdown; a running group runs under the reported configuration; a stopped group stays stopped; shutdowns end | `NodeManager` |
| Orchestrator node | `nodes/orchestrator.py` | mode, return mode, depth-1 queues | 100 Hz step: broadcast, drain events, forward commands | homing returns to where it was requested from; only the active source's commands are forwarded; no request is overtaken | `ModeArbiter`, `OrchestratorNode` |
| Homing | `nodes/policy/homing.py`, `policy/homing.py`, `policy/base.py`, `environment/realtime.py` | target, trajectory, last observation, completion latch | 30 Hz step | completion is announced once per target reached; homing ends and leaves nothing behind | `HomingHandoff` |
| Controller node | `nodes/robot/controller.py` | mode, current commands, last control time, state estimate | 30 Hz step | activation holds the measured pose; no command of an earlier activation is executed | `RobotController` |
| Keyboard teleop | `policy/teleop/keyboard.py`, its node | listener thread, target, running flag | key callbacks, policy step, reset | a key counts once; quitting is not lost | `KeyboardTeleop` |
| Oculus teleop | `policy/teleop/oculus.py`, `oculus_reader.py`, its node | references, filters, button history | policy step, reset | no motion on stale input or without the grip; one event per press; the robot comes to rest | `OculusTeleop` |
| Controller-tracking diagnostic | `robots/utils/controller_tracking/` | run phase, samples, timing windows | take over, track, give back; recorder | it asks for IDLE last, however the run ends; only a robot that follows is measured | `ControllerTracking` |
| Joint data path | `robots/base.py`, `types/robot.py`, `robots/command.py`, `robots/wheels.py`, `controllers/`, `state_estimation/`, `simulation/` | layout of q and v, root estimate, the configuration the controllers hold | validate, measure, control, merge, normalise, write | every value reaches the joint it is of, in the driver and in the simulation | `RobotDataPath` |
| Message transport and types | `middleware/`, `types/lcm/`, `constants.py` | one bounded queue per topic | publish, convert, encode, decode, queue, receive | what arrives is what was sent; what is sent can be read | `RobotMessages` |
| Operator service | `orchestrator/service.py`, `orchestrator/client.py`, `orchestrator/monitor/mode.py` | parameterised request, handled failure, a lock | status, start/stop process, mode, logging, replay, configuration, close | stack and replay do not go on side by side; real hardware needs acknowledgement; a teleop mode needs its process | `OrchestratorService` |
| Replay manager, recording catalogue | `orchestrator/replay.py`, `recording.py` | player process, outcome, exit code, error file; directories and manifests | start, status, stop, fail; create, list, get | what is replayed is a recording of this robot; recordings do not share a directory; the outcome is the player's | `RecordingReplay`, `OrchestratorService` |
| Data logger | `nodes/robot/logger.py`, `orchestrator/monitor/logging.py` | recorder process, status; pending request | 10 Hz step: exit check, event; close | no recorder is forgotten; the console ends on the truth or on a failure | `DataLogging` |
| Robot driver, actuators | `nodes/robot/driver.py`, `robots/watchdog.py`, `hardware/actuators/` | watchdog, health; torque, EEPROM lock, connected controllers | connect, 50 Hz step, close | wheels stop after command loss, at shutdown and after an error; torque only behind a safe goal | `RobotDriver` |
| Servo maintenance tools | `hardware/actuators/feetech/scripts/`, `configurator.py` | one servo's registers | jog, spin, zero, set_id, scan, read_gains | a tool does what its keys ask and leaves no motion; ids stay distinct | `ServoTools` |
| Node runtime | `nodes/base.py`, `nodes/rate.py`, `utils/loop.py` | next deadline, rate window | run loop | missed periods are skipped, not replayed | `NodeRates` |
| Status monitors | `orchestrator/monitor/node.py`, `actuator.py` | samples by process id; last actuator report | snapshot, reset | a status is of the process that runs now; a fault outlives its driver | `NodeRates`, `ConsoleFeeds` |
| Application log | `orchestrator/monitor/application_log.py`, `ui/static/js/app.js` | bounded buffer and cursor; a tab's lines and cursor | emit, preload, snapshot; poll | a tab misses nothing and shows nothing twice | `ConsoleFeeds` |
| Web console, reports, visualisation, start scripts, numerics | `ui/`, `controller_tracking/report.py`, `visualizers/`, the solvers | - | - | - | see the end |

### How the parts interact

The console's request threads call the operator service, which holds one lock around every
operation except `close()`. The service calls the process manager (its own lock), publishes
`ORCHESTRATOR_EVENT` and `HOMING_TARGET` messages, and polls subscribers that only remember the
latest message. The process manager spawns node groups: the stack (controller, visualiser,
orchestrator, logger, driver or simulator and, once a robot state was seen, homing), replay,
keyboard and Oculus teleop. The orchestrator node broadcasts `ORCHESTRATOR_MODE` every tick;
homing, controller and teleop nodes follow it; the orchestrator forwards the joint or tool
commands of the active source, and the driver writes them to the motors. Every queue between
nodes has depth one and overwrites, the transport may drop, and no node waits for another.

## The models

Conventions. One action stands for one step no other actor can come between: a `with lock`
block, one iteration of a drain loop, one bus transaction, one message on the wire. Time is not
measured: a timeout may fire at any moment at which the code would look at it, except in
`RobotDriver`, whose clock ticks up to the watchdog's timeout, and in `NodeRates`,
which is about time. Payloads are abstracted to what the control flow
tells apart. Each queue between nodes holds one message and a later one takes its place
(`middleware/subscriber.py`, `_handle_message`). `Lossy = TRUE` lets any modelled event get lost.
Definitions marked `Mutant:` are faulty variants of the definition that follows them; a run of
the property against that variant fails, which shows that the property says something about the
code.

Definitions called `...Over`, `...Step` and `OneSetup` only put modules side by side.

Some subjects share a run. The parts that meet (a logger and the recordings it makes, a tool and
the driver that starts after it, a policy and the controller) are composed action by action; the
parts that do not (a message's way over the wire and the pace of a node, say) follow one another or
are alternative initial states, each with its variables at rest while the others move, so that a
shared run costs the sum of its parts and not their product. A property of several conjuncts names
them one by one in the module it is about; a conjunct can be checked alone by putting its name
into the configuration.

### NodeManager — `nodes/manager.py`, `nodes/groups.py`

| State | Code |
|---|---|
| `runtime`, `robot` | `NodeManager.runtime`, `.robot` |
| `current` | `_groups`, name to group object |
| `group`, `flags` | a `ManagedNodeGroup`: name and configuration; `stop_requested`, `shutdown_started`, the failure exit code, the stop event |
| `process` | state of each process of each group object |
| `startup` | where `_start_deferred_nodes` is |
| `stopping`, `pending` | the group a thread is stopping outside of the lock, the stops `status()` or `close()` still has to make |

`Start`, `StartFails`, `Stop`, `Close`, `Status`, `SetRuntime`, `SetRobot` are the operations;
`StopGroup` is the first locked block of `_stop_group`, `StopProcesses` its unlocked half (one
process after the other, up to SIGKILL); `WaitSucceeds`, `WaitCancelled`, `WaitTimesOut`,
`StartDeferredNodes`, `StartDeferredNodesFails` and `StartupFails` are the startup thread;
`ProcessExits` is a process that ends by itself. The join of the startup thread has a timeout of
one second, so the model lets the stopping thread go on without it.

* `node_manager`: two generations of the stack, two runtimes, a teleop group beside it. Two
  generations are what it takes for a late startup thread to meet the group that replaced its own.
  One caller, who interleaves with the startup threads and with dying processes; that any number of
  callers keeps the safety properties is proved (`NodeManagerProofs`). Fairness, for
  `LifecyclesConclude`: every thread that is in the middle of an operation goes on. The code
  justifies it: `_wait_for_robot_state` has a deadline, `_stop_processes` escalates to SIGKILL. No
  caller is obliged to call anything.
* `config_change_while_alive` refutes `ConfigurationChangesWhenStopped` (see the findings).

### OrchestratorNode — `nodes/orchestrator.py`

State: `mode`, `return_mode`, the event queue, one queue per source topic with the age of its
command in ticks, where the tick is (`phase`, `todo`), and history variables for what the operator
last asked for by name. A tick is `Broadcast`, then `ReceiveEvent` and a handler until the queue
is found empty (`EndDrain`), then `ForwardSource` for every source topic, then `EndTick`. Events
and commands may arrive between any two of them. Homing, keyboard, Oculus and system sources are
taken from `MODE_FORWARDS`.

`OrchestratorNode` is checked inside `homing_handoff`, with every event kind.

**ModeArbiter** is the abstract specification of it: `mode` and `return_mode` alone, changed by
three actions (`RequestMode`, `RequestHoming`, `CompleteHoming`). `ArbitratesModes` says that the
node, with its queues, ticks and losses, implements it (`INSTANCE ModeArbiter` under the identity on
the two variables; a tick that does not move the mode is a stutter); TLC checks it and
`ImplementsArbiter` proves it. The control session below is built on the arbiter and not on the
node: a request of the operator or a policy acts there at the moment at which the orchestrator handles it, that is
after it got through. That requests are lost, overwritten or handled a tick later is shown where it
is modelled: here and in `HomingHandoff`, and in the session for the two requests of the diagnostic, which nobody would
repeat.

### HomingHandoff — `nodes/policy/homing.py`, `policy/homing.py`, `policy/base.py`, `environment/realtime.py`

Extends OrchestratorNode with the homing node and a requester. A position is abstracted to the
index of the trajectory point. `Report` is the tail of `HomingNode.step` (`COMPLETE`, once per
target), `Act` and `Observe` are `RealtimeEnvironment`, `PolicyActive` the mode gate of `Policy`,
`Reset` what a mode change does. The requester publishes the target and the event on two topics
(`PublishTarget`, `PublishRequestHoming`).

* `homing_handoff` (safety, refinement): one joint and one tool source, two targets, losses, a requester that may pause for ever between its
  two messages, an operator that requests two other modes at any time.
* `homing_handoff_live`: no losses, a requester that publishes its event within one period
  (`Prompt`), as `OrchestratorClient.request_homing` does. Fairness: both nodes loop; what was
  sent arrives; the drain ends (strong fairness, because events come at human pace while the
  tick lasts microseconds). Without `Prompt`, or with other events in the queue, `HomingEnds`
  fails: see below. `TrajectoryIsForgotten` rests on the homing node hearing a mode that lasts.
* `homing_reaches_target` refutes `HomingReachesTarget` (see the findings).

### OrchestratorService — `orchestrator/service.py`, `orchestrator/replay.py`, `orchestrator/monitor/mode.py`

A request holds the service lock from its first `status()` to its last; `request`, `at`, `view`
and `playing` say which one is under way, where it is and what it has read. Around it processes
die, the startup thread fails the stack, the player ends, mode messages arrive, and `close()`
runs without the lock. The process manager is taken at the grain of its calls: its own races are
NodeManager's.

What the console calls running is `RunningNow`, the manager's flag, which is false from the moment a group
has failed (`nodes/manager.py:273`), while the group's processes live on until their shutdown ends (`"failing"`, or
`leftover` if another group has taken its name): `Lives`. `start_replay` asks for the flag
(`orchestrator/service.py:256`), so a stack that fails at start-up and a replay can have two live drivers
(`ReplayRunsAlone` is refuted, see below). `MeetOnlyInShutdown` says that this is the only way in which they meet, that is, one of the
two is always being shut down; the third part of `ReplayEndsWhole` that they part again; that such a
shutdown ends is NodeManager's `LifecyclesConclude`.

`close()` takes no lock (`orchestrator/service.py:291`), and the web server does not keep requests away from
it: `ui/server.py:252-275` is Werkzeug's threaded server, whose request threads are daemons that are neither ended
nor waited for when it closes. Hence `Close` and its steps interleave with the request under way, and with later
ones (`LateOperations`). A request that is past its checks may start the stack, a teleop or the player behind
`close()`; `late` records what was, and `CloseStopsWhatItFound` says that nothing else runs afterwards.

* `service_replay`: stack and replay requests and `close()`, on real hardware. Fairness: a request
  under way is carried out, `close()` too, the shutdown of a failed group ends, and the console polls
  `status()` until it is closed, which is what reconciles a half-dead replay.
* `service_teleop`: stack, teleop and mode requests with one teleop on real hardware; before it is chosen
  (`Operations` may differ between runtimes) operators start and stop things and set the runtime. It
  checks the confirmation of a stack's start (`OperatorConfirmedStart`); that of a replay's is in the
  theorem `OperatorConfirms`.
* `teleop_mode_needs_process` refutes `TeleopModeNeedsProcess` (see the findings).

In the runs `LateOperations` is empty: a request that is under way when `close()` begins can still start
whatever a later one could. The theorems hold for every `LateOperations`.

### RobotDriver — `nodes/robot/driver.py`, `robots/watchdog.py`, `hardware/actuators/`

The state is the servos' registers (torque, operating mode, gains, EEPROM lock, goal), which
survive the process, and the node's own: which controllers are open, where a loop over servos
is, the watchdog, the read attempt. `Open` to `EnableTorque` are `connect()` and the
configuration of a servo, `Abort` its roll-back; `ReceiveCommand` to `Publish` one step of the
loop; `StopWheel`, `CloseStopEnds`, `Disconnect`, `Exit` are `on_close()`. Each transaction may
fail, an `Interrupt` may come anywhere, `Kill` ends the process at once, `Restart` starts another
on the registers it finds. `Disconnect` is the vendor's library, modelled from how the code uses it.

* `robot_driver` (the driver after the tools): an arm servo with gains and two wheels, on two controllers of which one carries
  both kinds, so that a loop meets a failure before, at and after a wheel; two faults
  (`MaxFaults`), enough for a failing retry and a failing configuration; a start and a restart;
  two commands. Faults while closing are bounded per wheel instead: `NoWheelTurnsAtEnd` claims
  that one mishap of a wheel is survived, because stop and torque-off are independent, and two
  are not. Fairness: the node and the clock go on.

**ServoTools** (`hardware/actuators/feetech/scripts/`, `configurator.py`) extends it with the
maintenance tools, which run one at a time before the driver starts, as `feetech/README.md` asks, on
the same registers: `jog`, `spin`, `zero`, `set_id`, `scan`, `read_gains`. `ToolOpens` to `ToolPings` are the
ad-hoc driver's connection, `Press` the key callback on the listener's thread, `Quit`,
`ToolInterrupted` and `ToolDisconnects` its ends, `Probe` and what follows the change of an ID.
`PowerCycle` is what makes a servo answer to its new ID. `excused` records that `set_id` was used
unlike it asks to be: a second rename before the power cycle, or an answer to its probe that was lost,
may give two servos one ID, and nothing in the code can tell. Bounds: two tools of which the second
is `set_id` (`Repeated`), a range of two jog steps on each side and one beyond (`Span`, `MaxJogs`), so
that writes can be lost, the range left and turned back into; two bits of speed and an operator who may ask for more
(`SpeedBits`, `MaxSpeed`), so that the magnitude reaches the direction bit.

### DataLogging — `nodes/robot/logger.py`, `orchestrator/monitor/logging.py`, `service.set_logging`

`recorder` is the state of every lcm-logger process; `at`, `process`, `status`, `closing` are the
node; `event` its one-message queue; `reports` the status messages on the wire, `mailbox`, `shown`,
`pending` the console's monitor, `request` the console. Each of the node's reports is a step of
its own. The recorder may exit at any time with any code; a stop waits for it (`RecorderEnded`)
or kills it (`RecorderKilled`); an interrupt may come in the middle of it.

**RecordingReplay** (`recording.py`, `orchestrator/replay.py`) extends it with the disk and the player:
directories by time and suffix, a bundle that is prepared, begun, finished or left half-made by an
interrupt, and later validated and played on whatever robot is then
selected, by a process that ends by itself or is stopped. A recorder that was told to stop may
still be flushing when the node could not wait for it; the catalogue does not know. Stacks are only started
and stopped here. One that failed at start-up does not run while its logger still ends, and a replay may then be started
beside it (`orchestrator/service.py:256`); such stacks are in OrchestratorService. `StopPlayer` takes the poll and the
signal of `ReplayManager.stop` together (`orchestrator/replay.py:141-147`): a player that ends between them is shown as stopped, by the code as well.

* `data_logging` (the logger, then the recordings it made): `Times = {0}`, a clock that stands still, is
  the worst case for directory names; two recorders (a second one is what a double start or a restart would create),
  two starts of the stack, three events shared by the console and by others (the Oculus policy
  publishes START and STOP too), of which any may be lost or overwritten. Status messages arrive
  in order and are not lost, at most two are under way. Fairness: the node loops, reports arrive,
  the console polls; strong fairness for the poll that finds a request expired, because the two
  seconds do pass. `ConsoleErrsToFailure` is what the design achieves: whatever request was lost,
  the console ends on the node's last report or on FAILED. Two things are outside of the model: the
  loss of a report (the death of a recorder is reported once, nothing would correct the console)
  and an interrupt inside `Popen`, between the fork and the assignment, which leaves a recorder
  nobody holds.

### The control session — `ModeArbiter`, `RobotController`, `KeyboardTeleop`, `OculusTeleop`, `ControllerTracking`, `ControlSession`

`RobotController` is `nodes/robot/controller.py` between a source of task-space commands and the robot.
One coordinate (tool, base or gripper; they are disjoint) is followed as an integer whose unit is
the farthest a velocity limit lets a command move in one step; the control laws are any step within
that limit. `StepInactive` follows the measured state, `StepActive` merges what it received, controls
and publishes, `StepFails` is the base controller's refusal. The mode is the arbiter's, heard late
(`heard`), and so are commands (`command`) and observations (`seen`, `seenMode`). `robot` is where the
last joint command took the robot, `synced` and `drift` record how far robot and controller may have
been taken apart by homing or by commands that were not forwarded.

* `KeyboardTeleop`: the node's loop with its `stop_condition`, the policy's `step` and `reset`, and the
  listener thread, whose callback looks at the target before it takes the lock and moves it after
  (`KeyPressed`, `MoveTarget`). Listeners are counted, because the code stops one and starts another.
* `OculusTeleop`: `Stale`, `HoldCurrentPose`, `Engaged` and `Move` are the branches of `step`; `clutch`
  remembers the hand and the robot at the last engagement, `presses` and `requests` the X button.
* `ControllerTracking`: `FindIdle` to `TakeAnchor` take the robot over, `RequestSystem` to `EndWindow`
  track, `Interrupted` and `Fails` may come at any step, `Finally` is the `finally` block. The
  requests for SYSTEM and for IDLE are messages (`Ask`): one waits in `asked` until the orchestrator handles
  it (`AskedIsHandled`), is overwritten (`AskedIsOverwritten`), or is lost at once; `dropped` records that of
  the one for IDLE. The diagnostic sends it once and ends, so all that it can promise is
  `IdleIsAskedLast`; that the robot leaves SYSTEM, `RobotIsGivenBack`, is refuted. The timing
  recorder taps every decoded joint command (`RecordCommand`) until it is closed.

`ControlSession` lets one of the three work beside the operator, who changes modes at any time.
Bounds: two mode changes (`MaxEvents`: one to leave and one to come back, while everything is heard
late), poses 0..3, one key, two presses of X, two timing windows, drift 1. Angles between robot and
controller on a joint that is unbounded and controlled in position are not modelled; no supported
robot has one (`nodes/robot/driver.py:139` reads its cosine as its angle).

* `hold_comes_to_rest` refutes `HoldComesToRest` under the fairness that the nodes loop (see the findings).

### RobotDataPath — from the joints to the vectors and back

`robots/base.py`, `types/robot.py`, `robots/command.py`, `robots/wheels.py`, `controllers/`,
`state_estimation/`, `hardware/actuators/system.py`, `simulation/engine.py`. A robot configuration is validated
(`Accepted`), laid out (`Robot`: offsets into q, where an unbounded joint has two coordinates and the
planar root four, and into v, where they have one and three), measured by the driver (`RobotDriverStep`)
or the simulation (`SimulationStep`), controlled (`ControlPeriod`: arm, gripper, base, each of which returns
a whole configuration of which only its own coordinates are merged), normalised and taken apart into
targets per actuator. `world` is the robot itself, `wanted` what the last command means joint by joint.
Angles are quarter turns, which keeps sine, cosine and planar turns in the integers. Bounds: two
control periods, which is what one controller's effect on the other's next input needs; a wheel limit of 2 and
twists that ask for more; a fixed arm on two buses that share numbers, a mobile robot whose wheels and arm
joints alternate, and six configurations that are each wrong in one way. `Supported` says what the code does not
check of a configuration and every robot of the repository has. Efforts,
temperatures and the trajectory velocities of homing are left out.

### RobotMessages — `middleware/`, `types/lcm/`, `constants.py`

One topic from its publishers to one subscriber. The ten generated types are given as their fields
with their counts, from which `Encode` and `Decode` follow; the converters are per type. Packets may be
lost, repeated and reordered (`air` is a set that `HandleMessage` picks from), programs of another release
publish on the same channel, with another schema or with a mode or an event this one does not know (`OtherReleases`), and
two messages are sent, into a queue of one: enough for one to make room for the other. A message
type is `Fingerprint`ed by its shape. `AcceptedTypes` is what the dataclasses of `types/` allow; the run
sends samples of each, with what may be left out there and left out.

### NodeRates — `utils/loop.py`, `nodes/rate.py`, `orchestrator/monitor/node.py`

Steps and sleeps take as long as they take. `StepBegins` is the head of the loop with
`observe_iteration`, `StepEnds` the deadline, `NodeDies` ends a process at any point;
`ConsumeSample`, `ReadActiveNodes` and `SnapshotRates` are the monitor's thread and the console's request, whose
two halves let processes die and be born in between. `of` in a sample is the process that sent it, which the code does not
know. Bounds: two processes one after the other, on two ids, under two names; a
window of two periods; four ticks. An id is not given to the same name again: ids come round, but
not within the two and a half seconds for which a sample counts.

### ConsoleFeeds — `application_log.py`, `ui/static/js/app.js`, `orchestrator/monitor/actuator.py`

The log: `LogMessage` is the handler's `emit` (a message with a traceback has two lines in the file and one entry
in the buffer), `ConsoleStarts` loads the end of the file and numbers its lines anew, `SnapshotLog`,
`TabShows` and `RequestFails` are a tab's poll. Capacity 2, five messages, two starts of the console. A tab
that outlives its console and asks the next one with the old cursor is told to reset when the cursor is
ahead of the new buffer; if the new console has logged past it, it is not told, and the lines between
are not shown. No text of the repository promises otherwise, so `TabMissesNothing` is about a tab that
follows the console it has its cursor from (`tab.of`).
The health: a driver reports, fails, reports why and is gone; the report may be lost; `SnapshotHealth` shows
it, however old; `StackStartsAnew` is the reset before the next start.

### ControlStack

Puts the message's way, the data path, the rates, the feeds and the session into the run `control_session`.

## Runs

| Run | Properties | Shows |
|---|---|---|
| `node_manager` | `TypeOK` `ShutdownLeavesNoOrphan` `RunningUnderCurrentConfiguration` `StoppedIsFinal` `LifecyclesConclude` | no orphan process, no group under a stale configuration, no group that comes back; shutdowns and startups end |
| `homing_handoff` | `HandoffTypeOK` `ModesAsChosen` `QueuesStayFresh` `CompletionIsEarned` `ArbitratesModes` | teleoperation only as last chosen; no command older than a tick; completion only for the target driven to, once; the node implements the arbiter |
| `homing_handoff_live` | `HomingConcludes` | homing ends and leaves no trajectory behind |
| `service_replay` | `TypeOK` `MeetOnlyInShutdown` `CloseStopsWhatItFound` `ReplayEndsWhole` | stack and replay meet only while one of them is shut down; close leaves only what was started behind it |
| `service_teleop` | `OperatorConfirmedStart` `StackStopStopsAll` | nothing starts unconfirmed; stopping the stack stops its teleops |
| `robot_driver` | `ToolTypeOK` `NoWheelTurnsAtEnd` `FeedbackIsAccounted` `TorqueOnlyWhenSafe` `CommandLossStops` `ToolsDoAsAsked` | torque only over a safe goal, whatever a tool or a killed driver left; wheels stop; a tool moves as its keys say |
| `data_logging` | `ReplayTypeOK` `RecordersAreAccounted` `ReplayIsHonest` `DeathIsReported` `ConsoleErrsToFailure` | no recorder is forgotten; what is played was recorded on this robot; the console ends on the truth or on a failure |
| `control_session` | `StackTypeOK` `NoMotionWithoutInput` `NoLeap` `KeysCountOnce` `NothingResumes` `DiagnosticIsSound` | a robot under control moves by as much as its operator asks, from where it is |
| | `CommandReachesItsJoint` `ConfigurationsAreTheRobots` `MessagesArriveAsSent` | what is measured, sent and commanded is what arrives, joint by joint and field by field |
| | `HealthyIsItsOwn` `NoCatchUp` `ConsoleForgetsNothing` | nodes keep their pace, and the console shows the state of what runs |
| `config_change_while_alive` | `ConfigurationChangesWhenStopped` | refuted |
| `homing_reaches_target` | `HomingReachesTarget` | refuted |
| `teleop_mode_needs_process` | `TeleopModeNeedsProcess` | refuted |
| `hold_comes_to_rest` | `HoldComesToRest` | refuted |

Deadlock checking is off everywhere: the bounds (starts, commands, events, groups, ticks) end every
behaviour, and a closed console, an ended node or a stopped process really stops.

Run one with `tlc -workers 2 -config RobotDriver.cfg MCRobotDriver.tla`; the longest takes about two and a half
minutes on two cores.

## Findings

1. **Configuration changes beside live processes** (`config_change_while_alive`). A group with a
   failure exit code is "not running" from the moment the failure is recorded, up to twelve
   seconds before its processes have ended (`nodes/manager.py:273`). In that window
   `set_runtime` succeeds, against `nodes/manager.py:187`, and so do `start()` and `start_replay()`
   (`orchestrator/service.py:256`).
2. **Homing stops one point short** (`homing_reaches_target`). The homing node sends the last
   point and `COMPLETE` in one step; the orchestrator handles `COMPLETE` first and then discards
   the point, as a command of an inactive source (`nodes/orchestrator.py:101-112`).
3. **A teleop mode without its process** (`teleop_mode_needs_process`). Stopping a teleop while
   the robot homes on its behalf does not idle the orchestrator (`orchestrator/service.py:184`),
   which returns to the teleop's mode when homing completes.

4. **The robot does not come to rest** (`hold_comes_to_rest`). While the dead-man is released every step of
   the Oculus policy takes the pose to hold from the last joint command it has received
   (`policy/teleop/base.py:70-78`, `108-118`), which answers an earlier one of its own commands, and the
   base controller goes to whatever it is told. Two poses that are in flight at the release take
   turns for ever while policy and controller stay in step, against `policy/teleop/oculus.py:384-385`
   ("holds the current robot position").

Further disagreements TLC shows, stated in the modules but not kept as runs. To see one, put the
definition under `PROPERTIES` of the configuration:

| Definition | Configuration | What happens |
|---|---|---|
| `NodeManager!StopCancelsStartup` | `ConfigurationChangesWhenStopped.cfg` | the readiness deadline passes while `stop()` is under way: a requested stop is reported as a failure (`nodes/manager.py:197`) |
| `OrchestratorNode!NoLeakOnModeChange` | `HomingHandoff.cfg` | a command that arrives after its source's queue was discarded in the tick in which the mode changes is forwarded in the next; `QueuesStayFresh` bounds its age |
| `OrchestratorService!ReplayRunsAlone` | `ServiceReplay.cfg` | a stack fails at start-up and counts as not running; a replay is started while the stack's driver still lives (`orchestrator/service.py:256`, against `REPLAY_ACTIVE_PROCESSES_ERROR`, `orchestrator/constants.py:30`) |
| `ControllerTracking!RobotIsGivenBack` | `ControlSession.cfg` | the diagnostic's one request for IDLE is lost or overwritten: the robot stays in SYSTEM (against `robots/utils/controller_tracking/runtime.py:138`, "returning the controller to idle") |
| `OrchestratorService!ExternalStackIsAnother` | `ServiceReplay.cfg` | after a stack has gone by itself its mode messages stay fresh for a moment and the console takes it for a foreign stack (`orchestrator/service.py:115`) |
| `DataLogging!ConsoleShowsLatestReport` | `DataLogging.cfg` | the console gives up on a START that was carried out late; a later START finds the recorder running and is not answered (`nodes/robot/logger.py:88`): the console ends on FAILED, its Stop button disabled, while the robot records |
| `HomingHandoff!HomingEnds` with `Kinds <- LoggingKinds` | `HomingHandoffLive.cfg` | a logging event overwrites `COMPLETE` in the one-message queue: the robot stays in HOMING |
| `HomingHandoff!HomingEnds` with `Prompt = FALSE` | `HomingHandoffLive.cfg` | the target is reached before `REQUEST_HOMING` arrives: nothing ends HOMING |

## Proofs

Eight modules hold the proofs, each beside the module it is about; `tlapm <Module>.tla` checks one,
the longest in about six minutes. The theorems hold for every value of the constants that meets the
modules' assumptions, which TLC evaluates in the runs: any number of nodes, groups, callers, servos,
controllers, retries, recordings, starts, targets, processes and presses, any poses and times, any
joints, wheels and buses of a robot, any message, and whatever is lost, fails or interrupts where the model lets it.

| Theorem | States | Rests on |
|---|---|---|
| `NodeManagerProofs!TypeCorrect` | `TypeOK` | inductive by itself |
| `NodeManagerProofs!NoOrphans` | `ShutdownLeavesNoOrphan` | `IInv` |
| `NodeManagerProofs!ConfigurationHolds` | `RunningUnderCurrentConfiguration` | `IInv` |
| `NodeManagerProofs!StoppedGroupsStayStopped` | `StoppedIsFinal` | a step lemma under `IInv` |
| `HomingHandoffProofs!TypeCorrect` | (`TypeOK` of OrchestratorNode) | inductive by itself |
| `HomingHandoffProofs!ModesHold` | `ModesAsChosen` | its two conjuncts are inductive only together (`ReturnInv`) |
| `HomingHandoffProofs!FreshQueues` | `QueuesStayFresh` | `FreshInv` |
| `HomingHandoffProofs!ImplementsArbiter` | `ArbitratesModes` | every event handler is an action of the arbiter, everything else stutters |
| `HomingHandoffProofs!HandoffTypeCorrect` | `HandoffTypeOK` | `HandoffInv` |
| `HomingHandoffProofs!CompletionsAreEarned` | `CompletionIsEarned` | `HandoffInv` |
| `HomingHandoffProofs!NodeKeepsItsPromises` | `ModesAsChosen`, `QueuesStayFresh` | every step is one of the orchestrator node or a signal to it (`NodeOrSignal`) |
| `HomingHandoffProofs!HandoffImplementsArbiter` | `ArbitratesModes` | the same |
| `OrchestratorServiceProofs!TypeCorrect` | `TypeOK` | `IInv` |
| `OrchestratorServiceProofs!ReplayMeetsOnlyTheEnding` | `MeetOnlyInShutdown` | `IInv` (`ReplayExcludes`, `OnlyStacksEnd`) |
| `OrchestratorServiceProofs!CloseLeavesOnlyTheLate` | `CloseStopsWhatItFound` | `IInv` (`LateOnly`) |
| `OrchestratorServiceProofs!OperatorConfirms` | `OperatorConfirmedStart` | a step lemma under `IInv` |
| `OrchestratorServiceProofs!StackStopLeavesNothing` | `StackStopStopsAll` | a step lemma under `IInv` |
| `RobotDriverProofs!TypeCorrect` | `ToolTypeOK` | `IInv` |
| `RobotDriverProofs!NoMishapLeavesAWheelTurning` | `NoWheelTurnsAtEnd` | `IInv` (`WheelsOnTheWay`) |
| `RobotDriverProofs!ReadsAreAccounted` | `FeedbackIsAccounted` | `IInv` (`ReadSoFar`) |
| `RobotDriverProofs!TorqueIsSafe` | `TorqueOnlyWhenSafe` | step lemmas of the node and of the tools under `IInv` |
| `RobotDriverProofs!ToolsAreTame` | `ToolsDoAsAsked` | `IInv`, and what the registers do to a position and a speed |
| `RecordingReplayProofs!ReplayIsLogging` | `ReplaySpec => Spec` | every step is one of the logger or leaves it |
| `RecordingReplayProofs!ReplayTypeCorrect` | `ReplayTypeOK` | `LoggingInv`, `ReplayInv` |
| `RecordingReplayProofs!EveryRecorderIsAccounted` | `RecordersAreAccounted` | `LoggingInv` |
| `RecordingReplayProofs!DeathIsSeenByTheNode` | `DeathIsSeen`, the safety part of `DeathIsReported` | `LoggingInv`, `RunningIsHeld` |
| `RecordingReplayProofs!TheConsoleMissesNoReport` | `NoReportIsMissed`, the safety part of `ConsoleErrsToFailure` | inductive with `LoggingInv` |
| `RecordingReplayProofs!WhatIsReplayedWasRecorded` | `ReplayIsHonest` | `LoggingInv`, `ReplayInv` |
| `ControlSessionProofs!TypeCorrect` | `SessionTypeOK` | `IInv` |
| `ControlSessionProofs!DiagnosticSound` | `DiagnosticIsSound`: the diagnostic asks for IDLE last, not that the request arrives | `IInv` (`TrackingInv`) |
| `ControlSessionProofs!KeysCount` | `KeysCountOnce` | `IInv` (`KeyboardInv`) |
| `ControlSessionProofs!NoResumption` | `NothingResumes` | `IInv` (`OculusInv`) |
| `ControlSessionProofs!CommandsDoNotLeap` | `NoLeap` | `IInv` (`WithinDrift`) and the triangle inequality |
| `ControlSessionProofs!NothingMovesByItself` | `NoMotionWithoutInput` | `RestInv` on top of `IInv` |
| `ControlStackProofs!StackIsASession` | `StackSpec => SessionSpec` | every step of the stack is one of the session or leaves it |
| `ControlStackProofs!StackKeepsTheSession` | the session's properties under `StackSpec` | the theorems of the session |
| `ControlStackProofs!RatesTypeCorrect` | `RatesInv` | inductive by itself |
| `ControlStackProofs!HealthIsOfTheProcess` | `HealthyIsItsOwn` | `RatesInv` (`SamplesTold`, `WindowCounted`) |
| `ControlStackProofs!NothingIsCaughtUp` | `NoCatchUp` | `RatesInv` (`OnSchedule`) |
| `ControlStackProofs!FaultsStayOnShow` | `FaultOutlivesDriver` | `ReportsInOrder` |
| `ControlStackProofs!LogIsFollowed` | `LogInv` | inductive with the types (`DriverTyped`) |
| `ControlStackProofs!ConsoleKeepsEverything` | `ConsoleForgetsNothing` | `LogInv`, `FaultsStayOnShow` |
| `ControlStackProofs!StackKeepsTheMessages` | `MessagesInv` | inductive by itself |
| `ControlStackProofs!StackMessagesArrive` | `MessagesArriveAsSent` | `MessagesInv`, and `PublishedIsRead` and `OtherReleasesAreNotRead` about the wire |
| `RobotDataPathProofs!DataPathHolds` | `DataPathInv` | inductive by itself |
| `RobotDataPathProofs!DataPathIsTyped` | `DataPathTypeOK` | `DataPathInv` |
| `RobotDataPathProofs!CommandsReachTheirJoints` | `CommandReachesItsJoint` | `DataPathInv` (`CommandMeans`) |
| `RobotDataPathProofs!ConfigurationsAreTrue` | `ConfigurationsAreTheRobots` | `DataPathInv` (`Describes`, `Foresees`) |
| `ControlStackProofs!StackCommandsReachTheirJoints`, `!StackConfigurationsAreTrue` | the same under `StackSpec` | `DataPathHolds`, step by step |
| `ControlStackProofs!StackTypeCorrect` | `StackTypeOK` | the type theorem of every part |

*NodeManager.* `ShutdownLeavesNoOrphan` is not inductive: a startup thread might spawn into a
group under shutdown. What rules it out is `LeavingSetsEvent` (both ways out of service set the
event the thread tests under the lock); in addition a group object must be new when it is
created (`UnusedIsEmpty`), `_groups` must map a name to a group of that name (`CurrentIsNamed`),
and a startup thread that stops processes must have nothing left to spawn (`StartupStopsLast`).
`IInv` is the conjunction. The lemmas are the four kinds of step: one that
only sets flags (`StopGroupStep`), one that makes a group (`NewGroupStep`), one that only moves
processes (`ProcessStep`), and the case split over `Next` (`InvStep`).

*OrchestratorNode.* A teleop mode is entered by its own request or by a completion that returns
to `return_mode`; hence the invariant must say of the slot what the property says of the mode.
`FreshInv` adds to the age bound that a queue the current pass has visited holds nothing from
before the pass.

*HomingHandoff.* A completion could come twice for a target that is received twice. It is not,
because targets are numbered as they are requested and never overtake each other: what is on the wire
is later than what waits (`WireInOrder`), that is later than what is driven to (`TargetsInOrder`),
and nothing later than that has been announced (`AnnouncedInOrder`). `TrajectoryLeadsToTarget` ties the point
last sent to the target. The orchestrator's own invariants carry over by `NodeOrSignal`.

*OrchestratorService.* The lock keeps requests apart, yet a request judges by a view that ages:
processes and the player die under it. `ViewCoversTheRunning` says in which direction it may be wrong
(nothing runs that it does not show), `ReconciledReplay` and `ReplayStartsAlone` what follows for
the replay, `PlayerStopsFirst` the order in which things are stopped. `ReplayExcludes` keeps stack and
replay from running side by side, `OnlyStacksEnd` says whose shutdown can outlast its running, and
`LateOnly` how far `close()` has come and what may have been started behind it.

*RobotDriver and ServoTools.* `WheelsOnTheWay` follows a wheel along every way to the end of the
process: while the node configures, or rolls a configuration back, the wheel stands or has had its
mishap; while it closes, every wheel the loop has passed was told to stand or had one; and once its controller is
disconnected, its torque is off or it stands. `ReadSoFar` says of each servo of a controller
whether it has been asked, `ConfiguredSoFar` what the configuration of a servo has achieved at each
of its stages. Tools have no bearing on the node but for the registers (`RestIsKept`): a
tool runs alone, and the node's invariant about wheels starts when the tools have ended. `JogState`
allows the position in the register to be a step off the one jog believes in only after a write that
was not acknowledged. Two assumptions came out of failed proofs: with a register of no bits
`SpinTurnsAsAsked` is false (`SpeedBits # 0`), and the range `ToolTypeOK` gave to `written` was only
right for some sizes of the register and the range; it now names both.

*DataLogging and RecordingReplay.* `HeldRecorder` says when the node holds a recorder and that the last
report is of it. `RecordingsKeptApart` needs that a new recording always finds a free directory, although
its name is a time the clock may repeat: `EventsBeforeDirectories` counts that every directory answers
an event, so that there are never as many directories as suffixes.
`DeathIsReported` and `ConsoleErrsToFailure` each rest on a safety part. `DeathIsSeen` needs that between two events the node holds the very recorder it reports as running
(`RunningIsHeld`); `NoReportIsMissed` follows the last report from the wire to the mailbox to the console, so what is
left to fairness is only that the node goes on checking, that reports are delivered and that a request expires. The proofs
asked that no event and no report be the value that stands for their absence (`AbsenceAssumption`).

*The control session.* `IInv` has a part for each thread. `KeyboardInv` counts listener threads,
`OculusInv` ties references to the clutch, `TrackingInv` says that SYSTEM is the
diagnostic's own doing, which of its two requests can still be waiting, and which windows are behind it. `WithinDrift` bounds the distance of controller and robot
by the moves they did not make together; `NoLeap` is that and the triangle inequality.
`NoMotionWithoutInput` is a long way from inductive: while mode changes, commands and observations are
heard late, everything that could move the robot has to be near the pose the mode found it in, not the robot
only. `RestInv` says so of the command in the queue, the controller's configuration and target
(`StartsNear`), of what each source would command (`KeyboardRests`, `OculusRests`, `TrackingRests`), and
why there is nothing else: an inactive controller drains its queue (`QueueDrained`), and until it
hears of the mode the robot does not move at all (`LateController`).

*The pace of the nodes.* `RatesInv` places every deadline on the grid of its loop and after the period of the last
step, and spaces the iterations of a window by a period each, so that a count over a window cannot
exceed the rate; samples name the process they are of, and no two processes of one name share an id.

*The console.* `LogInv` says that the buffer holds consecutive cursors up to the last one, and where the
tab, the reply on its way to it and the log stand to each other: what the tab shows is the run of lines
that ends at its cursor. A tab that looked away for longer than the buffer keeps is told to reset, because a gap between
its cursor and the first entry shows in the numbers.

*The messages.* A message type is a list of fields, each a number or as many as a field before it says. The
writer is described by what it has written up to each field (`Joined`), the reader by what it has read
(`FieldRead`): `FieldReads` shows that reading a field where it was written gives it back and leaves the
reader where the next one begins, and `ReadsAsWritten` follows field by field, for any list of fields in which counts come first.
`SchemasWellFormed` says that the ten generated types are such lists; one lemma per type (`JointCommandCarried`, ...)
that the converter of the publisher fills the fields consistently and the one of the subscriber
undoes it, `EveryTypeCarried` all ten. That leaves the packets of other releases: `OtherReleasesAreNotRead` shows
that their fingerprint, or the enumeration in them, is refused. `MessagesInv` is then short: a queue
holds what was read from the air, and the air holds what was published or is of another release.

*The data path.* `Describes(b, q, w)` says of a vector what it means: some angle for every joint, of which
a joint of one coordinate has the angle itself and one of two its cosine and sine, some place of the base, and that
these are where the world is. That positions are read back as they were put in rests on the layout
alone: `Starts` gives every joint a range of its own (no two overlap, whatever joints precede), and cosine and
sine determine an angle up to full turns. Each controller keeps this for the coordinates it owns and
moves none of the others (`ArmOwns`, `GripperOwns`, `BaseOwns` are disjoint, of q and of v),
so that the merged command means one goal for each joint in position control and one rate for each wheel (`CommandMeans`), and what
the controllers hold open loop is where the robot will be once its actuators got there (`Foresees`). A
base that was asked too much is the delicate part: the twist is scaled as a whole and not wheel by wheel,
and the three wheels then turn so that the estimate of the root gives the scaled twist back.

*All of the stack.* Every step of the stack is one of a part and leaves the others' variables alone
(`StackIsASession`, `StackLeavesDataPath`, `StackLeavesMessages`), so each part's theorems hold in it.

Assumptions beyond the sizes of the constants. `None` and `Unknown` stand for Python's `None` and are
no mode, pose, hand, clutch, request, directory, target, tool or time (`NoModeAssumption`, `NoPoseAssumption`,
`NoClutchAssumption`, `NoneIsNoRequest`, `NoDirectoryAssumption`, `NoToolAssumption`, `ListenersAssumption`
and parts of the others). Servos and controllers are finite sets of numbers and every controller has a servo
(`DriverAssumption`), because the driver makes a controller for the servos it is configured with; the
workspace has more than one pose (`MaxPose`), queues and windows hold something, and the driver is
started at least once (`MaxStarts # 0`). `RecordingReplay` needs that no value of the clock is negative.

Three assumptions are about the world the parts are used in:

* `CandidatesAssumption`: a configuration has the types of `RobotConfig`, and one that the code's checks accept is
  `Supported`: the joints in position control, beside the gripper's, are bounded, all have their home within their
  limits, the tool's chain contains no gripper and no wheel, a mobile base has three different wheels in velocity control, a fixed one none.
  No check of the code says so, and every robot in `config/robot/` is like that. The proofs need it:
  the driver takes a cosine for an angle otherwise (`nodes/robot/driver.py:139`), and two wheels do not
  determine a planar motion. A wheel's limit is two units at least and travel has two ends (`DataPathAssumption`).
* `SamplesAssumption`: what is published has a type of `types/middleware.py` (`AcceptedTypes`). Three refinements
  of the dataclasses are in it. A text that is there is not empty, and a temperature that is
  there is not NaN: the converters write empty texts and NaN for what is missing. A robot's state
  has at least one velocity: every robot has a joint that moves.
* `AbsentAssumption`, `AbsenceAssumption`, and parts of `MessagesAssumption` and `FeedsAssumption`: no number, vector or command is the value that stands for its absence.

Only model-checked:

* All liveness (`LifecyclesConclude`, `HomingConcludes`, `ReplayEndsWhole`, `CommandLossStops`,
  `DeathIsReported`, `ConsoleErrsToFailure`): it needs fairness and ENABLED, which are out of the
  prover's reach. The safety parts of the last two, `DeathIsSeen` and `NoReportIsMissed`, are theorems.
* The four refuted properties, of course: their counterexamples are TLC's.

Every invariant and every action property of the runs is a theorem. Induction over data, which the
library offers only with an operator as parameter, was needed in many places (recursive functions such as
`Starts`, `Encode` and `Unpacked`; sequences that grow). It is done over the numbers with a set instead of an operator:
a subset of the naturals that contains 0 and is closed under successor is all of them (`Induction`, from
`WFMin` of `WellFoundedInduction`; `LeastNatural` is the same in other modules).

## Plan

Done: every module and every theorem listed above. What could follow: the player of
`RecordingReplay` as an implementation of the atomic one of `OrchestratorService`.

## Not modelled

* Numerics: the operational-space solver and its collision constraints, manipulability, filters and
  smoothing (`controllers/operational_space.py` beyond which joints it owns and their limits,
  `policy/teleop/motion.py`), physics: real-valued computation TLC cannot enumerate and TLAPS has no theory for.
* `robots/utils/controller_tracking/report.py`, `smoothness.py`, `sampling.py`, `effort.py` and its command line: metrics and pages
  made of a finished run's samples.
* `visualizers/`, `nodes/robot/visualizer.py`, most of `ui/`: presentation. The routes of `ui/server.py` validate
  their input and call one operation of the service each.
* The scene that `simulation/model.py` builds for MuJoCo, and rendering.
* The rotation and trimming of the application log's file, and the queue that carries the records of child processes.
* A driver that is terminated by the manager after eight seconds leaves its wheels turning: `Kill` is an action of
  RobotDriver, and no property can hold after it.
* That a mode request of the operator or a policy gets lost within the control session; the arbiter acts on what the orchestrator has handled.
* A recording whose stack fails at start-up while it is recorded: DataLogging's stacks are stopped, not failing.
* The loss of a status report of the data logger, and an interrupt inside `Popen`.
* Recordings that somebody deletes or edits by hand: nothing in the repository does.
