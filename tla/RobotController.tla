--------------------------- MODULE RobotController ---------------------------
(***************************************************************************)
(* The robot controller node (nodes/robot/controller.py) between a source   *)
(* of task-space commands and the robot: what it does in the modes in which *)
(* its joint commands are forwarded, how it follows the robot in the        *)
(* others, and how a mode it hears late takes it from one to the other.     *)
(*                                                                          *)
(* The tool, base and gripper coordinates are disjoint, so one of them,     *)
(* chosen initially as part, is followed, as an integer: one unit is the    *)
(* farthest that the velocity limits let a command move in one step.        *)
(***************************************************************************)
EXTENDS Integers, ModeArbiter

CONSTANTS
    Setups,     \* the pairs of a source of commands and the coordinate it moves
    MaxPose,    \* bound: the poses are 0 .. MaxPose
    MaxEvents,  \* bound: the mode changes the operator asks for
    MaxDrift    \* how far homing, or commands that are not forwarded, take robot and
                \* controller apart before the controller hears of it

Clients == {"keyboard", "oculus", "tracking"}
Parts == {"tool", "base", "gripper", "buttons"}

ASSUME SetupsAssumption == Setups \subseteq Clients \X Parts

ASSUME BoundsAssumption == MaxPose \in Nat \ {0} /\ MaxEvents \in Nat /\ MaxDrift \in Nat

Poses == 0 .. MaxPose

ASSUME NoPoseAssumption == None \notin Poses

\* A RobotToolCommand or RobotBaseCommand; no velocity and a zero one act alike.
TaskCommands == [pose : Poses, velocity : -1 .. 1]

At(pose) == [pose |-> pose, velocity |-> 0]

\* Mutant: the targets are not clipped to the workspace.
NoLimits(pose) == pose

Clip(pose) == IF pose < 0 THEN 0 ELSE IF pose > MaxPose THEN MaxPose ELSE pose

\* One step, within the velocity limit, from one pose towards another.
Toward(from, to) == IF to > from THEN from + 1 ELSE IF to < from THEN from - 1 ELSE from

Distance(a, b) == IF a > b THEN a - b ELSE b - a

VARIABLES
    client,         \* the source of commands at work
    part,           \* the coordinate that is followed
    events,         \* the mode changes requested so far
    heard,          \* RobotControllerNode.current_mode; None once the node has failed
    configuration,  \* the controllers' model state
    target,         \* current_tool_command or current_base_command
    command,        \* the queue of ROBOT_TOOL_COMMAND or ROBOT_BASE_COMMAND
    robot,          \* where the last ROBOT_JOINT_COMMAND took the robot
    jointSince,     \* a joint command was forwarded since the client last asked for SYSTEM
    seen,           \* the joint positions in the client's observation
    seenMode,       \* the mode in the client's observation
    synced,         \* history: the controller follows the robot since it was last active
    drift,          \* history: moves that robot and controller did not make together
    resting,        \* history: where the client's mode found the robot, None in the others
    pushed          \* history: the operator commanded motion since then

setupVars == <<client, part>>
controllerVars == <<heard, configuration, target>>
driftVars == <<synced, drift>>
startVars == <<resting, pushed>>
observationVars == <<seen, seenMode>>

\* What the sources of commands leave alone.
controlVars == <<controllerVars, robot, driftVars>>

ClientMode == [keyboard |-> "KEYBOARD", oculus |-> "OCULUS", tracking |-> "SYSTEM"]

ControllerTypeOK ==
    /\ <<client, part>> \in Setups
    /\ mode \in Modes
    /\ returnMode \in RETURNABLE_MODES \cup {None}
    /\ events \in 0 .. MaxEvents
    /\ heard \in Modes \cup {None}
    /\ configuration \in Poses \cup {None}
    /\ target \in TaskCommands \cup {None}
    /\ command \in TaskCommands \cup {None}
    /\ robot \in Poses
    /\ jointSince \in BOOLEAN
    /\ seen \in Poses
    /\ seenMode \in Modes \cup {None}
    /\ synced \in BOOLEAN
    /\ drift \in 0 .. MaxDrift
    /\ resting \in Poses \cup {None}
    /\ pushed \in BOOLEAN

\* The orchestrator may be started in the client's mode (its --mode option).
ControllerInit ==
    /\ \E setup \in Setups : client = setup[1] /\ part = setup[2]
    /\ ArbiterInit
    /\ mode \in {"IDLE", ClientMode[client]} \ {"SYSTEM"}
    /\ events = 0
    /\ heard = "IDLE"
    /\ configuration = None
    /\ target = None
    /\ command = None
    /\ robot = 1
    /\ jointSince = FALSE
    /\ seen = robot
    /\ seenMode = None
    /\ synced = FALSE
    /\ drift = 0
    /\ resting = IF mode = ClientMode[client] THEN robot ELSE None
    /\ pushed = FALSE

-----------------------------------------------------------------------------
(* The modes.                                                              *)

\* A change of mode starts the history of the client's motion anew.
Handed(moved) ==
    /\ resting' = IF mode' = mode THEN resting ELSE IF mode' = ClientMode[client] THEN robot ELSE None
    /\ pushed' = (mode' = mode /\ (pushed \/ moved))

\* Modes last: the operator, and homing on its way to a target, take longer than the
\* periods in which the followers of the mode hear it and receive a robot state.
Settled ==
    /\ heard \in {mode, None}
    /\ client # "tracking" => seenMode = mode
    /\ heard # None /\ mode \notin {"OCULUS", "KEYBOARD", "SYSTEM"} => synced

\* What the operator asks for beside homing: to stop, and the client's mode, or, during
\* the diagnostic, which asks for its own mode, another one.
OperatorModes == {"IDLE", IF client = "tracking" THEN "OCULUS" ELSE ClientMode[client]}

OperatorRequests ==
    /\ Settled
    /\ events < MaxEvents
    /\ events' = events + 1
    /\ \/ \E m \in OperatorModes : m # mode /\ RequestMode(m)
       \/ part # "buttons" /\ RequestHoming
    /\ Handed(FALSE)
    /\ UNCHANGED <<setupVars, controlVars, command, jointSince, observationVars>>

HomingCompletes ==
    /\ mode = "HOMING"
    /\ Settled
    /\ CompleteHoming
    /\ Handed(FALSE)
    /\ UNCHANGED <<setupVars, events, controlVars, command, jointSince, observationVars>>

\* A step of the homing trajectory, forwarded to the robot.
HomingMoves ==
    /\ mode = "HOMING"
    /\ client # "tracking" => seenMode = mode
    /\ drift < MaxDrift
    /\ drift' = drift + 1
    /\ robot' \in {robot - 1, robot + 1} \cap Poses
    /\ UNCHANGED <<setupVars, arbiterVars, events, controllerVars, command, jointSince,
                   observationVars, synced, startVars>>

-----------------------------------------------------------------------------
(* RobotControllerNode.step.                                               *)

OSC_ACTIVE_MODES == {"OCULUS", "KEYBOARD", "SYSTEM"}

\* Mutant: only the model state is synchronised.
ResetConfigurationOnly == configuration' = robot /\ UNCHANGED target

\* _update_controller_states and _reset_commands_from_state.
ResetFromState == configuration' = robot /\ target' = At(robot)

\* Mutant: the command queues are not drained while inactive.
KeepQueue == UNCHANGED command

DrainQueue == command' = None

StepInactive(m, fresh) ==
    /\ m \notin OSC_ACTIVE_MODES
    /\ heard' = m
    /\ DrainQueue
    /\ IF fresh
       THEN ResetFromState /\ synced' = TRUE /\ drift' = 0
       ELSE UNCHANGED <<configuration, target, driftVars>>
    /\ UNCHANGED <<robot, jointSince>>

\* The latest command is received, and the robot state only until the first one.
Received == IF command = None THEN target ELSE command

Located(fresh) == IF fresh /\ (configuration = None \/ target = None) THEN robot ELSE configuration

\* Mutant: the base controller does not clip its velocity.
UnclippedControl(q, aim) == {aim}

\* The arm and base controllers close the error within their velocity limits, and the
\* arm stays where it is if the solver fails; the gripper takes its target.
BoundedControl(q, aim) ==
    CASE part = "tool" -> {Toward(q, aim), q}
      [] part = "gripper" -> {aim}
      [] OTHER -> {Toward(q, aim)}

\* A moving tool command is previewed, by up to a period of its age and one of control.
Control(q, t) == UNION {BoundedControl(q, Clip(aim)) : aim \in {t.pose, t.pose + t.velocity}}

\* The orchestrator forwards the joint command if the mode has it do so.
PublishJointCommand(q, from) ==
    IF mode \in OSC_ACTIVE_MODES
    THEN robot' = q /\ drift' = 0 /\ jointSince' = TRUE
    ELSE /\ drift' = IF q = from THEN drift ELSE drift + 1
         /\ drift' <= MaxDrift
         /\ UNCHANGED <<robot, jointSince>>

StepActive(m, fresh) ==
    /\ m \in OSC_ACTIVE_MODES
    /\ heard' = m
    /\ command' = None
    /\ target' = Received
    /\ synced' = FALSE
    /\ IF Received = None
       THEN configuration' = Located(fresh) /\ UNCHANGED <<robot, jointSince, drift>>
       ELSE /\ Located(fresh) # None
            /\ \E q \in Control(Located(fresh), Received) :
                  configuration' = q /\ PublishJointCommand(q, Located(fresh))

\* A command before the first robot state: compute_control raises RuntimeError.
StepFails(m, fresh) ==
    /\ m \in OSC_ACTIVE_MODES
    /\ Received # None /\ Located(fresh) = None
    /\ heard' = None
    /\ UNCHANGED <<configuration, target, command, robot, jointSince, driftVars>>

\* The latest mode may not have arrived yet, nor another robot state.
ControllerStep ==
    /\ heard # None
    /\ \E m \in {heard, mode}, fresh \in BOOLEAN :
          StepInactive(m, fresh) \/ StepActive(m, fresh) \/ StepFails(m, fresh)
    /\ UNCHANGED <<setupVars, arbiterVars, events, observationVars, startVars>>

-----------------------------------------------------------------------------
(* What a source of commands does with them.                               *)

\* The command passes the orchestrator in mode m if that is the client's own, and is
\* discarded otherwise.
Publish(task, m) == command' = IF m = ClientMode[client] THEN task ELSE command

\* RealtimeEnvironment._build_observation: of each topic the latest message.
BuildObservation ==
    /\ seen' = robot
    /\ seenMode' \in {seenMode, mode}

\* Policy.__call__ steps without an orchestrator or in the policy's own mode.
InOwnMode == seenMode \in {None, ClientMode[client]}

SharedNext == OperatorRequests \/ HomingCompletes \/ HomingMoves \/ ControllerStep

-----------------------------------------------------------------------------
\* A command that is forwarded never takes the tool or the base farther than one step
\* of the velocity limits from where the robot is, beyond the moves that the
\* controller could not know of: through every change of mode it starts from the
\* robot, not from where it was when it was last active.
NoLeap ==
    [][mode # "HOMING" /\ part # "gripper" => Distance(robot, robot') <= 1 + drift]_robot

\* "the controller holds the robot's current pose on reactivation"
\* (_reset_commands_from_state): while the operator has not commanded any motion since
\* the client's mode began, the robot stays where that mode found it.
NoMotionWithoutInput ==
    resting # None /\ ~pushed => Distance(robot, resting) <= MaxDrift

=============================================================================
