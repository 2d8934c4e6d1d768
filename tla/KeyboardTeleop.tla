---------------------------- MODULE KeyboardTeleop ----------------------------
(***************************************************************************)
(* Keyboard teleoperation: the node's loop (nodes/policy/teleop/keyboard.py *)
(* on environment/realtime.py) and the policy's global key listener         *)
(* (policy/teleop/keyboard.py), a thread that moves the target pose and     *)
(* ends the node while the loop publishes, resets and restarts it.          *)
(***************************************************************************)
EXTENDS RobotController

CONSTANT Keys   \* bound: how far a key moves the target, one unit one way or the other

ASSUME KeysAssumption == Keys \subseteq {-1, 1}

ASSUME ListenersAssumption == None \notin {"running", "stopped"}

VARIABLES
    aimed,      \* current_tool_pose, current_base_pose or gripper_positions
    commanded,  \* commanded_tool_pose
    running,    \* KeyboardTeleopPolicy.running
    listener,   \* the listener object: None, or whether its thread runs
    threads,    \* the listener threads that run
    pressed,    \* the key a callback works on past its first check, None
    keyboardAt, \* where the node's loop is
    quit        \* history: 0, and since the operator pressed the quit key in the current
                \* activation 1 and the steps that the node then finished

policyVars == <<aimed, commanded, running, listener>>
keyboardVars == <<policyVars, threads, pressed, keyboardAt, quit>>

KeyboardTypeOK ==
    /\ aimed \in Poses \cup {None}
    /\ commanded \in Poses \cup {None}
    /\ running \in BOOLEAN
    /\ listener \in {None, "running", "stopped"}
    /\ threads \in 0 .. 2
    /\ pressed \in Keys \cup {None}
    /\ keyboardAt \in {"loop", "step", "closed"}
    /\ quit \in Nat

KeyboardInit ==
    /\ aimed = None
    /\ commanded = None
    /\ running = TRUE
    /\ listener = None
    /\ threads = 0
    /\ pressed = None
    /\ keyboardAt = "loop"
    /\ quit = 0

-----------------------------------------------------------------------------
(* The listener thread: _on_press.                                         *)

\* The target is looked at before the lock is taken.
KeyPressed(key) ==
    /\ threads > 0
    /\ pressed = None
    /\ aimed # None
    /\ pressed' = key
    /\ UNCHANGED <<policyVars, threads, keyboardAt, quit, pushed>>

\* Under the lock.  The node may have reset the policy meanwhile: the exception is
\* swallowed, or the part's own check holds.
MoveTarget ==
    /\ pressed # None
    /\ pressed' = None
    /\ IF aimed = None
       THEN UNCHANGED <<aimed, pushed>>
       ELSE /\ aimed' = Clip(aimed + pressed)
            /\ pushed' = (pushed \/ resting # None)
    /\ UNCHANGED <<commanded, running, listener, threads, keyboardAt, quit>>

\* ESC or x: the callback returns False, which ends its thread.
QuitPressed ==
    /\ threads > 0
    /\ pressed = None
    /\ aimed # None
    /\ running' = FALSE
    /\ quit' = 1
    /\ threads' = threads - 1
    /\ listener' = IF listener = "running" THEN "stopped" ELSE listener
    /\ UNCHANGED <<aimed, commanded, pressed, keyboardAt, pushed>>

KeyboardListener == (\E key \in Keys : KeyPressed(key)) \/ MoveTarget \/ QuitPressed

-----------------------------------------------------------------------------
(* The node's thread.                                                      *)

\* Mutant: the listener is forgotten without being stopped.
ForgetListener == listener' = None /\ UNCHANGED threads

StopListener ==
    /\ listener' = None
    /\ threads' = IF listener = "running" THEN threads - 1 ELSE threads

\* KeyboardTeleopPolicy.reset, on each step outside the policy's mode.
KeyboardReset ==
    /\ aimed' = None
    /\ commanded' = None
    /\ running' = TRUE
    /\ StopListener

\* Mutant: the listener is started again although it runs.
StartAnotherListener == listener' = "running" /\ threads' = threads + 1

StartListener ==
    IF listener = "running"
    THEN UNCHANGED <<listener, threads>>
    ELSE listener' = "running" /\ threads' = threads + 1

\* Mutant: the target is initialised on the node's first step only.
InitialTargetOnly(pose) == IF pose = None THEN 1 ELSE pose

InitialTarget(pose) == IF pose = None THEN seen ELSE pose

\* KeyboardTeleopPolicy.step: the tool command follows the target within the limits;
\* base and gripper targets are published as they are.
Shape ==
    /\ aimed' = InitialTarget(aimed)
    /\ commanded' = IF part = "tool" THEN Toward(InitialTarget(commanded), aimed') ELSE aimed'
    /\ Publish([pose |-> commanded',
                velocity |-> IF part = "tool" THEN commanded' - InitialTarget(commanded) ELSE 0], mode)
    /\ IF aimed = None THEN StartListener ELSE UNCHANGED <<listener, threads>>
    /\ UNCHANGED running

\* Mutant: the node has no stop condition.
KeyboardNeverStops ==
    /\ keyboardAt = "loop"
    /\ keyboardAt' = "step"
    /\ UNCHANGED <<policyVars, threads, pressed, quit, command, observationVars>>

\* stop_condition, then on_close or a step.
KeyboardLoops ==
    /\ keyboardAt = "loop"
    /\ IF running
       THEN keyboardAt' = "step" /\ UNCHANGED <<listener, threads>>
       ELSE keyboardAt' = "closed" /\ StopListener
    /\ UNCHANGED <<aimed, commanded, running, pressed, quit, command, observationVars>>

KeyboardStep ==
    /\ keyboardAt = "step"
    /\ keyboardAt' = "loop"
    /\ IF InOwnMode
       THEN Shape /\ quit' = IF quit = 0 THEN 0 ELSE quit + 1
       ELSE KeyboardReset /\ quit' = 0 /\ UNCHANGED command
    /\ BuildObservation
    /\ UNCHANGED pressed

KeyboardNode == (KeyboardLoops \/ KeyboardStep) /\ UNCHANGED pushed

KeyboardNext ==
    /\ client = "keyboard"
    /\ \/ KeyboardListener /\ UNCHANGED <<command, observationVars>>
       \/ KeyboardNode
    /\ UNCHANGED <<setupVars, arbiterVars, events, controlVars, jointSince, resting>>

-----------------------------------------------------------------------------
\* One global key listener at most, however often the policy is reset, quits and
\* starts it again, and none once the node has closed: a key never counts twice, nor
\* moves anything after the end.
OneListener == threads <= 1 /\ (keyboardAt = "closed" => threads = 0)

\* "ESC or 'x' - Quit": the node closes after the step in which a quit key came, at the
\* latest, unless it then hears that its mode was left, which resets the policy and
\* with it the flag.
QuitIsHeard == quit <= 2

\* A key counts once: a motion key moves the target once, a quit key ends the node, whatever
\* the node does to the policy and its listener at that moment.
KeysCountOnce == OneListener /\ QuitIsHeard

=============================================================================
