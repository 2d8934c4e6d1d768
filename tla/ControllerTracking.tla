-------------------------- MODULE ControllerTracking --------------------------
(***************************************************************************)
(* The controller-tracking diagnostic                                       *)
(* (robots/utils/controller_tracking/runtime.py): it takes the robot over   *)
(* from IDLE in a mode of its own, drives the tool along a trajectory       *)
(* around where it found it, samples what happens, and asks for IDLE        *)
(* however it ends.  Both of its requests are messages to the orchestrator, *)
(* which may be lost, handled late, or overwritten before.  Its timing      *)
(* recorder (timing.py) keeps every joint command and attributes those      *)
(* received in one of its windows.                                          *)
(***************************************************************************)
EXTENDS RobotController, FiniteSets

CONSTANTS
    MaxWindow,  \* the timing windows: one for each setting, and that of settling
    Patience    \* how many samples fit into feedback_timeout_s

ASSUME TrackingAssumption == MaxWindow \in Nat \ {0} /\ Patience \in Nat

Windows == 1 .. MaxWindow

VARIABLES
    trackingAt,     \* where the diagnostic is
    anchor,         \* anchor_pose
    motionRequested,
    samples,        \* whether there are any samples
    outcome,        \* how the run ended: completed, interrupted, failed; None
    unheard,        \* samples since the mode was last received
    window,         \* the active window of the timing recorder, None
    windows,        \* its finished windows
    received,       \* the windows in which it received joint commands
    attributed,     \* what close() returned: the windows with joint commands
    asked,          \* the mode of its request that waits for the orchestrator, None
    dropped,        \* history: its request for IDLE was lost or overwritten
    astray          \* history: samples taken since another mode than SYSTEM ruled

recorderVars == <<window, windows, received, attributed>>
runVars == <<anchor, motionRequested, samples, unheard, astray>>
askedVars == <<asked, dropped>>
trackingVars == <<trackingAt, runVars, outcome, recorderVars, askedVars>>

TrackingTypeOK ==
    /\ trackingAt \in {"mode", "state", "recheck", "fresh", "seed", "request", "await", "command",
                       "begin", "run", "end", "finally", "done"}
    /\ anchor \in Poses \cup {None}
    /\ motionRequested \in BOOLEAN
    /\ samples \in BOOLEAN
    /\ outcome \in {"completed", "interrupted", "failed", None}
    /\ unheard \in 0 .. Patience
    /\ window \in Windows \cup {None}
    /\ windows \subseteq Windows
    /\ received \subseteq Windows 
    /\ attributed \subseteq Windows
    /\ asked \in {"SYSTEM", "IDLE", None}
    /\ dropped \in BOOLEAN
    /\ astray \in Nat

TrackingInit ==
    /\ trackingAt = "mode"
    /\ anchor = None
    /\ motionRequested = FALSE
    /\ samples = FALSE
    /\ outcome = None
    /\ unheard = 0
    /\ window = None
    /\ windows = {}
    /\ received = {}
    /\ attributed = {}
    /\ asked = None
    /\ dropped = FALSE
    /\ astray = 0

-----------------------------------------------------------------------------
(* The run up to the request for SYSTEM.                                   *)

Goes(from, to) == trackingAt = from /\ trackingAt' = to

\* The first mode that is received must be IDLE.
FindIdle ==
    /\ mode = "IDLE"
    /\ Goes("mode", "state")
    /\ UNCHANGED <<arbiterVars, command, jointSince, runVars, outcome, recorderVars>>

\* A state of the right shape; then the plan and the countdown.
FindState ==
    /\ Goes("state", "recheck")
    /\ UNCHANGED <<arbiterVars, command, jointSince, runVars, outcome, recorderVars>>

RecheckIdle ==
    /\ mode = "IDLE"
    /\ Goes("recheck", "fresh")
    /\ UNCHANGED <<arbiterVars, command, jointSince, runVars, outcome, recorderVars>>

\* Mutant: the flag is only set when the run has returned.
RequestedLater == UNCHANGED motionRequested

MotionRequested == motionRequested' = TRUE

\* A state newer than the first one gives the anchor of the trajectory.
TakeAnchor ==
    /\ Goes("fresh", "seed")
    /\ anchor' = robot
    /\ MotionRequested
    /\ UNCHANGED <<arbiterVars, command, jointSince, samples, unheard, astray, outcome, recorderVars>>

PublishSeed ==
    /\ Goes("seed", "request")
    /\ Publish(At(anchor), mode)
    /\ UNCHANGED <<arbiterVars, jointSince, runVars, outcome, recorderVars>>

\* One message for the orchestrator's queue of one, where it overwrites what waits; or it
\* is lost.
Ask(m) ==
    \/ asked' = m /\ UNCHANGED dropped
    \/ UNCHANGED asked /\ dropped' = (dropped \/ m = "IDLE")

RequestSystem ==
    /\ Goes("request", "await")
    /\ Ask("SYSTEM")
    /\ jointSince' = FALSE
    /\ UNCHANGED <<arbiterVars, command, runVars, outcome, recorderVars>>

AwaitSystem ==
    /\ mode = "SYSTEM"
    /\ Goes("await", "command")
    /\ UNCHANGED <<arbiterVars, command, jointSince, runVars, outcome, recorderVars>>

\* A joint command that was made after the request.
AwaitCommand ==
    /\ jointSince
    /\ Goes("command", "begin")
    /\ UNCHANGED <<arbiterVars, command, jointSince, runVars, outcome, recorderVars>>

-----------------------------------------------------------------------------
(* The settings and the settling, each in a window of its own.             *)

\* ControllerCommandTimingRecorder.begin.
BeginWindow ==
    /\ Goes("begin", "run")
    /\ window' = Cardinality(windows) + 1
    /\ UNCHANGED <<arbiterVars, command, jointSince, runVars, outcome, windows, received, attributed>>

\* Mutant: the mode is not looked at while the trajectory runs.
RefreshAnything == unheard' = 0

\* _refresh_runtime_state: a mode that arrives must be SYSTEM, and none may be missing
\* for longer than the timeout; neither may states and joint commands (see Fails).
Refresh ==
    \/ mode = "SYSTEM" /\ unheard' = 0
    \/ unheard < Patience /\ unheard' = unheard + 1

\* figure_eight_pose and figure_eight_velocity: out from the anchor and back to it; while
\* settling the anchor itself.
Trajectory ==
    IF window = MaxWindow THEN {At(anchor)}
    ELSE {At(anchor), [pose |-> anchor, velocity |-> 1], [pose |-> Clip(anchor + 1), velocity |-> -1]}

Sample ==
    /\ trackingAt = "run"
    /\ Refresh
    /\ \E task \in Trajectory : Publish(task, mode)
    /\ samples' = TRUE
    /\ astray' = IF mode = "SYSTEM" THEN 0 ELSE astray + 1
    /\ UNCHANGED <<trackingAt, arbiterVars, jointSince, anchor, motionRequested, outcome, recorderVars>>

\* The setting's time is over, or that of settling.
EndWindow ==
    /\ trackingAt = "run"
    /\ samples
    /\ windows' = windows \cup {window}
    /\ window' = None
    /\ IF window = MaxWindow
       THEN trackingAt' = "finally" /\ outcome' = "completed"
       ELSE trackingAt' = "begin" /\ UNCHANGED outcome
    /\ UNCHANGED <<arbiterVars, command, jointSince, runVars, received, attributed>>

-----------------------------------------------------------------------------
(* The ends.                                                               *)

InTry == trackingAt \notin {"finally", "done"}

Interrupted ==
    /\ InTry
    /\ trackingAt' = "finally"
    /\ outcome' = "interrupted"
    /\ UNCHANGED <<arbiterVars, command, jointSince, runVars, recorderVars>>

\* A RuntimeError: what is waited for does not come in time, the mode is not the
\* expected one, or feedback went stale.
Fails ==
    /\ InTry
    /\ trackingAt \notin {"seed", "request", "begin"}
    /\ trackingAt' = "finally"
    /\ outcome' = "failed"
    /\ UNCHANGED <<arbiterVars, command, jointSince, runVars, recorderVars>>

\* Mutant: the active window is not finished.
CloseWithoutEnd == windows

\* ControllerCommandTimingRecorder.close ends the active window before it drains.
ClosedWindows == IF window = None THEN windows ELSE windows \cup {window}

\* IDLE is asked for and the process ends, with all that the run held.
Finally ==
    /\ Goes("finally", "done")
    /\ IF motionRequested THEN Ask("IDLE") ELSE UNCHANGED askedVars
    /\ windows' = ClosedWindows
    /\ window' = None
    /\ attributed' = received \cap ClosedWindows
    /\ anchor' = None /\ motionRequested' = FALSE /\ samples' = FALSE
    /\ unheard' = 0 /\ astray' = 0
    /\ UNCHANGED <<arbiterVars, command, jointSince, outcome, received>>

QuietStep ==
    \/ FindIdle \/ FindState \/ RecheckIdle \/ TakeAnchor \/ PublishSeed
    \/ AwaitSystem \/ AwaitCommand
    \/ BeginWindow \/ Sample \/ EndWindow
    \/ Interrupted \/ Fails

\* The recorder's own subscriber keeps each joint command the controller publishes; what
\* comes outside the windows is left out in the end.
RecordCommand ==
    /\ trackingAt # "done"
    /\ heard \in OSC_ACTIVE_MODES /\ configuration # None
    /\ window \notin received \cup {None}
    /\ received' = received \cup {window}
    /\ UNCHANGED <<arbiterVars, command, jointSince, trackingAt, runVars, outcome, window, windows,
                   attributed>>

\* The orchestrator handles the request, also after the diagnostic has ended.
AskedIsHandled ==
    /\ asked # None
    /\ RequestMode(asked)
    /\ asked' = None
    /\ UNCHANGED <<command, jointSince, trackingAt, runVars, outcome, recorderVars, dropped>>

\* The request is overwritten by another event, of whoever else publishes one.
AskedIsOverwritten ==
    /\ asked # None
    /\ asked' = None
    /\ dropped' = (dropped \/ asked = "IDLE")
    /\ UNCHANGED <<arbiterVars, command, jointSince, trackingAt, runVars, outcome, recorderVars>>

TrackingNext ==
    /\ client = "tracking"
    /\ \/ (QuietStep \/ RecordCommand) /\ UNCHANGED askedVars
       \/ RequestSystem \/ Finally
       \/ AskedIsHandled \/ AskedIsOverwritten
    /\ Handed(trackingAt = "run")
    /\ UNCHANGED <<setupVars, events, controlVars, observationVars>>

-----------------------------------------------------------------------------
\* The robot is asked back: once the diagnostic has ended, SYSTEM is neither the mode nor
\* still to come, unless its request for IDLE is on its way, after it, or was lost or
\* overwritten.  So it is whether the run completes, is interrupted at any point, fails, or
\* loses the robot to the operator, also while its request for SYSTEM still waits.
IdleIsAskedLast ==
    trackingAt = "done" /\ (mode = "SYSTEM" \/ asked = "SYSTEM") => asked = "IDLE" \/ dropped

\* A run whose mode was taken away stops sampling within the feedback timeout, so it is
\* neither completed nor sampled on as if the robot still followed it.
SamplesAreLive == astray <= Patience

\* No command that was received in a window is lost, the window that an interruption or
\* a failure leaves open included.
WindowsAreKept == trackingAt = "done" => received \subseteq attributed

\* However the diagnostic ends, it asks for the robot to be idle last, and what it has measured
\* is of a robot that followed it, complete.
DiagnosticIsSound == IdleIsAskedLast /\ SamplesAreLive /\ WindowsAreKept

(* What the repository says, and the code does not keep.                   *)

\* "returning the controller to idle" (the warning of an interrupted run): the one request
\* for it may be lost or overwritten, and the robot then stays in SYSTEM.
RobotIsGivenBack == trackingAt = "done" /\ asked = None => mode # "SYSTEM"

=============================================================================
