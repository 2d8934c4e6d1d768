----------------------------- MODULE OculusTeleop -----------------------------
(***************************************************************************)
(* Oculus teleoperation (policy/teleop/oculus.py, run by                    *)
(* nodes/policy/teleop/oculus.py on environment/realtime.py): a dead-man    *)
(* switch clutches the operator's hand, joystick and buttons to the robot.  *)
(* Releasing it, input that goes stale and a mode that is left all clear    *)
(* the references, which are taken anew from the next observation.          *)
(***************************************************************************)
EXTENDS RobotController

CONSTANT MaxPresses \* bound: how often the X button is pressed

ASSUME PressesAssumption == MaxPresses \in Nat

VARIABLES
    referenceHand,  \* reference_controller_pose
    filteredHand,   \* filtered_controller_pose
    reference,      \* reference_tool_pose, reference_base_pose
    commandedPose,  \* commanded_tool_pose, commanded_gripper_position
    previousX,      \* previous_button_states["X"]
    buttonX,        \* the X button is held down
    presses,        \* history: how often it was pressed
    requests,       \* history: the homing requests of the policy
    clutch          \* history: hand and robot poses when the dead-man was last pressed,
                    \* and whether the operator has moved nothing since; None if released

referenceVars == <<referenceHand, filteredHand, reference, commandedPose>>
buttonVars == <<previousX, buttonX, presses, requests>>
oculusVars == <<referenceVars, buttonVars, clutch>>

Hands == 0 .. 1
Inputs == -1 .. 1   \* a joystick axis; the A and B buttons
Clutches == [hand : Hands, robot : Poses, still : BOOLEAN]

ASSUME NoClutchAssumption == None \notin Hands \cup Clutches

OculusTypeOK ==
    /\ referenceHand \in Hands \cup {None}
    /\ filteredHand \in Hands \cup {None}
    /\ reference \in Poses \cup {None}
    /\ commandedPose \in Poses \cup {None}
    /\ previousX \in BOOLEAN
    /\ buttonX \in BOOLEAN
    /\ presses \in 0 .. MaxPresses
    /\ requests \in Nat
    /\ clutch \in Clutches \cup {None}

OculusInit ==
    /\ referenceHand = None
    /\ filteredHand = None
    /\ reference = None
    /\ commandedPose = None
    /\ previousX = FALSE
    /\ buttonX = FALSE
    /\ presses = 0
    /\ requests = 0
    /\ clutch = None

-----------------------------------------------------------------------------
(* The operator's X button, at human pace.                                 *)

PressX ==
    /\ part = "buttons"
    /\ ~buttonX
    /\ presses < MaxPresses
    /\ buttonX' = TRUE
    /\ presses' = presses + 1

ReleaseX == buttonX /\ buttonX' = FALSE /\ UNCHANGED presses

OperatorX ==
    /\ PressX \/ ReleaseX
    /\ UNCHANGED <<arbiterVars, command, observationVars, startVars, referenceVars, previousX,
                   requests, clutch>>

-----------------------------------------------------------------------------
(* OculusTeleopPolicy.step.                                                *)

\* Mutant: the button states are forgotten with the references.
ForgetReferencesAndButtons(buttons) ==
    /\ referenceHand' = None
    /\ filteredHand' = None
    /\ reference' = None
    /\ commandedPose' = None
    /\ previousX' = FALSE

\* reset(): the button states survive it.
ForgetReferences(buttons) ==
    /\ referenceHand' = None
    /\ filteredHand' = None
    /\ reference' = None
    /\ commandedPose' = None
    /\ previousX' = buttons

\* What an engaged input snapshot tells, for the part that is followed.
Snapshots ==
    [hand : IF part = "tool" THEN Hands ELSE {0},
     input : IF part \in {"base", "gripper"} THEN Inputs ELSE {0}]

HoldCurrentPose == Publish(At(seen), mode') /\ clutch' = None

\* _is_rising_edge and the homing request, which leaves the gripper where it is.
RequestHomingOnX ==
    IF buttonX /\ ~previousX
    THEN RequestHoming /\ requests' = requests + 1
    ELSE UNCHANGED <<arbiterVars, requests>>

\* A reference or command is kept while engaged and initialised when it begins.
Engaged(value, anew) == IF referenceHand = None THEN anew ELSE value

\* _compute_tool_pose: the filtered hand is followed at once or later, and the tool
\* within its limits.
MoveTool(s) ==
    /\ filteredHand' \in {s.hand, Engaged(filteredHand, s.hand)}
    /\ reference' = Engaged(reference, seen)
    /\ commandedPose' = Toward(Engaged(commandedPose, seen),
                               Clip(reference' + filteredHand' - referenceHand'))

\* The joystick moves the base reference, which is the command.
MoveBase(s) ==
    /\ reference' = Clip(Engaged(reference, seen) + s.input)
    /\ commandedPose' = reference'
    /\ UNCHANGED filteredHand

\* _compute_gripper_positions.
MoveGripper(s) ==
    /\ reference' = Engaged(reference, seen)
    /\ commandedPose' = Clip(Engaged(commandedPose, seen) + s.input)
    /\ UNCHANGED filteredHand

Move(s) ==
    /\ referenceHand' = Engaged(referenceHand, s.hand)
    /\ CASE part = "tool" -> MoveTool(s)
         [] part = "base" -> MoveBase(s)
         [] OTHER -> MoveGripper(s)
    /\ previousX' = buttonX
    /\ Publish([pose |-> commandedPose',
                velocity |-> IF part = "tool" THEN commandedPose' - Engaged(commandedPose, seen)
                             ELSE 0], mode')

\* The history of the clutch.
Clutched(s) ==
    LET last == IF clutch = None THEN [hand |-> s.hand, robot |-> seen, still |-> TRUE] ELSE clutch
    IN clutch' = [hand |-> last.hand, robot |-> last.robot,
                  still |-> last.still /\ s.hand = last.hand /\ s.input = 0]

\* Mutant: stale input holds the robot but keeps the references.
StaleKeepingReferences == HoldCurrentPose /\ UNCHANGED <<referenceVars, previousX>>

\* Invalid or old controller data is always disengaged.
Stale == ForgetReferences(previousX) /\ HoldCurrentPose

OculusStep ==
    /\ IF InOwnMode
       THEN \/ /\ UNCHANGED <<arbiterVars, requests>>
               /\ Stale
            \/ /\ RequestHomingOnX
               /\ \/ ForgetReferences(buttonX) /\ HoldCurrentPose
                  \/ \E s \in Snapshots : Move(s) /\ Clutched(s)
       ELSE /\ ForgetReferences(previousX)
            /\ clutch' = None
            /\ UNCHANGED <<arbiterVars, requests, command>>
    /\ BuildObservation
    /\ Handed(resting # None /\ clutch' # None /\ ~clutch'.still)
    /\ UNCHANGED <<buttonX, presses>>

OculusNext ==
    /\ client = "oculus"
    /\ OperatorX \/ OculusStep
    /\ UNCHANGED <<setupVars, events, controlVars, jointSince>>

-----------------------------------------------------------------------------
\* The dead-man is a clutch: from when a grip is pressed until the operator moves hand,
\* joystick or gripper buttons, the command is the pose the robot then had, whatever
\* happened before: a release, stale input or a mode that was left in the middle of a
\* motion leave nothing that the next engagement could continue.
ReanchorsOnEngage == clutch # None /\ clutch.still => commandedPose = clutch.robot

\* One homing request at most for a press of X: not another one when the mode comes
\* back from homing, or input recovers, with the button still held.
RequestsAnswerPresses == requests <= presses

\* Nothing resumes by itself: no motion and no request that was under way before goes on when a
\* grip is pressed again, the mode comes back or input recovers (reset, step).
NothingResumes == ReanchorsOnEngage /\ RequestsAnswerPresses

\* "While neither grip is held, the policy clears its reference poses and holds the
\* current robot position" (docstring of step): once the dead-man stays released in the
\* policy's mode, the robot comes to rest.
HoldComesToRest ==
    <>[](clutch = None /\ mode = "OCULUS") => <>[][FALSE]_robot

=============================================================================
