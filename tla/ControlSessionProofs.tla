------------------------- MODULE ControlSessionProofs -------------------------
(***************************************************************************)
(* Proofs about a session of control, for any poses, keys, windows and       *)
(* bounds, and whichever source of commands is at work.                      *)
(***************************************************************************)
EXTENDS ControlSession, FiniteSetTheorems, TLAPS

-----------------------------------------------------------------------------
(* The inductive invariant, one part for each thread of the session.       *)

\* The controller's configuration is as far from the robot as the moves that the two did
\* not make together; a gripper takes its target at once.
WithinDrift ==
    (part # "gripper" /\ configuration # None) => Distance(robot, configuration) <= drift

\* The listener's thread runs exactly while the policy holds it for running, and not
\* once the node has closed.
ListenerCounted ==
    /\ threads = IF listener = "running" THEN 1 ELSE 0
    /\ keyboardAt = "closed" => listener # "running"

\* The quit flag stands until it is heard.
QuitPending == quit <= 2 /\ (quit > 0 => ~running /\ (quit > 1 => keyboardAt # "step"))

\* While the hand is engaged there are references, which the clutch knows of.
References ==
    /\ referenceHand = None <=> clutch = None
    /\ referenceHand # None =>
         /\ referenceHand \in Hands
         /\ reference \in Poses
         /\ commandedPose \in Poses
         /\ part = "tool" => filteredHand \in Hands

\* Until the operator moves, they are what the clutch found.
StillReferences ==
    (clutch # None /\ clutch.still) =>
        /\ referenceHand = clutch.hand
        /\ reference = clutch.robot
        /\ commandedPose = clutch.robot
        /\ part = "tool" => filteredHand = clutch.hand

\* A press that was not seen yet is still to be answered.
Pending == IF buttonX /\ ~previousX THEN 1 ELSE 0
PressesPending == requests + Pending <= presses

\* SYSTEM is the diagnostic's own doing: while it runs it has noted so, and once it has ended
\* it has asked for IDLE; by then it has its anchor.
SystemIsRequested ==
    /\ mode = "SYSTEM" \/ asked # None => client = "tracking"
    /\ mode = "SYSTEM" \/ asked = "SYSTEM" =>
         IF trackingAt = "done" THEN asked = "IDLE" \/ dropped ELSE motionRequested
    /\ trackingAt \in {"seed", "request", "await", "command", "begin", "run"} =>
         motionRequested /\ anchor \in Poses

\* Whoever samples in another mode has not heard of SYSTEM meanwhile.
AstrayUnheard == astray <= unheard

\* Until the end there is a window for each setting so far, in order, and what was
\* received belongs to one of them.
WindowsInOrder ==
    /\ InTry => \E k \in 0 .. MaxWindow - 1 :
                    windows = 1 .. k /\ window = IF trackingAt = "run" THEN k + 1 ELSE None
    /\ trackingAt # "done" => received \subseteq ClosedWindows
    /\ trackingAt = "done" => received \subseteq attributed

ControllerInv == ControllerTypeOK /\ WithinDrift
KeyboardInv == KeyboardTypeOK /\ ListenerCounted /\ QuitPending
OculusInv == OculusTypeOK /\ References /\ StillReferences /\ PressesPending
TrackingInv == TrackingTypeOK /\ SystemIsRequested /\ AstrayUnheard /\ WindowsInOrder

IInv == ControllerInv /\ KeyboardInv /\ OculusInv /\ TrackingInv

-----------------------------------------------------------------------------
(* Arithmetic of poses, and what the parts leave alone.                    *)

LEMMA PoseArithmetic ==
  /\ \A i \in Int : Clip(i) \in Poses
  /\ \A p \in Poses : Clip(p) = p /\ Toward(p, p) = p
  /\ \A p, q \in Poses : Toward(p, q) \in Poses /\ Toward(p, q) - p \in -1 .. 1
  /\ \A p, q \in Poses : Distance(p, q) \in Nat
  BY BoundsAssumption DEF Clip, Toward, Distance, Poses

LEMMA DistanceTriangle ==
  /\ \A p \in Poses : Distance(p, p) = 0
  /\ \A p, q, r \in Poses : Distance(p, r) <= Distance(p, q) + Distance(q, r)
  BY BoundsAssumption DEF Distance, Poses

\* A step of the controller stays within the workspace, and but for a gripper within one
\* unit of where it starts.
LEMMA ControlIsBounded ==
  ASSUME NEW p \in Poses, NEW t \in TaskCommands, NEW q \in Control(p, t)
  PROVE  q \in Poses /\ (part # "gripper" => Distance(p, q) <= 1)
<1>1. PICK aim \in {t.pose, t.pose + t.velocity} : q \in BoundedControl(p, Clip(aim))
  BY DEF Control
<1>2. Clip(aim) \in Poses
  <2>1. aim \in Int
    BY BoundsAssumption DEF TaskCommands, Poses
  <2>2. QED
    BY <2>1, PoseArithmetic
<1>3. CASE part = "gripper"
  BY <1>1, <1>2, <1>3 DEF BoundedControl
<1>4. CASE part # "gripper"
  <2>1. q \in {Toward(p, Clip(aim)), p}
    BY <1>1, <1>4 DEF BoundedControl
  <2>2. q \in Poses /\ q - p \in -1 .. 1
    BY <1>2, <2>1, PoseArithmetic, BoundsAssumption DEF Poses
  <2>3. QED
    BY <2>2, BoundsAssumption DEF Distance, Poses
<1>5. QED
  BY <1>3, <1>4

LEMMA KeyboardUnchanged == KeyboardInv /\ UNCHANGED keyboardVars => KeyboardInv'
  BY DEF KeyboardInv, keyboardVars, policyVars, KeyboardTypeOK, ListenerCounted, QuitPending

LEMMA OculusUnchanged == OculusInv /\ UNCHANGED <<oculusVars, setupVars>> => OculusInv'
  BY DEF OculusInv, oculusVars, referenceVars, buttonVars, setupVars, OculusTypeOK, References,
     StillReferences, PressesPending, Pending

LEMMA TrackingUnchanged ==
  TrackingInv /\ UNCHANGED <<trackingVars, setupVars>> /\ (mode' = "SYSTEM" => mode = "SYSTEM")
    => TrackingInv'
  BY DEF TrackingInv, trackingVars, recorderVars, runVars, askedVars, setupVars, TrackingTypeOK,
     SystemIsRequested, AstrayUnheard, WindowsInOrder, InTry, ClosedWindows

LEMMA SetupType == ControllerTypeOK => client \in Clients /\ part \in Parts
  BY SetupsAssumption DEF ControllerTypeOK

\* A source of commands leaves the controller and the robot alone.
LEMMA SourceKeepsController ==
  ASSUME ControllerInv, UNCHANGED <<setupVars, events, controlVars>>,
         mode' \in Modes, returnMode' \in RETURNABLE_MODES \cup {None},
         command' \in TaskCommands \cup {None}, jointSince' \in BOOLEAN,
         seen' \in Poses, seenMode' \in Modes \cup {None},
         resting' \in Poses \cup {None}, pushed' \in BOOLEAN
  PROVE  ControllerInv'
  BY DEF ControllerInv, ControllerTypeOK, WithinDrift, setupVars, controlVars, controllerVars, driftVars

LEMMA HandedType ==
  ASSUME ControllerTypeOK, NEW moved \in BOOLEAN, Handed(moved)
  PROVE  resting' \in Poses \cup {None} /\ pushed' \in BOOLEAN
<1>1. resting' \in Poses \cup {None}
  BY DEF Handed, ControllerTypeOK
<1>2. pushed' \in BOOLEAN
  BY Zenon DEF Handed
<1>3. QED
  BY <1>1, <1>2

LEMMA ArbiterType ==
  ASSUME mode \in Modes, returnMode \in RETURNABLE_MODES \cup {None},
         (\E m \in NamedModes : RequestMode(m)) \/ RequestHoming \/ CompleteHoming
  PROVE  mode' \in Modes /\ returnMode' \in RETURNABLE_MODES \cup {None}
  BY DEF RequestMode, RequestHoming, CompleteHoming, Modes, NamedModes, RETURNABLE_MODES

LEMMA InitIInv == SessionInit => IInv
<1> SUFFICES ASSUME SessionInit PROVE IInv
  OBVIOUS
<1>0. ControllerInit /\ KeyboardInit /\ OculusInit /\ TrackingInit
  BY DEF SessionInit
<1>1. <<client, part>> \in Setups /\ client \in Clients
  BY <1>0, SetupsAssumption DEF ControllerInit
<1>2. ControllerInv
  <2>1. robot = 1 /\ robot \in Poses /\ drift = 0 /\ drift \in 0 .. MaxDrift /\ events \in 0 .. MaxEvents
    BY <1>0, BoundsAssumption DEF ControllerInit, Poses
  <2>2. ControllerTypeOK
    BY <1>0, <1>1, <2>1 DEF ControllerInit, ArbiterInit, ControllerTypeOK, Modes
  <2>3. WithinDrift
    BY <1>0 DEF ControllerInit, WithinDrift
  <2>4. QED
    BY <2>2, <2>3 DEF ControllerInv
<1>3. KeyboardInv
  BY <1>0, ListenersAssumption DEF KeyboardInit, KeyboardInv, KeyboardTypeOK, ListenerCounted, QuitPending
<1>4. OculusInv
  <2>1. 0 \in 0 .. MaxPresses
    BY PressesAssumption
  <2>2. OculusTypeOK
    BY <1>0, <2>1 DEF OculusInit, OculusTypeOK
  <2>3. References /\ StillReferences /\ PressesPending
    BY <1>0 DEF OculusInit, References, StillReferences, PressesPending, Pending
  <2>4. QED
    BY <2>2, <2>3 DEF OculusInv
<1>5. TrackingInv
  <2>1. mode # "SYSTEM"
    BY <1>0 DEF ControllerInit
  <2>2. windows = 1 .. 0 /\ 0 \in 0 .. MaxWindow - 1
    BY <1>0, TrackingAssumption DEF TrackingInit
  <2>3. TrackingTypeOK
    <3>1. 0 \in 0 .. Patience
      BY TrackingAssumption
    <3>2. QED
      BY <1>0, <3>1 DEF TrackingInit, TrackingTypeOK
  <2>4. SystemIsRequested /\ AstrayUnheard
    BY <1>0, <2>1, NoModeAssumption DEF TrackingInit, SystemIsRequested, AstrayUnheard, Modes
  <2>5. WindowsInOrder
    BY <1>0, <2>2 DEF TrackingInit, WindowsInOrder
  <2>6. QED
    BY <2>3, <2>4, <2>5 DEF TrackingInv
<1>6. QED
  BY <1>2, <1>3, <1>4, <1>5 DEF IInv


-----------------------------------------------------------------------------
(* The orchestrator, homing and the controller.                            *)

\* Mode changes leave controller and robot as they were.
LEMMA ModeChangesKeepController ==
  ASSUME ControllerInv, (OperatorRequests \/ HomingCompletes) PROVE ControllerInv'
<1>1. /\ UNCHANGED <<setupVars, controlVars, command, jointSince, observationVars>>
      /\ Handed(FALSE)
  BY DEF OperatorRequests, HomingCompletes
<1>2. events' \in 0 .. MaxEvents
  <2>1. events \in 0 .. MaxEvents
    BY DEF ControllerInv, ControllerTypeOK
  <2>2. events' = events \/ (events < MaxEvents /\ events' = events + 1)
    BY DEF OperatorRequests, HomingCompletes
  <2>3. QED
    BY <2>1, <2>2, BoundsAssumption
<1>3. (\E m \in NamedModes : RequestMode(m)) \/ RequestHoming \/ CompleteHoming
  <2>1. CASE OperatorRequests
    <3>1. OperatorModes \subseteq NamedModes
      BY SetupType DEF OperatorModes, ClientMode, Clients, NamedModes, Modes, ControllerInv
    <3>2. QED
      BY <2>1, <3>1 DEF OperatorRequests
  <2>2. CASE HomingCompletes
    BY <2>2 DEF HomingCompletes
  <2>3. QED
    BY <2>1, <2>2
<1>4. mode' \in Modes /\ returnMode' \in RETURNABLE_MODES \cup {None}
  BY <1>3, ArbiterType DEF ControllerInv, ControllerTypeOK
<1>5. resting' \in Poses \cup {None} /\ pushed' \in BOOLEAN
  BY <1>1, HandedType DEF ControllerInv
<1>6. QED
  BY <1>1, <1>2, <1>4, <1>5
     DEF ControllerInv, ControllerTypeOK, WithinDrift, setupVars, controlVars, controllerVars, driftVars,
         observationVars

\* Homing moves the robot under the controller by one more unit.
LEMMA HomingKeepsController == ASSUME ControllerInv, HomingMoves PROVE ControllerInv'
<1>1. /\ UNCHANGED <<setupVars, arbiterVars, events, controllerVars, command, jointSince,
                     observationVars, synced, startVars>>
      /\ drift' = drift + 1 /\ drift' \in 0 .. MaxDrift
      /\ robot' \in Poses /\ robot' \in {robot - 1, robot + 1}
  BY BoundsAssumption DEF HomingMoves, ControllerInv, ControllerTypeOK
<1>2. ControllerTypeOK'
  BY <1>1 DEF ControllerInv, ControllerTypeOK, setupVars, arbiterVars, controllerVars, observationVars, startVars
<1>3. WithinDrift'
  <2>1. SUFFICES ASSUME part # "gripper", configuration # None
                 PROVE  Distance(robot', configuration) <= drift'
    BY <1>1 DEF WithinDrift, setupVars, controllerVars
  <2>2. Distance(robot, configuration) <= drift /\ configuration \in Poses /\ robot \in Poses
    BY <2>1 DEF ControllerInv, ControllerTypeOK, WithinDrift
  <2>3. drift \in Nat
    BY BoundsAssumption DEF ControllerInv, ControllerTypeOK
  <2>4. Distance(robot', robot) <= 1
    <3>1. robot \in Int /\ (robot' = robot - 1 \/ robot' = robot + 1)
      BY <1>1, <2>2, BoundsAssumption DEF Poses
    <3>2. QED
      BY <3>1 DEF Distance
  <2>5. Distance(robot', configuration) <= Distance(robot', robot) + Distance(robot, configuration)
    BY <1>1, <2>2, DistanceTriangle
  <2>6. Distance(robot', robot) \in Nat /\ Distance(robot, configuration) \in Nat
        /\ Distance(robot', configuration) \in Nat
    BY <1>1, <2>2, PoseArithmetic
  <2>7. QED
    BY <1>1, <2>2, <2>3, <2>4, <2>5, <2>6
<1>4. QED
  BY <1>2, <1>3 DEF ControllerInv

\* A step in a mode that is not the controller's own takes over where the robot is.
LEMMA InactiveStepKeeps ==
  ASSUME ControllerInv, NEW m \in {heard, mode}, heard # None, NEW fresh \in BOOLEAN, StepInactive(m, fresh),
         UNCHANGED <<setupVars, arbiterVars, events, observationVars, startVars>>
  PROVE  ControllerInv'
<1>1. /\ heard' \in Modes /\ command' = None /\ UNCHANGED <<robot, jointSince>>
      /\ \/ configuration' = robot /\ target' = At(robot) /\ synced' = TRUE /\ drift' = 0
         \/ UNCHANGED <<configuration, target, synced, drift>>
  BY DEF StepInactive, DrainQueue, ResetFromState, driftVars, ControllerInv, ControllerTypeOK
<1>2. At(robot) \in TaskCommands /\ 0 \in 0 .. MaxDrift /\ Distance(robot, robot) = 0
  BY BoundsAssumption DEF At, TaskCommands, ControllerInv, ControllerTypeOK, Distance, Poses
<1>3. ControllerTypeOK'
  BY <1>1, <1>2 DEF ControllerInv, ControllerTypeOK, setupVars, arbiterVars, observationVars, startVars
<1>4. WithinDrift'
  BY <1>1, <1>2 DEF ControllerInv, WithinDrift, setupVars
<1>5. QED
  BY <1>3, <1>4 DEF ControllerInv

\* Where the controller starts from is within the drift of the robot.
LEMMA LocatedWithinDrift ==
  ASSUME ControllerInv, NEW fresh \in BOOLEAN
  PROVE  /\ Located(fresh) \in Poses \cup {None}
         /\ Located(fresh) # None =>
              /\ Located(fresh) \in Poses
              /\ part # "gripper" => Distance(robot, Located(fresh)) <= drift
<1>1. Located(fresh) \in {robot, configuration}
  BY DEF Located
<1>2. robot \in Poses /\ drift \in Nat /\ Distance(robot, robot) = 0
  BY BoundsAssumption DEF ControllerInv, ControllerTypeOK, Distance, Poses
<1>3. QED
  BY <1>1, <1>2 DEF ControllerInv, ControllerTypeOK, WithinDrift

LEMMA ActiveStepKeeps ==
  ASSUME ControllerInv, NEW m \in {heard, mode}, heard # None, NEW fresh \in BOOLEAN, StepActive(m, fresh),
         UNCHANGED <<setupVars, arbiterVars, events, observationVars, startVars>>
  PROVE  ControllerInv'
<1>1. /\ heard' \in Modes /\ command' = None /\ target' = Received /\ synced' = FALSE
  BY DEF StepActive, ControllerInv, ControllerTypeOK
<1>2. Received \in TaskCommands \cup {None}
  BY DEF Received, ControllerInv, ControllerTypeOK
<1>3. CASE Received = None
  <2>1. configuration' = Located(fresh) /\ UNCHANGED <<robot, jointSince, drift>>
    BY <1>3 DEF StepActive
  <2>2. ControllerTypeOK'
    BY <1>1, <1>2, <2>1, LocatedWithinDrift
       DEF ControllerInv, ControllerTypeOK, setupVars, arbiterVars, observationVars, startVars
  <2>3. WithinDrift'
    BY <2>1, LocatedWithinDrift DEF WithinDrift, setupVars
  <2>4. QED
    BY <2>2, <2>3 DEF ControllerInv
<1>4. CASE Received # None
  <2>1. Located(fresh) # None
    BY <1>4 DEF StepActive
  <2>2. PICK q \in Control(Located(fresh), Received) :
           configuration' = q /\ PublishJointCommand(q, Located(fresh))
    BY <1>4 DEF StepActive
  <2> DEFINE from == Located(fresh)
  <2>3. /\ from \in Poses /\ robot \in Poses
        /\ part # "gripper" => Distance(robot, from) <= drift
    BY <2>1, LocatedWithinDrift DEF ControllerInv, ControllerTypeOK
  <2>4. q \in Poses /\ (part # "gripper" => Distance(from, q) <= 1)
    BY <1>2, <1>4, <2>3, ControlIsBounded
  <2>5. drift \in 0 .. MaxDrift
    BY DEF ControllerInv, ControllerTypeOK
  <2>6. CASE mode \in OSC_ACTIVE_MODES
    <3>1. robot' = q /\ drift' = 0 /\ jointSince' = TRUE
      BY <2>2, <2>6 DEF PublishJointCommand
    <3>2. 0 \in 0 .. MaxDrift /\ Distance(q, q) = 0
      BY <2>4, BoundsAssumption DEF Distance, Poses
    <3>3. ControllerTypeOK'
      BY <1>1, <1>2, <2>2, <2>4, <3>1, <3>2
         DEF ControllerInv, ControllerTypeOK, setupVars, arbiterVars, observationVars, startVars
    <3>4. WithinDrift'
      BY <2>2, <3>1, <3>2 DEF WithinDrift
    <3>5. QED
      BY <3>3, <3>4 DEF ControllerInv
  <2>7. CASE mode \notin OSC_ACTIVE_MODES
    <3>1. /\ UNCHANGED <<robot, jointSince>> /\ drift' = IF q = from THEN drift ELSE drift + 1
          /\ drift' <= MaxDrift
      BY <2>2, <2>7 DEF PublishJointCommand
    <3>2. drift' \in 0 .. MaxDrift
      BY <2>5, <3>1, BoundsAssumption
    <3>3. part # "gripper" => Distance(robot, q) <= drift'
      BY <2>3, <2>4, <2>5, <3>1, BoundsAssumption DEF Distance, Poses
    <3>4. ControllerTypeOK'
      BY <1>1, <1>2, <2>2, <2>4, <3>1, <3>2
         DEF ControllerInv, ControllerTypeOK, setupVars, arbiterVars, observationVars, startVars
    <3>5. WithinDrift'
      BY <2>2, <3>1, <3>3 DEF WithinDrift, setupVars
    <3>6. QED
      BY <3>4, <3>5 DEF ControllerInv
  <2>8. QED
    BY <2>6, <2>7
<1>5. QED
  BY <1>3, <1>4

LEMMA ControllerStepKeeps == ASSUME ControllerInv, ControllerStep PROVE ControllerInv'
<1>1. PICK m \in {heard, mode}, fresh \in BOOLEAN :
         StepInactive(m, fresh) \/ StepActive(m, fresh) \/ StepFails(m, fresh)
  BY DEF ControllerStep
<1>2. heard # None /\ UNCHANGED <<setupVars, arbiterVars, events, observationVars, startVars>>
  BY DEF ControllerStep
<1>3. CASE StepInactive(m, fresh)
  BY <1>2, <1>3, InactiveStepKeeps
<1>4. CASE StepActive(m, fresh)
  BY <1>2, <1>4, ActiveStepKeeps
<1>5. CASE StepFails(m, fresh)
  BY <1>2, <1>5
     DEF StepFails, ControllerInv, ControllerTypeOK, WithinDrift, setupVars, arbiterVars, observationVars,
         startVars, driftVars
<1>6. QED
  BY <1>1, <1>3, <1>4, <1>5

LEMMA SharedStepKeeps == ASSUME IInv, SharedStep PROVE IInv'
<1>1. ControllerInv'
  BY ModeChangesKeepController, HomingKeepsController, ControllerStepKeeps DEF SharedStep, SharedNext, IInv
<1>2. UNCHANGED setupVars
  BY DEF SharedStep, SharedNext, OperatorRequests, HomingCompletes, HomingMoves, ControllerStep
<1>3. mode' = "SYSTEM" => mode = "SYSTEM"
  <2>1. CASE OperatorRequests
    BY <2>1, SetupType
       DEF OperatorRequests, OperatorModes, RequestMode, RequestHoming, ClientMode, Clients, IInv, ControllerInv
  <2>2. CASE HomingCompletes
    BY <2>2 DEF HomingCompletes, CompleteHoming, RETURNABLE_MODES, IInv, ControllerInv, ControllerTypeOK
  <2>3. CASE HomingMoves \/ ControllerStep
    BY <2>3 DEF HomingMoves, ControllerStep, arbiterVars
  <2>4. QED
    BY <2>1, <2>2, <2>3 DEF SharedStep, SharedNext
<1>4. QED
  BY <1>1, <1>2, <1>3, KeyboardUnchanged, OculusUnchanged, TrackingUnchanged DEF SharedStep, IInv


-----------------------------------------------------------------------------
(* Keyboard teleoperation.                                                 *)

LEMMA PublishType ==
  ASSUME NEW task \in TaskCommands, NEW m, command \in TaskCommands \cup {None}, Publish(task, m)
  PROVE  command' \in TaskCommands \cup {None}
  BY DEF Publish

\* A target, once initialised from the observation, stays a pose.
LEMMA KeyboardShapes ==
  ASSUME ControllerInv, KeyboardInv, Shape
  PROVE  /\ aimed' \in Poses /\ commanded' \in Poses
         /\ command' \in TaskCommands \cup {None}
         /\ running' = running
         /\ \/ UNCHANGED <<listener, threads>>
            \/ listener # "running" /\ listener' = "running" /\ threads' = threads + 1
<1>1. seen \in Poses /\ command \in TaskCommands \cup {None}
  BY DEF ControllerInv, ControllerTypeOK
<1>2. InitialTarget(aimed) \in Poses /\ InitialTarget(commanded) \in Poses
  BY <1>1 DEF InitialTarget, KeyboardInv, KeyboardTypeOK
<1>3. aimed' \in Poses
  BY <1>2 DEF Shape
<1>4. CASE part = "tool"
  <2>1. commanded' = Toward(InitialTarget(commanded), aimed')
    BY <1>4 DEF Shape
  <2>2. commanded' \in Poses /\ commanded' - InitialTarget(commanded) \in -1 .. 1
    BY <1>2, <1>3, <2>1, PoseArithmetic
  <2>3. [pose |-> commanded', velocity |-> commanded' - InitialTarget(commanded)] \in TaskCommands
    BY <2>2 DEF TaskCommands
  <2>4. Publish([pose |-> commanded', velocity |-> commanded' - InitialTarget(commanded)], mode)
    BY <1>4 DEF Shape
  <2>5. QED
    BY <1>1, <1>3, <2>2, <2>3, <2>4, PublishType DEF Shape, StartListener
<1>5. CASE part # "tool"
  <2>1. commanded' = aimed' /\ Publish([pose |-> commanded', velocity |-> 0], mode)
    BY <1>5 DEF Shape
  <2>2. [pose |-> commanded', velocity |-> 0] \in TaskCommands
    BY <1>3, <2>1 DEF TaskCommands
  <2>3. QED
    BY <1>1, <1>3, <2>1, <2>2, PublishType DEF Shape, StartListener
<1>6. QED
  BY <1>4, <1>5

LEMMA KeyboardListenerKeeps ==
  ASSUME ControllerInv, KeyboardInv, KeyboardListener
  PROVE  KeyboardInv' /\ pushed' \in BOOLEAN
<1> USE DEF KeyboardInv
<1>1. ASSUME NEW key \in Keys, KeyPressed(key) PROVE KeyboardInv' /\ pushed' \in BOOLEAN
  BY <1>1 DEF KeyPressed, KeyboardTypeOK, ListenerCounted, QuitPending, policyVars, ControllerInv,
     ControllerTypeOK
<1>2. CASE MoveTarget
  <2>1. pressed \in {-1, 1}
    BY <1>2, KeysAssumption DEF MoveTarget, KeyboardTypeOK
  <2>2. aimed' \in Poses \cup {None}
    <3>1. CASE aimed = None
      BY <1>2, <3>1 DEF MoveTarget
    <3>2. CASE aimed # None
      BY <1>2, <2>1, <3>2, PoseArithmetic, BoundsAssumption DEF MoveTarget, KeyboardTypeOK, Poses
    <3>3. QED
      BY <3>1, <3>2
  <2>3. pushed' \in BOOLEAN
    <3>1. pushed \in BOOLEAN
      BY DEF ControllerInv, ControllerTypeOK
    <3>2. QED
      BY <1>2, <3>1, Zenon DEF MoveTarget
  <2>4. pressed' = None /\ UNCHANGED <<commanded, running, listener, threads, keyboardAt, quit>>
    BY <1>2 DEF MoveTarget
  <2>5. QED
    BY <2>2, <2>3, <2>4 DEF KeyboardTypeOK, ListenerCounted, QuitPending
<1>3. CASE QuitPressed
  <2>1. /\ threads = 1 /\ listener = "running" /\ threads' = 0 /\ listener' = "stopped"
        /\ running' = FALSE /\ quit' = 1 /\ pushed' = pushed
    BY <1>3 DEF QuitPressed, ListenerCounted
  <2>2. UNCHANGED <<aimed, commanded, pressed, keyboardAt>>
    BY <1>3 DEF QuitPressed
  <2>3. KeyboardTypeOK'
    <3>1. threads' \in 0 .. 2 /\ quit' \in Nat
      BY <2>1
    <3>2. running' \in BOOLEAN /\ listener' \in {None, "running", "stopped"}
      BY <2>1, Zenon
    <3>3. QED
      BY <2>2, <3>1, <3>2 DEF KeyboardTypeOK
  <2>4. ListenerCounted' /\ QuitPending'
    BY <2>1 DEF ListenerCounted, QuitPending
  <2>5. QED
    BY <2>1, <2>3, <2>4 DEF ControllerInv, ControllerTypeOK
<1>4. QED
  BY <1>1, <1>2, <1>3 DEF KeyboardListener

LEMMA KeyboardNodeKeeps ==
  ASSUME ControllerInv, KeyboardInv, KeyboardNode
  PROVE  /\ KeyboardInv' /\ command' \in TaskCommands \cup {None}
         /\ seen' \in Poses /\ seenMode' \in Modes \cup {None} /\ pushed' = pushed
<1> USE DEF KeyboardInv
<1>0. /\ seen \in Poses /\ robot \in Poses /\ mode \in Modes /\ seenMode \in Modes \cup {None}
      /\ command \in TaskCommands \cup {None}
  BY DEF ControllerInv, ControllerTypeOK
<1>1. CASE KeyboardLoops
  <2>1. /\ UNCHANGED <<aimed, commanded, running, pressed, quit, command, observationVars, pushed>>
        /\ \/ running /\ keyboardAt' = "step" /\ UNCHANGED <<listener, threads>>
           \/ /\ ~running /\ keyboardAt' = "closed"
              /\ listener' = None /\ threads' = IF listener = "running" THEN threads - 1 ELSE threads
    BY <1>1 DEF KeyboardNode, KeyboardLoops, StopListener
  <2>2. QED
    BY <1>0, <2>1, ListenersAssumption DEF KeyboardTypeOK, ListenerCounted, QuitPending, observationVars
<1>2. CASE KeyboardStep
  <2>0. /\ keyboardAt = "step" /\ keyboardAt' = "loop" /\ pressed' = pressed /\ pushed' = pushed
        /\ seen' \in Poses /\ seenMode' \in Modes \cup {None}
    BY <1>0, <1>2 DEF KeyboardNode, KeyboardStep, BuildObservation
  <2>1. CASE InOwnMode
    <3>1. Shape /\ quit' = IF quit = 0 THEN 0 ELSE quit + 1
      BY <1>2, <2>1 DEF KeyboardStep
    <3>2. quit \in {0, 1} /\ (quit = 1 => ~running)
      BY <2>0 DEF QuitPending, KeyboardTypeOK
    <3>3. QED
      BY <2>0, <3>1, <3>2, KeyboardShapes DEF KeyboardTypeOK, ListenerCounted, QuitPending
  <2>2. CASE ~InOwnMode
    <3>1. KeyboardReset /\ quit' = 0 /\ command' = command
      BY <1>2, <2>2 DEF KeyboardStep
    <3>2. QED
      BY <1>0, <2>0, <3>1, ListenersAssumption
         DEF KeyboardReset, StopListener, KeyboardTypeOK, ListenerCounted, QuitPending
  <2>3. QED
    BY <2>1, <2>2
<1>3. QED
  BY <1>1, <1>2 DEF KeyboardNode

LEMMA KeyboardStepKeeps == ASSUME IInv, KeyboardStepOnly PROVE IInv'
<1>1. /\ UNCHANGED <<setupVars, arbiterVars, events, controlVars, jointSince, resting>>
      /\ UNCHANGED <<oculusVars, trackingVars>>
  BY DEF KeyboardStepOnly, KeyboardNext
<1>2. ControllerInv /\ KeyboardInv
  BY DEF IInv
<1>3. /\ KeyboardInv' /\ command' \in TaskCommands \cup {None} /\ pushed' \in BOOLEAN
      /\ seen' \in Poses /\ seenMode' \in Modes \cup {None}
  <2>1. CASE KeyboardListener /\ UNCHANGED <<command, observationVars>>
    BY <1>2, <2>1, KeyboardListenerKeeps DEF ControllerInv, ControllerTypeOK, observationVars
  <2>2. CASE KeyboardNode
    BY <1>2, <2>2, KeyboardNodeKeeps DEF ControllerInv, ControllerTypeOK
  <2>3. QED
    BY <2>1, <2>2 DEF KeyboardStepOnly, KeyboardNext
<1>4. ControllerInv'
  <2>1. /\ mode' \in Modes /\ returnMode' \in RETURNABLE_MODES \cup {None} /\ jointSince' \in BOOLEAN
        /\ resting' \in Poses \cup {None}
    BY <1>1, <1>2 DEF ControllerInv, ControllerTypeOK, arbiterVars
  <2>2. QED
    BY <1>1, <1>2, <1>3, <2>1, SourceKeepsController
<1>5. QED
  BY <1>1, <1>3, <1>4, OculusUnchanged, TrackingUnchanged DEF IInv, arbiterVars


-----------------------------------------------------------------------------
(* Oculus teleoperation.                                                   *)

LEMMA SnapshotType == \A s \in Snapshots : s.hand \in Hands /\ s.input \in -1 .. 1
  BY DEF Snapshots, Hands, Inputs

\* What an engagement starts from: what it has, or what it finds.
LEMMA EngagedType ==
  ASSUME ControllerInv, OculusInv, NEW s \in Snapshots
  PROVE  /\ Engaged(referenceHand, s.hand) \in Hands
         /\ Engaged(reference, seen) \in Poses
         /\ Engaged(commandedPose, seen) \in Poses
         /\ part = "tool" => Engaged(filteredHand, s.hand) \in Hands
  BY SnapshotType DEF Engaged, OculusInv, References, ControllerInv, ControllerTypeOK

\* The history notes what the hand found when it engaged, and whether it rests since.
LEMMA ClutchedType ==
  ASSUME ControllerInv, OculusInv, NEW s \in Snapshots, Clutched(s)
  PROVE  /\ clutch' \in Clutches /\ clutch' # None
         /\ clutch'.hand = IF clutch = None THEN s.hand ELSE clutch.hand
         /\ clutch'.robot = IF clutch = None THEN seen ELSE clutch.robot
         /\ clutch'.still => s.hand = clutch'.hand /\ s.input = 0 /\ (clutch # None => clutch.still)
<1>1. seen \in Poses /\ clutch \in Clutches \cup {None} /\ s.hand \in Hands
  BY SnapshotType DEF ControllerInv, ControllerTypeOK, OculusInv, OculusTypeOK
<1>2. CASE clutch = None
  <2>1. clutch' = [hand |-> s.hand, robot |-> seen, still |-> TRUE /\ s.hand = s.hand /\ s.input = 0]
    BY <1>2 DEF Clutched
  <2>2. clutch' \in Clutches
    BY <1>1, <2>1 DEF Clutches
  <2>3. QED
    BY <1>2, <2>1, <2>2, NoClutchAssumption
<1>3. CASE clutch # None
  <2>1. clutch' = [hand |-> clutch.hand, robot |-> clutch.robot,
                   still |-> clutch.still /\ s.hand = clutch.hand /\ s.input = 0]
    BY <1>3 DEF Clutched
  <2>2. clutch' \in Clutches
    BY <1>1, <1>3, <2>1 DEF Clutches
  <2>3. QED
    BY <1>3, <2>1, <2>2, NoClutchAssumption
<1>4. QED
  BY <1>2, <1>3

\* An engaged step: the references are poses, and while the operator moves nothing the
\* command is the pose that the engagement found.
LEMMA MoveKeeps ==
  ASSUME ControllerInv, OculusInv, NEW s \in Snapshots, Move(s), Clutched(s), part' = part
  PROVE  /\ referenceHand' \in Hands /\ filteredHand' \in Hands \cup {None}
         /\ reference' \in Poses /\ commandedPose' \in Poses
         /\ References' /\ StillReferences'
         /\ command' \in TaskCommands \cup {None} /\ previousX' = buttonX
<1> DEFINE hand == Engaged(referenceHand, s.hand)
           pose == Engaged(reference, seen)
           from == Engaged(commandedPose, seen)
           filtered == Engaged(filteredHand, s.hand)
<1>1. /\ hand \in Hands /\ pose \in Poses /\ from \in Poses
      /\ s.hand \in Hands /\ s.input \in -1 .. 1
      /\ part = "tool" => filtered \in Hands
  BY EngagedType, SnapshotType
<1>2. referenceHand' = hand /\ previousX' = buttonX
  BY DEF Move
<1>3. command \in TaskCommands \cup {None} /\ Hands \subseteq Int /\ Poses \subseteq Int
  BY BoundsAssumption DEF ControllerInv, ControllerTypeOK, Hands, Poses
<1>4. /\ hand \in Int /\ pose \in Int /\ from \in Int /\ s.hand \in Int /\ s.input \in Int
      /\ part = "tool" => filtered \in Int
  <2>1. \A x \in Hands : x \in Int
    BY <1>3
  <2>2. \A x \in Poses : x \in Int
    BY <1>3
  <2>3. QED
    BY <1>1, <2>1, <2>2
\* While still, the engagement starts where it began.
<1>5. clutch'.still =>
        /\ s.input = 0 /\ s.hand = clutch'.hand /\ hand = clutch'.hand /\ pose = clutch'.robot
        /\ from = clutch'.robot /\ (part = "tool" => filtered = clutch'.hand)
  BY ClutchedType DEF OculusInv, References, StillReferences, Engaged
<1>6. clutch' # None /\ referenceHand' # None
  BY <1>1, <1>2, ClutchedType, NoClutchAssumption
<1>7. CASE part = "tool"
  <2>1. /\ filteredHand' \in {s.hand, filtered} /\ reference' = pose
        /\ commandedPose' = Toward(from, Clip(reference' + filteredHand' - referenceHand'))
    BY <1>7 DEF Move, MoveTool
  <2>2. reference' + filteredHand' - referenceHand' \in Int
    <3>1. filteredHand' \in Int /\ reference' \in Int /\ referenceHand' \in Int
      BY <1>2, <1>7, <1>4, <2>1
    <3>2. QED
      BY <3>1
  <2>3. commandedPose' \in Poses /\ commandedPose' - from \in -1 .. 1
    BY <1>1, <2>1, <2>2, PoseArithmetic
  <2>4. clutch'.still => /\ referenceHand' = clutch'.hand /\ reference' = clutch'.robot
                         /\ filteredHand' = clutch'.hand /\ commandedPose' = clutch'.robot
    <3>1. SUFFICES ASSUME clutch'.still
                   PROVE  /\ referenceHand' = clutch'.hand /\ reference' = clutch'.robot
                          /\ filteredHand' = clutch'.hand /\ commandedPose' = clutch'.robot
      OBVIOUS
    <3>2. /\ referenceHand' = clutch'.hand /\ reference' = clutch'.robot
          /\ filteredHand' = clutch'.hand /\ from = clutch'.robot
      BY <1>2, <1>5, <1>7, <2>1, <3>1
    <3>3. reference' + filteredHand' - referenceHand' = from
      <4>1. reference' = pose /\ pose = from /\ filteredHand' = hand /\ referenceHand' = hand
        BY <1>2, <1>5, <1>7, <2>1, <3>1
      <4>2. QED
        BY <1>4, <4>1
    <3>4. QED
      BY <1>1, <2>1, <3>2, <3>3, PoseArithmetic
  <2>5. command' \in TaskCommands \cup {None}
    <3>1. [pose |-> commandedPose', velocity |-> commandedPose' - from] \in TaskCommands
      BY <2>3 DEF TaskCommands
    <3>2. Publish([pose |-> commandedPose', velocity |-> commandedPose' - from], mode')
      BY <1>7 DEF Move
    <3>3. QED
      BY <1>3, <3>1, <3>2, PublishType
  <2>6. filteredHand' \in Hands
    BY <1>1, <1>7, <2>1
  <2>7. QED
    BY <1>1, <1>2, <1>6, <2>1, <2>3, <2>4, <2>5, <2>6 DEF References, StillReferences
<1>8. CASE part # "tool"
  <2>1. /\ filteredHand' = filteredHand
        /\ \/ reference' = Clip(pose + s.input) /\ commandedPose' = reference'
           \/ reference' = pose /\ commandedPose' = Clip(from + s.input)
    BY <1>8 DEF Move, MoveBase, MoveGripper
  <2>2. reference' \in Poses /\ commandedPose' \in Poses
    <3>1. pose + s.input \in Int /\ from + s.input \in Int
      BY <1>4
    <3>2. QED
      BY <1>1, <2>1, <3>1, PoseArithmetic
  <2>3. clutch'.still => /\ referenceHand' = clutch'.hand /\ reference' = clutch'.robot
                         /\ commandedPose' = clutch'.robot
    <3>1. clutch'.still => pose + s.input = pose /\ from + s.input = from
      <4>1. clutch'.still => s.input = 0
        BY <1>5
      <4>2. QED
        BY <1>4, <4>1
    <3>2. QED
      BY <1>1, <1>2, <1>5, <2>1, <3>1, PoseArithmetic
  <2>4. command' \in TaskCommands \cup {None}
    <3>1. [pose |-> commandedPose', velocity |-> 0] \in TaskCommands
      BY <2>2 DEF TaskCommands
    <3>2. Publish([pose |-> commandedPose', velocity |-> 0], mode')
      BY <1>8 DEF Move
    <3>3. QED
      BY <1>3, <3>1, <3>2, PublishType
  <2>5. QED
    BY <1>1, <1>2, <1>6, <1>8, <2>1, <2>2, <2>3, <2>4
       DEF References, StillReferences, OculusInv, OculusTypeOK
<1>9. QED
  BY <1>7, <1>8


\* Disengaging forgets the references, and says so to the clutch.
LEMMA ForgettingKeeps ==
  ASSUME NEW buttons, ForgetReferences(buttons), clutch' = None
  PROVE  /\ referenceHand' = None /\ filteredHand' = None /\ reference' = None /\ commandedPose' = None
         /\ previousX' = buttons
         /\ References' /\ StillReferences'
  BY DEF ForgetReferences, References, StillReferences

\* A homing request answers the press that is pending.
LEMMA RequestsKeep ==
  ASSUME OculusInv, UNCHANGED <<buttonX, presses>>,
         \/ RequestHomingOnX /\ previousX' = buttonX
         \/ UNCHANGED requests /\ previousX' = previousX
  PROVE  PressesPending' /\ requests' \in Nat
<1>1. /\ requests \in Nat /\ presses \in Nat /\ requests + Pending <= presses
      /\ buttonX \in BOOLEAN /\ previousX \in BOOLEAN
  BY PressesAssumption DEF OculusInv, OculusTypeOK, PressesPending
<1>2. CASE UNCHANGED requests /\ previousX' = previousX
  BY <1>1, <1>2 DEF PressesPending, Pending
<1>3. CASE RequestHomingOnX /\ previousX' = buttonX /\ buttonX /\ ~previousX
  <2>1. requests' = requests + 1 /\ Pending = 1 /\ Pending' = 0
    BY <1>3 DEF RequestHomingOnX, Pending
  <2>2. QED
    BY <1>1, <2>1 DEF PressesPending
<1>4. CASE RequestHomingOnX /\ previousX' = buttonX /\ ~(buttonX /\ ~previousX)
  <2>1. requests' = requests /\ Pending = 0 /\ Pending' = 0
    BY <1>4 DEF RequestHomingOnX, Pending
  <2>2. QED
    BY <1>1, <2>1 DEF PressesPending
<1>5. QED
  BY <1>2, <1>3, <1>4

LEMMA OperatorXKeeps == ASSUME OculusInv, OperatorX, UNCHANGED setupVars PROVE OculusInv'
<1>1. /\ UNCHANGED <<referenceVars, previousX, requests, clutch>>
      /\ (~buttonX /\ presses < MaxPresses /\ buttonX' = TRUE /\ presses' = presses + 1)
         \/ (buttonX /\ buttonX' = FALSE /\ presses' = presses)
  BY DEF OperatorX, PressX, ReleaseX
<1>2. requests \in Nat /\ presses \in 0 .. MaxPresses /\ requests + Pending <= presses
  BY DEF OculusInv, OculusTypeOK, PressesPending
<1>3. presses' \in 0 .. MaxPresses /\ buttonX' \in BOOLEAN
  <2>1. presses' \in 0 .. MaxPresses
    BY <1>1, <1>2, PressesAssumption
  <2>2. buttonX' \in BOOLEAN
    BY <1>1, Zenon
  <2>3. QED
    BY <2>1, <2>2
<1>4. PressesPending'
  <2>1. CASE ~buttonX /\ presses' = presses + 1
    <3>1. Pending = 0 /\ (Pending' = 0 \/ Pending' = 1)
      BY <2>1 DEF Pending
    <3>2. /\ requests' = requests /\ requests \in Nat /\ presses \in Nat /\ presses' = presses + 1
          /\ requests + Pending <= presses
      BY <1>1, <1>2, <2>1, PressesAssumption
    <3>3. QED
      BY <3>1, <3>2 DEF PressesPending
  <2>2. CASE buttonX' = FALSE /\ presses' = presses
    <3>1. (Pending = 0 \/ Pending = 1) /\ Pending' = 0
      BY <2>2 DEF Pending
    <3>2. requests' = requests /\ presses \in Nat
      BY <1>1, <1>2, PressesAssumption
    <3>3. QED
      BY <1>2, <2>2, <3>1, <3>2 DEF PressesPending
  <2>3. QED
    BY <1>1, <2>1, <2>2
<1>5. OculusTypeOK'
  BY <1>1, <1>3 DEF OculusInv, OculusTypeOK, referenceVars
<1>6. References' /\ StillReferences'
  BY <1>1 DEF OculusInv, References, StillReferences, referenceVars, setupVars
<1>7. QED
  BY <1>4, <1>5, <1>6 DEF OculusInv

LEMMA OculusStepKeeps ==
  ASSUME ControllerInv, OculusInv, OculusStep, UNCHANGED setupVars
  PROVE  /\ OculusInv' /\ command' \in TaskCommands \cup {None}
         /\ mode' \in Modes /\ returnMode' \in RETURNABLE_MODES \cup {None}
         /\ (mode' = "SYSTEM" => mode = "SYSTEM")
         /\ seen' \in Poses /\ seenMode' \in Modes \cup {None}
         /\ resting' \in Poses \cup {None} /\ pushed' \in BOOLEAN
<1>1. /\ seen \in Poses /\ robot \in Poses /\ mode \in Modes /\ seenMode \in Modes \cup {None}
      /\ command \in TaskCommands \cup {None} /\ returnMode \in RETURNABLE_MODES \cup {None}
  BY DEF ControllerInv, ControllerTypeOK
<1>2. At(seen) \in TaskCommands
  BY <1>1 DEF At, TaskCommands
<1>3. /\ buttonX' = buttonX /\ presses' = presses /\ BuildObservation /\ part' = part
      /\ Handed(resting # None /\ clutch' # None /\ ~clutch'.still)
  BY DEF OculusStep, setupVars
<1>4. \/ UNCHANGED <<arbiterVars, requests>>
      \/ RequestHomingOnX
  BY DEF OculusStep
<1>5. /\ mode' \in Modes /\ returnMode' \in RETURNABLE_MODES \cup {None}
      /\ (mode' = "SYSTEM" => mode = "SYSTEM")
  <2>1. CASE UNCHANGED arbiterVars
    BY <1>1, <2>1 DEF arbiterVars
  <2>2. CASE RequestHoming
    BY <1>1, <2>2, ArbiterType DEF RequestHoming
  <2>3. QED
    BY <1>4, <2>1, <2>2 DEF RequestHomingOnX
<1>6. seen' \in Poses /\ seenMode' \in Modes \cup {None}
  BY <1>1, <1>3, <1>5 DEF BuildObservation
<1>7. resting' \in Poses \cup {None} /\ pushed' \in BOOLEAN
  <2>1. resting' \in Poses \cup {None}
    BY <1>3 DEF Handed, ControllerInv, ControllerTypeOK
  <2>2. pushed' \in BOOLEAN
    BY <1>3, Zenon DEF Handed
  <2>3. QED
    BY <2>1, <2>2
\* The three ways of a step: let go, or keep hold and move, and forget in another mode.
<1>8. \/ /\ ForgetReferences(previousX) /\ clutch' = None /\ UNCHANGED <<requests>>
         /\ Publish(At(seen), mode') \/ UNCHANGED command
      \/ /\ ForgetReferences(buttonX) /\ clutch' = None /\ RequestHomingOnX
         /\ Publish(At(seen), mode')
      \/ RequestHomingOnX /\ \E s \in Snapshots : Move(s) /\ Clutched(s)
  BY DEF OculusStep, Stale, HoldCurrentPose
<1>9. /\ previousX \in BOOLEAN /\ buttonX \in BOOLEAN /\ buttonX' \in BOOLEAN /\ presses' \in 0 .. MaxPresses
  BY <1>3 DEF OculusInv, OculusTypeOK
<1>10. CASE /\ clutch' = None
            /\ Publish(At(seen), mode') \/ UNCHANGED command
            /\ \/ ForgetReferences(previousX) /\ UNCHANGED <<requests>>
               \/ ForgetReferences(buttonX) /\ RequestHomingOnX
  <2>1. command' \in TaskCommands \cup {None}
    BY <1>1, <1>2, <1>10, PublishType
  <2>2. /\ referenceHand' = None /\ filteredHand' = None /\ reference' = None /\ commandedPose' = None
        /\ previousX' \in {previousX, buttonX} /\ References' /\ StillReferences'
    <3>1. CASE ForgetReferences(previousX)
      BY <1>10, <3>1, ForgettingKeeps, Zenon
    <3>2. CASE ForgetReferences(buttonX)
      BY <1>10, <3>2, ForgettingKeeps, Zenon
    <3>3. QED
      BY <1>10, <3>1, <3>2
  <2>3. PressesPending' /\ requests' \in Nat
    <3>1. \/ previousX' = previousX /\ UNCHANGED requests
          \/ previousX' = buttonX /\ RequestHomingOnX
      BY <1>10 DEF ForgetReferences
    <3>2. QED
      BY <1>3, <3>1, RequestsKeep
  <2>4. OculusTypeOK'
    <3>1. previousX' \in BOOLEAN
      BY <1>9, <2>2, Zenon
    <3>2. clutch' = None
      BY <1>10
    <3>3. QED
      BY <1>9, <2>2, <2>3, <3>1, <3>2 DEF OculusTypeOK
  <2>5. QED
    BY <1>5, <1>6, <1>7, <2>1, <2>2, <2>3, <2>4 DEF OculusInv
<1>11. ASSUME NEW s \in Snapshots, Move(s), Clutched(s), RequestHomingOnX
       PROVE  OculusInv' /\ command' \in TaskCommands \cup {None}
  <2>1. /\ referenceHand' \in Hands /\ filteredHand' \in Hands \cup {None}
        /\ reference' \in Poses /\ commandedPose' \in Poses /\ References' /\ StillReferences'
        /\ command' \in TaskCommands \cup {None} /\ previousX' = buttonX
    BY <1>3, <1>11, MoveKeeps
  <2>2. PressesPending' /\ requests' \in Nat
    BY <1>3, <1>11, <2>1, RequestsKeep
  <2>3. clutch' \in Clutches
    BY <1>11, ClutchedType
  <2>4. OculusTypeOK'
    BY <1>9, <2>1, <2>2, <2>3 DEF OculusTypeOK
  <2>5. QED
    BY <2>1, <2>2, <2>4 DEF OculusInv
<1>12. QED
  BY <1>5, <1>6, <1>7, <1>8, <1>10, <1>11

LEMMA OculusKeeps == ASSUME IInv, OculusStepOnly PROVE IInv'
<1>1. /\ UNCHANGED <<setupVars, events, controlVars, jointSince>>
      /\ UNCHANGED <<keyboardVars, trackingVars>>
      /\ OperatorX \/ OculusStep
  BY DEF OculusStepOnly, OculusNext
<1>2. ControllerInv /\ OculusInv
  BY DEF IInv
<1>3. /\ OculusInv' /\ command' \in TaskCommands \cup {None}
      /\ mode' \in Modes /\ returnMode' \in RETURNABLE_MODES \cup {None}
      /\ (mode' = "SYSTEM" => mode = "SYSTEM")
      /\ seen' \in Poses /\ seenMode' \in Modes \cup {None}
      /\ resting' \in Poses \cup {None} /\ pushed' \in BOOLEAN
  <2>1. CASE OperatorX
    <3>1. OculusInv'
      BY <1>1, <1>2, <2>1, OperatorXKeeps
    <3>2. UNCHANGED <<arbiterVars, command, observationVars, startVars>>
      BY <2>1 DEF OperatorX
    <3>3. QED
      BY <1>2, <3>1, <3>2 DEF ControllerInv, ControllerTypeOK, arbiterVars, observationVars, startVars
  <2>2. CASE OculusStep
    BY <1>1, <1>2, <2>2, OculusStepKeeps
  <2>3. QED
    BY <1>1, <2>1, <2>2
<1>4. ControllerInv'
  <2>1. jointSince' \in BOOLEAN
    BY <1>1, <1>2 DEF ControllerInv, ControllerTypeOK
  <2>2. QED
    BY <1>1, <1>2, <1>3, <2>1, SourceKeepsController
<1>5. QED
  BY <1>1, <1>3, <1>4, KeyboardUnchanged, TrackingUnchanged DEF IInv


-----------------------------------------------------------------------------
(* The controller-tracking diagnostic.                                     *)

LEMMA IntervalCardinality == \A k \in Nat : Cardinality(1 .. k) = k
  BY FS_Interval

\* The steps between two waits: nothing but where the diagnostic is, and its anchor.
LEMMA WaitsKeep ==
  ASSUME TrackingInv, UNCHANGED <<arbiterVars, setupVars, samples, unheard, astray, outcome, recorderVars, askedVars>>,
         FindIdle \/ FindState \/ RecheckIdle \/ TakeAnchor \/ PublishSeed \/ AwaitSystem \/ AwaitCommand,
         robot \in Poses
  PROVE  TrackingInv'
<1>1. CASE TakeAnchor
  <2>1. trackingAt = "fresh" /\ trackingAt' = "seed" /\ anchor' = robot /\ motionRequested' = TRUE
    BY <1>1 DEF TakeAnchor, Goes, MotionRequested
  <2>2. TrackingTypeOK'
    BY <2>1 DEF TrackingInv, TrackingTypeOK, recorderVars, askedVars
  <2>3. SystemIsRequested' /\ AstrayUnheard'
    BY <2>1 DEF TrackingInv, SystemIsRequested, AstrayUnheard, arbiterVars, setupVars, askedVars
  <2>4. WindowsInOrder'
    BY <2>1 DEF TrackingInv, WindowsInOrder, InTry, ClosedWindows, recorderVars
  <2>5. QED
    BY <2>2, <2>3, <2>4 DEF TrackingInv
<1>2. CASE FindIdle \/ FindState \/ RecheckIdle \/ PublishSeed \/ AwaitSystem \/ AwaitCommand
  <2>1. /\ UNCHANGED <<anchor, motionRequested>>
        /\ trackingAt \in {"mode", "state", "recheck", "seed", "await", "command"}
        /\ trackingAt' \in {"state", "recheck", "fresh", "request", "command", "begin"}
        /\ trackingAt \in {"mode", "state", "recheck"} => trackingAt' \in {"state", "recheck", "fresh"}
    BY <1>2 DEF FindIdle, FindState, RecheckIdle, PublishSeed, AwaitSystem, AwaitCommand, Goes, runVars
  <2>2. TrackingTypeOK'
    BY <2>1 DEF TrackingInv, TrackingTypeOK, recorderVars, askedVars
  <2>3. SystemIsRequested' /\ AstrayUnheard'
    BY <2>1 DEF TrackingInv, SystemIsRequested, AstrayUnheard, arbiterVars, setupVars, askedVars
  <2>4. WindowsInOrder'
    BY <2>1 DEF TrackingInv, WindowsInOrder, InTry, ClosedWindows, recorderVars
  <2>5. QED
    BY <2>2, <2>3, <2>4 DEF TrackingInv
<1>3. QED
  BY <1>1, <1>2

\* A request waits in place of whatever waited, or is lost, which is put down of one for IDLE.
LEMMA AskTypes ==
  ASSUME TrackingInv, NEW m \in {"SYSTEM", "IDLE"}, Ask(m)
  PROVE  /\ asked' \in {"SYSTEM", "IDLE", None} /\ dropped' \in BOOLEAN
         /\ \/ asked' = m /\ dropped' = dropped
            \/ asked' = asked /\ dropped' = (dropped \/ m = "IDLE")
  BY DEF Ask, TrackingInv, TrackingTypeOK

LEMMA RequestSystemKeeps ==
  ASSUME TrackingInv, RequestSystem, UNCHANGED setupVars, client = "tracking"
  PROVE  TrackingInv'
<1>1. /\ trackingAt = "request" /\ trackingAt' = "await"
      /\ UNCHANGED <<arbiterVars, runVars, outcome, recorderVars>> /\ Ask("SYSTEM")
  BY DEF RequestSystem, Goes
<1>2. asked' \in {"SYSTEM", "IDLE", None} /\ dropped' \in BOOLEAN
  BY <1>1, AskTypes
<1>3. TrackingTypeOK' /\ AstrayUnheard' /\ WindowsInOrder'
  BY <1>1, <1>2 DEF TrackingInv, TrackingTypeOK, AstrayUnheard, WindowsInOrder, InTry, ClosedWindows, runVars,
     recorderVars
<1>4. SystemIsRequested'
  <2>1. motionRequested' /\ anchor' \in Poses /\ client' = "tracking"
    BY <1>1 DEF TrackingInv, SystemIsRequested, runVars, setupVars
  <2>2. QED
    BY <1>1, <2>1 DEF SystemIsRequested
<1>5. QED
  BY <1>3, <1>4 DEF TrackingInv

\* Handled or overwritten, the request is gone; what it asked for is the mode, or never is.
LEMMA AskedKeeps ==
  ASSUME TrackingInv, AskedIsHandled \/ AskedIsOverwritten, UNCHANGED setupVars, client = "tracking"
  PROVE  TrackingInv'
<1>1. /\ asked \in {"SYSTEM", "IDLE"} /\ asked' = None /\ None \notin {"SYSTEM", "IDLE"}
      /\ UNCHANGED <<trackingAt, runVars, outcome, recorderVars>>
      /\ \/ mode' = asked /\ dropped' = dropped
         \/ mode' = mode /\ dropped' = (dropped \/ asked = "IDLE")
  BY NoModeAssumption
     DEF AskedIsHandled, AskedIsOverwritten, RequestMode, TrackingInv, TrackingTypeOK, Modes, arbiterVars
<1>2. dropped' \in BOOLEAN
  BY <1>1 DEF TrackingInv, TrackingTypeOK
<1>3. TrackingTypeOK' /\ AstrayUnheard' /\ WindowsInOrder'
  BY <1>1, <1>2 DEF TrackingInv, TrackingTypeOK, AstrayUnheard, WindowsInOrder, InTry, ClosedWindows, runVars,
     recorderVars
<1>4. SystemIsRequested'
  <2>1. /\ client' = "tracking" /\ trackingAt' = trackingAt /\ motionRequested' = motionRequested
        /\ anchor' = anchor
    BY <1>1 DEF runVars, setupVars
  <2>2. CASE mode' = asked /\ dropped' = dropped
    BY <1>1, <2>1, <2>2 DEF TrackingInv, SystemIsRequested
  <2>3. CASE mode' = mode /\ dropped' = (dropped \/ asked = "IDLE")
    <3>1. dropped \/ asked = "IDLE" => dropped'
      BY <2>3
    <3>2. QED
      BY <1>1, <2>1, <2>3, <3>1 DEF TrackingInv, SystemIsRequested
  <2>4. QED
    BY <1>1, <2>2, <2>3
<1>5. QED
  BY <1>3, <1>4 DEF TrackingInv

LEMMA BeginWindowKeeps == ASSUME TrackingInv, BeginWindow, UNCHANGED <<setupVars, askedVars>> PROVE TrackingInv'
<1>1. /\ trackingAt = "begin" /\ trackingAt' = "run" /\ window' = Cardinality(windows) + 1
      /\ UNCHANGED <<arbiterVars, runVars, outcome, windows, received, attributed>>
  BY DEF BeginWindow, Goes
<1>2. PICK k \in 0 .. MaxWindow - 1 : windows = 1 .. k /\ window = None
  BY <1>1 DEF TrackingInv, WindowsInOrder, InTry
<1>3. window' = k + 1 /\ k + 1 \in Windows
  BY <1>1, <1>2, IntervalCardinality, TrackingAssumption DEF Windows
<1>4. WindowsInOrder'
  <2>1. received \subseteq windows /\ windows \subseteq ClosedWindows'
    BY <1>1, <1>2 DEF TrackingInv, WindowsInOrder, ClosedWindows
  <2>2. QED
    BY <1>1, <1>2, <1>3, <2>1 DEF WindowsInOrder, InTry
<1>5. TrackingTypeOK' /\ SystemIsRequested' /\ AstrayUnheard'
  BY <1>1, <1>3 DEF TrackingInv, TrackingTypeOK, SystemIsRequested, AstrayUnheard, arbiterVars, runVars, setupVars, askedVars
<1>6. QED
  BY <1>4, <1>5 DEF TrackingInv

\* A sample publishes a task on the trajectory, and counts how long the mode was not heard.
LEMMA SampleKeeps ==
  ASSUME TrackingInv, Sample, UNCHANGED <<setupVars, askedVars>>, command \in TaskCommands \cup {None}
  PROVE  TrackingInv' /\ command' \in TaskCommands \cup {None}
<1>1. /\ trackingAt = "run" /\ samples' = TRUE
      /\ UNCHANGED <<trackingAt, arbiterVars, anchor, motionRequested, outcome, recorderVars>>
      /\ \/ mode = "SYSTEM" /\ astray' = 0 /\ unheard' = 0
         \/ mode = "SYSTEM" /\ astray' = 0 /\ unheard < Patience /\ unheard' = unheard + 1
         \/ mode # "SYSTEM" /\ astray' = astray + 1 /\ unheard < Patience /\ unheard' = unheard + 1
  BY DEF Sample, Refresh
<1>2. anchor \in Poses
  BY <1>1 DEF TrackingInv, SystemIsRequested
<1>3. command' \in TaskCommands \cup {None}
  <2>1. PICK task \in Trajectory : Publish(task, mode)
    BY DEF Sample
  <2>2. Clip(anchor + 1) \in Poses
    BY <1>2, PoseArithmetic, BoundsAssumption DEF Poses
  <2>3. task \in TaskCommands
    BY <1>2, <2>2 DEF Trajectory, At, TaskCommands
  <2>4. QED
    BY <2>1, <2>3, PublishType
<1>4. unheard' \in 0 .. Patience /\ astray' \in Nat /\ astray' <= unheard'
  BY <1>1, TrackingAssumption DEF TrackingInv, TrackingTypeOK, AstrayUnheard
<1>5. TrackingTypeOK'
  BY <1>1, <1>4 DEF TrackingInv, TrackingTypeOK, recorderVars, askedVars
<1>6. SystemIsRequested' /\ AstrayUnheard' /\ WindowsInOrder'
  BY <1>1, <1>4 DEF TrackingInv, SystemIsRequested, AstrayUnheard, WindowsInOrder, InTry, ClosedWindows,
     recorderVars, arbiterVars, setupVars, askedVars
<1>7. QED
  BY <1>3, <1>5, <1>6 DEF TrackingInv

LEMMA EndWindowKeeps == ASSUME TrackingInv, EndWindow, UNCHANGED <<setupVars, askedVars>> PROVE TrackingInv'
<1>1. /\ trackingAt = "run" /\ windows' = windows \cup {window} /\ window' = None
      /\ UNCHANGED <<arbiterVars, runVars, received, attributed>>
      /\ \/ window = MaxWindow /\ trackingAt' = "finally" /\ outcome' = "completed"
         \/ window # MaxWindow /\ trackingAt' = "begin" /\ outcome' = outcome
  BY DEF EndWindow
<1>2. PICK k \in 0 .. MaxWindow - 1 : windows = 1 .. k /\ window = k + 1
  BY <1>1 DEF TrackingInv, WindowsInOrder, InTry
<1>3. windows' = 1 .. (k + 1) /\ windows' \subseteq Windows
  BY <1>1, <1>2, TrackingAssumption DEF Windows
<1>4. window # MaxWindow => k + 1 \in 0 .. MaxWindow - 1
  BY <1>2, TrackingAssumption
<1>5. received \subseteq windows'
  BY <1>1 DEF TrackingInv, WindowsInOrder, ClosedWindows
<1>6. WindowsInOrder'
  <2>1. received' \subseteq ClosedWindows' /\ trackingAt' # "done"
    BY <1>1, <1>5 DEF ClosedWindows
  <2>2. InTry' => windows' = 1 .. (k + 1) /\ window' = None /\ trackingAt' # "run" /\ k + 1 \in 0 .. MaxWindow - 1
    BY <1>1, <1>3, <1>4 DEF InTry
  <2>3. QED
    BY <2>1, <2>2 DEF WindowsInOrder
<1>7. TrackingTypeOK' /\ SystemIsRequested' /\ AstrayUnheard'
  BY <1>1, <1>3 DEF TrackingInv, TrackingTypeOK, SystemIsRequested, AstrayUnheard, arbiterVars, runVars, setupVars, askedVars
<1>8. QED
  BY <1>6, <1>7 DEF TrackingInv

\* However the run ends, it passes through finally.
LEMMA EndsKeep ==
  ASSUME TrackingInv, Interrupted \/ Fails, UNCHANGED <<setupVars, askedVars>> PROVE TrackingInv'
<1>1. /\ InTry /\ trackingAt' = "finally" /\ outcome' \in {"interrupted", "failed"}
      /\ UNCHANGED <<arbiterVars, runVars, recorderVars>>
  BY DEF Interrupted, Fails
<1>2. QED
  BY <1>1 DEF TrackingInv, TrackingTypeOK, SystemIsRequested, AstrayUnheard, WindowsInOrder, InTry,
     ClosedWindows, runVars, recorderVars, arbiterVars, setupVars, askedVars

\* Where it asks for IDLE if it has noted that it moves the robot.
LEMMA FinallyKeeps ==
  ASSUME TrackingInv, Finally, UNCHANGED setupVars, client = "tracking" PROVE TrackingInv'
<1>1. /\ trackingAt = "finally" /\ trackingAt' = "done" /\ windows' = ClosedWindows /\ window' = None
      /\ attributed' = received \cap ClosedWindows /\ anchor' = None /\ motionRequested' = FALSE
      /\ samples' = FALSE /\ unheard' = 0 /\ astray' = 0 /\ UNCHANGED <<arbiterVars, outcome, received>>
  BY DEF Finally, Goes
<1>2. /\ asked' \in {"SYSTEM", "IDLE", None} /\ dropped' \in BOOLEAN
      /\ mode' = "SYSTEM" \/ asked' = "SYSTEM" => asked' = "IDLE" \/ dropped'
  <2>1. CASE motionRequested
    BY <2>1, AskTypes DEF Finally
  <2>2. CASE ~motionRequested
    BY <1>1, <2>2 DEF Finally, TrackingInv, TrackingTypeOK, SystemIsRequested, arbiterVars, askedVars
  <2>3. QED
    BY <2>1, <2>2
<1>3. ClosedWindows \subseteq Windows
  BY DEF TrackingInv, TrackingTypeOK, ClosedWindows
<1>4. WindowsInOrder'
  BY <1>1 DEF TrackingInv, WindowsInOrder, InTry
<1>5. TrackingTypeOK'
  <2>1. unheard' \in 0 .. Patience /\ astray' \in Nat
    BY <1>1, TrackingAssumption
  <2>2. QED
    BY <1>1, <1>2, <1>3, <2>1 DEF TrackingInv, TrackingTypeOK
<1>6. SystemIsRequested' /\ AstrayUnheard'
  BY <1>1, <1>2 DEF SystemIsRequested, AstrayUnheard, setupVars
<1>7. QED
  BY <1>4, <1>5, <1>6 DEF TrackingInv

LEMMA RecordKeeps == ASSUME TrackingInv, RecordCommand, UNCHANGED <<setupVars, askedVars>> PROVE TrackingInv'
<1>1. /\ trackingAt # "done" /\ window # None /\ received' = received \cup {window}
      /\ UNCHANGED <<arbiterVars, trackingAt, runVars, outcome, window, windows, attributed>>
  BY DEF RecordCommand
<1>2. received' \subseteq ClosedWindows' /\ received' \subseteq Windows
  BY <1>1 DEF TrackingInv, TrackingTypeOK, WindowsInOrder, ClosedWindows
<1>3. QED
  BY <1>1, <1>2 DEF TrackingInv, TrackingTypeOK, SystemIsRequested, AstrayUnheard, WindowsInOrder, InTry,
     runVars, arbiterVars, setupVars, askedVars

LEMMA TrackingKeeps == ASSUME IInv, TrackingStepOnly PROVE IInv'
<1>1. /\ client = "tracking" /\ Handed(trackingAt = "run")
      /\ UNCHANGED <<setupVars, events, controlVars, observationVars>>
      /\ UNCHANGED <<keyboardVars, oculusVars>>
      /\ \/ (QuietStep \/ RecordCommand) /\ UNCHANGED askedVars
         \/ RequestSystem \/ Finally \/ AskedIsHandled \/ AskedIsOverwritten
  BY DEF TrackingStepOnly, TrackingNext
<1>2. /\ ControllerInv /\ TrackingInv
      /\ robot \in Poses /\ command \in TaskCommands \cup {None} /\ jointSince \in BOOLEAN
      /\ mode \in Modes /\ returnMode \in RETURNABLE_MODES \cup {None}
      /\ seen \in Poses /\ seenMode \in Modes \cup {None}
  BY DEF IInv, ControllerInv, ControllerTypeOK
<1>3. /\ TrackingInv' /\ command' \in TaskCommands \cup {None} /\ jointSince' \in BOOLEAN
      /\ mode' \in Modes /\ returnMode' \in RETURNABLE_MODES \cup {None}
  <2>1. CASE /\ FindIdle \/ FindState \/ RecheckIdle \/ TakeAnchor \/ AwaitSystem \/ AwaitCommand
             /\ UNCHANGED askedVars
    <3>1. UNCHANGED <<arbiterVars, command, jointSince, samples, unheard, astray, outcome, recorderVars>>
      BY <2>1 DEF FindIdle, FindState, RecheckIdle, TakeAnchor, AwaitSystem, AwaitCommand, runVars
    <3>2. QED
      BY <1>1, <1>2, <2>1, <3>1, WaitsKeep DEF arbiterVars
  <2>2. CASE PublishSeed /\ UNCHANGED askedVars
    <3>1. UNCHANGED <<arbiterVars, jointSince, samples, unheard, astray, outcome, recorderVars>>
      BY <2>2 DEF PublishSeed, runVars
    <3>2. At(anchor) \in TaskCommands /\ Publish(At(anchor), mode)
      BY <1>2, <2>2 DEF PublishSeed, Goes, TrackingInv, SystemIsRequested, At, TaskCommands
    <3>3. QED
      BY <1>1, <1>2, <2>2, <3>1, <3>2, WaitsKeep, PublishType DEF arbiterVars
  <2>3. CASE RequestSystem
    <3>1. UNCHANGED arbiterVars /\ jointSince' = FALSE /\ command' = command
      BY <2>3 DEF RequestSystem
    <3>2. QED
      BY <1>1, <1>2, <2>3, <3>1, RequestSystemKeeps DEF arbiterVars
  <2>4. CASE (BeginWindow \/ EndWindow \/ RecordCommand) /\ UNCHANGED askedVars
    <3>1. UNCHANGED <<arbiterVars, command, jointSince>>
      BY <2>4 DEF BeginWindow, EndWindow, RecordCommand
    <3>2. QED
      BY <1>1, <1>2, <2>4, <3>1, BeginWindowKeeps, EndWindowKeeps, RecordKeeps DEF arbiterVars
  <2>5. CASE Sample /\ UNCHANGED askedVars
    <3>1. UNCHANGED <<arbiterVars, jointSince>>
      BY <2>5 DEF Sample
    <3>2. QED
      BY <1>1, <1>2, <2>5, <3>1, SampleKeeps DEF arbiterVars
  <2>6. CASE (Interrupted \/ Fails) /\ UNCHANGED askedVars
    <3>1. UNCHANGED <<arbiterVars, command, jointSince>>
      BY <2>6 DEF Interrupted, Fails
    <3>2. QED
      BY <1>1, <1>2, <2>6, <3>1, EndsKeep DEF arbiterVars
  <2>7. CASE Finally
    <3>1. UNCHANGED <<arbiterVars, command, jointSince>>
      BY <2>7 DEF Finally
    <3>2. QED
      BY <1>1, <1>2, <2>7, <3>1, FinallyKeeps DEF arbiterVars
  <2>8. CASE AskedIsHandled \/ AskedIsOverwritten
    <3>1. UNCHANGED <<command, jointSince>> /\ (RequestMode(asked) \/ UNCHANGED arbiterVars)
      BY <2>8 DEF AskedIsHandled, AskedIsOverwritten
    <3>2. asked # None => asked \in Modes
      BY <1>2 DEF TrackingInv, TrackingTypeOK, Modes
    <3>3. QED
      BY <1>1, <1>2, <2>8, <3>1, <3>2, AskedKeeps DEF arbiterVars, RequestMode, AskedIsHandled, AskedIsOverwritten
  <2>9. QED
    BY <1>1, <2>1, <2>2, <2>3, <2>4, <2>5, <2>6, <2>7, <2>8 DEF QuietStep
<1>4. resting' \in Poses \cup {None} /\ pushed' \in BOOLEAN
  <2>1. resting' \in Poses \cup {None}
    BY <1>1, <1>2 DEF Handed, ControllerInv, ControllerTypeOK
  <2>2. pushed' \in BOOLEAN
    BY <1>1, Zenon DEF Handed
  <2>3. QED
    BY <2>1, <2>2
<1>5. ControllerInv'
  BY <1>1, <1>2, <1>3, <1>4, SourceKeepsController DEF observationVars
<1>6. QED
  BY <1>1, <1>3, <1>5, KeyboardUnchanged, OculusUnchanged DEF IInv


-----------------------------------------------------------------------------
(* The theorems.                                                           *)

LEMMA NextIInv == IInv /\ [SessionNext]_sessionVars => IInv'
<1> SUFFICES ASSUME IInv, [SessionNext]_sessionVars PROVE IInv'
  OBVIOUS
<1>1. CASE SessionNext
  BY <1>1, SharedStepKeeps, KeyboardStepKeeps, OculusKeeps, TrackingKeeps DEF SessionNext
<1>2. CASE UNCHANGED sessionVars
  <2>1. /\ UNCHANGED <<setupVars, events, controlVars, arbiterVars, command, jointSince, observationVars, startVars>>
        /\ UNCHANGED <<keyboardVars, oculusVars, trackingVars>>
    BY <1>2 DEF sessionVars, sharedVars
  <2>2. ControllerInv'
    BY <2>1 DEF IInv, ControllerInv, ControllerTypeOK, WithinDrift, setupVars, controlVars, controllerVars,
       driftVars, arbiterVars, observationVars, startVars
  <2>3. QED
    BY <2>1, <2>2, KeyboardUnchanged, OculusUnchanged, TrackingUnchanged DEF IInv, arbiterVars
<1>3. QED
  BY <1>1, <1>2

LEMMA Invariant == SessionSpec => []IInv
  BY InitIInv, NextIInv, PTL DEF SessionSpec

\* The controller's and every source's state have the types that the code gives them.
THEOREM TypeCorrect == SessionSpec => []SessionTypeOK
<1>1. IInv => SessionTypeOK
  BY DEF IInv, ControllerInv, KeyboardInv, OculusInv, TrackingInv, SessionTypeOK
<1>2. QED
  BY <1>1, Invariant, PTL

\* However the diagnostic ends, the last thing it asks the orchestrator for is IDLE, so that the
\* robot stays in SYSTEM only if that one message is still on its way or was lost or overwritten,
\* and what it has measured is of a robot that followed it, complete
\* (run_controller_tracking, _refresh_runtime_state and the recorder's close).
THEOREM DiagnosticSound == SessionSpec => []DiagnosticIsSound
<1>1. IInv => IdleIsAskedLast
  BY DEF IInv, TrackingInv, SystemIsRequested, IdleIsAskedLast
<1>2. IInv => SamplesAreLive
  BY TrackingAssumption DEF IInv, TrackingInv, TrackingTypeOK, AstrayUnheard, SamplesAreLive
<1>3. IInv => WindowsAreKept
  BY DEF IInv, TrackingInv, WindowsInOrder, WindowsAreKept
<1>4. QED
  BY <1>1, <1>2, <1>3, Invariant, PTL DEF DiagnosticIsSound

\* There is one key listener at most, none once the node has closed, and a quit key ends
\* the node at its next step, however listener and loop interleave (_on_press,
\* _start_listener, _stop_listener, reset).
THEOREM KeysCount == SessionSpec => []KeysCountOnce
<1>1. IInv => OneListener /\ QuitIsHeard
  BY DEF IInv, KeyboardInv, KeyboardTypeOK, ListenerCounted, QuitPending, OneListener, QuitIsHeard
<1>2. QED
  BY <1>1, Invariant, PTL DEF KeysCountOnce

\* An engagement starts from the robot's pose, whatever was under way before, and a press
\* of X asks for homing once (reset, step, _is_rising_edge).
THEOREM NoResumption == SessionSpec => []NothingResumes
<1>1. IInv => ReanchorsOnEngage
  BY DEF IInv, OculusInv, StillReferences, ReanchorsOnEngage
<1>2. IInv => RequestsAnswerPresses
  <2>1. SUFFICES ASSUME IInv PROVE requests <= presses
    BY DEF RequestsAnswerPresses
  <2>2. requests \in Nat /\ presses \in Nat /\ requests + Pending <= presses
    BY <2>1, PressesAssumption DEF IInv, OculusInv, OculusTypeOK, PressesPending
  <2>3. Pending = 0 \/ Pending = 1
    BY DEF Pending
  <2>4. QED
    BY <2>2, <2>3
<1>3. QED
  BY <1>1, <1>2, Invariant, PTL DEF NothingResumes

\* A forwarded command takes tool and base one step of their limits at most from where
\* the robot is, beyond the moves that the controller was not told of
\* (_update_controller_states, compute_control and the orchestrator's forwarding).
THEOREM CommandsDoNotLeap == SessionSpec => NoLeap
<1> DEFINE Bounded == mode # "HOMING" /\ part # "gripper" => Distance(robot, robot') <= 1 + drift
<1>1. IInv /\ [SessionNext]_sessionVars => [Bounded]_robot
  <2> SUFFICES ASSUME IInv, [SessionNext]_sessionVars, robot' # robot, mode # "HOMING", part # "gripper"
               PROVE  Distance(robot, robot') <= 1 + drift
    OBVIOUS
  <2>1. ControllerInv /\ robot \in Poses /\ drift \in Nat
    BY BoundsAssumption DEF IInv, ControllerInv, ControllerTypeOK
  <2>2. ControllerStep
    BY DEF SessionNext, SharedStep, SharedNext, KeyboardStepOnly, KeyboardNext, OculusStepOnly, OculusNext,
       TrackingStepOnly, TrackingNext, OperatorRequests, HomingCompletes, HomingMoves, controlVars, sessionVars,
       sharedVars
  <2>3. PICK m \in {heard, mode}, fresh \in BOOLEAN : StepActive(m, fresh)
    BY <2>2 DEF ControllerStep, StepInactive, StepFails
  <2>4. Received # None
    BY <2>3 DEF StepActive
  <2>5. Located(fresh) \in Poses /\ Distance(robot, Located(fresh)) <= drift
    BY <2>1, <2>3, <2>4, LocatedWithinDrift DEF StepActive
  <2>6. PICK q \in Control(Located(fresh), Received) : PublishJointCommand(q, Located(fresh))
    BY <2>3, <2>4 DEF StepActive
  <2>7. robot' = q
    BY <2>6 DEF PublishJointCommand
  <2>8. Received \in TaskCommands
    BY <2>1, <2>4 DEF Received, ControllerInv, ControllerTypeOK
  <2>9. q \in Poses /\ Distance(Located(fresh), q) <= 1
    BY <2>5, <2>8, ControlIsBounded
  <2>10. Distance(robot, q) <= Distance(robot, Located(fresh)) + Distance(Located(fresh), q)
    BY <2>1, <2>5, <2>9, DistanceTriangle
  <2>11. /\ Distance(robot, q) \in Nat /\ Distance(robot, Located(fresh)) \in Nat
         /\ Distance(Located(fresh), q) \in Nat
    BY <2>1, <2>5, <2>9, PoseArithmetic
  <2>12. QED
    BY <2>1, <2>5, <2>7, <2>9, <2>10, <2>11
<1>2. QED
  BY <1>1, Invariant, PTL DEF SessionSpec, NoLeap

-----------------------------------------------------------------------------
(* Why nothing moves before the operator commands it: what controller and   *)
(* source hold when the client's mode begins, and while it is untouched.    *)

Own == ClientMode[client]
Near(pose) == Distance(pose, resting) <= MaxDrift
Untouched == resting # None /\ ~pushed
HeardInactive == heard \notin OSC_ACTIVE_MODES \cup {None}

\* The history starts with the client's mode and ends with it.
RestsInOwnMode == resting # None <=> mode = Own

\* Beside its own mode a teleoperation client meets idleness and homing only.
OwnModesOnly == client # "tracking" => mode \in {"IDLE", "HOMING", Own} /\ returnMode \in {Own, None}

\* A controller that follows the robot is as far from it as the moves it has not heard of.
SyncedController ==
    synced =>
        /\ configuration # None
        /\ target = At(configuration)
        /\ Distance(robot, configuration) <= drift

\* All that the controller could act on is near where the client's mode found the robot.
StartsNear ==
    Untouched =>
        /\ Near(robot)
        /\ heard # None =>
             /\ command # None => (Near(command.pose) /\ command.velocity = 0)
             /\ configuration # None => Near(configuration)
             /\ target # None => (Near(target.pose) /\ target.velocity = 0)

\* So is what a teleoperation policy that has heard of the mode would command.
KeyboardRests ==
    (Untouched /\ client = "keyboard" /\ InOwnMode) =>
        Near(seen) /\ commanded = aimed /\ (aimed # None => Near(aimed))
OculusRests ==
    (Untouched /\ client = "oculus" /\ InOwnMode) =>
        Near(seen) /\ (clutch # None => (clutch.still /\ Near(clutch.robot)))

\* Until the controller hears of the mode the robot does not move at all, so a homing
\* request of the policy itself leaves no command that is far from the robot.
LateController ==
    (client = "oculus" /\ resting # None /\ HeardInactive) =>
        /\ robot = resting
        /\ InOwnMode => (seen = resting /\ ((clutch # None /\ clutch.still) => clutch.robot = resting))
ButtonsStill ==
    /\ part # "buttons" => ~buttonX
    /\ (part = "buttons" /\ clutch # None) => (clutch.still /\ clutch.hand = 0)

\* Outside the client's mode an inactive controller has drained its queue, but for the
\* commands of a policy that asked for homing itself, which are where the robot is.
QueueDrained ==
    (client # "tracking" /\ HeardInactive /\ (mode # Own \/ (client = "oculus" /\ part = "buttons"))) =>
        \/ command = None
        \/ /\ client = "oculus" /\ part = "buttons"
           /\ command.velocity = 0 /\ Distance(robot, command.pose) <= drift

\* Before the orchestrator has handled the diagnostic's request for SYSTEM there is nothing to
\* follow but the robot.
BeforeRequest == {"mode", "state", "recheck", "fresh", "seed", "request"}
BeforeSystem == trackingAt \in BeforeRequest \/ asked = "SYSTEM"

TrackingRests ==
    (client = "tracking" /\ BeforeSystem) =>
        /\ trackingAt \in BeforeRequest => asked = None
        /\ mode # "SYSTEM" /\ command = None
        /\ configuration # None => Distance(robot, configuration) <= drift
        /\ target # None => (configuration # None /\ target = At(configuration))

RestInv ==
    /\ RestsInOwnMode /\ OwnModesOnly
    /\ SyncedController /\ StartsNear
    /\ KeyboardRests
    /\ OculusRests /\ LateController /\ ButtonsStill
    /\ QueueDrained
    /\ TrackingRests

LEMMA OwnMode ==
  ASSUME ControllerTypeOK
  PROVE  /\ Own = IF client = "keyboard" THEN "KEYBOARD" ELSE IF client = "oculus" THEN "OCULUS" ELSE "SYSTEM"
         /\ Own \in OSC_ACTIVE_MODES /\ Own \notin {"IDLE", "HOMING", None}
  BY SetupType, NoModeAssumption DEF Own, ClientMode, Clients, OSC_ACTIVE_MODES, Modes

\* A change of mode either goes on as before, or begins the client's mode where the robot is.
LEMMA HandedRests ==
  ASSUME ControllerTypeOK, RestsInOwnMode, UNCHANGED setupVars, NEW moved, Handed(moved)
  PROVE  /\ RestsInOwnMode'
         /\ Untouched' => \/ mode' = mode /\ resting' = resting /\ Untouched /\ ~moved
                          \/ mode' # mode /\ mode' = Own /\ resting' = robot
         /\ resting' # None => \/ mode' = mode /\ resting' = resting
                               \/ mode' # mode /\ mode' = Own /\ resting' = robot
<1>1. robot # None /\ client' = client /\ Own' = Own
  BY NoPoseAssumption DEF ControllerTypeOK, setupVars, Own
<1>2. CASE mode' = mode
  <2>1. resting' = resting /\ pushed' = (pushed \/ moved)
    BY <1>2 DEF Handed
  <2>2. QED
    BY <1>1, <1>2, <2>1 DEF RestsInOwnMode, Untouched
<1>3. CASE mode' # mode
  <2>1. resting' = IF mode' = Own THEN robot ELSE None
    BY <1>3 DEF Handed, Own
  <2>2. QED
    BY <1>1, <1>3, <2>1 DEF RestsInOwnMode, Untouched
<1>4. QED
  BY <1>2, <1>3

\* What lies between two poses near the resting one is near it, and what is within the
\* drift of the robot too.
LEMMA NearArithmetic ==
  /\ \A p, q, r \in Poses : (Distance(p, r) <= MaxDrift /\ Distance(q, r) <= MaxDrift)
                               => Distance(Toward(p, q), r) <= MaxDrift
  /\ \A p, q \in Poses : Distance(p, q) = Distance(q, p)
  /\ \A p \in Poses : Distance(p, p) = 0 /\ Distance(p, p) <= MaxDrift
  /\ \A p, q \in Poses, d \in 0 .. MaxDrift : Distance(p, q) <= d => Distance(q, p) <= MaxDrift
  BY BoundsAssumption DEF Distance, Toward, Poses

\* A controller whose target is at rest goes towards it, takes it or stays.
LEMMA ControlAtRest ==
  ASSUME NEW p \in Poses, NEW t \in TaskCommands, t.velocity = 0, NEW q \in Control(p, t)
  PROVE  q \in {Toward(p, t.pose), p, t.pose}
<1>1. PICK aim \in {t.pose, t.pose + t.velocity} : q \in BoundedControl(p, Clip(aim))
  BY DEF Control
<1>2. t.pose \in Poses /\ t.pose + 0 = t.pose
  BY BoundsAssumption DEF TaskCommands, Poses
<1>3. aim = t.pose /\ Clip(aim) = t.pose
  BY <1>1, <1>2, PoseArithmetic
<1>4. QED
  BY <1>1, <1>3 DEF BoundedControl

-----------------------------------------------------------------------------

LEMMA InitRestInv == SessionInit => RestInv
<1> SUFFICES ASSUME SessionInit PROVE RestInv
  OBVIOUS
<1>0. ControllerInit /\ KeyboardInit /\ OculusInit /\ TrackingInit /\ ControllerTypeOK
  BY InitIInv DEF SessionInit, IInv, ControllerInv
<1>1. /\ robot = 1 /\ robot \in Poses /\ robot # None /\ seen = robot /\ seenMode = None /\ heard = "IDLE"
      /\ mode \in {"IDLE", Own} \ {"SYSTEM"} /\ returnMode = None
      /\ resting = IF mode = Own THEN robot ELSE None
      /\ configuration = None /\ target = None /\ command = None /\ drift = 0 /\ synced = FALSE
  BY <1>0, NoPoseAssumption DEF ControllerInit, ControllerTypeOK, ArbiterInit, Own
<1>2. RestsInOwnMode /\ OwnModesOnly /\ SyncedController
  BY <1>1 DEF RestsInOwnMode, OwnModesOnly, SyncedController
<1>3. Distance(robot, robot) <= MaxDrift
  BY <1>1, NearArithmetic
<1>4. StartsNear
  BY <1>1, <1>3 DEF StartsNear, Untouched, Near
<1>5. KeyboardRests /\ OculusRests /\ LateController /\ ButtonsStill
  BY <1>0, <1>1, <1>3
     DEF KeyboardRests, OculusRests, LateController, ButtonsStill, Untouched, Near, KeyboardInit, OculusInit
<1>6. QueueDrained /\ TrackingRests
  BY <1>0, <1>1 DEF QueueDrained, TrackingRests, BeforeSystem, TrackingInit
<1>7. QED
  BY <1>2, <1>4, <1>5, <1>6 DEF RestInv

-----------------------------------------------------------------------------
(* The orchestrator and homing.                                            *)

LEMMA ModeChangesRest ==
  ASSUME ControllerTypeOK, RestInv, OperatorRequests \/ HomingCompletes,
         UNCHANGED <<keyboardVars, oculusVars, trackingVars>>
  PROVE  RestInv'
<1>0. /\ UNCHANGED <<client, part, heard, configuration, target, robot, synced, drift, command, seen, seenMode>>
      /\ UNCHANGED <<aimed, commanded, clutch, buttonX, trackingAt, asked>>
      /\ UNCHANGED setupVars
      /\ Settled /\ Handed(FALSE)
  BY DEF OperatorRequests, HomingCompletes, setupVars, controlVars, controllerVars, driftVars, observationVars,
     keyboardVars, policyVars, oculusVars, buttonVars, trackingVars, askedVars
<1>1. /\ Own' = Own /\ Own \in OSC_ACTIVE_MODES /\ Own \notin {"IDLE", "HOMING", None}
      /\ Own = IF client = "keyboard" THEN "KEYBOARD" ELSE IF client = "oculus" THEN "OCULUS" ELSE "SYSTEM"
      /\ client \in Clients
  BY <1>0, OwnMode, SetupType DEF Own
<1>2. /\ client # "tracking" => mode' \in {"IDLE", "HOMING", Own} /\ returnMode' \in {Own, None}
      /\ client = "tracking" => mode' # "SYSTEM"
  <2>1. CASE OperatorRequests
    <3>1. OperatorModes \subseteq {"IDLE", IF client = "tracking" THEN "OCULUS" ELSE Own}
      BY DEF OperatorModes, Own
    <3>2. QED
      BY <1>1, <2>1, <3>1
         DEF OperatorRequests, RequestMode, RequestHoming, RestInv, OwnModesOnly, ControllerTypeOK, RETURNABLE_MODES
  <2>2. CASE HomingCompletes
    BY <1>1, <2>2 DEF HomingCompletes, CompleteHoming, RestInv, OwnModesOnly, ControllerTypeOK, RETURNABLE_MODES
  <2>3. QED
    BY <2>1, <2>2
<1>3. /\ RestsInOwnMode'
      /\ Untouched' => \/ mode' = mode /\ resting' = resting /\ Untouched
                       \/ mode' # mode /\ mode' = Own /\ resting' = robot
      /\ resting' # None => \/ mode' = mode /\ resting' = resting
                            \/ mode' # mode /\ mode' = Own /\ resting' = robot
  BY <1>0, HandedRests DEF RestInv
<1>4. OwnModesOnly' /\ SyncedController' /\ ButtonsStill'
  BY <1>0, <1>1, <1>2 DEF RestInv, OwnModesOnly, SyncedController, ButtonsStill
\* Who is about to enter its mode has settled in another one.
<1>5. mode' # mode /\ mode' = Own => /\ client # "tracking" /\ mode \in {"IDLE", "HOMING"} /\ ~InOwnMode
                                     /\ heard # None => (HeardInactive /\ synced)
  <2>1. SUFFICES ASSUME mode' # mode, mode' = Own
                 PROVE  /\ client # "tracking" /\ mode \in {"IDLE", "HOMING"} /\ ~InOwnMode
                        /\ heard # None => (HeardInactive /\ synced)
    OBVIOUS
  <2>2. client # "tracking" /\ mode \in {"IDLE", "HOMING"}
    BY <1>1, <1>2, <2>1 DEF RestInv, OwnModesOnly
  <2>3. ~InOwnMode
    BY <1>0, <1>1, <2>2, NoModeAssumption DEF Settled, InOwnMode, Own, Modes
  <2>4. heard # None => (HeardInactive /\ synced)
    BY <1>0, <2>2 DEF Settled, HeardInactive, OSC_ACTIVE_MODES
  <2>5. QED
    BY <2>2, <2>3, <2>4
<1>6. StartsNear'
  <2>1. SUFFICES ASSUME Untouched'
                 PROVE  /\ Near(robot)'
                        /\ heard # None =>
                             /\ command # None => (Near(command.pose)' /\ command.velocity = 0)
                             /\ configuration # None => Near(configuration)'
                             /\ target # None => (Near(target.pose)' /\ target.velocity = 0)
    BY <1>0 DEF StartsNear, Near
  <2>2. CASE resting' = resting /\ Untouched
    BY <1>0, <2>2 DEF RestInv, StartsNear, Near
  <2>3. CASE mode' # mode /\ mode' = Own /\ resting' = robot
    <3>1. /\ robot \in Poses /\ drift \in 0 .. MaxDrift
          /\ configuration \in Poses \cup {None} /\ command \in TaskCommands \cup {None}
      BY DEF ControllerTypeOK
    <3>2. Near(robot)'
      BY <1>0, <2>3, <3>1, NearArithmetic DEF Near
    <3>3. ASSUME heard # None
          PROVE  /\ configuration \in Poses /\ target = At(configuration) /\ Distance(robot, configuration) <= drift
                 /\ command # None => (Distance(robot, command.pose) <= drift /\ command.velocity = 0)
      <4>1. HeardInactive /\ synced /\ client # "tracking" /\ mode # Own
        BY <1>1, <1>5, <2>3, <3>3
      <4>2. QED
        BY <3>1, <4>1 DEF RestInv, SyncedController, QueueDrained
    <3>4. ASSUME heard # None, command # None
          PROVE  Near(command.pose)' /\ command.velocity = 0
      <4>1. command.pose \in Poses
        BY <3>1, <3>4 DEF TaskCommands
      <4>2. QED
        BY <1>0, <2>3, <3>1, <3>3, <3>4, <4>1, NearArithmetic DEF Near
    <3>5. ASSUME heard # None
          PROVE  Near(configuration)' /\ Near(target.pose)' /\ target.velocity = 0
      <4>1. Distance(configuration, robot) <= MaxDrift
        BY <3>1, <3>3, <3>5, NearArithmetic
      <4>2. QED
        BY <1>0, <2>3, <3>3, <3>5, <4>1 DEF Near, At
    <3>6. QED
      BY <3>2, <3>4, <3>5
  <2>4. QED
    BY <1>3, <2>1, <2>2, <2>3
<1>7. KeyboardRests' /\ OculusRests'
  <2>1. (Untouched' /\ InOwnMode') => /\ resting' = resting /\ Untouched /\ InOwnMode
    BY <1>0, <1>3, <1>5 DEF InOwnMode
  <2>2. QED
    BY <1>0, <2>1 DEF RestInv, KeyboardRests, OculusRests, Near
<1>8. LateController'
  <2>1. (resting' # None /\ InOwnMode') => resting' = resting /\ InOwnMode
    BY <1>0, <1>3, <1>5 DEF InOwnMode
  <2>2. HeardInactive' = HeardInactive
    BY <1>0 DEF HeardInactive
  <2>3. resting' # None => \/ resting' = resting
                           \/ resting' = robot
    BY <1>3
  <2>4. QED
    BY <1>0, <2>1, <2>2, <2>3 DEF RestInv, LateController
<1>9. QueueDrained'
  <2>1. (client # "tracking" /\ HeardInactive) => mode # Own
    BY <1>0, <1>1 DEF Settled, HeardInactive
  <2>2. HeardInactive' = HeardInactive
    BY <1>0 DEF HeardInactive
  <2>3. QED
    BY <1>0, <1>1, <2>1, <2>2 DEF RestInv, QueueDrained
<1>10. TrackingRests'
  BY <1>0, <1>2 DEF RestInv, TrackingRests, BeforeSystem
<1>11. QED
  BY <1>3, <1>4, <1>6, <1>7, <1>8, <1>9, <1>10 DEF RestInv

\* Homing takes the robot one unit away from what the controller knows, and counts it.
LEMMA DriftStep ==
  ASSUME NEW p \in Poses, NEW q \in Poses, NEW x \in Poses, q \in {p - 1, p + 1},
         NEW d \in 0 .. MaxDrift, Distance(p, x) <= d
  PROVE  Distance(q, x) <= d + 1
  BY BoundsAssumption DEF Distance, Poses

LEMMA HomingRests ==
  ASSUME ControllerTypeOK, RestInv, HomingMoves, UNCHANGED <<keyboardVars, oculusVars, trackingVars>>
  PROVE  RestInv'
<1>0. /\ UNCHANGED <<client, part, heard, configuration, target, synced, command, seen, seenMode>>
      /\ UNCHANGED <<aimed, commanded, clutch, buttonX, trackingAt, asked, mode, returnMode, resting, pushed>>
      /\ mode = "HOMING"
      /\ drift' = drift + 1 /\ robot' \in Poses /\ robot' \in {robot - 1, robot + 1}
  BY DEF HomingMoves, setupVars, controllerVars, startVars, observationVars, arbiterVars,
     keyboardVars, policyVars, oculusVars, buttonVars, trackingVars, askedVars
<1>1. /\ robot \in Poses /\ drift \in 0 .. MaxDrift
      /\ configuration \in Poses \cup {None} /\ command \in TaskCommands \cup {None}
  BY DEF ControllerTypeOK
<1>2. Own' = Own /\ resting = None /\ HeardInactive' = HeardInactive /\ InOwnMode' = InOwnMode
  BY <1>0, OwnMode DEF Own, RestInv, RestsInOwnMode, HeardInactive, InOwnMode
<1>3. RestsInOwnMode' /\ OwnModesOnly' /\ ButtonsStill'
  BY <1>0, <1>2 DEF RestInv, RestsInOwnMode, OwnModesOnly, ButtonsStill
<1>4. StartsNear' /\ KeyboardRests' /\ OculusRests' /\ LateController'
  BY <1>0, <1>2 DEF StartsNear, KeyboardRests, OculusRests, LateController, Untouched
<1>5. (configuration \in Poses /\ Distance(robot, configuration) <= drift) => Distance(robot', configuration) <= drift'
  BY <1>0, <1>1, DriftStep
<1>6. SyncedController' /\ TrackingRests'
  BY <1>0, <1>1, <1>5 DEF RestInv, SyncedController, TrackingRests, BeforeSystem
<1>7. QueueDrained'
  <2>1. (command # None /\ Distance(robot, command.pose) <= drift) => Distance(robot', command.pose) <= drift'
    <3>1. command # None => command.pose \in Poses
      BY <1>1 DEF TaskCommands
    <3>2. QED
      BY <1>0, <1>1, <3>1, DriftStep
  <2>2. QED
    BY <1>0, <1>2, <2>1 DEF RestInv, QueueDrained
<1>8. QED
  BY <1>3, <1>4, <1>6, <1>7 DEF RestInv

-----------------------------------------------------------------------------
(* The controller.                                                         *)

\* What a step of the controller leaves alone.
LEMMA ControllerFrame ==
  ASSUME ControllerStep, UNCHANGED <<keyboardVars, oculusVars, trackingVars>>
  PROVE  /\ UNCHANGED <<client, part, mode, returnMode, seen, seenMode, resting, pushed>>
         /\ UNCHANGED <<aimed, commanded, clutch, buttonX, trackingAt, asked>>
         /\ Own' = Own /\ InOwnMode' = InOwnMode /\ Untouched' = Untouched
  BY DEF ControllerStep, setupVars, arbiterVars, observationVars, startVars, Own, InOwnMode, Untouched,
     keyboardVars, policyVars, oculusVars, buttonVars, trackingVars, askedVars

\* The parts of the invariant that say nothing of the controller.
LEMMA ControllerStepRests ==
  ASSUME ControllerTypeOK, RestInv, ControllerStep, UNCHANGED <<keyboardVars, oculusVars, trackingVars>>
  PROVE  /\ RestsInOwnMode' /\ OwnModesOnly' /\ KeyboardRests' /\ OculusRests' /\ ButtonsStill'
<1>1. RestsInOwnMode' /\ OwnModesOnly' /\ ButtonsStill'
  BY ControllerFrame DEF RestInv, RestsInOwnMode, OwnModesOnly, ButtonsStill
<1>2. KeyboardRests' /\ OculusRests'
  BY ControllerFrame DEF RestInv, KeyboardRests, OculusRests, Near
<1>3. QED
  BY <1>1, <1>2

LEMMA InactiveStepRests ==
  ASSUME ControllerTypeOK, RestInv, ControllerStep, UNCHANGED <<keyboardVars, oculusVars, trackingVars>>,
         NEW m \in {heard, mode}, NEW fresh \in BOOLEAN, heard # None, StepInactive(m, fresh)
  PROVE  SyncedController' /\ StartsNear' /\ LateController' /\ QueueDrained' /\ TrackingRests'
<1>1. /\ m \notin OSC_ACTIVE_MODES /\ heard' = m /\ command' = None /\ robot' = robot
      /\ \/ configuration' = robot /\ target' = At(robot) /\ synced' = TRUE /\ drift' = 0
         \/ UNCHANGED <<configuration, target, synced, drift>>
  BY DEF StepInactive, DrainQueue, ResetFromState, driftVars
<1>2. robot \in Poses /\ robot # None /\ Distance(robot, robot) = 0 /\ drift \in 0 .. MaxDrift
  BY NoPoseAssumption, NearArithmetic DEF ControllerTypeOK
<1>3. SyncedController'
  <2>1. CASE configuration' = robot /\ target' = At(robot) /\ drift' = 0
    BY <1>1, <1>2, <2>1 DEF SyncedController
  <2>2. CASE UNCHANGED <<configuration, target, synced, drift>>
    BY <1>1, <2>2 DEF RestInv, SyncedController
  <2>3. QED
    BY <1>1, <2>1, <2>2
<1>4. StartsNear'
  <2>1. SUFFICES ASSUME Untouched
                 PROVE  /\ Near(robot)
                        /\ configuration' # None => Near(configuration')
                        /\ target' # None => (Near(target'.pose) /\ target'.velocity = 0)
    BY <1>1, ControllerFrame DEF StartsNear, Near
  <2>2. Near(robot) /\ Near(At(robot).pose) /\ At(robot).velocity = 0
    BY <2>1 DEF RestInv, StartsNear, At
  <2>3. QED
    BY <1>1, <2>1, <2>2 DEF RestInv, StartsNear
<1>5. LateController'
  <2>1. SUFFICES ASSUME client = "oculus", resting # None
                 PROVE  /\ robot = resting
                        /\ InOwnMode => (seen = resting /\ ((clutch # None /\ clutch.still) => clutch.robot = resting))
    BY <1>1, ControllerFrame DEF LateController
  <2>2. mode \in OSC_ACTIVE_MODES
    BY <2>1, OwnMode DEF RestInv, RestsInOwnMode
  <2>3. HeardInactive
    BY <1>1, <2>2 DEF HeardInactive
  <2>4. QED
    BY <2>1, <2>3 DEF RestInv, LateController
<1>6. QueueDrained'
  BY <1>1 DEF QueueDrained
<1>7. TrackingRests'
  <2>1. CASE configuration' = robot /\ target' = At(robot) /\ drift' = 0
    BY <1>1, <1>2, <2>1, ControllerFrame DEF RestInv, TrackingRests, BeforeSystem
  <2>2. CASE UNCHANGED <<configuration, target, synced, drift>>
    BY <1>1, <2>2, ControllerFrame DEF RestInv, TrackingRests, BeforeSystem
  <2>3. QED
    BY <1>1, <2>1, <2>2
<1>8. QED
  BY <1>3, <1>4, <1>5, <1>6, <1>7

\* A controller that fails is heard of no more, and leaves all as it was.
LEMMA FailingStepRests ==
  ASSUME ControllerTypeOK, RestInv, ControllerStep, UNCHANGED <<keyboardVars, oculusVars, trackingVars>>,
         NEW m, NEW fresh \in BOOLEAN, StepFails(m, fresh)
  PROVE  SyncedController' /\ StartsNear' /\ LateController' /\ QueueDrained' /\ TrackingRests'
<1>1. heard' = None /\ UNCHANGED <<configuration, target, command, robot, synced, drift>>
  BY DEF StepFails, driftVars
<1>2. SyncedController' /\ TrackingRests'
  BY <1>1, ControllerFrame DEF RestInv, SyncedController, TrackingRests, BeforeSystem
<1>3. StartsNear'
  BY <1>1, ControllerFrame DEF RestInv, StartsNear, Near
<1>4. LateController' /\ QueueDrained'
  BY <1>1 DEF LateController, QueueDrained, HeardInactive
<1>5. QED
  BY <1>2, <1>3, <1>4

\* What it starts from, and what it makes of a target at rest, is near.
LEMMA LocatedNear ==
  ASSUME ControllerTypeOK, RestInv, Untouched, heard # None, NEW fresh \in BOOLEAN
  PROVE  /\ Received # None => (Near(Received.pose) /\ Received.velocity = 0)
         /\ Located(fresh) # None => Near(Located(fresh))
  BY DEF RestInv, StartsNear, Received, Located

LEMMA ActiveStepRests ==
  ASSUME ControllerTypeOK, RestInv, ControllerStep, UNCHANGED <<keyboardVars, oculusVars, trackingVars>>,
         NEW m \in {heard, mode}, NEW fresh \in BOOLEAN, heard # None, StepActive(m, fresh)
  PROVE  SyncedController' /\ StartsNear' /\ LateController' /\ QueueDrained' /\ TrackingRests'
<1>1. m \in OSC_ACTIVE_MODES /\ heard' = m /\ command' = None /\ target' = Received /\ synced' = FALSE
  BY DEF StepActive
<1>2. SyncedController' /\ LateController' /\ QueueDrained'
  BY <1>1 DEF SyncedController, LateController, QueueDrained, HeardInactive
<1>3. /\ robot \in Poses /\ drift \in 0 .. MaxDrift /\ resting \in Poses \cup {None}
      /\ Received \in TaskCommands \cup {None} /\ Located(fresh) \in Poses \cup {None}
  BY DEF ControllerTypeOK, Received, Located
<1>4. CASE Received = None
  <2>1. configuration' = Located(fresh) /\ UNCHANGED <<robot, drift>>
    BY <1>4 DEF StepActive
  <2>2. StartsNear'
    <3>1. SUFFICES ASSUME Untouched
                   PROVE  Near(robot) /\ (configuration' # None => Near(configuration'))
      BY <1>1, <1>4, <2>1, ControllerFrame DEF StartsNear, Near
    <3>2. QED
      BY <2>1, <3>1, LocatedNear DEF RestInv, StartsNear
  <2>3. TrackingRests'
    <3>1. SUFFICES ASSUME client = "tracking", BeforeSystem
                   PROVE  mode # "SYSTEM" /\ (configuration' # None => Distance(robot, configuration') <= drift)
      BY <1>1, <1>4, <2>1, ControllerFrame DEF RestInv, TrackingRests, BeforeSystem
    <3>2. configuration' \in {robot, configuration}
      BY <2>1 DEF Located
    <3>3. QED
      BY <1>3, <3>1, <3>2, NearArithmetic DEF RestInv, TrackingRests, BeforeSystem
  <2>4. QED
    BY <1>2, <2>2, <2>3
<1>5. CASE Received # None
  <2>1. PICK q \in Control(Located(fresh), Received) :
           configuration' = q /\ PublishJointCommand(q, Located(fresh))
    BY <1>5 DEF StepActive
  <2>2. Located(fresh) \in Poses /\ Received \in TaskCommands
    BY <1>3, <1>5 DEF StepActive
  <2>3. q \in Poses
    BY <2>2, ControlIsBounded
  <2>4. StartsNear'
    <3>1. SUFFICES ASSUME Untouched
                   PROVE  /\ Near(robot')
                          /\ Near(configuration') /\ Near(target'.pose) /\ target'.velocity = 0
      BY <1>1, ControllerFrame DEF StartsNear, Near
    <3>2. Near(Received.pose) /\ Received.velocity = 0 /\ Near(Located(fresh))
      BY <1>5, <2>2, <3>1, LocatedNear, NoPoseAssumption
    <3>3. Received.pose \in Poses /\ resting \in Poses
      BY <1>3, <2>2, <3>1 DEF TaskCommands, Untouched
    <3>4. Near(q)
      BY <2>2, <3>2, <3>3, ControlAtRest, NearArithmetic DEF Near
    <3>5. mode \in OSC_ACTIVE_MODES
      BY <3>1, OwnMode DEF RestInv, RestsInOwnMode, Untouched
    <3>6. robot' = q
      BY <2>1, <3>5 DEF PublishJointCommand
    <3>7. QED
      BY <1>1, <2>1, <3>2, <3>4, <3>6
  <2>5. TrackingRests'
    <3>1. SUFFICES ASSUME client = "tracking", BeforeSystem
                   PROVE  /\ mode # "SYSTEM"
                          /\ Distance(robot', configuration') <= drift'
                          /\ target' = At(configuration')
      BY <1>1, <2>1, <2>3, NoPoseAssumption, ControllerFrame DEF RestInv, TrackingRests, BeforeSystem
    <3>2. /\ mode # "SYSTEM" /\ command = None /\ Received = target
          /\ configuration # None /\ target = At(configuration) /\ Distance(robot, configuration) <= drift
      BY <1>5, <3>1 DEF RestInv, TrackingRests, BeforeSystem, Received
    <3>3. Located(fresh) = configuration /\ configuration \in Poses
      BY <1>5, <2>2, <3>2 DEF Located
    <3>4. q = configuration
      <4>1. Received.pose = configuration /\ Received.velocity = 0
        BY <3>2 DEF At
      <4>2. q \in {Toward(configuration, configuration), configuration}
        BY <2>2, <3>3, <4>1, ControlAtRest
      <4>3. QED
        BY <3>3, <4>2, PoseArithmetic
    <3>5. CASE mode \in OSC_ACTIVE_MODES
      <4>1. robot' = q /\ drift' = 0
        BY <2>1, <3>5 DEF PublishJointCommand
      <4>2. QED
        BY <1>1, <2>1, <2>3, <3>2, <3>4, <4>1, NearArithmetic
    <3>6. CASE mode \notin OSC_ACTIVE_MODES
      <4>1. robot' = robot /\ drift' = drift
        BY <2>1, <3>3, <3>4, <3>6 DEF PublishJointCommand
      <4>2. QED
        BY <1>1, <2>1, <3>2, <3>4, <4>1
    <3>7. QED
      BY <3>5, <3>6
  <2>6. QED
    BY <1>2, <2>4, <2>5
<1>6. QED
  BY <1>4, <1>5

LEMMA ControllerRests ==
  ASSUME ControllerTypeOK, RestInv, ControllerStep, UNCHANGED <<keyboardVars, oculusVars, trackingVars>>
  PROVE  RestInv'
<1>1. PICK m \in {heard, mode}, fresh \in BOOLEAN :
         StepInactive(m, fresh) \/ StepActive(m, fresh) \/ StepFails(m, fresh)
  BY DEF ControllerStep
<1>2. heard # None
  BY DEF ControllerStep
<1>3. SyncedController' /\ StartsNear' /\ LateController' /\ QueueDrained' /\ TrackingRests'
  BY <1>1, <1>2, InactiveStepRests, ActiveStepRests, FailingStepRests
<1>4. QED
  BY <1>3, ControllerStepRests DEF RestInv

-----------------------------------------------------------------------------
(* Keyboard teleoperation.                                                 *)

\* What a source of commands leaves alone keeps most of the invariant.
LEMMA SourceRests ==
  ASSUME RestInv, UNCHANGED <<setupVars, controlVars, mode, returnMode, resting, clutch, buttonX, trackingAt, asked>>,
         client = "keyboard"
  PROVE  /\ RestsInOwnMode' /\ OwnModesOnly' /\ SyncedController'
         /\ OculusRests' /\ LateController' /\ ButtonsStill' /\ TrackingRests'
         /\ Own' = Own /\ HeardInactive' = HeardInactive /\ client' = client
<1>1. UNCHANGED <<client, part, heard, configuration, target, robot, synced, drift>>
  BY DEF setupVars, controlVars, controllerVars, driftVars
<1>2. RestsInOwnMode' /\ OwnModesOnly' /\ SyncedController' /\ ButtonsStill' /\ Own' = Own
  BY <1>1 DEF RestInv, RestsInOwnMode, OwnModesOnly, SyncedController, ButtonsStill, Own
<1>3. OculusRests' /\ LateController' /\ TrackingRests' /\ HeardInactive' = HeardInactive
  BY <1>1 DEF OculusRests, LateController, TrackingRests, BeforeSystem, HeardInactive
<1>4. QED
  BY <1>1, <1>2, <1>3

\* An untouched policy that has heard of its mode commands what it observes.
LEMMA ShapeRests ==
  ASSUME ControllerTypeOK, RestInv, KeyboardTypeOK, client = "keyboard", Shape, InOwnMode, Untouched
  PROVE  /\ Near(aimed') /\ commanded' = aimed'
         /\ command' \in {command, At(aimed')}
<1>1. Near(seen) /\ commanded = aimed /\ (aimed # None => Near(aimed))
  BY DEF RestInv, KeyboardRests
<1>2. InitialTarget(aimed) \in Poses /\ Near(InitialTarget(aimed)) /\ InitialTarget(commanded) = InitialTarget(aimed)
  BY <1>1 DEF InitialTarget, KeyboardTypeOK, ControllerTypeOK
<1>3. aimed' = InitialTarget(aimed)
  BY DEF Shape
<1>4. commanded' = aimed'
  <2>1. Toward(InitialTarget(commanded), aimed') = aimed'
    BY <1>2, <1>3, PoseArithmetic
  <2>2. QED
    BY <2>1 DEF Shape
<1>5. (IF part = "tool" THEN commanded' - InitialTarget(commanded) ELSE 0) = 0
  BY <1>2, <1>3, <1>4, BoundsAssumption DEF Poses
<1>6. Publish([pose |-> commanded', velocity |-> 0], mode)
  BY <1>5 DEF Shape
<1>7. QED
  BY <1>2, <1>3, <1>4, <1>6 DEF Publish, At

LEMMA KeyboardStepRests == ASSUME IInv, RestInv, KeyboardStepOnly PROVE RestInv'
<1>0. ControllerTypeOK /\ KeyboardTypeOK
  BY DEF IInv, ControllerInv, KeyboardInv
<1>1. /\ client = "keyboard"
      /\ UNCHANGED <<setupVars, controlVars, mode, returnMode, resting, clutch, buttonX, trackingAt, asked>>
      /\ UNCHANGED <<configuration, target, robot, heard>>
  BY DEF KeyboardStepOnly, KeyboardNext, arbiterVars, oculusVars, buttonVars, trackingVars, askedVars, controlVars, controllerVars
<1>2. /\ RestsInOwnMode' /\ OwnModesOnly' /\ SyncedController'
      /\ OculusRests' /\ LateController' /\ ButtonsStill' /\ TrackingRests'
      /\ Own' = Own /\ HeardInactive' = HeardInactive /\ client' = client
  BY <1>1, SourceRests
<1>3. CASE KeyboardListener /\ UNCHANGED <<command, observationVars>>
  <2>1. UNCHANGED <<command, seen, seenMode, commanded>> /\ InOwnMode' = InOwnMode
    BY <1>1, <1>3 DEF observationVars, KeyboardListener, KeyPressed, MoveTarget, QuitPressed, policyVars, InOwnMode, setupVars
  <2>2. Untouched' => Untouched /\ aimed' = aimed
    <3>1. CASE MoveTarget
      BY <1>1, <3>1 DEF MoveTarget, Untouched
    <3>2. CASE QuitPressed \/ \E key \in Keys : KeyPressed(key)
      BY <1>1, <3>2 DEF QuitPressed, KeyPressed, policyVars, Untouched
    <3>3. QED
      BY <1>3, <3>1, <3>2 DEF KeyboardListener
  <2>3. StartsNear' /\ KeyboardRests'
    BY <1>1, <1>2, <2>1, <2>2 DEF RestInv, StartsNear, KeyboardRests, Near
  <2>4. QueueDrained'
    BY <1>1, <1>2, <2>1 DEF RestInv, QueueDrained
  <2>5. QED
    BY <1>2, <2>3, <2>4 DEF RestInv
<1>4. CASE KeyboardNode /\ KeyboardLoops
  <2>1. UNCHANGED <<command, seen, seenMode, aimed, commanded, pushed>> /\ InOwnMode' = InOwnMode
    BY <1>1, <1>4 DEF KeyboardNode, KeyboardLoops, observationVars, InOwnMode, setupVars
  <2>2. StartsNear' /\ KeyboardRests'
    BY <1>1, <1>2, <2>1 DEF RestInv, StartsNear, KeyboardRests, Near, Untouched
  <2>3. QueueDrained'
    BY <1>1, <1>2, <2>1 DEF RestInv, QueueDrained
  <2>4. QED
    BY <1>2, <2>2, <2>3 DEF RestInv
<1>5. CASE KeyboardNode /\ KeyboardStep
  <2>1. /\ pushed' = pushed /\ seen' = robot /\ Untouched' = Untouched
        /\ \/ InOwnMode /\ Shape
           \/ ~InOwnMode /\ aimed' = None /\ commanded' = None /\ command' = command
    BY <1>1, <1>5 DEF KeyboardNode, KeyboardStep, BuildObservation, KeyboardReset, Untouched
  <2>2. ASSUME Untouched
        PROVE  /\ commanded' = aimed' /\ (aimed' # None => Near(aimed'))
               /\ (heard # None /\ command' # None) => (Near(command'.pose) /\ command'.velocity = 0)
    <3>1. CASE ~InOwnMode
      BY <2>1, <2>2, <3>1 DEF RestInv, StartsNear
    <3>2. CASE InOwnMode
      <4>1. /\ Near(aimed') /\ commanded' = aimed'
            /\ command' \in {command, At(aimed')}
        BY <1>0, <1>1, <2>1, <2>2, <3>2, ShapeRests
      <4>2. At(aimed').pose = aimed' /\ At(aimed').velocity = 0
        BY DEF At
      <4>3. QED
        BY <2>2, <4>1, <4>2 DEF RestInv, StartsNear
    <3>3. QED
      BY <3>1, <3>2
  <2>3. StartsNear' /\ KeyboardRests'
    BY <1>1, <1>2, <2>1, <2>2 DEF RestInv, StartsNear, KeyboardRests, Near
  <2>4. QueueDrained'
    <3>1. mode # Own => command' = command
      BY <2>1 DEF Shape, Publish, Own
    <3>2. QED
      BY <1>1, <1>2, <3>1 DEF RestInv, QueueDrained
  <2>5. QED
    BY <1>2, <2>3, <2>4 DEF RestInv
<1>6. QED
  BY <1>3, <1>4, <1>5 DEF KeyboardStepOnly, KeyboardNext, KeyboardNode

-----------------------------------------------------------------------------
(* Oculus teleoperation.                                                   *)

\* While the operator moves nothing, what is published is where the clutch found the robot.
LEMMA StillMoveRests ==
  ASSUME ControllerInv, OculusInv, NEW s \in Snapshots, Move(s), Clutched(s), UNCHANGED part,
         clutch'.still
  PROVE  Publish(At(clutch'.robot), mode')
<1>1. /\ clutch' # None /\ clutch'.robot = (IF clutch = None THEN seen ELSE clutch.robot)
      /\ clutch # None => clutch.still
  BY ClutchedType
<1>2. commandedPose' = clutch'.robot
  BY <1>1, MoveKeeps DEF StillReferences
<1>3. Engaged(commandedPose, seen) = clutch'.robot
  BY <1>1 DEF Engaged, OculusInv, References, StillReferences
<1>4. clutch'.robot - clutch'.robot = 0
  BY <1>1, BoundsAssumption DEF ControllerInv, ControllerTypeOK, OculusInv, OculusTypeOK, Clutches, Poses
<1>5. Publish([pose |-> clutch'.robot, velocity |-> 0], mode')
  BY <1>2, <1>3, <1>4 DEF Move
<1>6. QED
  BY <1>5 DEF At

\* With nothing but the buttons the hand is still.
LEMMA ButtonsStayStill ==
  ASSUME ButtonsStill, part = "buttons", NEW s \in Snapshots, Clutched(s)
  PROVE  clutch'.still /\ clutch'.hand = 0
<1>1. s.hand = 0 /\ s.input = 0
  BY DEF Snapshots
<1>2. CASE clutch = None
  BY <1>1, <1>2 DEF Clutched
<1>3. CASE clutch # None
  BY <1>1, <1>3 DEF Clutched, ButtonsStill
<1>4. QED
  BY <1>2, <1>3

\* A step of the policy: the mode stays, but for a homing request, and what is published
\* passes in the client's mode only.
LEMMA OculusStepShape ==
  ASSUME IInv, RestInv, client = "oculus", OculusStep, UNCHANGED setupVars
  PROVE  /\ \/ mode' = mode /\ returnMode' = returnMode
            \/ /\ part = "buttons" /\ mode' = "HOMING"
               /\ returnMode' = IF mode \in RETURNABLE_MODES THEN mode ELSE returnMode
         /\ ~InOwnMode => clutch' = None /\ command' = command
         /\ clutch' # None =>
              /\ clutch'.robot = IF clutch = None THEN seen ELSE clutch.robot
              /\ clutch'.still => (clutch # None => clutch.still)
         /\ (part = "buttons" /\ clutch' # None) => (clutch'.still /\ clutch'.hand = 0)
         /\ (mode' # Own) => command' = command
         /\ (InOwnMode /\ mode' = Own /\ clutch' = None) => command' = At(seen)
         /\ (InOwnMode /\ mode' = Own /\ clutch' # None /\ clutch'.still) => command' = At(clutch'.robot)
<1>0. ControllerInv /\ OculusInv /\ ButtonsStill /\ part' = part
  BY DEF IInv, RestInv, setupVars
<1>1. ASSUME RequestHomingOnX
      PROVE  \/ mode' = mode /\ returnMode' = returnMode
             \/ /\ part = "buttons" /\ mode' = "HOMING"
                /\ returnMode' = IF mode \in RETURNABLE_MODES THEN mode ELSE returnMode
  <2>1. CASE buttonX /\ ~previousX
    BY <1>0, <1>1, <2>1 DEF RequestHomingOnX, RequestHoming, ButtonsStill
  <2>2. CASE ~(buttonX /\ ~previousX)
    BY <1>1, <2>2 DEF RequestHomingOnX, arbiterVars
  <2>3. QED
    BY <2>1, <2>2
<1>2. CASE ~InOwnMode
  BY <1>2 DEF OculusStep, arbiterVars
<1>3. CASE InOwnMode /\ HoldCurrentPose /\ (UNCHANGED arbiterVars \/ RequestHomingOnX)
  BY <1>1, <1>3 DEF HoldCurrentPose, Publish, arbiterVars, Own
<1>4. ASSUME InOwnMode, NEW s \in Snapshots, Move(s), Clutched(s), RequestHomingOnX
      PROVE  /\ clutch' # None
             /\ clutch'.robot = IF clutch = None THEN seen ELSE clutch.robot
             /\ clutch'.still => (clutch # None => clutch.still)
             /\ part = "buttons" => (clutch'.still /\ clutch'.hand = 0)
             /\ mode' # Own => command' = command
             /\ (mode' = Own /\ clutch'.still) => command' = At(clutch'.robot)
  <2>1. /\ clutch' # None
        /\ clutch'.robot = IF clutch = None THEN seen ELSE clutch.robot
        /\ clutch'.still => (clutch # None => clutch.still)
    BY <1>0, <1>4, ClutchedType
  <2>2. part = "buttons" => (clutch'.still /\ clutch'.hand = 0)
    BY <1>0, <1>4, ButtonsStayStill
  <2>3. mode' # Own => command' = command
    BY <1>4 DEF Move, Publish, Own
  <2>4. (mode' = Own /\ clutch'.still) => command' = At(clutch'.robot)
    BY <1>0, <1>4, StillMoveRests DEF Publish, Own
  <2>5. QED
    BY <2>1, <2>2, <2>3, <2>4
<1>5. \/ ~InOwnMode
      \/ InOwnMode /\ HoldCurrentPose /\ (UNCHANGED arbiterVars \/ RequestHomingOnX)
      \/ InOwnMode /\ RequestHomingOnX /\ \E s \in Snapshots : Move(s) /\ Clutched(s)
  BY DEF OculusStep, Stale
<1>6. CASE InOwnMode /\ RequestHomingOnX /\ \E s \in Snapshots : Move(s) /\ Clutched(s)
  <2>1. PICK s \in Snapshots : Move(s) /\ Clutched(s)
    BY <1>6
  <2>2. QED
    BY <1>1, <1>4, <1>6, <2>1
<1>7. QED
  BY <1>2, <1>3, <1>5, <1>6

LEMMA OculusStepRests == ASSUME IInv, RestInv, OculusStepOnly PROVE RestInv'
<1>0. ControllerTypeOK
  BY DEF IInv, ControllerInv
<1>1. /\ client = "oculus" /\ client' = client /\ part' = part /\ UNCHANGED setupVars
      /\ UNCHANGED <<heard, configuration, target, robot, synced, drift>>
      /\ OperatorX \/ OculusStep
  BY DEF OculusStepOnly, OculusNext, setupVars, controlVars, controllerVars, driftVars
<1>2. Own' = Own /\ HeardInactive' = HeardInactive /\ Own = "OCULUS"
  BY <1>0, <1>1, OwnMode DEF Own, HeardInactive
<1>3. SyncedController' /\ KeyboardRests' /\ TrackingRests'
  BY <1>1 DEF RestInv, SyncedController, KeyboardRests, TrackingRests, BeforeSystem
<1>4. CASE OperatorX
  <2>1. /\ UNCHANGED <<mode, returnMode, command, seen, seenMode, resting, pushed, clutch>>
        /\ part = "buttons" \/ ~buttonX'
    BY <1>4 DEF OperatorX, PressX, ReleaseX, arbiterVars, observationVars, startVars
  <2>2. RestsInOwnMode' /\ OwnModesOnly' /\ QueueDrained'
    BY <1>1, <1>2, <2>1 DEF RestInv, RestsInOwnMode, OwnModesOnly, QueueDrained
  <2>3. StartsNear' /\ OculusRests' /\ LateController'
    BY <1>1, <1>2, <2>1 DEF RestInv, StartsNear, OculusRests, LateController, Near, Untouched, InOwnMode
  <2>4. ButtonsStill'
    BY <1>1, <2>1 DEF RestInv, ButtonsStill
  <2>5. QED
    BY <1>3, <2>2, <2>3, <2>4 DEF RestInv
<1>5. CASE OculusStep
  <2> DEFINE moved == resting # None /\ clutch' # None /\ ~clutch'.still
  <2>1. Handed(moved) /\ seen' = robot /\ buttonX' = buttonX
    BY <1>5 DEF OculusStep, BuildObservation
  <2>2. /\ \/ mode' = mode /\ returnMode' = returnMode
           \/ /\ part = "buttons" /\ mode' = "HOMING"
              /\ returnMode' = IF mode \in RETURNABLE_MODES THEN mode ELSE returnMode
        /\ ~InOwnMode => clutch' = None /\ command' = command
        /\ clutch' # None =>
             /\ clutch'.robot = IF clutch = None THEN seen ELSE clutch.robot
             /\ clutch'.still => (clutch # None => clutch.still)
        /\ (part = "buttons" /\ clutch' # None) => (clutch'.still /\ clutch'.hand = 0)
        /\ (mode' # Own) => command' = command
        /\ (InOwnMode /\ mode' = Own /\ clutch' = None) => command' = At(seen)
        /\ (InOwnMode /\ mode' = Own /\ clutch' # None /\ clutch'.still) => command' = At(clutch'.robot)
    BY <1>1, <1>5, OculusStepShape
  <2>3. /\ RestsInOwnMode'
        /\ Untouched' => mode' = mode /\ resting' = resting /\ Untouched /\ ~moved
        /\ resting' # None => mode' = mode /\ mode = Own /\ resting' = resting
    <3>1. /\ RestsInOwnMode'
          /\ Untouched' => \/ mode' = mode /\ resting' = resting /\ Untouched /\ ~moved
                           \/ mode' # mode /\ mode' = Own /\ resting' = robot
          /\ resting' # None => \/ mode' = mode /\ resting' = resting
                                \/ mode' # mode /\ mode' = Own /\ resting' = robot
      <4> HIDE DEF moved
      <4>1. QED
        BY <1>0, <1>1, <2>1, HandedRests DEF RestInv
    <3>2. mode' # mode => mode' # Own
      BY <1>2, <2>2
    <3>3. QED
      BY <3>1, <3>2 DEF RestInv, RestsInOwnMode
  <2>4. OwnModesOnly' /\ ButtonsStill'
    <3>1. OwnModesOnly'
      BY <1>0, <1>1, <1>2, <2>2 DEF RestInv, OwnModesOnly, RETURNABLE_MODES
    <3>2. ButtonsStill'
      BY <1>1, <2>1, <2>2 DEF RestInv, ButtonsStill
    <3>3. QED
      BY <3>1, <3>2
  <2>5. Untouched' /\ InOwnMode => /\ Near(seen) /\ Near(robot)
                                   /\ clutch' # None => (clutch'.still /\ Near(clutch'.robot))
    BY <1>1, <2>2, <2>3 DEF RestInv, StartsNear, OculusRests, Untouched
  <2>6. StartsNear'
    <3>1. SUFFICES ASSUME Untouched'
                   PROVE  /\ Near(robot)
                          /\ heard # None =>
                               /\ command' # None => (Near(command'.pose) /\ command'.velocity = 0)
                               /\ configuration # None => Near(configuration)
                               /\ target # None => (Near(target.pose) /\ target.velocity = 0)
      BY <1>1, <2>3 DEF StartsNear, Near
    <3>2. command' = command \/ (Near(command'.pose) /\ command'.velocity = 0)
      BY <2>2, <2>5, <3>1 DEF At
    <3>3. QED
      BY <2>3, <3>1, <3>2 DEF RestInv, StartsNear
  <2>7. OculusRests'
    <3>1. SUFFICES ASSUME Untouched', InOwnMode'
                   PROVE  Near(robot) /\ (clutch' # None => (clutch'.still /\ Near(clutch'.robot)))
      BY <1>1, <2>1, <2>3 DEF OculusRests, Near
    <3>2. Near(robot)
      BY <2>3, <3>1 DEF RestInv, StartsNear
    <3>3. QED
      BY <2>2, <2>5, <3>1, <3>2
  <2>8. ASSUME resting' # None, HeardInactive
        PROVE  /\ robot = resting /\ resting' = resting
               /\ InOwnMode => seen = resting
               /\ (clutch' # None /\ clutch'.still) => clutch'.robot = resting
    BY <1>1, <2>2, <2>3, <2>8 DEF RestInv, LateController
  <2>9. LateController'
    BY <1>1, <1>2, <2>1, <2>8 DEF LateController
  <2>10. QueueDrained'
    <3>1. SUFFICES ASSUME HeardInactive, mode' # Own \/ part = "buttons"
                   PROVE  \/ command' = None
                          \/ /\ part = "buttons"
                             /\ command'.velocity = 0 /\ Distance(robot, command'.pose) <= drift
      BY <1>1, <1>2 DEF QueueDrained
    <3>2. CASE command' = command
      <4>1. mode # Own \/ part = "buttons"
        BY <2>2, <3>1
      <4>2. QED
        BY <1>1, <3>1, <3>2, <4>1 DEF RestInv, QueueDrained
    <3>3. CASE command' # command
      <4>1. mode' = Own /\ InOwnMode /\ part = "buttons"
        BY <2>2, <3>1, <3>3
      <4>2. resting' # None
        BY <1>2, <2>3, <4>1 DEF RestsInOwnMode
      <4>3. command' = At(robot)
        BY <2>2, <2>8, <3>1, <4>1, <4>2
      <4>4. Distance(robot, robot) <= drift
        BY <1>0, NearArithmetic DEF ControllerTypeOK
      <4>5. QED
        BY <4>1, <4>3, <4>4 DEF At
    <3>4. QED
      BY <3>2, <3>3
  <2>11. QED
    BY <1>3, <2>3, <2>4, <2>6, <2>7, <2>9, <2>10 DEF RestInv
<1>6. QED
  BY <1>1, <1>4, <1>5

-----------------------------------------------------------------------------
(* The controller-tracking diagnostic.                                     *)

\* It enters its mode when its own request is handled, publishes nothing before, and moves the
\* robot while it runs.
LEMMA TrackingShape ==
  ASSUME ControllerTypeOK, TrackingTypeOK, RestInv, client = "tracking",
         \/ (QuietStep \/ RecordCommand) /\ UNCHANGED askedVars
         \/ RequestSystem \/ Finally \/ AskedIsHandled \/ AskedIsOverwritten
  PROVE  /\ mode' = mode \/ mode' = "IDLE" \/ (mode' = "SYSTEM" /\ asked = "SYSTEM")
         /\ BeforeSystem' => BeforeSystem /\ mode' = mode /\ command' = command
         /\ trackingAt' \in BeforeRequest => trackingAt \in BeforeRequest /\ (asked' = asked \/ asked' = None)
         /\ command' = command \/ (trackingAt = "run" /\ mode' = mode)
<1>1. Own = "SYSTEM" /\ Own = ClientMode[client] /\ None \notin {"SYSTEM", "IDLE"}
  BY OwnMode, NoModeAssumption DEF Own, Modes
<1>2. CASE /\ FindIdle \/ FindState \/ RecheckIdle \/ TakeAnchor \/ AwaitSystem \/ AwaitCommand
           /\ UNCHANGED askedVars
  BY <1>2 DEF FindIdle, FindState, RecheckIdle, TakeAnchor, AwaitSystem, AwaitCommand, Goes, arbiterVars,
     askedVars, BeforeRequest, BeforeSystem
<1>3. CASE PublishSeed /\ UNCHANGED askedVars
  <2>1. mode # "SYSTEM"
    BY <1>3 DEF PublishSeed, Goes, RestInv, TrackingRests, BeforeSystem, BeforeRequest
  <2>2. QED
    BY <1>1, <1>3, <2>1 DEF PublishSeed, Goes, Publish, arbiterVars, askedVars, BeforeRequest, BeforeSystem
<1>4. CASE RequestSystem
  BY <1>4 DEF RequestSystem, Goes, arbiterVars, BeforeRequest, BeforeSystem
<1>5. CASE Sample /\ UNCHANGED askedVars
  <2>1. mode' = mode /\ trackingAt' = trackingAt /\ asked' = asked /\ trackingAt = "run"
    BY <1>5 DEF Sample, arbiterVars, askedVars
  <2>2. BeforeSystem => mode # "SYSTEM"
    BY DEF RestInv, TrackingRests
  <2>3. BeforeSystem' => command' = command
    BY <1>1, <1>5, <2>1, <2>2 DEF Sample, Publish, BeforeSystem
  <2>4. QED
    BY <2>1, <2>3 DEF BeforeSystem, BeforeRequest
<1>6. CASE (BeginWindow \/ EndWindow \/ Interrupted \/ Fails \/ RecordCommand) /\ UNCHANGED askedVars
  BY <1>6 DEF BeginWindow, EndWindow, Interrupted, Fails, RecordCommand, Goes, arbiterVars, askedVars,
     BeforeRequest, BeforeSystem
<1>7. CASE Finally
  <2>1. /\ trackingAt = "finally" /\ trackingAt' = "done" /\ command' = command /\ mode' = mode
        /\ asked' = asked \/ asked' = "IDLE"
    BY <1>7 DEF Finally, Goes, Ask, arbiterVars, askedVars
  <2>2. QED
    BY <2>1 DEF BeforeRequest, BeforeSystem
<1>8. CASE AskedIsHandled
  <2>1. asked \in {"SYSTEM", "IDLE"} /\ mode' = asked /\ asked' = None /\ command' = command
        /\ trackingAt' = trackingAt
    BY <1>8 DEF AskedIsHandled, RequestMode, TrackingTypeOK
  <2>2. trackingAt \notin BeforeRequest
    BY <1>1, <2>1 DEF RestInv, TrackingRests, BeforeSystem
  <2>3. QED
    BY <1>1, <2>1, <2>2 DEF BeforeSystem
<1>9. CASE AskedIsOverwritten
  BY <1>1, <1>9 DEF AskedIsOverwritten, arbiterVars, BeforeSystem
<1>10. QED
  BY <1>2, <1>3, <1>4, <1>5, <1>6, <1>7, <1>8, <1>9 DEF QuietStep

LEMMA TrackingStepRests == ASSUME IInv, RestInv, TrackingStepOnly PROVE RestInv'
<1>0. ControllerTypeOK /\ TrackingTypeOK
  BY DEF IInv, ControllerInv, TrackingInv
<1>1. /\ client = "tracking" /\ client' = client /\ part' = part /\ UNCHANGED setupVars
      /\ UNCHANGED <<heard, configuration, target, robot, synced, drift, clutch, buttonX>>
      /\ Handed(trackingAt = "run")
      /\ \/ (QuietStep \/ RecordCommand) /\ UNCHANGED askedVars
         \/ RequestSystem \/ Finally \/ AskedIsHandled \/ AskedIsOverwritten
  BY DEF TrackingStepOnly, TrackingNext, setupVars, controlVars, controllerVars, driftVars, oculusVars, buttonVars
<1>2. Own' = Own /\ Own = "SYSTEM"
  BY <1>0, <1>1, OwnMode DEF Own
<1>3. OwnModesOnly' /\ SyncedController' /\ KeyboardRests' /\ OculusRests' /\ LateController' /\ QueueDrained'
      /\ ButtonsStill'
  BY <1>1 DEF RestInv, OwnModesOnly, SyncedController, KeyboardRests, OculusRests, LateController, QueueDrained,
     ButtonsStill
<1>4. /\ mode' = mode \/ mode' = "IDLE" \/ (mode' = "SYSTEM" /\ asked = "SYSTEM")
      /\ BeforeSystem' => BeforeSystem /\ mode' = mode /\ command' = command
      /\ trackingAt' \in BeforeRequest => trackingAt \in BeforeRequest /\ (asked' = asked \/ asked' = None)
      /\ command' = command \/ (trackingAt = "run" /\ mode' = mode)
  BY <1>0, <1>1, TrackingShape
<1>5. /\ RestsInOwnMode'
      /\ Untouched' => \/ mode' = mode /\ resting' = resting /\ Untouched /\ ~(trackingAt = "run")
                       \/ mode' # mode /\ mode' = Own /\ resting' = robot
  BY <1>0, <1>1, HandedRests DEF RestInv
<1>6. StartsNear'
  <2>1. SUFFICES ASSUME Untouched'
                 PROVE  /\ Near(robot)'
                        /\ heard # None =>
                             /\ command' # None => (Near(command.pose)' /\ command'.velocity = 0)
                             /\ configuration # None => Near(configuration)'
                             /\ target # None => (Near(target.pose)' /\ target.velocity = 0)
    BY <1>1 DEF StartsNear, Near
  <2>2. CASE resting' = resting /\ Untouched /\ trackingAt # "run"
    BY <1>1, <1>4, <2>2 DEF RestInv, StartsNear, Near
  <2>3. CASE mode' # mode /\ mode' = Own /\ resting' = robot
    <3>1. asked = "SYSTEM" /\ BeforeSystem /\ mode # Own
      BY <1>2, <1>4, <2>3 DEF BeforeSystem
    <3>2. /\ command = None /\ command' = None
          /\ configuration # None => Distance(robot, configuration) <= drift
          /\ target # None => (configuration # None /\ target = At(configuration))
      BY <1>1, <1>4, <2>3, <3>1 DEF RestInv, TrackingRests
    <3>3. robot \in Poses /\ drift \in 0 .. MaxDrift /\ configuration \in Poses \cup {None}
      BY <1>0 DEF ControllerTypeOK
    <3>4. Near(robot)' /\ (configuration # None => Near(configuration)')
      BY <1>1, <2>3, <3>2, <3>3, NearArithmetic DEF Near
    <3>5. target # None => (Near(target.pose)' /\ target.velocity = 0)
      BY <1>1, <3>2, <3>4 DEF At, Near
    <3>6. QED
      BY <3>2, <3>4, <3>5
  <2>4. QED
    BY <1>5, <2>1, <2>2, <2>3
<1>7. TrackingRests'
  BY <1>1, <1>4 DEF RestInv, TrackingRests, BeforeSystem, BeforeRequest
<1>8. QED
  BY <1>3, <1>5, <1>6, <1>7 DEF RestInv

-----------------------------------------------------------------------------

LEMMA NextRestInv == IInv /\ RestInv /\ [SessionNext]_sessionVars => RestInv'
<1> SUFFICES ASSUME IInv, RestInv, [SessionNext]_sessionVars PROVE RestInv'
  OBVIOUS
<1>0. ControllerTypeOK
  BY DEF IInv, ControllerInv
<1>1. CASE SharedStep
  BY <1>0, <1>1, ModeChangesRest, HomingRests, ControllerRests DEF SharedStep, SharedNext
<1>2. CASE KeyboardStepOnly
  BY <1>2, KeyboardStepRests
<1>3. CASE OculusStepOnly
  BY <1>3, OculusStepRests
<1>4. CASE TrackingStepOnly
  BY <1>4, TrackingStepRests
<1>5. CASE UNCHANGED sessionVars
  <2>1. /\ UNCHANGED <<client, part, mode, returnMode, heard, configuration, target, robot, synced, drift, command>>
        /\ UNCHANGED <<seen, seenMode, resting, pushed, aimed, commanded, clutch, buttonX, trackingAt, asked>>
    BY <1>5 DEF sessionVars, sharedVars, setupVars, arbiterVars, controlVars, controllerVars, driftVars,
       observationVars, startVars, keyboardVars, policyVars, oculusVars, buttonVars, trackingVars, askedVars
  <2>2. /\ RestsInOwnMode' /\ OwnModesOnly' /\ SyncedController' /\ StartsNear' /\ KeyboardRests'
        /\ OculusRests' /\ LateController' /\ ButtonsStill'
    BY <2>1 DEF RestInv, RestsInOwnMode, OwnModesOnly, SyncedController, StartsNear, KeyboardRests, OculusRests,
       LateController, ButtonsStill, Own, Near, Untouched, InOwnMode, HeardInactive
  <2>3. QueueDrained' /\ TrackingRests'
    BY <2>1 DEF RestInv, QueueDrained, TrackingRests, BeforeSystem, Own, HeardInactive
  <2>4. QED
    BY <2>2, <2>3 DEF RestInv
<1>6. QED
  BY <1>1, <1>2, <1>3, <1>4, <1>5 DEF SessionNext

\* While the operator commands nothing the robot stays where the client's mode found it,
\* whatever was under way in controller, queues and policies before (_reset_commands_from_state,
\* reset, and the order in which the followers of the mode hear of it).
THEOREM NothingMovesByItself == SessionSpec => []NoMotionWithoutInput
<1>1. RestInv => NoMotionWithoutInput
  BY DEF RestInv, StartsNear, Untouched, Near, NoMotionWithoutInput
<1>2. QED
  BY <1>1, InitRestInv, NextRestInv, Invariant, PTL DEF SessionSpec

=============================================================================
