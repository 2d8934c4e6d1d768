---------------------------- MODULE ControlSession ----------------------------
(***************************************************************************)
(* A session of one source of commands with the controller node and the     *)
(* robot under the orchestrator's modes: keyboard teleoperation, Oculus     *)
(* teleoperation or the controller-tracking diagnostic, as Setups chooses.  *)
(***************************************************************************)
EXTENDS KeyboardTeleop, OculusTeleop, ControllerTracking

sharedVars == <<setupVars, arbiterVars, events, controlVars, command, jointSince, observationVars,
                startVars>>
sessionVars == <<sharedVars, keyboardVars, oculusVars, trackingVars>>

SessionTypeOK == ControllerTypeOK /\ KeyboardTypeOK /\ OculusTypeOK /\ TrackingTypeOK

SessionInit == ControllerInit /\ KeyboardInit /\ OculusInit /\ TrackingInit

SharedStep == SharedNext /\ UNCHANGED <<keyboardVars, oculusVars, trackingVars>>
KeyboardStepOnly == KeyboardNext /\ UNCHANGED <<oculusVars, trackingVars>>
OculusStepOnly == OculusNext /\ UNCHANGED <<keyboardVars, trackingVars>>
TrackingStepOnly == TrackingNext /\ UNCHANGED <<keyboardVars, oculusVars>>

SessionNext == SharedStep \/ KeyboardStepOnly \/ OculusStepOnly \/ TrackingStepOnly

SessionSpec == SessionInit /\ [][SessionNext]_sessionVars

\* The nodes loop at their rates; operators need not do anything.
SessionFairness ==
    /\ WF_sessionVars(ControllerStep /\ UNCHANGED <<keyboardVars, oculusVars, trackingVars>>)
    /\ WF_sessionVars(KeyboardNode /\ KeyboardStepOnly)
    /\ WF_sessionVars(OculusStep /\ OculusStepOnly)

FairSessionSpec == SessionSpec /\ SessionFairness

=============================================================================
