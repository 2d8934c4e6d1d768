--------------------------- MODULE MCHomingHandoff ---------------------------
(* Small instances of HomingHandoff: a few requests, trajectories of two       *)
(* points, an operator that also requests the listed modes.                    *)
EXTENDS HomingHandoff

MCPublished == {Joint}
MCFollowers == {Homing}
MCCommands == HomingCommands
OperatorKinds == {"OCULUS", "IDLE", "START_LOGGING"}
TeleopKinds == {"OCULUS"}
LoggingKinds == {"START_LOGGING"}

=============================================================================
