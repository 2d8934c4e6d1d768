----------------------------- MODULE ModeArbiter -----------------------------
(***************************************************************************)
(* What the orchestrator promises the rest of the system: one mode at a     *)
(* time, changed by requests for a named mode, by homing requests and by    *)
(* the completion of homing, which goes back to where homing came from.     *)
(* OrchestratorNode implements it; ControlSession is built on it.           *)
(***************************************************************************)
CONSTANT None

Modes == {"IDLE", "HOMING", "OCULUS", "KEYBOARD", "SYSTEM"}
NamedModes == Modes \ {"HOMING"}
RETURNABLE_MODES == {"OCULUS", "KEYBOARD"}

ASSUME NoModeAssumption == None \notin Modes

VARIABLES
    mode,       \* OrchestratorNode.mode
    returnMode  \* OrchestratorNode.return_mode

arbiterVars == <<mode, returnMode>>

ArbiterInit == mode \in Modes /\ returnMode = None

RequestMode(m) == mode' = m /\ returnMode' = None

RequestHoming ==
    /\ mode' = "HOMING"
    /\ returnMode' = IF mode \in RETURNABLE_MODES THEN mode ELSE returnMode

CompleteHoming ==
    /\ mode' = IF returnMode = None THEN "IDLE" ELSE returnMode
    /\ returnMode' = None

ArbiterNext ==
    \/ \E m \in NamedModes : RequestMode(m)
    \/ RequestHoming
    \/ CompleteHoming

ArbiterSpec == ArbiterInit /\ [][ArbiterNext]_arbiterVars

=============================================================================
