SPECIFICATION Spec
CONSTANTS
    Teleops <- Keyboard
    Runtimes <- Real
    Operations <- TeleopModes
    LateOperations <- NoneLate
    Recorded = {"IDLE"}
    None = None
PROPERTY TeleopModeNeedsProcess
CHECK_DEADLOCK FALSE
