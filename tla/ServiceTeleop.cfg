SPECIFICATION Spec
CONSTANTS
    Teleops <- Keyboard
    Runtimes <- Both
    Operations <- RehearsedTeleop
    LateOperations <- NoneLate
    Recorded = {"IDLE"}
    None = None
PROPERTIES OperatorConfirmedStart StackStopStopsAll
CHECK_DEADLOCK FALSE
