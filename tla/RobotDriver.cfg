SPECIFICATION FairMaintenanceSpec
CONSTANTS
    Servos <- MCServos
    Wheels = {2, 3}
    Tuned = {1}
    Controllers = {1, 2}
    Controller <- MCController
    Retries = 1
    Timeout = 1
    MaxCommands = 2
    MaxFaults = 2
    MaxStarts = 2
    Maintained = {1, 2}
    SpareIds = {4}
    Span = 2
    MaxSpeed = 4
    SpeedBits = 2
    MaxTools = 2
    Repeated = {"set_id"}
    MaxJogs = 1
    None = None
INVARIANTS
    ToolTypeOK
    NoWheelTurnsAtEnd
    FeedbackIsAccounted
PROPERTIES
    TorqueOnlyWhenSafe
    CommandLossStops
    ToolsDoAsAsked
CHECK_DEADLOCK FALSE
