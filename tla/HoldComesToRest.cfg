SPECIFICATION FairSessionSpec
CONSTANTS
    None = None
    Setups <- OculusBase
    MaxPose = 3
    MaxEvents = 2
    Keys = {1}
    MaxDrift = 1
    MaxPresses = 2
    MaxWindow = 2
    Patience = 1
PROPERTIES
    HoldComesToRest
CHECK_DEADLOCK FALSE
