SPECIFICATION HandoffSpec
CONSTANTS
    Published <- MCPublished
    Commands <- MCCommands
    Followers <- MCFollowers
    Kinds <- OperatorKinds
    Lossy = FALSE
    None = None
    MaxTarget = 1
    Length = 2
    Prompt = TRUE
PROPERTIES
    HomingReachesTarget
CHECK_DEADLOCK FALSE
