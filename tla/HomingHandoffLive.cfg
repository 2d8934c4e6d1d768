SPECIFICATION FairHandoffSpec
CONSTANTS
    Published <- MCPublished
    Commands <- MCCommands
    Followers <- MCFollowers
    Kinds <- TeleopKinds
    Lossy = FALSE
    None = None
    MaxTarget = 2
    Length = 2
    Prompt = TRUE
PROPERTIES
    HomingConcludes
CHECK_DEADLOCK FALSE
