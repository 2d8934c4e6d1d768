SPECIFICATION HandoffSpec
CONSTANTS
    Published <- MCPublished
    Commands <- MCCommands
    Followers <- MCFollowers
    Kinds <- OperatorKinds
    Lossy = TRUE
    None = None
    MaxTarget = 2
    Length = 2
    Prompt = FALSE
INVARIANTS
    HandoffTypeOK
    QueuesStayFresh
    ModesAsChosen
PROPERTIES
    CompletionIsEarned
    ArbitratesModes
CHECK_DEADLOCK FALSE
