SPECIFICATION FairSpec
CONSTANTS
    Teleops <- NoTeleop
    Runtimes <- Real
    Operations <- StackAndReplay
    LateOperations <- NoneLate
    Recorded = {"IDLE"}
    None = None
INVARIANTS TypeOK MeetOnlyInShutdown CloseStopsWhatItFound
PROPERTY ReplayEndsWhole
CHECK_DEADLOCK FALSE
