SPECIFICATION FairReplaySpec
CONSTANTS
    MaxRecordings = 2
    MaxEvents = 2
    MaxStarts = 2
    MaxReports = 2
    Lossy = TRUE
    Others <- AllEvents
    None = None
    Robots = {arm, rover}
    Times = {0}
INVARIANTS
    ReplayTypeOK
    RecordersAreAccounted
    ReplayIsHonest
PROPERTIES
    DeathIsReported
    ConsoleErrsToFailure
CHECK_DEADLOCK FALSE
