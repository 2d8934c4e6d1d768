SPECIFICATION StackSpec
CONSTANTS
    None = None
    Setups <- AllSetups
    MaxPose = 3
    MaxEvents = 2
    Keys = {1}
    MaxDrift = 1
    MaxPresses = 2
    MaxWindow = 2
    Patience = 1
    Candidates <- AllCandidates
    MaxRounds = 2
    Travel <- ThreeAngles
    WheelLimit = 2
    Absent = Absent
    Samples <- AllSamples
    MaxSent = 2
    QueueSize = 1
    NaN = 99
    NoValue = NoValue
    NodeNames = {driver, controller}
    Pids = {1, 2}
    Period = 1
    ReportInterval = 2
    MaxAge = 1
    MaxNow = 4
    MaxProcesses = 2
    MaxAlive = 1
    MaxQueued = 1
    Unknown = Unknown
    Capacity = 2
    MaxMessages = 5
    MaxLives = 2
    MaxStacks = 2
    MaxReports = 3
    Nobody = Nobody
INVARIANTS
    NoMotionWithoutInput
    CommandReachesItsJoint
    HealthyIsItsOwn
    StackTypeOK
    KeysCountOnce
    NothingResumes
    DiagnosticIsSound
    ConfigurationsAreTheRobots
PROPERTIES
    NoLeap
    NoCatchUp
    MessagesArriveAsSent
    ConsoleForgetsNothing
CHECK_DEADLOCK FALSE
