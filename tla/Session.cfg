SPECIFICATION FairSpec
CONSTANTS
    LoginLoops <- MCLoops
    NoStart = NoStart
    InitMaxAttempts = 2
    PublisherEnabled = TRUE
    ReconcileMaxFailures = 2
    BackoffMax = 2
    MaxRestarts = 3
    Timely = TRUE
    MaxFaults = 4
INVARIANTS
    SettledMeansQuiet
    NeverAbandoned
    StaysLoggedOut
    PauseHolds
PROPERTIES
    ComesBack
    ScansResume
CHECK_DEADLOCK FALSE
