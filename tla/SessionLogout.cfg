SPECIFICATION Spec
CONSTANTS
    LoginLoops <- MCLoops
    NoStart = NoStart
    InitMaxAttempts = 2
    PublisherEnabled = FALSE
    ReconcileMaxFailures = 2
    BackoffMax = 2
    MaxRestarts = 3
    Timely = FALSE
    MaxFaults = 2
INVARIANT StaysLoggedOut
CHECK_DEADLOCK FALSE
