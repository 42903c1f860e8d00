SPECIFICATION FairSpec
CONSTANTS
    Requests = {1, 2, 3}
    Keys <- MCKeys
    NoKey = NoKey
    KeyOf <- MCNoKeys
    Content <- MCTexts
    ByChat = {}
    MessageDelay = 2
    Ttl = 1
    MaxTime = 3
    MaxFaults = 0
PROPERTY MinimumGap
CHECK_DEADLOCK FALSE
