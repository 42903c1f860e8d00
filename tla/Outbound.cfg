SPECIFICATION FairSpec
CONSTANTS
    Requests = {1, 2, 3}
    Keys <- MCKeys
    NoKey = NoKey
    KeyOf <- MCKeyOf
    Content <- MCContent
    ByChat = {3}
    MessageDelay = 1
    Ttl = 1
    MaxTime = 3
    MaxFaults = 2
INVARIANTS
    TypeOK
    ClaimsMatchSends
    RecordMeansDelivered
    OneSendOneCopy
    NoMislabelledInline
PROPERTIES
    Answered
    HonoursContract
CHECK_DEADLOCK FALSE
