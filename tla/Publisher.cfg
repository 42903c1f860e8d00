SPECIFICATION FairSpec
CONSTANTS
    Connections = {1, 2, 3, 4}
    None = None
    Created <- MCCreated
    Edited <- MCEdited
    Deleted <- MCDeleted
    Ignored <- MCIgnored
    OffList <- MCOffList
    MaxFaults = 3
INVARIANTS
    TypeOK
    NeverStranded
    OnlyCurrentWatched
    EditsOnce
PROPERTIES
    HonoursChannel
    Reconnects
    Delivered
CHECK_DEADLOCK FALSE
