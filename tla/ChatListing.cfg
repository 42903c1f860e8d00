SPECIFICATION FairSpec
CONSTANTS
    Chats <- MCTwoChats
    Private <- MCPrivate
    None = None
    ChatEnrichLimit = 1
    MaxFaults = 2
INVARIANTS
    TypeOK
    EveryChatAccounted
    NamelessForCause
PROPERTIES
    Ends
CHECK_DEADLOCK FALSE
