SPECIFICATION RescanSpec
CONSTANTS
    Chats <- MCOneChat
    Msgs <- MCTwoMsgs
    ChatOf <- MCPairChatOf
    Ts <- MCPairTs
    Own = {}
    Allowed = {}
    None = None
    BackfillOnStart = TRUE
    BackfillMaxAge = 1
    RetentionSec = 2
    Lookback = 1
    CatchUpLimit = 2
    BackfillMaxPerChat = 4
    WatermarkInterval = 1
    PromptDelivery = FALSE
    LiveEvents = FALSE
    SlowToLoad = {}
    Unreadable = {}
    MaxTime = 4
    MaxPassTime = 1
    MaxFaults = 1
    MaxWrites = 1
INVARIANTS
    NoDuplicates
PROPERTIES
    AnchorKeepsUp
