SPECIFICATION FairSpec
CONSTANTS
    Chats <- MCOneChat
    Msgs <- MCTwoMsgs
    ChatOf <- MCPairChatOf
    Ts <- MCPairTs
    Own = {}
    Allowed = {}
    None = None
    BackfillOnStart = TRUE
    BackfillMaxAge = 5
    RetentionSec = 5
    Lookback = 0
    CatchUpLimit = 2
    BackfillMaxPerChat = 4
    WatermarkInterval = 1
    PromptDelivery = TRUE
    LiveEvents = FALSE
    SlowToLoad = {}
    Unreadable = {}
    MaxTime = 2
    MaxPassTime = 2
    MaxFaults = 2
    MaxWrites = 1
PROPERTIES
    NothingLost
