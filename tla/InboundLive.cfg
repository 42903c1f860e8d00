SPECIFICATION Spec
CONSTANTS
    Chats <- MCOneChat
    Msgs <- MCTwoMsgs
    ChatOf <- MCPairChatOf
    Ts <- MCPairTs
    Own = {}
    Allowed <- MCOneChat
    None = None
    BackfillOnStart = TRUE
    BackfillMaxAge = 5
    RetentionSec = 5
    Lookback = 0
    CatchUpLimit = 2
    BackfillMaxPerChat = 4
    WatermarkInterval = 1
    PromptDelivery = TRUE
    LiveEvents = TRUE
    SlowToLoad = {1}
    Unreadable = {}
    MaxTime = 2
    MaxPassTime = 2
    MaxFaults = 1
    MaxWrites = 1
INVARIANTS
    TypeOK
    HistorySafe
    AnchorSafe
    WatermarkSafe
