SPECIFICATION Spec
CONSTANTS
    Chats <- MCOneChat
    Msgs <- MCTwoMsgs
    ChatOf <- MCPairChatOf
    Ts <- MCSameSecond
    Own = {}
    Allowed = {}
    None = None
    BackfillOnStart = TRUE
    BackfillMaxAge = 5
    RetentionSec = 5
    Lookback = 0
    CatchUpLimit = 2
    BackfillMaxPerChat = 4
    WatermarkInterval = 1
    PromptDelivery = TRUE
    LiveEvents = TRUE
    SlowToLoad = {}
    Unreadable = {}
    MaxTime = 1
    MaxPassTime = 2
    MaxFaults = 0
    MaxWrites = 1
INVARIANTS
    NoDuplicates
