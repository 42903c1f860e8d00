------------------------- MODULE InboundForwarding -------------------------
(***************************************************************************)
(* The inbound half of the gateway: WhatsApp messages are published to     *)
(* RabbitMQ by two concurrent actors of one Node process, the handler of   *)
(* the live `message` event and the reconcile pass that scans the chats,   *)
(* over the ProcessedMessageStore that remembers on disk what was done.    *)
(*                                                                         *)
(* One action is the code between two awaits (a page call, a broker        *)
(* confirm, a file write), or one iteration of the scan loop, so every     *)
(* interleaving the event loop allows is a behaviour of the model.         *)
(*                                                                         *)
(* Simplifications: chats and messages are fixed finite sets and a message *)
(* has a constant timestamp; `Own` holds those isDue never forwards (sent  *)
(* by this account, or already deleted); an undefined watermark is 0, which *)
(* is how every read of it treats it; the three page reads of listChats    *)
(* happen in one step; `ready` stands for "ready and settled" together.    *)
(***************************************************************************)
EXTENDS Integers, FiniteSets

CONSTANTS
    Chats,              \* the chats of the account
    Msgs,               \* the messages ever sent to them; a natural number each
    ChatOf,             \* ChatOf[m]: the chat of message m (message.from)
    Ts,                 \* Ts[m]: its WhatsApp timestamp, in seconds
    Own,                \* messages never forwarded: fromMe, or type 'revoked'
    Allowed,            \* RABBITMQ_CHAT_IDS; empty means every chat is forwarded
    None,               \* no message: an absent anchor, an undefined lastMessage
    BackfillOnStart,    \* WHATSAPP_BACKFILL_ON_START
    BackfillMaxAge,     \* WHATSAPP_BACKFILL_MAX_AGE_SEC
    RetentionSec,       \* WHATSAPP_HISTORY_RETENTION_SEC
    Lookback,           \* WHATSAPP_RECONCILE_LOOKBACK_SEC
    CatchUpLimit,       \* WHATSAPP_CATCHUP_LIMIT_PER_CHAT
    BackfillMaxPerChat, \* WHATSAPP_BACKFILL_MAX_MESSAGES_PER_CHAT
    WatermarkInterval,  \* WATERMARK_PERSIST_INTERVAL_SEC
    \* What the environment may do:
    PromptDelivery,     \* messages become visible in the second they are stamped, in order
    LiveEvents,         \* arrivals raise `message` events
    SlowToLoad,         \* chats WhatsApp Web may not hold yet when they are listed
    Unreadable,         \* chats the library may fail to model
    \* Bounds of the model:
    MaxTime,            \* the last second of the clock
    MaxPassTime,        \* seconds a reconcile pass may take
    MaxFaults,          \* crashes, lost channels, lost sessions, nacks, failed reads and writes
    MaxWrites           \* persists queued behind the running one

Actors == {"live", "scan"}
Stages == {"sent", "landed"}
Phases == {"idle", "list", "chat", "fetch", "scan", "await"}

ASSUME ChatsAssumption == None \notin Chats /\ IsFiniteSet(Chats)
ASSUME MsgsAssumption ==
    /\ Msgs \subseteq Nat
    /\ IsFiniteSet(Msgs)
    /\ None \notin Msgs
    /\ ChatOf \in [Msgs -> Chats]
    /\ Ts \in [Msgs -> Nat]
    /\ Own \subseteq Msgs
ASSUME ConfigAssumption ==
    /\ Allowed \subseteq Chats
    /\ BackfillOnStart \in BOOLEAN
    /\ BackfillMaxAge \in Nat
    /\ RetentionSec \in Nat
    /\ Lookback \in Nat
    /\ CatchUpLimit \in Nat
    /\ BackfillMaxPerChat \in Nat
    /\ WatermarkInterval \in Nat
ASSUME EnvironmentAssumption ==
    /\ PromptDelivery \in BOOLEAN
    /\ LiveEvents \in BOOLEAN
    /\ SlowToLoad \subseteq Chats
    /\ Unreadable \subseteq Chats
    /\ MaxTime \in Nat
    /\ MaxPassTime \in Nat
    /\ MaxFaults \in Nat
    /\ MaxWrites \in Nat

VARIABLES
    \* WhatsApp, the clock and the faults so far
    now, visible, events, ready, faults,
    \* RabbitMQ: whether the confirm channel is open, the publishes with no
    \* answer yet, and how often the broker took each message (2: more than once)
    channelUp, flight, copies,
    \* the process and its ProcessedMessageStore
    up, startedAt, processed, anchor, watermark, savedAt, persistTimer, queued,
    \* the persist that is running, and the file
    writing, snapProcessed, snapAnchor, snapWatermark,
    diskProcessed, diskAnchor, diskWatermark,
    \* the reconcile pass: where it stands, its own locals, and those of reconcileChat
    phase, passStartedAt, floor, allConfirmed, todoChats, lastSeen,
    chat, anchorSeen, scanFrom, batch, gap, through

envVars   == <<now, visible, events, ready>>
brokerVars == <<channelUp, flight, copies>>
storeVars == <<processed, anchor, watermark, savedAt>>
writeVars == <<persistTimer, queued, writing, snapProcessed, snapAnchor, snapWatermark>>
diskVars  == <<diskProcessed, diskAnchor, diskWatermark>>
procVars  == <<up, startedAt>>
passVars  == <<phase, passStartedAt, floor, allConfirmed, todoChats, lastSeen>>
chatVars  == <<chat, anchorSeen, scanFrom, batch, gap, through>>
vars == <<envVars, faults, brokerVars, storeVars, writeVars, diskVars, procVars,
          passVars, chatVars>>

----------------------------------------------------------------------------
(* Messages and chats *)

MaxOf(a, b) == IF a >= b THEN a ELSE b
MinOf(a, b) == IF a <= b THEN a ELSE b

\* The order of a fetched history: by timestamp, the library keeping arrival order in ties.
Precedes(m, n) == Ts[m] < Ts[n] \/ (Ts[m] = Ts[n] /\ m < n)
UpTo(m, n) == m = n \/ Precedes(m, n)

History(c) == {m \in visible : ChatOf[m] = c}
Newest(S, n) == {m \in S : Cardinality({x \in S : Precedes(m, x)}) < n}
IsLast(m, S) == m \in S /\ \A x \in S : UpTo(x, m)
IsFirst(m, S) == m \in S /\ \A x \in S : UpTo(m, x)

isAllowed(c) == Allowed = {} \/ c \in Allowed
Scope == IF Allowed = {} THEN Chats ELSE Allowed

\* The messages the gateway has to publish at all.
Wanted == {m \in Msgs : m \notin Own /\ isAllowed(ChatOf[m])}

----------------------------------------------------------------------------
(* The store's and the service's pure helpers *)

Retention == MaxOf(RetentionSec, BackfillMaxAge)
PrunedSet(P) == {m \in P : Ts[m] >= now - Retention}
PrunedAnchors(A) ==
    [c \in Chats |->
        IF A[c] = None THEN None
        ELSE IF Ts[A[c]] < now - Retention THEN None ELSE A[c]]

historyFloor ==
    LET window == now - BackfillMaxAge
    IN IF BackfillOnStart THEN window ELSE MaxOf(window, startedAt)

\* Mutant: a history that is not consulted.
isDueForgetful(m, from) == m \notin Own /\ Ts[m] >= from
isDue(m, from) ==
    /\ m \notin Own
    /\ Ts[m] >= from
    /\ m \notin processed

ScanFrom(a) ==
    IF a # None
    THEN MaxOf(floor, Ts[a] - Lookback)
    ELSE MaxOf(floor, IF BackfillOnStart THEN watermark ELSE 0)

\* fetchBackTo: the batch doubles until it holds the anchor, crosses scanFrom, or is the
\* whole chat; at the ceiling it is returned as it is. The result is that of the last
\* fetch: what arrives during the earlier ones only pushes the anchor further back. The set
\* holds the one batch that is returned.
Ceiling == MaxOf(1, MaxOf(CatchUpLimit, BackfillMaxPerChat))
Limits ==
    {l \in 1 .. Ceiling :
        \E k \in 0 .. Ceiling : l = MinOf(Ceiling, MaxOf(1, CatchUpLimit) * 2^k)}
StopsAt(S, l, a, from) ==
    LET messages == Newest(S, l)
    IN \/ a \in messages
       \/ \E m \in messages : Ts[m] < from
       \/ Cardinality(messages) < l
       \/ l >= Ceiling
fetchBackTo(S, a, from) ==
    LET stops == {l \in Limits : StopsAt(S, l, a, from)}
    IN {Newest(S, l) : l \in {x \in stops : \A y \in stops : x <= y}}

----------------------------------------------------------------------------
Init ==
    /\ now = 1 /\ visible = {} /\ events = {} /\ ready = FALSE /\ faults = 0
    /\ channelUp = FALSE /\ flight = {} /\ copies = [m \in Msgs |-> 0]
    /\ up = FALSE /\ startedAt = 0
    /\ processed = {} /\ anchor = [c \in Chats |-> None] /\ watermark = 0 /\ savedAt = 0
    /\ persistTimer = FALSE /\ queued = 0
    /\ writing = FALSE
    /\ snapProcessed = {} /\ snapAnchor = [c \in Chats |-> None] /\ snapWatermark = 0
    /\ diskProcessed = {} /\ diskAnchor = [c \in Chats |-> None] /\ diskWatermark = 0
    /\ phase = "idle" /\ passStartedAt = 0 /\ floor = 0 /\ allConfirmed = TRUE
    /\ todoChats = {} /\ lastSeen = [c \in Chats |-> None]
    /\ chat = None /\ anchorSeen = None /\ scanFrom = 0 /\ batch = {}
    /\ gap = FALSE /\ through = None

\* Locals that go out of scope: those of reconcileChat, of the pass, of persist.
ChatReturns ==
    /\ chat' = None /\ anchorSeen' = None /\ scanFrom' = 0
    /\ batch' = {} /\ gap' = FALSE /\ through' = None
PassReturns ==
    /\ passStartedAt' = 0 /\ floor' = 0 /\ allConfirmed' = TRUE
    /\ todoChats' = {} /\ lastSeen' = [c \in Chats |-> None]
PersistReturns ==
    /\ snapProcessed' = {} /\ snapAnchor' = [c \in Chats |-> None] /\ snapWatermark' = 0

\* What may go wrong is counted, so that it goes wrong only so often.
Fault == faults < MaxFaults /\ faults' = faults + 1

----------------------------------------------------------------------------
(* WhatsApp and the clock *)

Tick ==
    /\ now < MaxTime
    /\ phase # "idle" => now - passStartedAt < MaxPassTime
    /\ now' = now + 1
    /\ UNCHANGED <<visible, events, ready, faults, brokerVars, storeVars, writeVars, diskVars,
                   procVars, passVars, chatVars>>

\* A message becomes visible in WhatsApp Web. A message stamped earlier may surface late
\* unless delivery is prompt.
Arrive(m) ==
    /\ m \notin visible
    /\ Ts[m] <= now
    /\ PromptDelivery => /\ Ts[m] = now
                         /\ \A v \in History(ChatOf[m]) : Precedes(v, m)
    /\ visible' = visible \cup {m}
    /\ events' = IF LiveEvents /\ up /\ ready THEN events \cup {m} ELSE events
    /\ UNCHANGED <<now, ready, faults, brokerVars, storeVars, writeVars, diskVars, procVars,
                   passVars, chatVars>>

SessionReady ==
    /\ up /\ ~ready
    /\ ready' = TRUE
    /\ UNCHANGED <<now, visible, events, faults, brokerVars, storeVars, writeVars, diskVars,
                   procVars, passVars, chatVars>>

\* The page is gone, and with it the events it had not raised yet.
SessionLost ==
    /\ Fault
    /\ ready
    /\ ready' = FALSE
    /\ events' = {}
    /\ UNCHANGED <<now, visible, brokerVars, storeVars, writeVars, diskVars, procVars,
                   passVars, chatVars>>

----------------------------------------------------------------------------
(* RabbitMQ, as the publisher sees it: publishMessage resolves 'published' *)
(* once the broker confirmed, 'unconfirmed' when it nacks or the channel   *)
(* closes first                                                            *)

ChannelUp ==
    /\ up /\ ~channelUp
    /\ channelUp' = TRUE
    /\ UNCHANGED <<flight, copies, envVars, faults, storeVars, writeVars, diskVars, procVars,
                   passVars, chatVars>>

Land(a, m) ==
    /\ <<a, m, "sent">> \in flight
    /\ flight' = (flight \ {<<a, m, "sent">>}) \cup {<<a, m, "landed">>}
    /\ copies' = [copies EXCEPT ![m] = MinOf(@ + 1, 2)]
    /\ UNCHANGED <<channelUp, envVars, faults, storeVars, writeVars, diskVars, procVars,
                   passVars, chatVars>>

\* Mutant: an unconfirmed message leaves no gap behind.
ScanUnconfirmedForgotten(m) ==
    /\ batch' = batch \ {m}
    /\ phase' = "scan"
    /\ UNCHANGED <<passStartedAt, floor, allConfirmed, todoChats, lastSeen, chat, anchorSeen,
                   scanFrom, gap, through>>
\* The awaited publish of the scan came back unconfirmed: the message is still owed.
ScanUnconfirmed(m) ==
    /\ gap' = TRUE
    /\ batch' = batch \ {m}
    /\ phase' = "scan"
    /\ UNCHANGED <<passStartedAt, floor, allConfirmed, todoChats, lastSeen, chat, anchorSeen,
                   scanFrom, through>>

Nack(a, m) ==
    /\ Fault
    /\ <<a, m, "sent">> \in flight
    /\ flight' = flight \ {<<a, m, "sent">>}
    /\ \/ a = "scan" /\ ScanUnconfirmed(m)
       \/ a = "live" /\ UNCHANGED <<passVars, chatVars>>
    /\ UNCHANGED <<channelUp, copies, envVars, storeVars, writeVars, diskVars, procVars>>

\* Every publish still waiting for its confirm gets an error, whether or not it landed.
ChannelLost ==
    /\ Fault
    /\ channelUp
    /\ channelUp' = FALSE
    /\ flight' = {}
    /\ \/ phase = "await" /\ \E m \in batch : IsFirst(m, batch) /\ ScanUnconfirmed(m)
       \/ phase # "await" /\ UNCHANGED <<passVars, chatVars>>
    /\ UNCHANGED <<copies, envVars, storeVars, writeVars, diskVars, procVars>>

----------------------------------------------------------------------------
(* The live handler *)

record(m) ==
    /\ processed' = processed \cup {m}
    /\ persistTimer' = TRUE

\* Mutant: the id is remembered when the publish is handed over, not when it is confirmed.
handleLiveMessageEager(m) ==
    /\ m \in events
    /\ events' = events \ {m}
    /\ IF isDue(m, historyFloor) /\ isAllowed(ChatOf[m]) /\ channelUp
       THEN /\ flight' = flight \cup {<<"live", m, "sent">>}
            /\ record(m)
       ELSE UNCHANGED <<flight, processed, persistTimer>>
    /\ UNCHANGED <<now, visible, ready, faults, channelUp, copies, anchor, watermark, savedAt,
                   queued, writing, snapProcessed, snapAnchor, snapWatermark, diskVars,
                   procVars, passVars, chatVars>>

handleLiveMessage(m) ==
    /\ m \in events
    /\ events' = events \ {m}
    /\ flight' = IF isDue(m, historyFloor) /\ isAllowed(ChatOf[m]) /\ channelUp
                 THEN flight \cup {<<"live", m, "sent">>}
                 ELSE flight
    /\ UNCHANGED <<now, visible, ready, faults, channelUp, copies, storeVars, writeVars,
                   diskVars, procVars, passVars, chatVars>>

\* The event never fires: the session dropped it.
DropEvent(m) ==
    /\ Fault
    /\ m \in events
    /\ events' = events \ {m}
    /\ UNCHANGED <<now, visible, ready, brokerVars, storeVars, writeVars, diskVars, procVars,
                   passVars, chatVars>>

LiveConfirmed(m) ==
    /\ <<"live", m, "landed">> \in flight
    /\ flight' = flight \ {<<"live", m, "landed">>}
    /\ record(m)
    /\ UNCHANGED <<channelUp, copies, envVars, faults, anchor, watermark, savedAt, queued,
                   writing, snapProcessed, snapAnchor, snapWatermark, diskVars, procVars,
                   passVars, chatVars>>

----------------------------------------------------------------------------
(* The reconcile pass *)

\* The timer asks every interval, and the settled session once: no pass is running, the history
\* is loaded and the session is ready and settled.
canReconcile == phase = "idle" /\ up /\ ready

PassStart ==
    /\ canReconcile
    /\ phase' = "list"
    /\ passStartedAt' = now
    /\ floor' = historyFloor
    /\ allConfirmed' = TRUE
    /\ UNCHANGED <<todoChats, lastSeen, chatVars, envVars, faults, brokerVars, storeVars,
                   writeVars, diskVars, procVars>>

\* Mutant: the pass counts as complete although chats it was to walk were not loaded.
AlwaysComplete(loaded) == TRUE
\* Chats not loaded yet make a pass incomplete only under an allowlist: the bulk read, and
\* the per-chat fallback that lists the ids it will then look up, never see them.
Complete(loaded) == Allowed # {} => Allowed \subseteq loaded

listChats ==
    /\ phase = "list" /\ ready
    /\ \E slow \in SUBSET SlowToLoad, bad \in SUBSET Unreadable :
          LET loaded == Chats \ slow IN
          /\ todoChats' = (Scope \cap loaded) \ bad
          /\ allConfirmed' = Complete(loaded)
    /\ \E last \in [Chats -> visible \cup {None}] :
          /\ \A c \in Chats : IF History(c) = {} THEN last[c] = None
                              ELSE IsLast(last[c], History(c))
          /\ lastSeen' = last
    /\ phase' = "chat"
    /\ UNCHANGED <<passStartedAt, floor, chatVars, envVars, faults, brokerVars, storeVars,
                   writeVars, diskVars, procVars>>

\* Mutant: a chat is skipped because its anchor is set, whatever its last message is.
NothingNewHasty(c) == anchor[c] # None
\* What an unread count of zero lets the pass skip: the last message is the anchor, or the
\* chat ends before what has to be scanned. Both come from the snapshot the list returned.
NothingNew(c) ==
    \/ anchor[c] # None /\ lastSeen[c] = anchor[c]
    \/ (IF lastSeen[c] = None THEN 0 ELSE Ts[lastSeen[c]]) < ScanFrom(anchor[c])

\* The unread count belongs to the phone's user: zero or not is not for the pass to say.
SkipChat(c) ==
    /\ phase = "chat" /\ c \in todoChats
    /\ NothingNew(c)
    /\ todoChats' = todoChats \ {c}
    /\ UNCHANGED <<phase, passStartedAt, floor, allConfirmed, lastSeen, chatVars, envVars,
                   faults, brokerVars, storeVars, writeVars, diskVars, procVars>>

OpenChat(c) ==
    /\ phase = "chat" /\ c \in todoChats
    /\ chat' = c
    /\ anchorSeen' = anchor[c]
    /\ scanFrom' = ScanFrom(anchor[c])
    /\ todoChats' = todoChats \ {c}
    /\ phase' = "fetch"
    /\ UNCHANGED <<passStartedAt, floor, allConfirmed, lastSeen, batch, gap, through, envVars,
                   faults, brokerVars, storeVars, writeVars, diskVars, procVars>>

FetchHistory ==
    /\ phase = "fetch" /\ ready
    /\ batch' \in fetchBackTo(History(chat), anchorSeen, scanFrom)
    /\ gap' = FALSE
    /\ through' = None
    /\ phase' = "scan"
    /\ UNCHANGED <<passStartedAt, floor, allConfirmed, todoChats, lastSeen, chat, anchorSeen,
                   scanFrom, envVars, faults, brokerVars, storeVars, writeVars, diskVars,
                   procVars>>

\* A fetch that fails for a reason of its own costs this chat its confirmation only.
FetchFails ==
    /\ Fault
    /\ phase = "fetch"
    /\ allConfirmed' = FALSE
    /\ phase' = "chat"
    /\ ChatReturns
    /\ UNCHANGED <<passStartedAt, floor, todoChats, lastSeen, envVars, brokerVars, storeVars,
                   writeVars, diskVars, procVars>>

\* A page call that throws ends the pass: always when the page is gone, else by a fault.
PassFails ==
    /\ phase \in {"list", "fetch"}
    /\ IF ready THEN Fault ELSE UNCHANGED faults
    /\ phase' = "idle"
    /\ ChatReturns /\ PassReturns
    /\ UNCHANGED <<envVars, brokerVars, storeVars, writeVars, diskVars, procVars>>

\* Mutant: the anchor follows the scan past a message that was not confirmed.
ThroughAnyway(m) == through' = m
\* The anchor stops short of the first message still owed.
CompleteThrough(m) == through' = IF gap THEN through ELSE m

\* One iteration over a message that needs no publish: not due, or filtered.
ScanPassOver(m) ==
    /\ phase = "scan" /\ IsFirst(m, batch)
    /\ ~isDue(m, scanFrom) \/ ~isAllowed(chat)
    /\ CompleteThrough(m)
    /\ batch' = batch \ {m}
    /\ UNCHANGED <<passVars, chat, anchorSeen, scanFrom, gap, envVars, faults, brokerVars,
                   storeVars, writeVars, diskVars, procVars>>

ScanPublish(m) ==
    /\ phase = "scan" /\ IsFirst(m, batch)
    /\ isDue(m, scanFrom) /\ isAllowed(chat)
    /\ channelUp
    /\ flight' = flight \cup {<<"scan", m, "sent">>}
    /\ phase' = "await"
    /\ UNCHANGED <<passStartedAt, floor, allConfirmed, todoChats, lastSeen, chatVars, envVars,
                   faults, channelUp, copies, storeVars, writeVars, diskVars, procVars>>

\* No channel: publishMessage reports 'unconfirmed' at once.
ScanNoChannel(m) ==
    /\ phase = "scan" /\ IsFirst(m, batch)
    /\ isDue(m, scanFrom) /\ isAllowed(chat)
    /\ ~channelUp
    /\ ScanUnconfirmed(m)
    /\ UNCHANGED <<envVars, faults, brokerVars, storeVars, writeVars, diskVars, procVars>>

ScanConfirmed(m) ==
    /\ phase = "await"
    /\ <<"scan", m, "landed">> \in flight
    /\ flight' = flight \ {<<"scan", m, "landed">>}
    /\ record(m)
    /\ CompleteThrough(m)
    /\ batch' = batch \ {m}
    /\ phase' = "scan"
    /\ UNCHANGED <<passStartedAt, floor, allConfirmed, todoChats, lastSeen, chat, anchorSeen,
                   scanFrom, gap, channelUp, copies, envVars, faults, anchor, watermark,
                   savedAt, queued, writing, snapProcessed, snapAnchor, snapWatermark,
                   diskVars, procVars>>

\* Mutant: any mark replaces the anchor.
advanceAnchorAlways(c, m) ==
    /\ anchor' = [anchor EXCEPT ![c] = m]
    /\ persistTimer' = TRUE
\* An older mark than the current one is ignored.
advanceAnchor(c, m) ==
    IF anchor[c] # None /\ (anchor[c] = m \/ Ts[anchor[c]] > Ts[m])
    THEN UNCHANGED <<anchor, persistTimer>>
    ELSE /\ anchor' = [anchor EXCEPT ![c] = m]
         /\ persistTimer' = TRUE

ChatDone ==
    /\ phase = "scan" /\ batch = {}
    /\ IF through # None THEN advanceAnchor(chat, through)
                         ELSE UNCHANGED <<anchor, persistTimer>>
    /\ allConfirmed' = (allConfirmed /\ ~gap)
    /\ phase' = "chat"
    /\ ChatReturns
    /\ UNCHANGED <<passStartedAt, floor, todoChats, lastSeen, envVars, faults, brokerVars,
                   processed, watermark, savedAt, queued, writing, snapProcessed,
                   snapAnchor, snapWatermark, diskVars, procVars>>

advanceWatermark(t) ==
    IF watermark >= t
    THEN UNCHANGED <<watermark, persistTimer>>
    ELSE /\ watermark' = t
         /\ persistTimer' = (persistTimer \/ t - savedAt >= WatermarkInterval)

PassDone ==
    /\ phase = "chat" /\ todoChats = {}
    /\ IF allConfirmed THEN advanceWatermark(passStartedAt)
                       ELSE UNCHANGED <<watermark, persistTimer>>
    /\ phase' = "idle"
    /\ PassReturns
    /\ UNCHANGED <<chatVars, envVars, faults, brokerVars, processed, anchor, savedAt,
                   queued, writing, snapProcessed, snapAnchor, snapWatermark, diskVars, procVars>>

----------------------------------------------------------------------------
(* Persistence of the store *)

PersistTimerFires ==
    /\ persistTimer /\ queued < MaxWrites
    /\ persistTimer' = FALSE
    /\ queued' = queued + 1
    /\ UNCHANGED <<writing, snapProcessed, snapAnchor, snapWatermark, storeVars, envVars,
                   faults, brokerVars, diskVars, procVars, passVars, chatVars>>

\* Mutant: a write that was not queued.
NextWriteUnqueued == ~writing
\* writeQueue: one write after the other.
NextWrite == queued > 0 /\ ~writing

\* persist: prune in memory, take the payload, start writing the temporary file.
PersistStart ==
    /\ NextWrite
    /\ queued' = queued - 1
    /\ writing' = TRUE
    /\ processed' = PrunedSet(processed)
    /\ anchor' = PrunedAnchors(anchor)
    /\ snapProcessed' = processed'
    /\ snapAnchor' = anchor'
    /\ snapWatermark' = watermark
    /\ UNCHANGED <<persistTimer, watermark, savedAt, envVars, faults, brokerVars, diskVars,
                   procVars, passVars, chatVars>>

\* The rename: the file is the payload, whatever has changed in memory since. What counts
\* as saved is the watermark of this moment, not the one in the file.
PersistDone ==
    /\ writing
    /\ writing' = FALSE
    /\ diskProcessed' = snapProcessed
    /\ diskAnchor' = snapAnchor
    /\ diskWatermark' = snapWatermark
    /\ savedAt' = watermark
    /\ PersistReturns
    /\ UNCHANGED <<persistTimer, queued, processed, anchor, watermark, envVars, faults,
                   brokerVars, procVars, passVars, chatVars>>

PersistFails ==
    /\ Fault
    /\ writing
    /\ writing' = FALSE
    /\ PersistReturns
    /\ UNCHANGED <<persistTimer, queued, storeVars, envVars, brokerVars, diskVars, procVars,
                   passVars, chatVars>>

----------------------------------------------------------------------------
(* The process *)

\* A publish already on the wire may still reach the broker.
Crash ==
    /\ Fault
    /\ up
    /\ up' = FALSE
    /\ ready' = FALSE /\ events' = {}
    /\ channelUp' = FALSE
    /\ flight' = {}
    /\ \E late \in SUBSET {f \in flight : f[3] = "sent"} :
          LET copy(a, m) == IF <<a, m, "sent">> \in late THEN 1 ELSE 0
          IN copies' = [m \in Msgs |->
                           MinOf(copies[m] + copy("live", m) + copy("scan", m), 2)]
    /\ processed' = {} /\ anchor' = [c \in Chats |-> None] /\ watermark' = 0 /\ savedAt' = 0
    /\ persistTimer' = FALSE /\ queued' = 0 /\ writing' = FALSE
    /\ phase' = "idle"
    /\ ChatReturns /\ PassReturns /\ PersistReturns
    /\ UNCHANGED <<now, visible, startedAt, diskVars>>

\* read: the file as it is, less what has left the retention window.
ReadHistory ==
    /\ processed' = PrunedSet(diskProcessed)
    /\ anchor' = PrunedAnchors(diskAnchor)
    /\ watermark' = diskWatermark
    /\ UNCHANGED faults
\* A file that cannot be read is logged, and the history starts empty; the next persist
\* replaces the file.
StartEmpty ==
    /\ Fault
    /\ processed' = {} /\ anchor' = [c \in Chats |-> None] /\ watermark' = 0

\* The process starts and loads its history.
Restart ==
    /\ ~up
    /\ up' = TRUE
    /\ startedAt' = now
    /\ ReadHistory \/ StartEmpty
    /\ savedAt' = watermark'
    /\ UNCHANGED <<envVars, brokerVars, writeVars, diskVars, passVars, chatVars>>

----------------------------------------------------------------------------
PassStep ==
    \/ PassStart \/ listChats
    \/ \E c \in Chats : SkipChat(c) \/ OpenChat(c)
    \/ FetchHistory \/ FetchFails \/ PassFails
    \/ \E m \in Msgs :
          ScanPassOver(m) \/ ScanPublish(m) \/ ScanNoChannel(m) \/ ScanConfirmed(m)
    \/ ChatDone \/ PassDone

Next ==
    \/ Tick
    \/ \E m \in Msgs : Arrive(m) \/ handleLiveMessage(m) \/ DropEvent(m) \/ LiveConfirmed(m)
    \/ SessionReady \/ SessionLost
    \/ ChannelUp \/ ChannelLost
    \/ \E a \in Actors, m \in Msgs : Land(a, m) \/ Nack(a, m)
    \/ PassStep
    \/ PersistTimerFires \/ PersistStart \/ PersistDone \/ PersistFails
    \/ Crash \/ Restart

Spec == Init /\ [][Next]_vars

----------------------------------------------------------------------------
(* Properties *)

\* The types, by the part of the system that keeps the variable.
WorldType ==
    /\ now \in Nat /\ visible \subseteq Msgs /\ events \subseteq visible
    /\ ready \in BOOLEAN /\ faults \in Nat
BrokerType ==
    /\ channelUp \in BOOLEAN
    /\ flight \subseteq Actors \X Msgs \X Stages
    /\ copies \in [Msgs -> 0 .. 2]
StoreType ==
    /\ up \in BOOLEAN /\ startedAt \in Nat
    /\ processed \subseteq Msgs /\ anchor \in [Chats -> Msgs \cup {None}]
    /\ watermark \in Nat /\ savedAt \in Nat
    /\ persistTimer \in BOOLEAN /\ queued \in Nat
DiskType ==
    /\ writing \in BOOLEAN
    /\ snapProcessed \subseteq Msgs /\ snapAnchor \in [Chats -> Msgs \cup {None}]
    /\ snapWatermark \in Nat
    /\ diskProcessed \subseteq Msgs /\ diskAnchor \in [Chats -> Msgs \cup {None}]
    /\ diskWatermark \in Nat
PassType ==
    /\ phase \in Phases /\ passStartedAt \in Nat /\ floor \in Int
    /\ allConfirmed \in BOOLEAN /\ todoChats \subseteq Chats
    /\ lastSeen \in [Chats -> Msgs \cup {None}]
    /\ chat \in Chats \cup {None} /\ anchorSeen \in Msgs \cup {None} /\ scanFrom \in Int
    /\ batch \subseteq Msgs /\ gap \in BOOLEAN /\ through \in Msgs \cup {None}

\* Every variable has its type; in particular an event is only of a message that is visible,
\* and what is in flight was published by one of the two actors.
TypeOK == WorldType /\ BrokerType /\ StoreType /\ DiskType /\ PassType

\* A message the gateway no longer owes: not its to forward, already with the broker, or
\* older than the backfill ever reaches.
Settled(m) == m \notin Wanted \/ copies[m] > 0 \/ Ts[m] < historyFloor

\* Everything the history remembers, in memory, in a payload being written or on disk, did
\* reach the broker: an id is recorded only once its publish was confirmed, so no crash or
\* lost channel can make the store skip a message that never left.
HistorySafe == \A m \in processed \cup snapProcessed \cup diskProcessed : copies[m] > 0

SettledThrough(a, c) == a # None => \A m \in History(c) : UpTo(m, a) => Settled(m)

\* "The anchor never moves past a message RabbitMQ has not confirmed" (README): whatever is
\* at or before a chat's anchor, in memory or on disk, is settled. It holds while messages
\* surface in order and a chat owes no more than the per-chat ceiling.
AnchorSafe == \A c \in Chats : SettledThrough(anchor[c], c) /\ SettledThrough(diskAnchor[c], c)

\* The watermark is "the start of the last scan that confirmed every chat": every message
\* stamped before it, in any chat, is settled, so a chat without an anchor may start there.
WatermarkSafe == \A m \in visible : Ts[m] < MaxOf(watermark, diskWatermark) => Settled(m)

\* While the process runs, an anchor moves to an older message only by being pruned: neither
\* a scan that stops at a gap nor one that overlaps a prune sets it back.
AnchorKeepsUp ==
    [][up /\ up' => \A c \in Chats :
            anchor[c] # None /\ anchor'[c] # None => Ts[anchor'[c]] >= Ts[anchor[c]]]_vars

\* "Nothing is published twice" by rescans: with no live events racing them (~LiveEvents), and
\* where no answer of the broker is cut off and no history is lost (RescanSpec), no message
\* reaches the exchange more than once, nacks, failed writes and restarts included.
NoDuplicates == \A m \in Msgs : copies[m] <= 1

\* A lost channel and a crash leave no publish behind that the broker took, or still takes,
\* without the process hearing of it.
AnswersHeard ==
    ChannelLost \/ Crash =>
        UNCHANGED copies /\ \A a \in Actors, m \in Msgs : <<a, m, "landed">> \notin flight
\* The process ends with its history written, and starts with the history that was written.
HistoryKept ==
    /\ Crash => processed \subseteq diskProcessed
    /\ Restart => PrunedSet(diskProcessed) \subseteq processed'
RescanSpec == Init /\ [][Next /\ AnswersHeard /\ HistoryKept]_vars

----------------------------------------------------------------------------
(* Fairness: the retries of the process are not given up (restart by the   *)
(* platform, re-initialisation of the session, reconnect of the channel),  *)
(* the timer keeps starting passes and their page calls return, and an     *)
(* open channel delivers. Nothing is assumed of arrivals, of the clock, of *)
(* live events and confirms, of the disk, or of what fails.                *)

Recover == Restart \/ SessionReady \/ ChannelUp
Deliver == \E a \in Actors, m \in Msgs : Land(a, m)
Fairness == WF_vars(Recover) /\ WF_vars(PassStep) /\ WF_vars(Deliver)

FairSpec == Spec /\ Fairness

\* A message that should be forwarded reaches the broker, or ages out of the backfill
\* window first, whatever crashed, was dropped or was refused on the way.
NothingLost == \A m \in Msgs : m \in visible ~> Settled(m)
============================================================================
