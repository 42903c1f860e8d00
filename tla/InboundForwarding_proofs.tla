---------------------- MODULE InboundForwarding_proofs ----------------------
(***************************************************************************)
(* Proofs about InboundForwarding for every set of chats and messages,     *)
(* every timestamp, clock, fault budget and configuration.                 *)
(*                                                                         *)
(* AnchorSafe and WatermarkSafe need each other and need the environment    *)
(* the README promises them in, stated as DeliveryAssumption in the        *)
(* theorems that use it.                                                   *)
(***************************************************************************)
EXTENDS InboundForwarding, FiniteSetTheorems, WellFoundedInduction, TLAPS

USE DEF Actors, Stages, Phases,
        vars, envVars, brokerVars, storeVars, writeVars, diskVars, procVars, passVars, chatVars

----------------------------------------------------------------------------
(* The order of messages *)

\* Precedes is a strict total order on messages, and agrees with the timestamps.
LEMMA PrecedesOrder ==
    /\ \A m \in Msgs : ~Precedes(m, m)
    /\ \A m, n \in Msgs : m = n \/ Precedes(m, n) \/ Precedes(n, m)
    /\ \A m, n \in Msgs : Precedes(m, n) => ~Precedes(n, m) /\ Ts[m] <= Ts[n]
    /\ \A m, n, k \in Msgs : Precedes(m, n) /\ Precedes(n, k) => Precedes(m, k)
  BY MsgsAssumption DEF Precedes

\* Newest(S, n) is closed upwards: what it leaves out precedes everything it holds.
LEMMA NewestIsLast ==
    ASSUME NEW S \in SUBSET Msgs, NEW n \in Nat, NEW m \in S \ Newest(S, n),
           NEW x \in Newest(S, n)
    PROVE  Precedes(m, x)
<1> DEFINE After(y) == {z \in S : Precedes(y, z)}
<1>1. x \in S /\ Cardinality(After(x)) < n /\ ~(Cardinality(After(m)) < n)
  BY DEF Newest
<1>2. IsFiniteSet(After(x)) /\ IsFiniteSet(After(m))
  BY MsgsAssumption, FS_Subset
<1>3. Cardinality(After(x)) \in Nat /\ Cardinality(After(m)) \in Nat
  BY <1>2, FS_CardinalityType
<1>4. m # x
  BY <1>1
<1>5. ASSUME Precedes(x, m) PROVE FALSE
  <2>1. After(m) \subseteq After(x)
    BY <1>1, <1>5, PrecedesOrder
  <2>2. Cardinality(After(m)) <= Cardinality(After(x))
    BY <1>2, <2>1, FS_Subset
  <2> QED
    BY <1>1, <1>3, <2>2
<1> QED
  BY <1>1, <1>4, <1>5, PrecedesOrder

\* A fetch that returns fewer messages than it asked for returned them all.
LEMMA NewestExhausts ==
    ASSUME NEW S \in SUBSET Msgs, NEW n \in Nat, Cardinality(Newest(S, n)) < n
    PROVE  Newest(S, n) = S
<1> DEFINE After(y) == {z \in S : Precedes(y, z)}
           Left == S \ Newest(S, n)
           Ranks == {Cardinality(After(y)) : y \in Left}
<1>1. SUFFICES ASSUME Left # {} PROVE FALSE
  BY DEF Newest
<1>2. \A y \in S : IsFiniteSet(After(y)) /\ Cardinality(After(y)) \in Nat
  BY MsgsAssumption, FS_Subset, FS_CardinalityType
<1>3. Ranks \subseteq Nat /\ Ranks # {}
  BY <1>1, <1>2
<1>4. PICK r \in Ranks : \A q \in Ranks : ~(q < r)
  <2> HIDE DEF Ranks
  <2>1. \E r \in Ranks : \A q \in Ranks : <<q, r>> \notin OpToRel(<, Nat)
    BY <1>3, NatLessThanWellFounded, WFMin
  <2> QED
    BY <1>3, <2>1 DEF OpToRel
<1>5. PICK m \in Left : r = Cardinality(After(m))
  OBVIOUS
<1>6. ASSUME NEW y \in After(m) PROVE y \in Newest(S, n)
  <2>1. m \in S /\ y \in S /\ Precedes(m, y) /\ m \in Msgs /\ y \in Msgs
    BY <1>6
  <2>2. After(y) \subseteq After(m) /\ y \in After(m) /\ y \notin After(y)
    BY <2>1, PrecedesOrder
  <2>3. Cardinality(After(y)) < Cardinality(After(m))
    <3>1. Cardinality(After(y)) <= Cardinality(After(m))
      BY <1>2, <2>1, <2>2, FS_Subset
    <3>2. Cardinality(After(y)) # Cardinality(After(m))
      BY <1>2, <2>1, <2>2, FS_Subset
    <3> QED
      BY <1>2, <2>1, <3>1, <3>2
  <2> QED
    BY <1>4, <1>5, <2>1, <2>3
<1>7. IsFiniteSet(Newest(S, n))
  BY MsgsAssumption, FS_Subset DEF Newest
<1>8. Cardinality(After(m)) <= Cardinality(Newest(S, n))
  <2>1. After(m) \subseteq Newest(S, n)
    BY <1>6
  <2> QED
    BY <1>7, <2>1, FS_Subset
<1>9. Cardinality(After(m)) < n
  BY <1>2, <1>5, <1>7, <1>8, FS_CardinalityType
<1> QED
  BY <1>5, <1>9 DEF Newest

\* What fetchBackTo leaves out precedes the anchor, or is older than scanFrom, as long as the
\* chat has no more messages to scan than the per-chat ceiling.
LEMMA FetchReachesBack ==
    ASSUME NEW S \in SUBSET Msgs, NEW a, NEW from \in Int,
           Cardinality({x \in S : Ts[x] >= from}) <= Ceiling,
           NEW fetched \in fetchBackTo(S, a, from)
    PROVE  /\ fetched \subseteq S
           /\ \A m \in S \ fetched : \/ a \in fetched /\ Precedes(m, a)
                                     \/ Ts[m] < from
<1> DEFINE Young == {x \in S : Ts[x] >= from}
<1>1. PICK l \in Limits : fetched = Newest(S, l) /\ StopsAt(S, l, a, from)
  BY DEF fetchBackTo
<1>2. l \in Nat /\ Ceiling \in Nat
  BY <1>1, ConfigAssumption DEF Limits, Ceiling, MaxOf
<1>3. fetched \subseteq S
  BY <1>1 DEF Newest
<1>4. SUFFICES ASSUME NEW m \in S \ fetched
               PROVE  (a \in fetched /\ Precedes(m, a)) \/ Ts[m] < from
  BY <1>3
<1>5. \A x \in fetched : Precedes(m, x)
  BY <1>1, <1>2, NewestIsLast
<1>6. ~(Cardinality(fetched) < l)
  BY <1>1, <1>2, NewestExhausts
<1>7. IsFiniteSet(Young) /\ IsFiniteSet(fetched)
  BY <1>3, MsgsAssumption, FS_Subset
<1>8. Cardinality(fetched) \in Nat /\ Cardinality(Young) \in Nat
  BY <1>7, FS_CardinalityType
<1>9. a \in fetched \/ (\E x \in fetched : Ts[x] < from) \/ fetched = Young
  <2> SUFFICES ASSUME a \notin fetched, \A x \in fetched : ~(Ts[x] < from)
               PROVE  fetched = Young
    OBVIOUS
  <2>1. l >= Ceiling
    BY <1>1, <1>6 DEF StopsAt
  <2>2. fetched \subseteq Young
    BY <1>3, MsgsAssumption
  <2>3. Cardinality(fetched) <= Cardinality(Young)
    BY <1>7, <2>2, FS_Subset
  <2>4. Cardinality(fetched) = Cardinality(Young)
    BY <1>2, <1>6, <1>8, <2>1, <2>3
  <2> QED
    BY <1>7, <2>2, <2>4, FS_Subset
<1>10. \A x \in fetched : Ts[m] <= Ts[x] /\ Ts[m] \in Nat /\ Ts[x] \in Nat
  BY <1>3, <1>5, PrecedesOrder, MsgsAssumption
<1>11. Ts[m] \in Nat /\ m \in S /\ m \notin fetched
  BY MsgsAssumption
<1>12. CASE fetched = Young
  BY <1>11, <1>12
<1> QED
  BY <1>5, <1>9, <1>10, <1>12
----------------------------------------------------------------------------
(* Type correctness *)

\* Every variable keeps its type through every action.
LEMMA TypeStep == TypeOK /\ [Next]_vars => TypeOK'
<1> SUFFICES ASSUME TypeOK, [Next]_vars PROVE TypeOK'
  OBVIOUS
<1> USE DEF TypeOK, WorldType, BrokerType, StoreType, DiskType, PassType
<1>1. ASSUME Tick PROVE TypeOK'
  BY <1>1 DEF Tick
<1>2. ASSUME NEW m \in Msgs, Arrive(m) PROVE TypeOK'
  BY <1>2 DEF Arrive, History
<1>3. ASSUME SessionReady PROVE TypeOK'
  BY <1>3 DEF SessionReady
<1>4. ASSUME SessionLost PROVE TypeOK'
  <2>1. ready' \in BOOLEAN
    BY <1>4, Zenon DEF SessionLost
  <2> QED
    BY <1>4, <2>1, EnvironmentAssumption DEF SessionLost, Fault
<1>5. ASSUME ChannelUp PROVE TypeOK'
  BY <1>5 DEF ChannelUp
<1>6. ASSUME NEW a \in Actors, NEW m \in Msgs, Land(a, m) PROVE TypeOK'
  BY <1>6 DEF Land, MinOf
<1>7. ASSUME NEW a \in Actors, NEW m \in Msgs, Nack(a, m) PROVE TypeOK'
  <2>1. gap' \in BOOLEAN
    BY <1>7, Zenon DEF Nack, ScanUnconfirmed
  <2> QED
    BY <1>7, <2>1, EnvironmentAssumption DEF Nack, Fault, ScanUnconfirmed
<1>8. ASSUME ChannelLost PROVE TypeOK'
  <2>1. channelUp' \in BOOLEAN /\ gap' \in BOOLEAN
    BY <1>8, Zenon DEF ChannelLost, ScanUnconfirmed
  <2>2. PassType'
    <3>1. CASE phase = "await"
      BY <1>8, <2>1, <3>1 DEF ChannelLost, ScanUnconfirmed
    <3>2. CASE phase # "await"
      BY <1>8, <3>2 DEF ChannelLost
    <3> QED
      BY <3>1, <3>2
  <2> QED
    BY <1>8, <2>1, <2>2, EnvironmentAssumption DEF ChannelLost, Fault, ScanUnconfirmed
<1>9. ASSUME NEW m \in Msgs, handleLiveMessage(m) PROVE TypeOK'
  BY <1>9 DEF handleLiveMessage
<1>10. ASSUME NEW m \in Msgs, DropEvent(m) PROVE TypeOK'
  BY <1>10 DEF DropEvent, Fault
<1>11. ASSUME NEW m \in Msgs, LiveConfirmed(m) PROVE TypeOK'
  BY <1>11 DEF LiveConfirmed, record
<1>12. ASSUME PassStart PROVE TypeOK'
  BY <1>12, ConfigAssumption DEF PassStart, canReconcile, historyFloor, MaxOf
<1>13. ASSUME listChats PROVE TypeOK'
  BY <1>13, ConfigAssumption DEF listChats, Complete, Scope
<1>14. ASSUME NEW c \in Chats, SkipChat(c) PROVE TypeOK'
  BY <1>14 DEF SkipChat
<1>15. ASSUME NEW c \in Chats, OpenChat(c) PROVE TypeOK'
  BY <1>15, ConfigAssumption, MsgsAssumption DEF OpenChat, ScanFrom, MaxOf
<1>16. ASSUME FetchHistory PROVE TypeOK'
  BY <1>16 DEF FetchHistory, fetchBackTo, Newest, History
<1>17. ASSUME FetchFails PROVE TypeOK'
  <2>1. allConfirmed' \in BOOLEAN /\ gap' \in BOOLEAN
    BY <1>17, Zenon DEF FetchFails, ChatReturns
  <2> QED
    BY <1>17, <2>1, EnvironmentAssumption DEF FetchFails, Fault, ChatReturns
<1>18. ASSUME PassFails PROVE TypeOK'
  <2>1. gap' \in BOOLEAN
    BY <1>18, Zenon DEF PassFails, ChatReturns
  <2> QED
    BY <1>18, <2>1, EnvironmentAssumption DEF PassFails, Fault, ChatReturns, PassReturns
<1>19. ASSUME NEW m \in Msgs, ScanPassOver(m) PROVE TypeOK'
  BY <1>19 DEF ScanPassOver, CompleteThrough
<1>20. ASSUME NEW m \in Msgs, ScanPublish(m) PROVE TypeOK'
  BY <1>20 DEF ScanPublish
<1>21. ASSUME NEW m \in Msgs, ScanNoChannel(m) PROVE TypeOK'
  BY <1>21 DEF ScanNoChannel, ScanUnconfirmed
<1>22. ASSUME NEW m \in Msgs, ScanConfirmed(m) PROVE TypeOK'
  BY <1>22 DEF ScanConfirmed, record, CompleteThrough
<1>23. ASSUME ChatDone PROVE TypeOK'
  <2>1. gap' \in BOOLEAN /\ allConfirmed' \in BOOLEAN
    BY <1>23, Zenon DEF ChatDone, ChatReturns
  <2>2. StoreType'
    BY <1>23 DEF ChatDone, advanceAnchor
  <2>3. PassType'
    BY <1>23, <2>1 DEF ChatDone, ChatReturns
  <2> QED
    BY <1>23, <2>2, <2>3 DEF ChatDone
<1>24. ASSUME PassDone PROVE TypeOK'
  BY <1>24 DEF PassDone, advanceWatermark, PassReturns
<1>25. ASSUME PersistTimerFires PROVE TypeOK'
  <2>1. persistTimer' \in BOOLEAN
    BY <1>25, Zenon DEF PersistTimerFires
  <2> QED
    BY <1>25, <2>1, EnvironmentAssumption DEF PersistTimerFires
<1>26. ASSUME PersistStart PROVE TypeOK'
  BY <1>26 DEF PersistStart, NextWrite, PrunedSet, PrunedAnchors
<1>27. ASSUME PersistDone PROVE TypeOK'
  <2>1. writing' \in BOOLEAN
    BY <1>27, Zenon DEF PersistDone
  <2> QED
    BY <1>27, <2>1 DEF PersistDone, PersistReturns
<1>28. ASSUME PersistFails PROVE TypeOK'
  <2>1. writing' \in BOOLEAN
    BY <1>28, Zenon DEF PersistFails
  <2> QED
    BY <1>28, <2>1, EnvironmentAssumption DEF PersistFails, Fault, PersistReturns
<1>29. ASSUME Crash PROVE TypeOK'
  <2>1. /\ up' \in BOOLEAN /\ ready' \in BOOLEAN /\ channelUp' \in BOOLEAN
        /\ persistTimer' \in BOOLEAN /\ writing' \in BOOLEAN /\ gap' \in BOOLEAN
    BY <1>29, Zenon DEF Crash, ChatReturns
  <2> QED
    BY <1>29, <2>1, EnvironmentAssumption
       DEF Crash, Fault, MinOf, ChatReturns, PassReturns, PersistReturns
<1>30. ASSUME Restart PROVE TypeOK'
  BY <1>30 DEF Restart, ReadHistory, StartEmpty, Fault, PrunedSet, PrunedAnchors
<1>31. CASE UNCHANGED vars
  BY <1>31
<1> QED
  BY <1>1, <1>2, <1>3, <1>4, <1>5, <1>6, <1>7, <1>8, <1>9, <1>10, <1>11, <1>12,
     <1>13, <1>14, <1>15, <1>16, <1>17, <1>18, <1>19, <1>20, <1>21, <1>22,
     <1>23, <1>24, <1>25, <1>26, <1>27, <1>28, <1>29, <1>30, <1>31 DEF Next, PassStep

\* The initial state is well typed.
LEMMA InitType == Init => TypeOK
<1> SUFFICES ASSUME Init PROVE TypeOK
  OBVIOUS
<1>1. /\ ready \in BOOLEAN /\ channelUp \in BOOLEAN /\ up \in BOOLEAN
      /\ persistTimer \in BOOLEAN /\ writing \in BOOLEAN /\ allConfirmed \in BOOLEAN
      /\ gap \in BOOLEAN
  BY Zenon DEF Init
<1> QED
  BY <1>1 DEF Init, TypeOK, WorldType, BrokerType, StoreType, DiskType, PassType

\* Every variable keeps its type for ever: the queue never goes negative, no mark names
\* anything but a message, no event is raised for a message WhatsApp does not show.
THEOREM TypeCorrect == Spec => []TypeOK
  BY InitType, TypeStep, PTL DEF Spec
----------------------------------------------------------------------------
(* The inductive invariant *)

\* The messages of chat c that a pass which starts at t may come to scan.
Window(c, t) ==
    {m \in Msgs : ChatOf[m] = c /\ t - BackfillMaxAge <= Ts[m] /\ Ts[m] <= t + MaxPassTime}

\* The environment the anchor is promised in: messages surface in order and in their own
\* second, a chat gets no more messages than the per-chat ceiling in the time of a backfill and
\* a pass, however many it holds, no chat to forward is unreadable, and a chat may be slow to
\* load only when an allowlist says what to expect.
DeliveryAssumption ==
    /\ PromptDelivery
    /\ \A c \in Chats, t \in Nat : Cardinality(Window(c, t)) <= Ceiling
    /\ Unreadable \cap Scope = {}
    /\ Allowed = {} => SlowToLoad = {}

\* A confirmed publish is one the broker has, and the history holds only those.
HistoryInv ==
    /\ HistorySafe
    /\ \A a \in Actors, m \in Msgs : <<a, m, "landed">> \in flight => copies[m] > 0

ClockInv ==
    /\ startedAt <= now
    /\ \A m \in visible : Ts[m] <= now

\* A mark of chat c, wherever it is kept, names one of its messages and is safe.
SafeMark(a, c) == a # None => a \in History(c) /\ SettledThrough(a, c)
AnchorInv ==
    \A c \in Chats : /\ SafeMark(anchor[c], c)
                     /\ SafeMark(snapAnchor[c], c)
                     /\ SafeMark(diskAnchor[c], c)

SafeBefore(w) == w <= now /\ \A m \in visible : Ts[m] < w => Settled(m)
WatermarkInv == SafeBefore(watermark) /\ SafeBefore(snapWatermark) /\ SafeBefore(diskWatermark)

InChat == phase \in {"fetch", "scan", "await"}
Listed == phase \notin {"idle", "list"}

\* The pass: its floor is one the clock has not overtaken, what it has seen of each chat
\* covers everything older than its start, and the chats it is done with owe nothing older
\* than that, unless it gave up its confirmation.
PassInv ==
    /\ phase # "idle" => passStartedAt <= now /\ floor <= historyFloor
    /\ ~InChat => chat = None
SeenInv ==
    Listed => \A c \in Chats :
        /\ lastSeen[c] # None => lastSeen[c] \in History(c)
        /\ \A m \in History(c) :
              Ts[m] < passStartedAt => lastSeen[c] # None /\ UpTo(m, lastSeen[c])
Done(c) == \A m \in History(c) : Ts[m] < passStartedAt => Settled(m)
DoneInv == Listed /\ allConfirmed => \A c \in Scope : c \in todoChats \/ c = chat \/ Done(c)

\* reconcileChat: nothing it will not scan is owed.
ChatInv ==
    InChat => /\ chat \in Chats
              /\ SafeMark(anchorSeen, chat)
              /\ scanFrom <= now
              /\ \A m \in History(chat) : Ts[m] < scanFrom => Settled(m)

\* The loop: as long as there is no gap, whatever precedes the rest of the batch is settled.
ScanInv ==
    phase \in {"scan", "await"} =>
        /\ batch \subseteq History(chat)
        /\ SafeMark(through, chat)
        /\ ~gap => \A m \in History(chat) \ batch :
              (Ts[m] < passStartedAt \/ \E b \in batch : Precedes(m, b)) => Settled(m)
AwaitInv ==
    \A m \in Msgs, s \in Stages :
        <<"scan", m, s>> \in flight =>
            /\ phase = "await" /\ IsFirst(m, batch)
            /\ \A t \in Stages : <<"scan", m, t>> \in flight => t = s

\* A pass scans nothing older than the backfill window of its start, which is not long ago.
WindowInv ==
    /\ phase # "idle" =>
        /\ now - passStartedAt <= MaxPassTime
        /\ passStartedAt - BackfillMaxAge <= floor
    /\ InChat => floor <= scanFrom

ForwardInv ==
    /\ TypeOK /\ HistoryInv /\ ClockInv
    /\ AnchorInv /\ WatermarkInv
    /\ PassInv /\ SeenInv /\ DoneInv /\ ChatInv /\ ScanInv /\ AwaitInv
    /\ WindowInv

----------------------------------------------------------------------------
(* What every step preserves: the broker never loses a copy, the backfill   *)
(* floor never moves back, and so what is settled stays settled            *)

\* The broker never loses a copy.
LEMMA CopiesGrow ==
    ASSUME TypeOK, [Next]_vars
    PROVE  \A m \in Msgs : copies[m] <= copies'[m]
<1>1. CASE \E a \in Actors, m \in Msgs : Land(a, m)
  BY <1>1 DEF Land, MinOf, TypeOK, BrokerType
<1>2. CASE Crash
  <2>1. PICK late \in SUBSET {f \in flight : f[3] = "sent"} :
            copies' = [m \in Msgs |->
                MinOf(copies[m] + (IF <<"live", m, "sent">> \in late THEN 1 ELSE 0)
                                + (IF <<"scan", m, "sent">> \in late THEN 1 ELSE 0), 2)]
    BY <1>2 DEF Crash
  <2>2. ASSUME NEW m \in Msgs, NEW i \in {0, 1}, NEW j \in {0, 1}
        PROVE  copies[m] <= MinOf(copies[m] + i + j, 2)
    BY DEF MinOf, TypeOK, BrokerType
  <2>3. SUFFICES ASSUME NEW m \in Msgs PROVE copies[m] <= copies'[m]
    OBVIOUS
  <2> DEFINE i == IF <<"live", m, "sent">> \in late THEN 1 ELSE 0
             j == IF <<"scan", m, "sent">> \in late THEN 1 ELSE 0
  <2>4. i \in {0, 1} /\ j \in {0, 1}
    OBVIOUS
  <2>5. copies'[m] = MinOf(copies[m] + i + j, 2)
    BY <2>1
  <2> HIDE DEF i, j
  <2> QED
    BY <2>2, <2>4, <2>5
<1>3. CASE UNCHANGED copies
  BY <1>3 DEF TypeOK, BrokerType
<1>4. \/ \E a \in Actors, m \in Msgs : Land(a, m)
      \/ Crash
      \/ UNCHANGED copies
  BY DEF Next, PassStep, Tick, Arrive, SessionReady, SessionLost, ChannelUp, Nack, ChannelLost,
         handleLiveMessage, DropEvent, LiveConfirmed, PassStart, canReconcile, listChats, SkipChat, OpenChat,
         FetchHistory, FetchFails, PassFails, ScanPassOver, ScanPublish, ScanNoChannel,
         ScanConfirmed, ChatDone, PassDone, PersistTimerFires, PersistStart, PersistDone,
         PersistFails, Restart, ReadHistory, StartEmpty, Fault
<1> QED
  BY <1>1, <1>2, <1>3, <1>4

\* Time moves forward, and what only Arrive, Tick and Restart change.
LEMMA WorldSteps ==
    ASSUME TypeOK, ClockInv, [Next]_vars
    PROVE  /\ now' \in Nat /\ now <= now'
           /\ startedAt' \in Nat /\ startedAt <= startedAt' /\ startedAt' <= now'
           /\ \/ UNCHANGED visible
              \/ UNCHANGED <<now, startedAt, phase>> /\ \E m \in Msgs : Arrive(m)
<1> USE DEF TypeOK, WorldType, StoreType, ClockInv
<1>1. CASE Tick
  BY <1>1 DEF Tick
<1>2. CASE \E m \in Msgs : Arrive(m)
  <2>1. UNCHANGED <<now, startedAt, phase>>
    BY <1>2 DEF Arrive
  <2> QED
    BY <1>2, <2>1
<1>3. CASE Restart
  BY <1>3 DEF Restart, ReadHistory, StartEmpty, Fault
<1>4. CASE UNCHANGED <<now, startedAt, visible>>
  BY <1>4
<1>5. \/ Tick
      \/ \E m \in Msgs : Arrive(m)
      \/ Restart
      \/ UNCHANGED <<now, startedAt, visible>>
  BY DEF Next, PassStep, SessionReady, SessionLost, ChannelUp, Land, Nack, ChannelLost,
         handleLiveMessage, DropEvent, LiveConfirmed, PassStart, canReconcile, listChats, SkipChat, OpenChat,
         FetchHistory, FetchFails, PassFails, ScanPassOver, ScanPublish, ScanNoChannel,
         ScanConfirmed, ChatDone, PassDone, PersistTimerFires, PersistStart, PersistDone,
         PersistFails, Crash
<1> QED
  BY <1>1, <1>2, <1>3, <1>4, <1>5

\* No message is stamped later than the clock.
LEMMA ClockStep ==
    ASSUME TypeOK, ClockInv, [Next]_vars
    PROVE  ClockInv'
<1>1. \A m \in visible' : m \in visible \/ Ts[m] <= now
  BY WorldSteps DEF Arrive
<1>2. visible' \subseteq Msgs
  BY TypeStep DEF TypeOK, WorldType
<1> QED
  BY <1>1, <1>2, WorldSteps, MsgsAssumption DEF ClockInv, TypeOK, WorldType

\* What is settled stays settled.
LEMMA SettledStays ==
    ASSUME TypeOK, ClockInv, [Next]_vars
    PROVE  /\ historyFloor <= historyFloor'
           /\ historyFloor \in Int /\ historyFloor' \in Int
           /\ \A m \in Msgs : Settled(m) => Settled(m)'
<1>1. /\ historyFloor <= historyFloor'
      /\ historyFloor \in Int /\ historyFloor' \in Int
  BY WorldSteps, ConfigAssumption DEF historyFloor, MaxOf, TypeOK, WorldType, StoreType
<1>2. \A m \in Msgs : copies[m] \in 0 .. 2 /\ copies'[m] \in 0 .. 2
  BY TypeStep DEF TypeOK, BrokerType
<1> HIDE DEF historyFloor
<1> QED
  BY <1>1, <1>2, CopiesGrow, MsgsAssumption DEF Settled

\* A chat only grows, by messages stamped now and later than all it holds.
LEMMA Arrivals ==
    ASSUME TypeOK, ClockInv, PromptDelivery, [Next]_vars, NEW c \in Chats
    PROVE  /\ History(c) \subseteq History(c)' /\ History(c)' \subseteq Msgs
           /\ \A m \in History(c)' \ History(c) :
                 Ts[m] = now /\ \A v \in History(c) : Precedes(v, m)
<1>1. CASE UNCHANGED visible
  BY <1>1 DEF History, TypeOK, WorldType
<1>2. CASE \E m \in Msgs : Arrive(m)
  BY <1>2 DEF Arrive, History, TypeOK, WorldType
<1> QED
  BY <1>1, <1>2, WorldSteps

\* A safe mark stays safe.
LEMMA MarkStays ==
    ASSUME TypeOK, ClockInv, PromptDelivery, [Next]_vars, NEW c \in Chats,
           NEW a \in Msgs \cup {None}, SafeMark(a, c)
    PROVE  SafeMark(a, c)'
<1>1. SUFFICES ASSUME a # None
               PROVE  a \in History(c)' /\ \A m \in History(c)' : UpTo(m, a) => Settled(m)'
  BY DEF SafeMark, SettledThrough
<1>2. a \in History(c) /\ \A m \in History(c) : UpTo(m, a) => Settled(m)
  BY <1>1 DEF SafeMark, SettledThrough
<1>3. ASSUME NEW m \in History(c)', UpTo(m, a) PROVE m \in History(c)
  BY <1>2, <1>3, Arrivals, PrecedesOrder DEF UpTo
<1> QED
  BY <1>2, <1>3, Arrivals, SettledStays

\* What is safe before w stays safe.
LEMMA BeforeStays ==
    ASSUME TypeOK, ClockInv, PromptDelivery, [Next]_vars, NEW w \in Nat, SafeBefore(w)
    PROVE  SafeBefore(w)'
<1>1. w <= now' /\ w <= now
  BY WorldSteps DEF SafeBefore, TypeOK, WorldType
<1>2. ASSUME NEW m \in visible', Ts[m] < w PROVE m \in visible
  BY <1>1, <1>2, WorldSteps, MsgsAssumption DEF Arrive, TypeOK, WorldType
<1>3. visible \subseteq Msgs
  BY DEF TypeOK, WorldType
<1> QED
  BY <1>1, <1>2, <1>3, SettledStays DEF SafeBefore

----------------------------------------------------------------------------
(* The history *)

\* An id enters the history only when the broker has the message, and every payload and
\* file is taken from the history.
LEMMA HistoryStep ==
    ASSUME TypeOK, HistoryInv, [Next]_vars
    PROVE  HistoryInv'
<1> DEFINE Kept == processed \cup snapProcessed \cup diskProcessed
<1>1. /\ \A m \in Msgs : copies[m] > 0 => copies'[m] > 0
      /\ \A m \in Msgs : copies[m] \in 0 .. 2 /\ copies'[m] \in 0 .. 2
  BY CopiesGrow, TypeStep DEF TypeOK, BrokerType
<1>2. Kept \subseteq Msgs /\ Kept' \subseteq Msgs
  BY TypeStep DEF TypeOK, StoreType, DiskType
<1>3. \A m \in Kept' : m \in Kept \/ \E a \in Actors : <<a, m, "landed">> \in flight
  <2>1. ASSUME NEW m \in Msgs, LiveConfirmed(m) \/ ScanConfirmed(m)
        PROVE  /\ Kept' = Kept \cup {m}
               /\ \E a \in Actors : <<a, m, "landed">> \in flight
    BY <2>1 DEF LiveConfirmed, ScanConfirmed, record
  <2>2. ASSUME PersistStart \/ PersistDone \/ PersistFails \/ Crash \/ Restart
        PROVE  Kept' \subseteq Kept
    BY <2>2 DEF PersistStart, PersistDone, PersistFails, Crash, Restart, ReadHistory, StartEmpty, Fault,
         PersistReturns,
                PrunedSet
  <2>3. \/ \E m \in Msgs : LiveConfirmed(m) \/ ScanConfirmed(m)
        \/ PersistStart \/ PersistDone \/ PersistFails \/ Crash \/ Restart
        \/ UNCHANGED <<processed, snapProcessed, diskProcessed>>
    BY DEF Next, PassStep, Tick, Arrive, SessionReady, SessionLost, ChannelUp, Land, Nack,
           ChannelLost, handleLiveMessage, DropEvent, PassStart, canReconcile, listChats, SkipChat,
           OpenChat, FetchHistory, FetchFails, PassFails, ScanPassOver, ScanPublish,
           ScanNoChannel, ChatDone, PassDone, PersistTimerFires
  <2> QED
    BY <2>1, <2>2, <2>3
<1>4. \A a \in Actors, m \in Msgs :
          <<a, m, "landed">> \in flight' => <<a, m, "landed">> \in flight \/ copies'[m] > 0
  <2>1. ASSUME NEW b \in Actors, NEW n \in Msgs, Land(b, n)
        PROVE  flight' \subseteq flight \cup {<<b, n, "landed">>} /\ copies'[n] > 0
    BY <2>1 DEF Land, MinOf, TypeOK, BrokerType
  <2>2. ASSUME NEW n \in Msgs, handleLiveMessage(n) \/ ScanPublish(n)
        PROVE  flight' \subseteq flight \cup {<<"live", n, "sent">>, <<"scan", n, "sent">>}
    BY <2>2 DEF handleLiveMessage, ScanPublish
  <2>3. \/ \E b \in Actors, n \in Msgs : Land(b, n)
        \/ \E n \in Msgs : handleLiveMessage(n) \/ ScanPublish(n)
        \/ flight' \subseteq flight
    BY DEF Next, PassStep, Tick, Arrive, SessionReady, SessionLost, ChannelUp, Nack,
           ChannelLost, DropEvent, LiveConfirmed, PassStart, canReconcile, listChats, SkipChat, OpenChat,
           FetchHistory, FetchFails, PassFails, ScanPassOver, ScanNoChannel, ScanConfirmed,
           ChatDone, PassDone, PersistTimerFires, PersistStart, PersistDone, PersistFails,
           Crash, Restart, ReadHistory, StartEmpty, Fault
  <2> QED
    BY <2>1, <2>2, <2>3
<1>5. HistorySafe'
  BY <1>1, <1>2, <1>3 DEF HistoryInv, HistorySafe
<1>6. \A a \in Actors, m \in Msgs : <<a, m, "landed">> \in flight' => copies'[m] > 0
  BY <1>1, <1>4 DEF HistoryInv
<1> QED
  BY <1>5, <1>6 DEF HistoryInv

\* Whatever crashes or is lost, and under no assumption about WhatsApp, the history holds only
\* messages the broker took.
THEOREM HistoryIsSafe == Spec => []HistorySafe
<1>1. Init => TypeOK
  BY InitType
<1>2. Init => HistoryInv
  BY DEF Init, HistoryInv, HistorySafe
<1>3. TypeOK /\ HistoryInv /\ [Next]_vars => TypeOK' /\ HistoryInv'
  BY TypeStep, HistoryStep
<1>4. HistoryInv => HistorySafe
  BY DEF HistoryInv
<1> QED
  BY <1>1, <1>2, <1>3, <1>4, PTL DEF Spec

----------------------------------------------------------------------------
(* The marks *)

\* Pruning keeps a mark or drops it.
LEMMA PrunedMark ==
    ASSUME NEW A \in [Chats -> Msgs \cup {None}], NEW c \in Chats
    PROVE  PrunedAnchors(A)[c] \in {A[c], None}
  BY DEF PrunedAnchors

\* Every mark stays one of its chat's settled messages: the only new one is `through`.
LEMMA AnchorStep ==
    ASSUME ForwardInv, PromptDelivery, [Next]_vars
    PROVE  AnchorInv'
<1> SUFFICES ASSUME NEW c \in Chats
             PROVE  SafeMark(anchor[c], c)' /\ SafeMark(snapAnchor[c], c)'
                    /\ SafeMark(diskAnchor[c], c)'
  BY DEF AnchorInv
<1> DEFINE Marks == {None, anchor[c], snapAnchor[c], diskAnchor[c]}
           New == {anchor'[c], snapAnchor'[c], diskAnchor'[c]}
           Safe(a) == a # None => a \in History(c)' /\ \A m \in History(c)' : UpTo(m, a) => Settled(m)'
<1>1. TypeOK /\ ClockInv /\ AnchorInv
  BY DEF ForwardInv
<1>2. \A a \in Msgs \cup {None} : SafeMark(a, c) => Safe(a)
  <2>1. SUFFICES ASSUME NEW a \in Msgs \cup {None}, SafeMark(a, c) PROVE Safe(a)
    OBVIOUS
  <2>2. SafeMark(a, c)'
    BY <1>1, <2>1, MarkStays
  <2> QED
    BY <2>2 DEF SafeMark, SettledThrough
<1>3. \A a \in Marks : Safe(a)
  <2>1. \A a \in Marks : a \in Msgs \cup {None} /\ SafeMark(a, c)
    BY <1>1 DEF AnchorInv, SafeMark, SettledThrough, TypeOK, StoreType, DiskType
  <2> QED
    BY <1>2, <2>1
<1> HIDE DEF Safe
<1>4. \A a \in New : a \in Marks \/ Safe(a)
  <2>1. CASE ChatDone
    <3>1. c = chat /\ through # None => SafeMark(through, c) /\ through \in Msgs
      BY <2>1 DEF ChatDone, ForwardInv, ScanInv, TypeOK, PassType
    <3>2. c = chat /\ through # None => Safe(through)
      BY <1>2, <3>1
    <3>3. /\ snapAnchor'[c] = snapAnchor[c] /\ diskAnchor'[c] = diskAnchor[c]
          /\ anchor'[c] = anchor[c] \/ (c = chat /\ through # None /\ anchor'[c] = through)
      BY <1>1, <2>1 DEF ChatDone, advanceAnchor, TypeOK, StoreType
    <3> QED
      BY <3>2, <3>3
  <2>2. CASE PersistStart
    BY <1>1, <2>2, PrunedMark DEF PersistStart, TypeOK, StoreType
  <2>3. CASE Restart
    BY <1>1, <2>3, PrunedMark DEF Restart, ReadHistory, StartEmpty, Fault, TypeOK, DiskType
  <2>4. CASE PersistDone \/ PersistFails \/ Crash
    BY <2>4 DEF PersistDone, PersistFails, Crash, PersistReturns
  <2>5. CASE UNCHANGED <<anchor, snapAnchor, diskAnchor>>
    BY <2>5
  <2>6. \/ ChatDone \/ PersistStart \/ Restart \/ PersistDone \/ PersistFails \/ Crash
        \/ UNCHANGED <<anchor, snapAnchor, diskAnchor>>
    BY DEF Next, PassStep, Tick, Arrive, SessionReady, SessionLost, ChannelUp, Land, Nack,
           ChannelLost, handleLiveMessage, DropEvent, LiveConfirmed, PassStart, canReconcile, listChats,
           SkipChat, OpenChat, FetchHistory, FetchFails, PassFails, ScanPassOver, ScanPublish,
           ScanNoChannel, ScanConfirmed, record, PassDone, PersistTimerFires
  <2> QED
    BY <2>1, <2>2, <2>3, <2>4, <2>5, <2>6
<1>5. \A a \in New : Safe(a)
  BY <1>3, <1>4
<1> QED
  BY <1>5 DEF Safe, SafeMark, SettledThrough

\* Every watermark stays one nothing before which is owed: the only new one is the start of a
\* pass that is done with every chat.
LEMMA WatermarkStep ==
    ASSUME ForwardInv, PromptDelivery, [Next]_vars
    PROVE  WatermarkInv'
<1> DEFINE Old == {0, watermark, snapWatermark, diskWatermark}
           New == {watermark', snapWatermark', diskWatermark'}
           Safe(w) == w <= now' /\ \A m \in visible' : Ts[m] < w => Settled(m)'
<1>1. TypeOK /\ ClockInv /\ WatermarkInv
  BY DEF ForwardInv
<1>2. \A w \in Nat : SafeBefore(w) => Safe(w)
  <2>1. SUFFICES ASSUME NEW w \in Nat, SafeBefore(w) PROVE Safe(w)
    OBVIOUS
  <2>2. SafeBefore(w)'
    BY <1>1, <2>1, BeforeStays
  <2> QED
    BY <2>2 DEF SafeBefore
<1>3. \A w \in Old : Safe(w)
  <2>1. SafeBefore(0)
    BY <1>1, MsgsAssumption DEF SafeBefore, TypeOK, WorldType
  <2>2. \A w \in Old : w \in Nat /\ SafeBefore(w)
    BY <1>1, <2>1 DEF WatermarkInv, SafeBefore, TypeOK, StoreType, DiskType
  <2> QED
    BY <1>2, <2>2
<1> HIDE DEF Safe
<1>4. \A w \in New : w \in Old \/ Safe(w)
  <2>1. CASE PassDone
    <3>1. watermark' = watermark \/ (allConfirmed /\ watermark' = passStartedAt)
      BY <2>1 DEF PassDone, advanceWatermark
    <3>2. SUFFICES ASSUME allConfirmed PROVE Safe(passStartedAt)
      BY <2>1, <3>1 DEF PassDone
    <3>3. \A m \in visible : Ts[m] < passStartedAt => Settled(m)
      <4>1. SUFFICES ASSUME NEW m \in visible, Ts[m] < passStartedAt, m \in Wanted
                     PROVE  Settled(m)
        BY DEF Settled
      <4>2. ChatOf[m] \in Scope /\ ChatOf[m] \in Chats /\ m \in History(ChatOf[m])
        BY <1>1, <4>1, MsgsAssumption DEF Wanted, isAllowed, Scope, History, TypeOK, WorldType
      <4>3. Done(ChatOf[m])
        BY <2>1, <3>2, <4>2, ChatsAssumption
        DEF PassDone, ForwardInv, DoneInv, Listed, PassInv, InChat
      <4> QED
        BY <4>1, <4>2, <4>3 DEF Done
    <3>4. SafeBefore(passStartedAt) /\ passStartedAt \in Nat
      BY <1>1, <2>1, <3>3 DEF SafeBefore, ForwardInv, PassInv, PassDone, TypeOK, PassType
    <3> QED
      BY <1>2, <3>4
  <2>2. CASE PersistStart \/ PersistDone \/ PersistFails \/ Crash \/ Restart
    BY <2>2 DEF PersistStart, PersistDone, PersistFails, Crash, Restart, ReadHistory, StartEmpty, Fault,
         PersistReturns
  <2>3. CASE UNCHANGED <<watermark, snapWatermark, diskWatermark>>
    BY <2>3
  <2>4. \/ PassDone \/ PersistStart \/ PersistDone \/ PersistFails \/ Crash \/ Restart
        \/ UNCHANGED <<watermark, snapWatermark, diskWatermark>>
    BY DEF Next, PassStep, Tick, Arrive, SessionReady, SessionLost, ChannelUp, Land, Nack,
           ChannelLost, handleLiveMessage, DropEvent, LiveConfirmed, PassStart, canReconcile, listChats,
           SkipChat, OpenChat, FetchHistory, FetchFails, PassFails, ScanPassOver, ScanPublish,
           ScanNoChannel, ScanConfirmed, ChatDone, PersistTimerFires
  <2> QED
    BY <2>1, <2>2, <2>3, <2>4
<1>5. \A w \in New : Safe(w)
  BY <1>3, <1>4
<1> QED
  BY <1>5 DEF Safe, WatermarkInv, SafeBefore

----------------------------------------------------------------------------
(* The pass *)

\* Outside the await no publish of the scan is pending; inside, only the one awaited.
LEMMA AwaitStep ==
    ASSUME TypeOK, AwaitInv, [Next]_vars
    PROVE  AwaitInv'
<1> DEFINE Pending(m, s) == <<"scan", m, s>> \in flight
<1>1. TypeOK /\ AwaitInv /\ batch \subseteq Msgs
  BY DEF TypeOK, PassType
<1>2. \A m, n \in Msgs : IsFirst(m, batch) /\ IsFirst(n, batch) => m = n
  BY <1>1, PrecedesOrder DEF IsFirst, UpTo
<1>3. \A m, n \in Msgs, s, t \in Stages : Pending(m, s) /\ Pending(n, t) => m = n /\ s = t
  BY <1>1, <1>2 DEF AwaitInv
<1>4. CASE \E m \in Msgs : Land("scan", m)
  BY <1>1, <1>3, <1>4 DEF Land, AwaitInv
<1>5. CASE \E m \in Msgs : ScanPublish(m)
  BY <1>1, <1>5 DEF ScanPublish, AwaitInv
<1>6. CASE \E m \in Msgs : ScanConfirmed(m) \/ Nack("scan", m)
  <2>1. \A n \in Msgs, s \in Stages : <<"scan", n, s>> \notin flight'
    BY <1>1, <1>3, <1>6 DEF ScanConfirmed, Nack
  <2> QED
    BY <2>1 DEF AwaitInv
<1>7. CASE /\ \A m \in Msgs, s \in Stages : <<"scan", m, s>> \in flight' => <<"scan", m, s>> \in flight
           /\ phase = "await" => \/ UNCHANGED <<phase, batch>>
                                 \/ flight' = {}
  BY <1>1, <1>7 DEF AwaitInv
<1>8. \/ \E m \in Msgs : Land("scan", m)
      \/ \E m \in Msgs : ScanPublish(m)
      \/ \E m \in Msgs : ScanConfirmed(m) \/ Nack("scan", m)
      \/ /\ \A m \in Msgs, s \in Stages :
                <<"scan", m, s>> \in flight' => <<"scan", m, s>> \in flight
         /\ phase = "await" => \/ UNCHANGED <<phase, batch>>
                               \/ flight' = {}
  <2>1. ASSUME NEW m \in Msgs, Land("live", m) \/ Nack("live", m) \/ handleLiveMessage(m)
                                \/ LiveConfirmed(m)
        PROVE  /\ \A n \in Msgs, s \in Stages :
                      <<"scan", n, s>> \in flight' => <<"scan", n, s>> \in flight
               /\ UNCHANGED <<phase, batch>>
    BY <2>1 DEF Land, Nack, handleLiveMessage, LiveConfirmed
  <2>2. \/ \E a \in Actors, m \in Msgs : Land(a, m) \/ Nack(a, m)
        \/ \E m \in Msgs : handleLiveMessage(m) \/ LiveConfirmed(m) \/ ScanPublish(m)
                           \/ ScanConfirmed(m)
        \/ flight' \subseteq flight /\ (phase = "await" => \/ UNCHANGED <<phase, batch>>
                                                          \/ flight' = {})
    BY DEF Next, PassStep, Tick, Arrive, SessionReady, SessionLost, ChannelUp, ChannelLost,
           DropEvent, PassStart, canReconcile, listChats, SkipChat, OpenChat, FetchHistory, FetchFails,
           PassFails, ScanPassOver, ScanNoChannel, ChatDone, PassDone, PersistTimerFires,
           PersistStart, PersistDone, PersistFails, Crash, Restart, ReadHistory, StartEmpty, Fault
  <2> QED
    BY <2>1, <2>2
<1> QED
  BY <1>4, <1>5, <1>6, <1>7, <1>8

\* The window of a pass starts where its floor was put, and the clock leaves it soon.
LEMMA WindowStep ==
    ASSUME TypeOK, AwaitInv, WindowInv, [Next]_vars
    PROVE  WindowInv'
<1> /\ now \in Nat /\ passStartedAt \in Nat /\ floor \in Int /\ scanFrom \in Int
    /\ BackfillMaxAge \in Nat /\ MaxPassTime \in Nat
  BY ConfigAssumption, EnvironmentAssumption DEF TypeOK, WorldType, PassType
<1> USE DEF WindowInv, InChat
<1>1. CASE Tick
  BY <1>1 DEF Tick
<1>2. CASE PassStart
  <2>1. now - BackfillMaxAge <= historyFloor
    BY DEF historyFloor, MaxOf, TypeOK, StoreType
  <2> QED
    BY <1>2, <2>1 DEF PassStart
<1>3. ASSUME NEW c \in Chats, OpenChat(c) PROVE WindowInv'
  <2>1. ASSUME NEW x \in Int PROVE floor <= MaxOf(floor, x)
    BY DEF MaxOf
  <2>2. anchor[c] # None => anchor[c] \in Msgs
    BY DEF TypeOK, StoreType
  <2>3. anchor[c] # None => Ts[anchor[c]] - Lookback \in Int
    <3>1. Lookback \in Nat /\ \A m \in Msgs : Ts[m] \in Nat
      BY ConfigAssumption, MsgsAssumption
    <3> QED
      BY <2>2, <3>1
  <2>4. watermark \in Int /\ 0 \in Int
    BY DEF TypeOK, StoreType
  <2>5. floor <= ScanFrom(anchor[c])
    BY <2>1, <2>3, <2>4 DEF ScanFrom
  <2> QED
    BY <1>3, <2>5 DEF OpenChat
<1>4. CASE /\ UNCHANGED <<now, passStartedAt, floor>>
           /\ phase # "idle" /\ phase' \in {"list", "chat"}
  BY <1>4
<1>5. CASE UNCHANGED <<now, passStartedAt, floor, scanFrom>> /\ phase \in {"fetch", "scan", "await"}
  BY <1>5
<1>6. CASE phase' = "idle"
  BY <1>6
<1>7. CASE UNCHANGED <<now, phase, passStartedAt, floor, scanFrom>>
  BY <1>7
<1>8. ASSUME NEW m \in Msgs,
             ScanPassOver(m) \/ ScanPublish(m) \/ ScanNoChannel(m) \/ ScanConfirmed(m)
      PROVE  WindowInv'
  BY <1>5, <1>8 DEF ScanPassOver, ScanPublish, ScanNoChannel, ScanConfirmed, ScanUnconfirmed
<1>9. ASSUME NEW a \in Actors, NEW m \in Msgs, Nack(a, m) PROVE WindowInv'
  BY <1>5, <1>7, <1>9 DEF Nack, ScanUnconfirmed, AwaitInv
<1>10. CASE FetchHistory
  BY <1>5, <1>10 DEF FetchHistory
<1>11. CASE listChats \/ FetchFails \/ ChatDone \/ \E c \in Chats : SkipChat(c)
  BY <1>4, <1>11 DEF listChats, FetchFails, ChatDone, SkipChat
<1>12. CASE ChannelLost
  BY <1>5, <1>7, <1>12 DEF ChannelLost, ScanUnconfirmed
<1>13. CASE PassFails \/ PassDone \/ Crash
  BY <1>6, <1>13 DEF PassFails, PassDone, Crash
<1> QED
  BY <1>1, <1>2, <1>3, <1>7, <1>8, <1>9, <1>10, <1>11, <1>12, <1>13
  DEF Next, PassStep, Arrive, handleLiveMessage, DropEvent, LiveConfirmed, SessionReady,
      SessionLost, ChannelUp, Land, PersistTimerFires, PersistStart, PersistDone, PersistFails,
      Restart, ReadHistory, StartEmpty, Fault

\* The steps that move the pass; every other one leaves its variables alone.
ScanGap(m) == phase \in {"scan", "await"} /\ IsFirst(m, batch) /\ ScanUnconfirmed(m)
PassEnds == phase' = "idle" /\ ChatReturns /\ PassReturns
LEMMA PassMoves ==
    ASSUME ForwardInv, [Next]_vars
    PROVE  \/ PassStart \/ listChats \/ FetchHistory \/ FetchFails \/ ChatDone
           \/ \E c \in Chats : SkipChat(c) \/ OpenChat(c)
           \/ \E m \in Msgs : ScanPassOver(m) \/ ScanPublish(m) \/ ScanConfirmed(m)
           \/ UNCHANGED visible /\ \E m \in Msgs : ScanGap(m)
           \/ PassDone
           \/ PassEnds
           \/ UNCHANGED <<passVars, chatVars>>
<1>1. TypeOK /\ AwaitInv /\ batch \subseteq Msgs
  BY DEF ForwardInv, TypeOK, PassType
<1>2. ASSUME NEW m \in Msgs, Nack("scan", m) \/ ScanNoChannel(m)
      PROVE  UNCHANGED visible /\ ScanGap(m)
  BY <1>1, <1>2 DEF Nack, ScanNoChannel, ScanGap, AwaitInv
<1>3. ASSUME NEW m \in Msgs, Nack("live", m) PROVE UNCHANGED <<passVars, chatVars>>
  BY <1>3 DEF Nack
<1>4. ASSUME ChannelLost
      PROVE  \/ UNCHANGED <<passVars, chatVars>>
             \/ UNCHANGED visible /\ \E m \in Msgs : ScanGap(m)
  BY <1>1, <1>4 DEF ChannelLost, ScanGap
<1>5. ASSUME Crash \/ PassFails PROVE PassEnds
  BY <1>5 DEF Crash, PassFails, PassEnds
<1>6. \/ PassStart \/ listChats \/ FetchHistory \/ FetchFails \/ ChatDone
      \/ \E c \in Chats : SkipChat(c) \/ OpenChat(c)
      \/ \E m \in Msgs : ScanPassOver(m) \/ ScanPublish(m) \/ ScanConfirmed(m)
      \/ \E m \in Msgs : Nack("scan", m) \/ Nack("live", m) \/ ScanNoChannel(m)
      \/ PassDone \/ Crash \/ PassFails \/ ChannelLost
      \/ UNCHANGED <<passVars, chatVars>>
  BY DEF Next, PassStep, Tick, Arrive, SessionReady, SessionLost, ChannelUp, Land,
         handleLiveMessage, DropEvent, LiveConfirmed, PersistTimerFires,
         PersistStart, PersistDone, PersistFails, Restart, ReadHistory, StartEmpty, Fault
<1> QED
  BY <1>2, <1>3, <1>4, <1>5, <1>6

\* What a pass may have to scan of a chat starts where everything older is settled.
LEMMA ScanFromSafe ==
    ASSUME ForwardInv, phase # "idle", NEW c \in Chats
    PROVE  /\ ScanFrom(anchor[c]) \in Int /\ ScanFrom(anchor[c]) <= now
           /\ \A m \in History(c) : Ts[m] < ScanFrom(anchor[c]) => Settled(m)
<1>1. /\ now \in Nat /\ startedAt \in Nat /\ startedAt <= now
      /\ floor \in Int /\ floor <= historyFloor
      /\ watermark \in Nat /\ watermark <= now
      /\ anchor[c] \in Msgs \cup {None}
      /\ visible \subseteq Msgs
  BY DEF ForwardInv, TypeOK, WorldType, StoreType, PassType, ClockInv, PassInv, WatermarkInv,
         SafeBefore
<1>2. historyFloor \in Int /\ historyFloor <= now
  BY <1>1, ConfigAssumption DEF historyFloor, MaxOf
<1>3. ASSUME NEW m \in History(c), Ts[m] < floor PROVE Settled(m)
  <2> HIDE DEF historyFloor
  <2>1. Ts[m] \in Nat
    BY <1>1, MsgsAssumption DEF History
  <2> QED
    BY <1>1, <1>2, <1>3, <2>1 DEF Settled
<1>4. CASE anchor[c] # None
  <2>1. anchor[c] \in History(c) /\ \A m \in History(c) : UpTo(m, anchor[c]) => Settled(m)
    BY <1>4 DEF ForwardInv, AnchorInv, SafeMark, SettledThrough
  <2>2. Ts[anchor[c]] \in Nat /\ Ts[anchor[c]] <= now
    BY <1>1, <1>4, <2>1, MsgsAssumption DEF ForwardInv, ClockInv, History
  <2>3. ASSUME NEW m \in History(c), Ts[m] < Ts[anchor[c]] - Lookback PROVE Settled(m)
    <3>1. Ts[m] < Ts[anchor[c]]
      BY <1>1, <2>2, <2>3, MsgsAssumption, ConfigAssumption DEF History
    <3> QED
      BY <2>1, <3>1 DEF UpTo, Precedes
  <2> QED
    BY <1>1, <1>2, <1>3, <1>4, <2>2, <2>3, ConfigAssumption DEF ScanFrom, MaxOf
<1>5. CASE anchor[c] = None
  <2>1. ASSUME NEW m \in History(c), Ts[m] < watermark PROVE Settled(m)
    BY <2>1 DEF ForwardInv, WatermarkInv, SafeBefore, History
  <2>2. \A m \in History(c) : Ts[m] \in Nat
    BY <1>1, MsgsAssumption DEF History
  <2> QED
    BY <1>1, <1>2, <1>3, <1>5, <2>1, <2>2, ConfigAssumption DEF ScanFrom, MaxOf
<1> QED
  BY <1>4, <1>5

LEMMA PassInvStep ==
    ASSUME ForwardInv, [Next]_vars
    PROVE  PassInv'
<1>1. TypeOK /\ ClockInv /\ PassInv
  BY DEF ForwardInv
<1>2. /\ now' \in Nat /\ now \in Nat /\ now <= now' /\ passStartedAt \in Nat /\ floor \in Int
      /\ historyFloor <= historyFloor' /\ historyFloor \in Int /\ historyFloor' \in Int
  BY <1>1, WorldSteps, SettledStays DEF TypeOK, WorldType, PassType
<1>3. phase' # "idle" => passStartedAt' <= now' /\ floor' <= historyFloor'
  <2> HIDE DEF historyFloor
  <2>1. CASE PassStart
    BY <1>2, <2>1 DEF PassStart, canReconcile
  <2>2. CASE phase' = "idle"
    BY <2>2
  <2>3. CASE phase # "idle" /\ UNCHANGED <<passStartedAt, floor>>
    BY <1>1, <1>2, <2>3 DEF PassInv
  <2>4. PassStart \/ phase' = "idle" \/ (phase # "idle" /\ UNCHANGED <<passStartedAt, floor>>)
    BY PassMoves DEF listChats, FetchHistory, FetchFails, ChatDone, SkipChat, OpenChat,
       ScanPassOver, ScanPublish, ScanConfirmed, ScanGap, ScanUnconfirmed, PassDone, PassEnds
  <2> QED
    BY <2>1, <2>2, <2>3, <2>4
<1>4. ~InChat' => chat' = None
  BY <1>1, PassMoves DEF PassInv, InChat, PassStart, canReconcile, listChats, FetchHistory, FetchFails,
     ChatDone, SkipChat, OpenChat, ScanPassOver, ScanPublish, ScanConfirmed, ScanGap,
     ScanUnconfirmed, PassDone, PassEnds, ChatReturns
<1> QED
  BY <1>3, <1>4 DEF PassInv

\* The list snapshot covers what is older than the pass, and goes on doing so.
LEMMA SeenStep ==
    ASSUME ForwardInv, PromptDelivery, [Next]_vars
    PROVE  SeenInv'
<1>1. TypeOK /\ ClockInv /\ SeenInv /\ PassInv
  BY DEF ForwardInv
<1>2. SUFFICES ASSUME Listed', NEW c \in Chats
               PROVE  /\ lastSeen'[c] # None => lastSeen'[c] \in History(c)'
                      /\ \A m \in History(c)' : Ts[m] < passStartedAt' =>
                            lastSeen'[c] # None /\ UpTo(m, lastSeen'[c])
  BY DEF SeenInv
<1>3. History(c) \subseteq Msgs /\ None \notin Msgs
  BY <1>1, MsgsAssumption DEF History, TypeOK, WorldType
<1>4. CASE listChats
  <2>1. History(c)' = History(c)
    BY <1>4 DEF listChats, History
  <2>2. IF History(c) = {} THEN lastSeen'[c] = None ELSE IsLast(lastSeen'[c], History(c))
    BY <1>4 DEF listChats
  <2> QED
    BY <1>3, <2>1, <2>2 DEF IsLast
<1>5. CASE Listed /\ UNCHANGED <<lastSeen, passStartedAt>>
  <2>1. passStartedAt <= now /\ passStartedAt \in Nat /\ now \in Nat
    BY <1>1, <1>5 DEF PassInv, Listed, TypeOK, PassType, WorldType
  <2>2. \A m \in History(c)' : Ts[m] < passStartedAt => m \in History(c)
    BY <1>1, <2>1, Arrivals
  <2>3. History(c) \subseteq History(c)'
    BY <1>1, Arrivals
  <2> QED
    BY <1>1, <1>5, <2>2, <2>3 DEF SeenInv
<1>6. listChats \/ (Listed /\ UNCHANGED <<lastSeen, passStartedAt>>)
  BY <1>2, PassMoves DEF Listed, PassStart, canReconcile, FetchHistory, FetchFails,
     ChatDone, SkipChat, OpenChat, ScanPassOver, ScanPublish, ScanConfirmed, ScanGap,
     ScanUnconfirmed, PassDone, PassEnds
<1> QED
  BY <1>4, <1>5, <1>6

\* What a chat owed before the pass stays paid: messages that surface now are younger.
LEMMA DoneStays ==
    ASSUME ForwardInv, PromptDelivery, [Next]_vars, phase # "idle",
           UNCHANGED passStartedAt, NEW c \in Chats, Done(c)
    PROVE  Done(c)'
<1>1. TypeOK /\ ClockInv /\ PassInv
  BY DEF ForwardInv
<1>2. passStartedAt <= now /\ passStartedAt \in Nat /\ now \in Nat
  BY <1>1 DEF PassInv, TypeOK, PassType, WorldType
<1>3. \A m \in History(c)' : Ts[m] < passStartedAt => m \in History(c) /\ m \in Msgs
  BY <1>1, <1>2, Arrivals
<1> QED
  BY <1>1, <1>3, SettledStays DEF Done

\* A pass that still vouches for every chat is done with each of those it has left behind.
LEMMA DoneStep ==
    ASSUME ForwardInv, DeliveryAssumption, [Next]_vars
    PROVE  DoneInv'
<1>1. /\ TypeOK /\ PassInv /\ SeenInv /\ DoneInv /\ ScanInv /\ AnchorInv
      /\ Scope \subseteq Chats /\ PromptDelivery
  BY ConfigAssumption DEF ForwardInv, Scope, DeliveryAssumption
<1>2. SUFFICES ASSUME Listed', allConfirmed', NEW c \in Scope
               PROVE  c \in todoChats' \/ c = chat' \/ Done(c)'
  BY DEF DoneInv
<1>3. CASE listChats
  BY <1>2, <1>3, ConfigAssumption DEF listChats, Complete, Scope, DeliveryAssumption
<1>4. SUFFICES ASSUME Listed, allConfirmed, UNCHANGED passStartedAt
               PROVE  c \in todoChats' \/ c = chat' \/ Done(c)'
  BY <1>2, <1>3, PassMoves DEF Listed, PassStart, canReconcile, FetchHistory, FetchFails,
     ChatDone, SkipChat, OpenChat, ScanPassOver, ScanPublish, ScanConfirmed, ScanGap,
     ScanUnconfirmed, PassDone, PassEnds
<1>5. SUFFICES c \in todoChats' \/ c = chat' \/ Done(c)
  BY <1>1, <1>4, DoneStays DEF Listed
<1>6. c \in todoChats \/ c = chat \/ Done(c)
  BY <1>1, <1>4 DEF DoneInv
<1>7. CASE SkipChat(c)
  <2>1. SUFFICES ASSUME NEW m \in History(c), Ts[m] < passStartedAt PROVE Settled(m)
    BY DEF Done
  <2>2. lastSeen[c] # None /\ lastSeen[c] \in History(c) /\ UpTo(m, lastSeen[c])
    BY <1>1, <1>4, <2>1 DEF SeenInv
  <2>3. m \in Msgs /\ lastSeen[c] \in Msgs
    BY <1>1, <2>2 DEF History, TypeOK, WorldType
  <2>4. CASE anchor[c] # None /\ lastSeen[c] = anchor[c]
    BY <1>1, <2>2, <2>4 DEF AnchorInv, SafeMark, SettledThrough
  <2>5. CASE Ts[lastSeen[c]] < ScanFrom(anchor[c])
    <3>1. ScanFrom(anchor[c]) \in Int
          /\ \A x \in History(c) : Ts[x] < ScanFrom(anchor[c]) => Settled(x)
      BY <1>1, <1>4, ScanFromSafe DEF Listed
    <3>2. Ts[m] <= Ts[lastSeen[c]] /\ Ts[m] \in Nat /\ Ts[lastSeen[c]] \in Nat
      <4>1. Ts[m] \in Nat /\ Ts[lastSeen[c]] \in Nat
        BY <2>3, MsgsAssumption
      <4>2. m = lastSeen[c] \/ Ts[m] <= Ts[lastSeen[c]]
        BY <2>2, <2>3, PrecedesOrder DEF UpTo
      <4> QED
        BY <4>1, <4>2
    <3>3. Ts[m] < ScanFrom(anchor[c])
      <4> HIDE DEF ScanFrom
      <4> QED
        BY <2>5, <3>1, <3>2
    <3> QED
      BY <3>1, <3>3
  <2> QED
    BY <1>7, <2>2, <2>4, <2>5 DEF SkipChat, NothingNew
<1>8. CASE ChatDone
  <2>1. c = chat => Done(c)
    BY <1>1, <1>2, <1>8 DEF ChatDone, ScanInv, Done
  <2> QED
    BY <1>6, <1>8, <2>1 DEF ChatDone
<1>9. CASE /\ UNCHANGED chat \/ (chat = None /\ chat' \in todoChats)
           /\ todoChats \ {chat'} \subseteq todoChats'
  BY <1>1, <1>6, <1>9, ChatsAssumption
<1>10. CASE \E d \in Chats : SkipChat(d)
  BY <1>6, <1>7, <1>10 DEF SkipChat
<1>11. \/ ChatDone
       \/ \E d \in Chats : SkipChat(d)
       \/ /\ UNCHANGED chat \/ (chat = None /\ chat' \in todoChats)
          /\ todoChats \ {chat'} \subseteq todoChats'
  BY <1>1, <1>2, <1>4, PassMoves DEF Listed, PassStart, canReconcile, listChats, FetchHistory, FetchFails,
     SkipChat, OpenChat, ScanPassOver, ScanPublish, ScanConfirmed, ScanGap,
     ScanUnconfirmed, PassDone, PassEnds, PassInv, InChat
<1> QED
  BY <1>8, <1>9, <1>10, <1>11

\* What reconcileChat read of its chat stays true while live events and persists go on.
LEMMA ChatStep ==
    ASSUME ForwardInv, PromptDelivery, [Next]_vars
    PROVE  ChatInv'
<1>1. TypeOK /\ ClockInv /\ ChatInv /\ AnchorInv
  BY DEF ForwardInv
<1>2. SUFFICES ASSUME InChat' PROVE /\ chat' \in Chats
                                     /\ SafeMark(anchorSeen, chat)'
                                     /\ scanFrom' <= now'
                                     /\ \A m \in History(chat)' : Ts[m] < scanFrom' => Settled(m)'
  BY DEF ChatInv
<1>3. now \in Nat /\ now' \in Nat /\ now <= now'
  BY <1>1, WorldSteps DEF TypeOK, WorldType
<1>4. ASSUME NEW c \in Chats, NEW a \in Msgs \cup {None}, NEW from \in Int, from <= now,
             SafeMark(a, c), \A m \in History(c) : Ts[m] < from => Settled(m)
      PROVE  /\ a # None => a \in History(c)' /\ \A m \in History(c)' : UpTo(m, a) => Settled(m)'
             /\ from <= now'
             /\ \A m \in History(c)' : Ts[m] < from => Settled(m)'
  <2>1. SafeMark(a, c)'
    BY <1>1, <1>4, MarkStays
  <2>2. \A m \in History(c)' : m \in Msgs /\ (m \in History(c) \/ Ts[m] = now)
    BY <1>1, Arrivals
  <2>3. \A m \in History(c)' : Ts[m] < from => m \in Msgs /\ Settled(m)
    BY <1>3, <1>4, <2>2
  <2>4. \A m \in History(c)' : Ts[m] < from => Settled(m)'
    BY <1>1, <2>3, SettledStays
  <2>5. from <= now'
    BY <1>3, <1>4
  <2> QED
    BY <2>1, <2>4, <2>5 DEF SafeMark, SettledThrough
<1>5. CASE \E c \in Chats : OpenChat(c)
  <2>1. PICK c \in Chats : OpenChat(c)
    BY <1>5
  <2>2. /\ anchor[c] \in Msgs \cup {None} /\ SafeMark(anchor[c], c)
        /\ ScanFrom(anchor[c]) \in Int /\ ScanFrom(anchor[c]) <= now
        /\ \A m \in History(c) : Ts[m] < ScanFrom(anchor[c]) => Settled(m)
    BY <1>1, <2>1, ScanFromSafe DEF AnchorInv, OpenChat, TypeOK, StoreType
  <2>3. chat' = c /\ anchorSeen' = anchor[c] /\ scanFrom' = ScanFrom(anchor[c])
    BY <2>1 DEF OpenChat
  <2> HIDE DEF ScanFrom
  <2> QED
    BY <1>4, <2>2, <2>3 DEF SafeMark, SettledThrough, History
<1>6. CASE InChat /\ UNCHANGED <<chat, anchorSeen, scanFrom>>
  <2>1. /\ chat \in Chats /\ anchorSeen \in Msgs \cup {None} /\ scanFrom \in Int
        /\ SafeMark(anchorSeen, chat) /\ scanFrom <= now
        /\ \A m \in History(chat) : Ts[m] < scanFrom => Settled(m)
    BY <1>1, <1>6 DEF ChatInv, TypeOK, PassType
  <2> QED
    BY <1>4, <1>6, <2>1 DEF SafeMark, SettledThrough, History
<1>7. (\E c \in Chats : OpenChat(c)) \/ (InChat /\ UNCHANGED <<chat, anchorSeen, scanFrom>>)
  BY <1>2, PassMoves DEF InChat, PassStart, canReconcile, listChats, FetchHistory, FetchFails, ChatDone,
     SkipChat, ScanPassOver, ScanPublish, ScanConfirmed, ScanGap,
     ScanUnconfirmed, PassDone, PassEnds
<1> QED
  BY <1>5, <1>6, <1>7

\* The scan owes nothing behind it until it meets a gap, and `through` stops there.
LEMMA ScanStep ==
    ASSUME ForwardInv, DeliveryAssumption, [Next]_vars
    PROVE  ScanInv'
<1>1. /\ TypeOK /\ ClockInv /\ HistoryInv /\ PassInv /\ ChatInv /\ ScanInv /\ AwaitInv
      /\ PromptDelivery
  BY DEF ForwardInv, DeliveryAssumption
<1>2. /\ now \in Nat /\ passStartedAt \in Nat /\ (phase # "idle" => passStartedAt <= now)
      /\ batch \subseteq Msgs /\ visible \subseteq Msgs /\ None \notin Msgs
      /\ through \in Msgs \cup {None} /\ anchorSeen \in Msgs \cup {None} /\ scanFrom \in Int
  BY <1>1, MsgsAssumption DEF TypeOK, WorldType, PassType, PassInv
<1>3. SUFFICES ASSUME phase' \in {"scan", "await"}
               PROVE  /\ batch' \subseteq History(chat)'
                      /\ SafeMark(through, chat)'
                      /\ ~gap' => \A m \in History(chat)' \ batch' :
                            (Ts[m] < passStartedAt' \/ \E b \in batch' : Precedes(m, b))
                                => Settled(m)'
  BY DEF ScanInv
<1>4. ASSUME InChat, UNCHANGED chat PROVE SafeMark(through, chat) /\ UNCHANGED through
                                         => SafeMark(through, chat)'
  <2>1. SUFFICES ASSUME SafeMark(through, chat), UNCHANGED through
                 PROVE  SafeMark(through, chat)'
    OBVIOUS
  <2>2. chat \in Chats
    BY <1>1, <1>4 DEF ChatInv
  <2>3. \A a \in Msgs \cup {None}, c \in Chats : SafeMark(a, c) =>
            (a # None => a \in History(c)' /\ \A m \in History(c)' : UpTo(m, a) => Settled(m)')
    <3>1. SUFFICES ASSUME NEW a \in Msgs \cup {None}, NEW c \in Chats, SafeMark(a, c)
                   PROVE  a # None => a \in History(c)'
                                      /\ \A m \in History(c)' : UpTo(m, a) => Settled(m)'
      OBVIOUS
    <3>2. SafeMark(a, c)'
      BY <1>1, <3>1, MarkStays
    <3> QED
      BY <3>2 DEF SafeMark, SettledThrough
  <2> QED
    BY <1>2, <1>4, <2>1, <2>2, <2>3 DEF SafeMark, SettledThrough, History
<1>5. CASE FetchHistory
  <2>1. /\ History(chat) \in SUBSET Msgs /\ UNCHANGED <<chat, visible>> /\ through' = None
        /\ batch' \in fetchBackTo(History(chat), anchorSeen, scanFrom)
    BY <1>2, <1>5 DEF FetchHistory, History
  <2>2. Cardinality({m \in History(chat) : Ts[m] >= scanFrom}) <= Ceiling
    <3> DEFINE Young == {m \in History(chat) : Ts[m] >= scanFrom}
    <3>1. /\ chat \in Chats /\ now - passStartedAt <= MaxPassTime
          /\ passStartedAt - BackfillMaxAge <= scanFrom
      <4>1. /\ now - passStartedAt <= MaxPassTime /\ floor <= scanFrom
            /\ passStartedAt - BackfillMaxAge <= floor
        BY <1>5 DEF ForwardInv, WindowInv, InChat, FetchHistory
      <4>2. floor \in Int /\ BackfillMaxAge \in Nat
        BY <1>1, ConfigAssumption DEF TypeOK, PassType
      <4> QED
        BY <1>1, <1>2, <1>5, <4>1, <4>2 DEF ChatInv, InChat, FetchHistory
    <3>2. Young \subseteq Window(chat, passStartedAt)
      <4>1. \A m \in History(chat) : m \in Msgs /\ ChatOf[m] = chat /\ Ts[m] <= now
        BY <1>1, <1>2 DEF History, ClockInv
      <4>2. BackfillMaxAge \in Nat /\ MaxPassTime \in Nat /\ \A m \in Msgs : Ts[m] \in Nat
        BY ConfigAssumption, EnvironmentAssumption, MsgsAssumption
      <4> QED
        BY <1>2, <3>1, <4>1, <4>2 DEF Window
    <3>3. /\ IsFiniteSet(Window(chat, passStartedAt))
          /\ Cardinality(Window(chat, passStartedAt)) <= Ceiling
      BY <1>2, <3>1, MsgsAssumption, FS_Subset DEF DeliveryAssumption, Window
    <3>4. /\ Cardinality(Young) <= Cardinality(Window(chat, passStartedAt))
          /\ Cardinality(Young) \in Nat /\ Cardinality(Window(chat, passStartedAt)) \in Nat
      BY <3>2, <3>3, FS_Subset, FS_CardinalityType
    <3>5. Ceiling \in Nat
      BY ConfigAssumption DEF Ceiling, MaxOf
    <3> QED
      BY <3>3, <3>4, <3>5
  <2>3. /\ batch' \subseteq History(chat)
        /\ \A m \in History(chat) \ batch' :
              (anchorSeen \in batch' /\ Precedes(m, anchorSeen)) \/ Ts[m] < scanFrom
    <3> DEFINE Reaches(B) == /\ B \subseteq History(chat)
                             /\ \A m \in History(chat) \ B :
                                   (anchorSeen \in B /\ Precedes(m, anchorSeen)) \/ Ts[m] < scanFrom
    <3>1. \A B \in fetchBackTo(History(chat), anchorSeen, scanFrom) : Reaches(B)
      BY <1>2, <2>1, <2>2, FetchReachesBack
    <3> QED
      BY <2>1, <3>1
  <2>4. /\ SafeMark(anchorSeen, chat)
        /\ \A m \in History(chat) : Ts[m] < scanFrom => Settled(m)
    BY <1>1, <1>5 DEF ChatInv, InChat, FetchHistory
  <2>5. \A m \in History(chat) \ batch' : m \in Msgs /\ Settled(m)
    BY <1>2, <2>1, <2>3, <2>4 DEF SafeMark, SettledThrough, UpTo
  <2>6. \A m \in History(chat)' \ batch' : Settled(m)'
    BY <1>1, <2>1, <2>5, SettledStays DEF History
  <2> QED
    BY <2>1, <2>3, <2>6 DEF SafeMark, History
<1>6. ASSUME NEW m \in Msgs, IsFirst(m, batch), Settled(m), CompleteThrough(m),
             phase \in {"scan", "await"}, batch' = batch \ {m},
             UNCHANGED <<chat, gap, passStartedAt, visible>>
      PROVE  /\ batch' \subseteq History(chat)'
             /\ SafeMark(through, chat)'
             /\ ~gap' => \A x \in History(chat)' \ batch' :
                   (Ts[x] < passStartedAt' \/ \E b \in batch' : Precedes(x, b)) => Settled(x)'
  <2>1. /\ m \in batch /\ batch \subseteq History(chat) /\ History(chat)' = History(chat)
        /\ History(chat) \subseteq Msgs
    BY <1>1, <1>2, <1>6 DEF IsFirst, ScanInv, History
  <2>2. ~gap => \A x \in History(chat) \ batch :
              (Ts[x] < passStartedAt \/ \E b \in batch : Precedes(x, b)) => Settled(x)
    BY <1>1, <1>6 DEF ScanInv
  <2>3. ~gap => \A x \in History(chat) : UpTo(x, m) => Settled(x)
    <3>1. \A x \in History(chat) : UpTo(x, m) => x = m \/ (x \notin batch /\ Precedes(x, m))
      BY <1>6, <2>1, PrecedesOrder DEF IsFirst, UpTo
    <3> QED
      BY <1>6, <2>1, <2>2, <3>1
  <2>4. ~gap => \A x \in History(chat)' \ batch' :
              (Ts[x] < passStartedAt' \/ \E b \in batch' : Precedes(x, b)) => Settled(x)
    BY <1>6, <2>1, <2>2
  <2>5. \A x \in History(chat) : Settled(x) => Settled(x)'
    BY <1>1, <2>1, SettledStays
  <2>6. SafeMark(through, chat)'
    <3>1. CASE gap
      BY <1>1, <1>4, <1>6, <3>1 DEF CompleteThrough, ScanInv, InChat
    <3>2. CASE ~gap
      BY <1>6, <2>1, <2>3, <2>5, <3>2 DEF CompleteThrough, SafeMark, SettledThrough, History
    <3> QED
      BY <3>1, <3>2
  <2>7. batch' \subseteq History(chat)'
    BY <1>6, <2>1
  <2>8. ~gap' => \A x \in History(chat)' \ batch' :
              (Ts[x] < passStartedAt' \/ \E b \in batch' : Precedes(x, b)) => Settled(x)'
    BY <1>6, <2>1, <2>4, <2>5
  <2> QED
    BY <2>6, <2>7, <2>8
<1>7. ASSUME NEW m \in Msgs, ScanPassOver(m)
      PROVE  /\ IsFirst(m, batch) /\ CompleteThrough(m) /\ phase = "scan" /\ batch' = batch \ {m}
             /\ UNCHANGED <<chat, gap, passStartedAt, visible>>
             /\ Settled(m)
  <2>1. /\ IsFirst(m, batch) /\ CompleteThrough(m) /\ phase = "scan" /\ batch' = batch \ {m}
        /\ UNCHANGED <<chat, gap, passStartedAt, visible>>
        /\ ~isDue(m, scanFrom) \/ ~isAllowed(chat)
    BY <1>7 DEF ScanPassOver
  <2>2. m \in History(chat) /\ ChatOf[m] = chat
    BY <1>1, <2>1 DEF ScanInv, IsFirst, History
  <2>3. m \in processed => Settled(m)
    BY <1>1 DEF HistoryInv, HistorySafe, Settled
  <2>4. m \in Own \/ ~isAllowed(chat) => Settled(m)
    BY <2>2 DEF Settled, Wanted
  <2>5. Ts[m] < scanFrom => Settled(m)
    BY <1>1, <2>1, <2>2 DEF ChatInv, InChat
  <2>6. Ts[m] \in Nat
    BY MsgsAssumption
  <2> QED
    BY <1>2, <2>1, <2>3, <2>4, <2>5, <2>6 DEF isDue
<1>8. ASSUME NEW m \in Msgs, ScanConfirmed(m)
      PROVE  /\ IsFirst(m, batch) /\ CompleteThrough(m) /\ phase = "await" /\ batch' = batch \ {m}
             /\ UNCHANGED <<chat, gap, passStartedAt, visible>>
             /\ Settled(m)
  <2>1. /\ CompleteThrough(m) /\ phase = "await" /\ batch' = batch \ {m}
        /\ UNCHANGED <<chat, gap, passStartedAt, visible>>
        /\ <<"scan", m, "landed">> \in flight
    BY <1>8 DEF ScanConfirmed
  <2>2. IsFirst(m, batch) /\ copies[m] > 0
    BY <1>1, <2>1 DEF AwaitInv, HistoryInv
  <2> QED
    BY <2>1, <2>2 DEF Settled
<1>9. CASE \E m \in Msgs : ScanPassOver(m) \/ ScanConfirmed(m)
  <2>1. PICK m \in Msgs : ScanPassOver(m) \/ ScanConfirmed(m)
    BY <1>9
  <2> QED
    BY <1>6, <1>7, <1>8, <2>1
<1>10. CASE UNCHANGED visible /\ \E m \in Msgs : ScanGap(m)
  <2>1. /\ phase \in {"scan", "await"} /\ gap' = TRUE /\ batch' \subseteq batch
        /\ UNCHANGED <<chat, through, visible>>
    BY <1>10 DEF ScanGap, ScanUnconfirmed
  <2>2. SafeMark(through, chat)'
    BY <1>1, <1>4, <2>1 DEF InChat, ScanInv
  <2> QED
    BY <1>1, <2>1, <2>2 DEF ScanInv, History
<1>11. CASE phase \in {"scan", "await"} /\ UNCHANGED <<chat, batch, gap, through, passStartedAt>>
  <2>1. /\ chat \in Chats /\ batch \subseteq History(chat) /\ History(chat) \subseteq Msgs
        /\ ~gap => \A m \in History(chat) \ batch :
              (Ts[m] < passStartedAt \/ \E b \in batch : Precedes(m, b)) => Settled(m)
    BY <1>1, <1>2, <1>11 DEF ScanInv, ChatInv, InChat, History
  <2>2. /\ History(chat) \subseteq History(chat)' /\ History(chat)' \subseteq Msgs
        /\ \A m \in History(chat)' \ History(chat) :
              Ts[m] = now /\ \A v \in History(chat) : Precedes(v, m)
    <3> DEFINE Grows(c, H) == /\ History(c) \subseteq H /\ H \subseteq Msgs
                              /\ \A m \in H \ History(c) :
                                    Ts[m] = now /\ \A v \in History(c) : Precedes(v, m)
    <3>1. \A c \in Chats : Grows(c, {m \in visible' : ChatOf[m] = c})
      BY <1>1, Arrivals DEF History
    <3> QED
      BY <1>11, <2>1, <3>1 DEF History
  <2>3. \A m \in History(chat)' \ batch :
            (Ts[m] < passStartedAt \/ \E b \in batch : Precedes(m, b)) => m \in History(chat)
    BY <1>2, <1>11, <2>1, <2>2, PrecedesOrder
  <2>4. ~gap => \A m \in History(chat)' \ batch :
            (Ts[m] < passStartedAt \/ \E b \in batch : Precedes(m, b)) => Settled(m)'
    BY <1>1, <2>1, <2>3, SettledStays
  <2>5. SafeMark(through, chat)'
    BY <1>1, <1>4, <1>11 DEF ScanInv, InChat
  <2>6. batch' \subseteq History(chat)'
    BY <1>11, <2>1, <2>2
  <2> QED
    BY <1>11, <2>4, <2>5, <2>6
<1>12. \/ FetchHistory
       \/ \E m \in Msgs : ScanPassOver(m) \/ ScanConfirmed(m)
       \/ UNCHANGED visible /\ \E m \in Msgs : ScanGap(m)
       \/ phase \in {"scan", "await"} /\ UNCHANGED <<chat, batch, gap, through, passStartedAt>>
  BY <1>3, PassMoves DEF PassStart, canReconcile, listChats, FetchFails, ChatDone, SkipChat, OpenChat,
     ScanPublish, PassDone, PassEnds
<1> QED
  BY <1>5, <1>9, <1>10, <1>11, <1>12

----------------------------------------------------------------------------
(* The marks are safe *)

\* The inductive invariant: in the environment of DeliveryAssumption, what the pass knows of a
\* chat is enough for every mark it leaves.
LEMMA ForwardCorrect ==
    ASSUME DeliveryAssumption
    PROVE  Spec => []ForwardInv
<1>1. Init => ForwardInv
  <2> SUFFICES ASSUME Init PROVE ForwardInv
    OBVIOUS
  <2>1. TypeOK
    BY InitType
  <2>2. HistoryInv /\ ClockInv /\ WatermarkInv /\ AwaitInv
    BY DEF Init, HistoryInv, HistorySafe, ClockInv, WatermarkInv, SafeBefore, AwaitInv
  <2>3. AnchorInv
    BY DEF Init, AnchorInv, SafeMark, SettledThrough
  <2>4. PassInv /\ SeenInv /\ DoneInv /\ ChatInv /\ ScanInv /\ WindowInv
    BY DEF Init, PassInv, SeenInv, DoneInv, ChatInv, ScanInv, WindowInv, Listed, InChat
  <2> QED
    BY <2>1, <2>2, <2>3, <2>4 DEF ForwardInv
<1>2. ForwardInv /\ [Next]_vars => ForwardInv'
  <2> SUFFICES ASSUME ForwardInv, [Next]_vars PROVE ForwardInv'
    OBVIOUS
  <2>1. TypeOK /\ ClockInv /\ HistoryInv /\ AwaitInv /\ WindowInv /\ PromptDelivery
    BY DEF ForwardInv, DeliveryAssumption
  <2>2. TypeOK' /\ HistoryInv' /\ ClockInv'
    BY <2>1, TypeStep, HistoryStep, ClockStep
  <2>3. AnchorInv' /\ WatermarkInv'
    BY <2>1, AnchorStep, WatermarkStep
  <2>4. PassInv' /\ SeenInv' /\ ChatInv' /\ AwaitInv' /\ WindowInv'
    BY <2>1, PassInvStep, SeenStep, ChatStep, AwaitStep, WindowStep
  <2>5. DoneInv' /\ ScanInv'
    BY DoneStep, ScanStep
  <2> QED
    BY <2>2, <2>3, <2>4, <2>5 DEF ForwardInv
<1> QED
  BY <1>1, <1>2, PTL DEF Spec

\* No anchor, in memory or on disk, is ever past a message that is still owed, whatever
\* crashes, is lost, is refused or overtakes what.
THEOREM AnchorIsSafe ==
    ASSUME DeliveryAssumption
    PROVE  Spec => []AnchorSafe
<1>1. ForwardInv => AnchorSafe
  BY DEF ForwardInv, AnchorInv, AnchorSafe, SafeMark, SettledThrough
<1> QED
  BY <1>1, ForwardCorrect, PTL

\* No watermark, in memory or on disk, is ever past a message that is still owed.
THEOREM WatermarkIsSafe ==
    ASSUME DeliveryAssumption
    PROVE  Spec => []WatermarkSafe
<1>1. ForwardInv => WatermarkSafe
  BY DEF ForwardInv, WatermarkInv, WatermarkSafe, SafeBefore, MaxOf
<1> QED
  BY <1>1, ForwardCorrect, PTL

\* While the process runs an anchor moves to an older message of its chat by no step: a scan
\* that ends with an older mark leaves it alone, and a prune only drops it.
THEOREM AnchorMovesOn == Spec => AnchorKeepsUp
<1> DEFINE Keeps == up /\ up' => \A c \in Chats :
                       anchor[c] # None /\ anchor'[c] # None => Ts[anchor'[c]] >= Ts[anchor[c]]
<1>1. TypeOK /\ [Next]_vars => Keeps
  <2> SUFFICES ASSUME TypeOK, [Next]_vars, up, up', NEW c \in Chats,
                      anchor[c] # None, anchor'[c] # None
               PROVE  Ts[anchor'[c]] >= Ts[anchor[c]]
    OBVIOUS
  <2>1. anchor \in [Chats -> Msgs \cup {None}] /\ Ts[anchor[c]] \in Nat
    BY MsgsAssumption DEF TypeOK, StoreType
  <2>2. CASE ChatDone
    <3>1. \/ anchor' = anchor
          \/ /\ ~(anchor[chat] # None /\ (anchor[chat] = through \/ Ts[anchor[chat]] > Ts[through]))
             /\ anchor' = [anchor EXCEPT ![chat] = through] /\ through # None
      BY <2>2 DEF ChatDone, advanceAnchor
    <3>2. through # None => Ts[through] \in Nat
      BY MsgsAssumption DEF TypeOK, PassType
    <3> QED
      BY <2>1, <3>1, <3>2
  <2>3. CASE PersistStart
    <3>1. anchor'[c] = anchor[c]
      BY <2>1, <2>3, PrunedMark DEF PersistStart
    <3> QED
      BY <2>1, <3>1
  <2>4. CASE UNCHANGED anchor
    BY <2>1, <2>4
  <2>5. ChatDone \/ PersistStart \/ UNCHANGED anchor
    BY DEF Next, PassStep, Tick, Arrive, SessionReady, SessionLost, ChannelUp, Land, Nack,
           ChannelLost, handleLiveMessage, DropEvent, LiveConfirmed, record, PassStart, canReconcile,
           listChats, SkipChat, OpenChat, FetchHistory, FetchFails, PassFails, ScanPassOver,
           ScanPublish, ScanNoChannel, ScanConfirmed, PassDone, PersistTimerFires,
           PersistDone, PersistFails, Crash, Restart, ReadHistory, StartEmpty, Fault
  <2> QED
    BY <2>2, <2>3, <2>4, <2>5
<1>2. TypeOK /\ [Next]_vars => [Keeps]_vars
  BY <1>1
<1> QED
  BY <1>2, TypeCorrect, PTL DEF Spec, AnchorKeepsUp
=============================================================================
