------------------------ MODULE InboundRescan_proofs ------------------------
(***************************************************************************)
(* Rescans publish nothing twice, for every set of chats and messages,     *)
(* late or in order, every clock, fault budget and configuration that      *)
(* keeps the history long enough.                                          *)
(***************************************************************************)
EXTENDS InboundForwarding_proofs

USE DEF Actors, Stages, Phases,
        vars, envVars, brokerVars, storeVars, writeVars, diskVars, procVars, passVars, chatVars

----------------------------------------------------------------------------
(* The inductive invariant *)

\* No live event races the passes, and an id is remembered for at least as long as a pass may
\* still admit its message: "the backfill never reaches that far back anyway"
\* (processedMessageStore.ts) takes the backfill window and the length of a pass.
RescanAssumption ==
    /\ ~LiveEvents
    /\ Retention >= BackfillMaxAge + MaxPassTime

\* The live handler has nothing to do and nothing under way.
LiveSilent ==
    /\ events = {}
    /\ \A m \in Msgs, s \in Stages : <<"live", m, s>> \notin flight

\* A process that is down leaves nothing running.
DownInv == ~up => flight = {} /\ phase = "idle" /\ ~writing /\ queued = 0 /\ ~persistTimer

\* The id of m has left the retention window.
Expired(m) == Ts[m] < now - Retention
Remembered(m) == IF up THEN m \in processed ELSE m \in diskProcessed

\* What the broker took once is remembered, about to be, or too old to be asked for again.
Answered(m) == Remembered(m) \/ <<"scan", m, "landed">> \in flight \/ Expired(m)
OnceInv ==
    \A m \in Msgs :
        /\ copies[m] <= 1
        /\ copies[m] = 1 => Answered(m)
        /\ <<"scan", m, "sent">> \in flight => copies[m] = 0

RescanInv == TypeOK /\ AwaitInv /\ LiveSilent /\ DownInv /\ WindowInv /\ OnceInv

----------------------------------------------------------------------------
(* Its steps *)

LEMMA LiveSilentStep ==
    ASSUME ~LiveEvents, TypeOK, LiveSilent, [Next]_vars
    PROVE  LiveSilent'
<1> USE DEF LiveSilent
<1>1. ASSUME NEW m \in Msgs, Arrive(m) PROVE LiveSilent'
  BY <1>1 DEF Arrive
<1>2. ASSUME NEW m \in Msgs, handleLiveMessage(m) \/ DropEvent(m) \/ LiveConfirmed(m)
      PROVE  LiveSilent'
  BY <1>2 DEF handleLiveMessage, DropEvent, LiveConfirmed
<1>3. ASSUME NEW a \in Actors, NEW m \in Msgs, Land(a, m) PROVE LiveSilent'
  BY <1>3 DEF Land
<1>4. ASSUME NEW m \in Msgs, ScanPublish(m) PROVE LiveSilent'
  BY <1>4 DEF ScanPublish
<1>5. CASE SessionLost
  BY <1>5 DEF SessionLost
<1>6. CASE ChannelLost
  BY <1>6 DEF ChannelLost
<1>7. CASE Crash
  BY <1>7 DEF Crash
<1>8. CASE UNCHANGED events /\ flight' \subseteq flight
  BY <1>8
<1> QED
  BY <1>1, <1>2, <1>3, <1>4, <1>5, <1>6, <1>7, <1>8
  DEF Next, PassStep, Tick, SessionReady, ChannelUp, Nack, PassStart, canReconcile, listChats,
      SkipChat, OpenChat, FetchHistory, FetchFails, PassFails, ScanPassOver, ScanNoChannel,
      ScanConfirmed, ChatDone, PassDone, PersistTimerFires, PersistStart, PersistDone, PersistFails,
      Restart, ReadHistory, StartEmpty, Fault

LEMMA DownStep ==
    ASSUME TypeOK, LiveSilent, DownInv, [Next]_vars
    PROVE  DownInv'
<1> USE DEF DownInv
<1>1. ASSUME NEW m \in Msgs,
             Arrive(m) \/ handleLiveMessage(m) \/ DropEvent(m) \/ LiveConfirmed(m)
      PROVE  DownInv'
  BY <1>1 DEF Arrive, handleLiveMessage, DropEvent, LiveConfirmed, LiveSilent
<1>2. ASSUME NEW a \in Actors, NEW m \in Msgs, Land(a, m) \/ Nack(a, m) PROVE DownInv'
  BY <1>2 DEF Land, Nack
<1>3. CASE Tick \/ SessionReady \/ SessionLost \/ ChannelUp
  BY <1>3 DEF Tick, SessionReady, SessionLost, ChannelUp
<1>4. CASE ChannelLost
  BY <1>4 DEF ChannelLost
<1>5. CASE PassStep
  BY <1>5
  DEF PassStep, PassStart, canReconcile, listChats, SkipChat, OpenChat, FetchHistory, FetchFails,
      PassFails, ScanPassOver, ScanPublish, ScanNoChannel, ScanConfirmed, ChatDone, PassDone
<1>6. CASE PersistTimerFires \/ PersistStart \/ PersistDone \/ PersistFails
  BY <1>6 DEF PersistTimerFires, PersistStart, NextWrite, PersistDone, PersistFails
<1>7. CASE Crash
  BY <1>7 DEF Crash
<1>8. CASE Restart
  BY <1>8 DEF Restart
<1>9. CASE UNCHANGED vars
  BY <1>9
<1> QED
  BY <1>1, <1>2, <1>3, <1>4, <1>5, <1>6, <1>7, <1>8, <1>9 DEF Next

\* A message that is due during a pass is in no copy at the broker.
LEMMA DueIsNew ==
    ASSUME RescanAssumption, RescanInv, phase = "scan", NEW m \in Msgs, isDue(m, scanFrom)
    PROVE  copies[m] = 0
<1>1. up /\ <<"scan", m, "landed">> \notin flight
  BY DEF RescanInv, DownInv, AwaitInv
<1>2. ~Expired(m)
  <2>1. /\ now \in Nat /\ passStartedAt \in Nat /\ floor \in Int /\ scanFrom \in Int
        /\ BackfillMaxAge \in Nat /\ MaxPassTime \in Nat /\ Ts[m] \in Nat /\ Retention \in Nat
    BY ConfigAssumption, EnvironmentAssumption, MsgsAssumption
    DEF RescanInv, TypeOK, WorldType, PassType, Retention, MaxOf
  <2>2. /\ now - passStartedAt <= MaxPassTime /\ passStartedAt - BackfillMaxAge <= floor
        /\ floor <= scanFrom /\ scanFrom <= Ts[m]
    BY DEF RescanInv, WindowInv, InChat, isDue
  <2>3. Retention >= BackfillMaxAge + MaxPassTime
    BY DEF RescanAssumption
  <2> QED
    BY <2>1, <2>2, <2>3 DEF Expired
<1>3. m \notin processed
  BY DEF isDue
<1>4. copies[m] # 1
  BY <1>1, <1>2, <1>3 DEF RescanInv, OnceInv, Answered, Remembered
<1>5. copies[m] \in 0 .. 2 /\ copies[m] <= 1
  BY DEF RescanInv, OnceInv, TypeOK, BrokerType
<1> QED
  BY <1>4, <1>5

\* Time only ever takes ids out of the window.
LEMMA ExpiredStays ==
    ASSUME TypeOK, [Next]_vars, NEW m \in Msgs, Expired(m)
    PROVE  Expired(m)'
<1>1. now' = now \/ now' = now + 1
  BY DEF Next, PassStep, Tick, Arrive, handleLiveMessage, DropEvent, LiveConfirmed, SessionReady,
         SessionLost, ChannelUp, ChannelLost, Land, Nack, PassStart, listChats, SkipChat, OpenChat,
         FetchHistory, FetchFails, PassFails, ScanPassOver, ScanPublish, ScanNoChannel,
         ScanConfirmed, ChatDone, PassDone, PersistTimerFires, PersistStart, PersistDone,
         PersistFails, Crash, Restart
<1>2. now \in Nat /\ Ts[m] \in Nat /\ Retention \in Nat
  BY ConfigAssumption, MsgsAssumption DEF TypeOK, WorldType, Retention, MaxOf
<1> QED
  BY <1>1, <1>2 DEF Expired

LEMMA OnceStep ==
    ASSUME RescanAssumption, RescanInv, [Next /\ AnswersHeard /\ HistoryKept]_vars
    PROVE  OnceInv'
<1>1. TypeOK /\ AwaitInv /\ LiveSilent /\ DownInv /\ OnceInv /\ [Next]_vars
  BY DEF RescanInv
<1>2. \A m \in Msgs : copies[m] \in 0 .. 2 /\ copies[m] <= 1
  BY <1>1 DEF TypeOK, BrokerType, OnceInv
\* Most steps leave the copies alone, and what is remembered.
<1>3. ASSUME UNCHANGED copies,
             \A m \in Msgs : <<"scan", m, "sent">> \in flight' => <<"scan", m, "sent">> \in flight,
             \A m \in Msgs : copies[m] = 1 /\ Answered(m) => Answered(m)'
      PROVE  OnceInv'
  BY <1>1, <1>3 DEF OnceInv
<1>4. ASSUME UNCHANGED <<copies, flight, up, processed, diskProcessed>> PROVE OnceInv'
  <2>1. \A m \in Msgs : Answered(m) => Answered(m)'
    BY <1>1, <1>4, ExpiredStays DEF Answered, Remembered
  <2> QED
    BY <1>3, <1>4, <2>1
<1>5. ASSUME NEW m \in Msgs, Land("scan", m) PROVE OnceInv'
  <2>1. copies' = [copies EXCEPT ![m] = MinOf(copies[m] + 1, 2)] /\ copies[m] = 0
    BY <1>1, <1>5 DEF Land, OnceInv
  <2>2. copies'[m] = 1 /\ \A n \in Msgs \ {m} : copies'[n] = copies[n]
    BY <1>1, <2>1 DEF MinOf, TypeOK, BrokerType
  <2>3. flight' = (flight \ {<<"scan", m, "sent">>}) \cup {<<"scan", m, "landed">>}
        /\ UNCHANGED <<up, processed, diskProcessed, now>>
    BY <1>5 DEF Land
  <2>4. \A n \in Msgs : <<"scan", n, "sent">> \in flight'
            <=> n # m /\ <<"scan", n, "sent">> \in flight
    BY <2>3
  <2>5. Answered(m)'
    BY <2>3 DEF Answered
  <2>6. \A n \in Msgs : Answered(n) => Answered(n)'
    BY <2>3 DEF Answered, Remembered, Expired
  <2>7. SUFFICES ASSUME NEW n \in Msgs
                 PROVE  /\ copies'[n] <= 1 /\ (copies'[n] = 1 => Answered(n)')
                        /\ (<<"scan", n, "sent">> \in flight' => copies'[n] = 0)
    BY DEF OnceInv
  <2>8. CASE n = m
    BY <2>2, <2>4, <2>5, <2>8
  <2>9. CASE n # m
    BY <1>1, <2>2, <2>4, <2>6, <2>9 DEF OnceInv
  <2> QED
    BY <2>8, <2>9
<1>6. ASSUME NEW m \in Msgs, ScanPublish(m) PROVE OnceInv'
  <2>1. copies[m] = 0
    BY <1>6, DueIsNew DEF ScanPublish
  <2>2. flight' = flight \cup {<<"scan", m, "sent">>}
        /\ UNCHANGED <<copies, up, processed, diskProcessed, now>>
    BY <1>6 DEF ScanPublish
  <2>3. \A n \in Msgs : Answered(n) => Answered(n)'
    BY <2>2 DEF Answered, Remembered, Expired
  <2> QED
    BY <1>1, <2>1, <2>2, <2>3 DEF OnceInv
<1>7. ASSUME NEW m \in Msgs, ScanConfirmed(m) PROVE OnceInv'
  <2>1. up
    BY <1>1, <1>7 DEF ScanConfirmed, DownInv
  <2>2. /\ flight' = flight \ {<<"scan", m, "landed">>} /\ processed' = processed \cup {m}
        /\ UNCHANGED <<copies, up, diskProcessed, now>>
    BY <1>7 DEF ScanConfirmed, record
  <2>3. \A n \in Msgs : Answered(n) => Answered(n)'
    BY <2>1, <2>2 DEF Answered, Remembered, Expired
  <2> QED
    BY <1>3, <2>2, <2>3
<1>8. ASSUME NEW a \in Actors, NEW m \in Msgs, Nack(a, m) PROVE OnceInv'
  <2>1. flight' = flight \ {<<a, m, "sent">>} /\ UNCHANGED <<copies, up, processed, diskProcessed, now>>
    BY <1>8 DEF Nack
  <2>2. \A n \in Msgs : Answered(n) => Answered(n)'
    BY <2>1 DEF Answered, Remembered, Expired
  <2> QED
    BY <1>3, <2>1, <2>2
<1>9. CASE ChannelLost /\ AnswersHeard
  <2>1. /\ flight' = {} /\ UNCHANGED <<copies, up, processed, diskProcessed, now>>
        /\ \A m \in Msgs : <<"scan", m, "landed">> \notin flight
    BY <1>9 DEF ChannelLost, AnswersHeard
  <2>2. \A n \in Msgs : Answered(n) => Answered(n)'
    BY <2>1 DEF Answered, Remembered, Expired
  <2> QED
    BY <1>3, <2>1, <2>2
<1>10. CASE PersistStart
  <2>1. up /\ processed' = PrunedSet(processed) /\ UNCHANGED <<copies, flight, up, diskProcessed, now>>
    BY <1>1, <1>10 DEF PersistStart, NextWrite, DownInv, TypeOK, StoreType
  <2>2. \A n \in Msgs : n \in processed \ processed' => Expired(n)'
    BY <1>1, <2>1, MsgsAssumption, ConfigAssumption
    DEF PrunedSet, Expired, TypeOK, WorldType, Retention, MaxOf
  <2>3. \A n \in Msgs : Answered(n) => Answered(n)'
    BY <2>1, <2>2 DEF Answered, Remembered, Expired
  <2> QED
    BY <1>3, <2>1, <2>3
<1>11. CASE PersistDone
  <2>1. up /\ UNCHANGED <<copies, flight, up, processed, now>>
    BY <1>1, <1>11 DEF PersistDone, DownInv
  <2>2. \A n \in Msgs : Answered(n) => Answered(n)'
    BY <2>1 DEF Answered, Remembered, Expired
  <2> QED
    BY <1>3, <2>1, <2>2
<1>12. CASE Crash /\ AnswersHeard /\ HistoryKept
  <2>1. /\ up /\ ~up' /\ flight' = {} /\ UNCHANGED <<copies, diskProcessed, now>>
        /\ \A m \in Msgs : <<"scan", m, "landed">> \notin flight
        /\ processed \subseteq diskProcessed
    BY <1>12 DEF Crash, AnswersHeard, HistoryKept
  <2>2. \A n \in Msgs : Answered(n) => Answered(n)'
    BY <2>1 DEF Answered, Remembered, Expired
  <2> QED
    BY <1>3, <2>1, <2>2
<1>13. CASE Restart /\ HistoryKept
  <2>1. /\ ~up /\ up' /\ UNCHANGED <<copies, flight, diskProcessed, now>>
        /\ PrunedSet(diskProcessed) \subseteq processed'
    BY <1>13 DEF Restart, HistoryKept
  <2>2. \A n \in Msgs : n \in diskProcessed \ processed' => Expired(n)'
    BY <1>1, <2>1, MsgsAssumption, ConfigAssumption
    DEF PrunedSet, Expired, TypeOK, WorldType, Retention, MaxOf
  <2>3. \A n \in Msgs : Answered(n) => Answered(n)'
    BY <2>1, <2>2 DEF Answered, Remembered, Expired
  <2> QED
    BY <1>3, <2>1, <2>3
<1>14. ASSUME NEW m \in Msgs, handleLiveMessage(m) \/ LiveConfirmed(m) \/ Land("live", m) PROVE FALSE
  BY <1>1, <1>14 DEF handleLiveMessage, LiveConfirmed, Land, LiveSilent
<1>15. CASE UNCHANGED <<copies, flight, up, processed, diskProcessed>>
  BY <1>4, <1>15
<1> QED
  BY <1>5, <1>6, <1>7, <1>8, <1>9, <1>10, <1>11, <1>12, <1>13, <1>14, <1>15
  DEF Next, PassStep, Tick, Arrive, DropEvent, SessionReady, SessionLost, ChannelUp, PassStart,
      listChats, SkipChat, OpenChat, FetchHistory, FetchFails, PassFails, ScanPassOver,
      ScanNoChannel, ChatDone, PassDone, PersistTimerFires, PersistFails

----------------------------------------------------------------------------
(* The result *)

\* Rescans publish nothing twice: whatever is nacked, fails to be read or written, loses its
\* session or is restarted, no message reaches the broker a second time, as long as no live
\* event races the passes, no answer of the broker is cut off, no history is lost, and ids are
\* kept for the backfill window and the length of a pass.
THEOREM RescansNeverDuplicate ==
    ASSUME RescanAssumption
    PROVE  RescanSpec => []NoDuplicates
<1>1. Init => RescanInv
  <2> SUFFICES ASSUME Init PROVE RescanInv
    OBVIOUS
  <2>1. TypeOK
    BY InitType
  <2>2. AwaitInv /\ LiveSilent /\ DownInv /\ WindowInv
    BY DEF Init, AwaitInv, LiveSilent, DownInv, WindowInv, InChat
  <2>3. OnceInv
    BY DEF Init, OnceInv
  <2> QED
    BY <2>1, <2>2, <2>3 DEF RescanInv
<1>2. RescanInv /\ [Next /\ AnswersHeard /\ HistoryKept]_vars => RescanInv'
  BY TypeStep, AwaitStep, LiveSilentStep, DownStep, WindowStep, OnceStep
  DEF RescanInv, RescanAssumption
<1>3. RescanInv => NoDuplicates
  BY DEF RescanInv, OnceInv, NoDuplicates
<1> QED
  BY <1>1, <1>2, <1>3, PTL DEF RescanSpec
=============================================================================
