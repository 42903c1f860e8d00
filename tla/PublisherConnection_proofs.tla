--------------------- MODULE PublisherConnection_proofs ---------------------
(***************************************************************************)
(* Proofs about PublisherConnection, for any events, any supply of names   *)
(* for connections and any number of faults.                               *)
(***************************************************************************)
EXTENDS PublisherConnection, TLAPS

USE DEF vars, netVars, ownVars, sendVars

----------------------------------------------------------------------------
(* The connection *)

\* Besides what NeverStranded and OnlyCurrentWatched say: a process that has ended has nothing
\* open, close() waits only for a connection that was up, which leaves no attempt and no timer
\* behind, and an attempt has a connection, which is not the current one, once it is connected.
LinkInv ==
    /\ open \subseteq Connections /\ watched \subseteq open
    /\ dialling \in Dialling
    /\ connection \in Connections \cup {None}
    /\ timers \in {0, 1} /\ closing \in {"no", "channel", "connection"}
    /\ NeverStranded /\ OnlyCurrentWatched
    /\ ~up => dialling = "off" /\ timers = 0 /\ open = {} /\ ~closed
    /\ closed <=> closing # "no"
    /\ closed => dialling = "off" /\ timers = 0
    /\ IF dialling \in {"creating", "asserting"} THEN dialled \in Connections ELSE dialled = None

LEMMA LinkStep ==
    ASSUME LinkInv, up \in BOOLEAN, closed \in BOOLEAN, [Next]_vars
    PROVE  LinkInv'
<1> USE DEF LinkInv, NeverStranded, OnlyCurrentWatched, Dialling
<1>1. CASE Start
  BY <1>1 DEF Start, connect
<1>2. CASE TimerFires
  BY <1>2 DEF TimerFires, connect
<1>3. CASE Connected
  <2> DEFINE k == CHOOSE free \in Connections : free \notin open
  <2>1. k \in Connections /\ k \notin open
    BY <1>3 DEF Connected
  <2>2. /\ dialling = "connecting" /\ open' = open \cup {k} /\ watched' = watched
        /\ dialling' = "creating" /\ dialled' = k
        /\ UNCHANGED <<up, ownVars>>
    BY <1>3 DEF Connected, WatchesLater
  <2> HIDE DEF k
  <2> QED
    BY <2>1, <2>2
<1>4. CASE ChannelCreated
  BY <1>4 DEF ChannelCreated
<1>5. CASE ExchangeAsserted
  BY <1>5, ConnectionsAssumption DEF ExchangeAsserted
<1>6. CASE AttemptFails
  BY <1>6 DEF AttemptFails, TriesAgain, scheduleReconnect
<1>7. CASE ChannelClosed
  BY <1>7 DEF ChannelClosed
<1>8. CASE ConnectionClosed \/ Crash
  BY <1>8 DEF ConnectionClosed, Crash, ProcessEnds
<1>9. CASE CloseBegins
  BY <1>9, ConnectionsAssumption DEF CloseBegins, ProcessEnds
<1>10. ASSUME NEW k \in Connections, ConnectionEnds(k) PROVE LinkInv'
  <2>1. CASE k \in watched
    BY <1>10, <2>1, ConnectionsAssumption
    DEF ConnectionEnds, ClosedHandler, ForgetsBoth, scheduleReconnect
  <2>2. CASE k \notin watched
    BY <1>10, <2>2 DEF ConnectionEnds
  <2> QED
    BY <2>1, <2>2
<1>11. ASSUME NEW e \in Events, Forward(e) \/ Land(e) \/ Confirm(e) \/ Nack(e) PROVE LinkInv'
  <2>1. UNCHANGED <<up, netVars, dialling, dialled, ownVars>>
    BY <1>11 DEF Forward, Land, Confirm, Nack
  <2> QED
    BY <2>1
<1>12. CASE UNCHANGED vars
  BY <1>12
<1> QED
  BY <1>1, <1>2, <1>3, <1>4, <1>5, <1>6, <1>7, <1>8, <1>9, <1>10, <1>11, <1>12
  DEF Next, Attempt, Close
LEMMA LinkInit == Init => LinkInv
  BY DEF Init, LinkInv, NeverStranded, OnlyCurrentWatched, Dialling

----------------------------------------------------------------------------
(* Types *)

\* The end of a connection answers what was sent over it, and takes no type away.
LEMMA EndsWithType ==
    ASSUME TypeOK, NEW S, EndsWith(S)
    PROVE  /\ state' \in [Events -> States] /\ via' \in [Events -> Connections \cup {None}]
           /\ copies' \in [Events -> 0 .. 2]
<1>1. \A n \in 0 .. 2 : n < 2 => n + 1 \in 0 .. 2
  OBVIOUS
<1>2. PICK late \in SUBSET {e \in S : state[e] = "sent"} : Lands(late)
  BY DEF EndsWith
<1>3. copies' \in [Events -> 0 .. 2]
  BY <1>1, <1>2 DEF TypeOK, Lands
<1>4. state' \in [Events -> States] /\ via' \in [Events -> Connections \cup {None}]
  BY DEF TypeOK, EndsWith, Answered, AnswerOf, States
<1> QED
  BY <1>3, <1>4

LEMMA TypeStep ==
    ASSUME TypeOK, LinkInv, LinkInv', [Next]_vars
    PROVE  TypeOK'
<1>1. /\ open' \subseteq Connections /\ watched' \subseteq open'
      /\ dialling' \in Dialling /\ dialled' \in Connections \cup {None}
      /\ connection' \in Connections \cup {None} /\ channel' \in Connections \cup {None}
      /\ timers' \in {0, 1} /\ closing' \in {"no", "channel", "connection"}
  BY DEF LinkInv, OnlyCurrentWatched
<1>2. SUFFICES /\ up' \in BOOLEAN /\ faults' \in Nat /\ closed' \in BOOLEAN
               /\ state' \in [Events -> States] /\ via' \in [Events -> Connections \cup {None}]
               /\ copies' \in [Events -> 0 .. 2]
  BY <1>1 DEF TypeOK
<1>3. Fault => faults' \in Nat
  BY DEF Fault, TypeOK
<1> USE DEF TypeOK
<1>4. CASE Start \/ TimerFires
  BY <1>4 DEF Start, TimerFires
<1>5. CASE Connected \/ ChannelCreated \/ ExchangeAsserted
  BY <1>5 DEF Connected, ChannelCreated, ExchangeAsserted
<1>6. CASE AttemptFails
  BY <1>3, <1>6 DEF AttemptFails
<1>7. CASE ChannelClosed
  BY <1>7, EndsWithType DEF ChannelClosed
<1>8. CASE ConnectionClosed \/ Crash
  BY <1>3, <1>8, EndsWithType DEF ConnectionClosed, Crash, ProcessEnds
<1>9. CASE CloseBegins
  BY <1>3, <1>9, EndsWithType DEF CloseBegins, ProcessEnds
<1>10. ASSUME NEW k \in Connections, ConnectionEnds(k)
       PROVE  /\ up' \in BOOLEAN /\ faults' \in Nat /\ closed' \in BOOLEAN
              /\ state' \in [Events -> States] /\ via' \in [Events -> Connections \cup {None}]
              /\ copies' \in [Events -> 0 .. 2]
  BY <1>3, <1>10, EndsWithType DEF ConnectionEnds
<1>11. ASSUME NEW e \in Events, Forward(e) \/ Land(e) \/ Confirm(e) \/ Nack(e)
       PROVE  /\ up' \in BOOLEAN /\ faults' \in Nat /\ closed' \in BOOLEAN
              /\ state' \in [Events -> States] /\ via' \in [Events -> Connections \cup {None}]
              /\ copies' \in [Events -> 0 .. 2]
  <2>1. CASE Forward(e)
    BY <2>1 DEF Forward, publishMessage, States
  <2>2. CASE Land(e)
    <3>1. copies' \in [Events -> 0 .. 2]
      BY <2>2 DEF Land, Lands
    <3> QED
      BY <2>2, <3>1 DEF Land, States
  <2>3. CASE Confirm(e)
    BY <2>3 DEF Confirm, Answered, AnswerOf, States
  <2>4. CASE Nack(e)
    BY <1>3, <2>4 DEF Nack, Answered, AnswerOf, States
  <2> QED
    BY <1>11, <2>1, <2>2, <2>3, <2>4
<1>12. CASE UNCHANGED vars
  BY <1>12
<1> QED
  BY <1>4, <1>5, <1>6, <1>7, <1>8, <1>9, <1>10, <1>11, <1>12 DEF Next, Attempt, Close

LEMMA TypeInit == Init => TypeOK
<1> SUFFICES ASSUME Init PROVE TypeOK
  OBVIOUS
<1>1. /\ state \in [Events -> States] /\ via \in [Events -> Connections \cup {None}]
      /\ copies \in [Events -> 0 .. 2]
  BY DEF Init, States
<1> QED
  BY <1>1 DEF Init, TypeOK, Dialling

LinkSafe == TypeOK /\ LinkInv

LEMMA LinkIsSafe == Spec => []LinkSafe
<1>1. Init => LinkSafe
  BY LinkInit, TypeInit DEF LinkSafe
<1>2. LinkSafe /\ [Next]_vars => LinkSafe'
  BY LinkStep, TypeStep DEF LinkSafe, TypeOK
<1> QED
  BY <1>1, <1>2, PTL DEF Spec

\* Every reachable state of the publisher is well typed; two timers are never set at a time.
THEOREM TypeCorrect == Spec => []TypeOK
<1>1. LinkSafe => TypeOK
  BY DEF LinkSafe
<1> QED
  BY <1>1, LinkIsSafe, PTL

\* A process that is not shutting down has exactly one way to the broker: an attempt, a timer or
\* a connection whose end it will hear of.
THEOREM AlwaysOneWay == Spec => []NeverStranded
<1>1. LinkSafe => NeverStranded
  BY DEF LinkSafe, LinkInv
<1> QED
  BY <1>1, LinkIsSafe, PTL

\* The 'close' handler that forgets whatever is current is attached to the current connection
\* alone, and the channel is that connection's.
THEOREM CurrentIsWatched == Spec => []OnlyCurrentWatched
<1>1. LinkSafe => OnlyCurrentWatched
  BY DEF LinkSafe, LinkInv
<1> QED
  BY <1>1, LinkIsSafe, PTL

----------------------------------------------------------------------------
(* The publishes *)

\* What is unanswered went out on the current channel. An edit or a deletion is in the exchange
\* at most once, and not before it lands.
FlightInv == \A e \in Pending : channel # None /\ via[e] = channel
CopiesInv ==
    \A e \in Events :
        /\ state[e] \in {"landed", "published"} => copies[e] > 0
        /\ e \notin Created => copies[e] <= 1 /\ (state[e] \in {"new", "sent"} => copies[e] = 0)

\* What the end of a connection does: everything in S comes back unconfirmed.
LEMMA EndsWithAnswers ==
    ASSUME TypeOK, NEW S \in SUBSET Pending, EndsWith(S)
    PROVE  /\ Pending' = Pending \ S
           /\ \A e \in Pending \ S : via'[e] = via[e]
           /\ \A e \in Events : state'[e] = IF e \in S THEN "unconfirmed" ELSE state[e]
           /\ \A e \in Events : \/ copies'[e] = copies[e]
                                \/ /\ e \in S /\ state[e] = "sent"
                                   /\ copies'[e] = IF copies[e] < 2 THEN copies[e] + 1 ELSE copies[e]
<1>1. PICK late \in SUBSET {e \in S : state[e] = "sent"} : Lands(late)
  BY DEF EndsWith
<1>2. \A e \in Events : state'[e] = IF e \in S THEN "unconfirmed" ELSE state[e]
  BY DEF EndsWith, Answered, AnswerOf
<1>3. Pending' = Pending \ S
  BY <1>2 DEF Pending
<1>4. \A e \in Pending \ S : via'[e] = via[e]
  BY DEF EndsWith, Answered, Pending
<1> QED
  BY <1>1, <1>2, <1>3, <1>4 DEF Lands, Pending
PublishInv == LinkSafe /\ FlightInv /\ CopiesInv

\* What the contract sees of the publishes.
Taken == {e \in Events : copies[e] > 0}
Published == {e \in Events : state[e] = "published"}

LEMMA EndsWithCounts ==
    ASSUME PublishInv, NEW S \in SUBSET Pending, EndsWith(S)
    PROVE  /\ Pending' = Pending \ S
           /\ \A e \in Pending \ S : via'[e] = via[e]
           /\ CopiesInv'
           /\ Taken \subseteq Taken' /\ Taken' \subseteq Taken \cup S
           /\ Published' = Published
<1> USE DEF PublishInv, LinkSafe
<1>1. \A e \in Events : copies[e] \in 0 .. 2
  BY DEF TypeOK
<1>2. /\ Pending' = Pending \ S
      /\ \A e \in Pending \ S : via'[e] = via[e]
      /\ \A e \in Events : state'[e] = IF e \in S THEN "unconfirmed" ELSE state[e]
      /\ \A e \in Events : \/ copies'[e] = copies[e]
                           \/ /\ e \in S /\ state[e] = "sent"
                              /\ copies'[e] = IF copies[e] < 2 THEN copies[e] + 1 ELSE copies[e]
  BY EndsWithAnswers
<1>3. CopiesInv'
  BY <1>1, <1>2 DEF CopiesInv
<1>4. Taken \subseteq Taken' /\ Taken' \subseteq Taken \cup S
  BY <1>1, <1>2 DEF Taken
<1>5. Published' = Published
  BY <1>2 DEF Published, Pending
<1> QED
  BY <1>2, <1>3, <1>4, <1>5

\* What a step may do to the publishes, in the words of the contract.
Hands(e) ==
    /\ channel # None /\ e \in Events \ Pending /\ state[e] # "published"
    /\ Pending' = Pending \cup {e} /\ Taken' = Taken /\ Published' = Published
    /\ channel' = channel
Lands1(e) ==
    /\ e \in Pending /\ Pending' = Pending /\ Taken' = Taken \cup {e} /\ Published' = Published
    /\ channel' = channel
Confirms(e) ==
    /\ e \in Pending \cap Taken
    /\ Pending' = Pending \ {e} /\ Taken' = Taken /\ Published' = Published \cup {e}
    /\ channel' = channel
Refuses(S) ==
    /\ S \subseteq Pending
    /\ Pending' = Pending \ S
    /\ Taken \subseteq Taken' /\ Taken' \subseteq Taken \cup S /\ Published' = Published
    /\ channel' = channel
LosesAll ==
    /\ channel' = None /\ Pending' = {}
    /\ Taken \subseteq Taken' /\ Taken' \subseteq Taken \cup Pending /\ Published' = Published
Opens ==
    /\ channel = None
    /\ Pending' = Pending /\ Taken' = Taken /\ Published' = Published

LEMMA EventStep ==
    ASSUME PublishInv, NEW e \in Events, Forward(e) \/ Land(e) \/ Confirm(e) \/ Nack(e)
    PROVE  /\ FlightInv' /\ CopiesInv'
           /\ Hands(e) \/ Lands1(e) \/ Confirms(e) \/ Refuses({e}) \/ Refuses({})
<1> USE DEF PublishInv, LinkSafe
<1>1. \A f \in Events : copies[f] \in 0 .. 2
  BY DEF TypeOK
<1>2. channel' = channel
  BY DEF Forward, Land, Confirm, Nack
<1>3. CASE Forward(e)
  <2>1. state[e] \in {"new", "unconfirmed"} /\ (state[e] = "unconfirmed" => e \in Created)
    BY <1>3 DEF Forward, Retried
  <2>2. copies' = copies
    BY <1>3 DEF Forward
  <2>3. CASE channel # None /\ state' = [state EXCEPT ![e] = "sent"]
             /\ via' = [via EXCEPT ![e] = channel]
    <3>1. \A f \in Events : state'[f] = (IF f = e THEN "sent" ELSE state[f])
                            /\ via'[f] = IF f = e THEN channel ELSE via[f]
      BY <2>3 DEF TypeOK
    <3>2. Pending' = Pending \cup {e}
      BY <3>1 DEF Pending
    <3>3. FlightInv'
      BY <1>2, <2>3, <3>1, <3>2 DEF FlightInv, Pending
    <3>4. CopiesInv'
      BY <2>1, <2>2, <3>1 DEF CopiesInv
    <3>5. Taken' = Taken /\ Published' = Published
      BY <2>1, <2>2, <3>1 DEF Taken, Published
    <3> QED
      BY <1>2, <2>1, <2>3, <3>2, <3>3, <3>4, <3>5 DEF Hands, Pending
  <2>4. ASSUME NEW s \in {"ignored", "filtered", "unconfirmed"},
               state' = [state EXCEPT ![e] = s], UNCHANGED via
        PROVE  FlightInv' /\ CopiesInv' /\ Refuses({})
    <3>1. \A f \in Events : state'[f] = IF f = e THEN s ELSE state[f]
      BY <2>4 DEF TypeOK
    <3>2. Pending' = Pending
      BY <2>1, <3>1 DEF Pending
    <3>3. FlightInv'
      BY <1>2, <2>4, <3>2 DEF FlightInv
    <3>4. CopiesInv'
      BY <2>1, <2>2, <3>1 DEF CopiesInv
    <3>5. Taken' = Taken /\ Published' = Published
      BY <2>1, <2>2, <3>1 DEF Taken, Published
    <3> QED
      BY <1>2, <3>2, <3>3, <3>4, <3>5 DEF Refuses
  <2> QED
    BY <1>3, <2>3, <2>4 DEF Forward, publishMessage
<1>4. CASE Land(e)
  <2>1. state[e] = "sent" /\ via' = via
        /\ \A f \in Events : state'[f] = IF f = e THEN "landed" ELSE state[f]
    BY <1>4 DEF Land, TypeOK
  <2>2. \A f \in Events : copies'[f] = IF f = e /\ copies[f] < 2 THEN copies[f] + 1 ELSE copies[f]
    BY <1>4 DEF Land, Lands
  <2>3. Pending' = Pending /\ e \in Pending
    BY <2>1 DEF Pending
  <2>4. FlightInv'
    BY <1>2, <2>1, <2>3 DEF FlightInv
  <2>5. CopiesInv'
    BY <1>1, <2>1, <2>2 DEF CopiesInv
  <2>6. Taken' = Taken \cup {e}
    BY <1>1, <2>2 DEF Taken
  <2>7. Published' = Published
    BY <2>1 DEF Published
  <2> QED
    BY <1>2, <2>3, <2>4, <2>5, <2>6, <2>7 DEF Lands1
<1>5. CASE Confirm(e)
  <2>1. state[e] = "landed" /\ copies' = copies
        /\ \A f \in Events : state'[f] = (IF f = e THEN "published" ELSE state[f])
                             /\ (f # e => via'[f] = via[f])
    BY <1>5 DEF Confirm, Answered, AnswerOf
  <2>2. Pending' = Pending \ {e} /\ e \in Pending \cap Taken
    BY <1>1, <2>1 DEF Pending, Taken, CopiesInv
  <2>3. FlightInv'
    BY <1>2, <2>1, <2>2 DEF FlightInv, Pending
  <2>4. CopiesInv'
    BY <2>1 DEF CopiesInv
  <2>5. Taken' = Taken /\ Published' = Published \cup {e}
    BY <2>1 DEF Taken, Published
  <2> QED
    BY <1>2, <2>2, <2>3, <2>4, <2>5 DEF Confirms
<1>6. CASE Nack(e)
  <2>1. state[e] = "sent" /\ copies' = copies
        /\ \A f \in Events : state'[f] = (IF f = e THEN "unconfirmed" ELSE state[f])
                             /\ (f # e => via'[f] = via[f])
    BY <1>6 DEF Nack, Answered, AnswerOf
  <2>2. Pending' = Pending \ {e} /\ e \in Pending
    BY <2>1 DEF Pending
  <2>3. FlightInv'
    BY <1>2, <2>1, <2>2 DEF FlightInv, Pending
  <2>4. CopiesInv'
    BY <2>1 DEF CopiesInv
  <2>5. Taken' = Taken /\ Published' = Published
    BY <2>1 DEF Taken, Published
  <2> QED
    BY <1>2, <2>2, <2>3, <2>4, <2>5 DEF Refuses
<1> QED
  BY <1>3, <1>4, <1>5, <1>6

LEMMA PublishStep ==
    ASSUME PublishInv, LinkSafe', [Next]_vars
    PROVE  /\ PublishInv'
           /\ \/ \E e \in Events : Hands(e) \/ Lands1(e) \/ Confirms(e) \/ Refuses({e})
              \/ \E S \in SUBSET Pending : Refuses(S)
              \/ LosesAll \/ Opens
<1> USE DEF PublishInv, LinkSafe
<1>1. ASSUME NEW e \in Events, Forward(e) \/ Land(e) \/ Confirm(e) \/ Nack(e)
      PROVE  /\ FlightInv' /\ CopiesInv'
             /\ \/ Hands(e) \/ Lands1(e) \/ Confirms(e) \/ Refuses({e})
                \/ \E S \in SUBSET Pending : Refuses(S)
  BY <1>1, EventStep
<1>2. CASE UNCHANGED <<state, via, copies>> /\ (channel' = channel \/ channel = None)
  <2>1. Pending' = Pending /\ Taken' = Taken /\ Published' = Published
    BY <1>2 DEF Pending, Taken, Published
  <2>2. FlightInv' /\ CopiesInv'
    BY <1>2, <2>1 DEF FlightInv, CopiesInv
  <2>3. Refuses({}) \/ Opens
    BY <1>2, <2>1 DEF Refuses, Opens
  <2> QED
    BY <2>2, <2>3
<1>3. CASE ChannelClosed
  <2>1. EndsWith(On(channel)) /\ channel' = channel
    BY <1>3 DEF ChannelClosed
  <2>2. On(channel) \in SUBSET Pending
    BY DEF On
  <2>3. FlightInv'
    BY <2>1, <2>2, EndsWithCounts DEF FlightInv
  <2>4. Refuses(On(channel)) /\ CopiesInv'
    BY <2>1, <2>2, EndsWithCounts DEF Refuses
  <2> QED
    BY <2>2, <2>3, <2>4
<1>4. ASSUME EndsWith(Pending), channel' = None
      PROVE  FlightInv' /\ CopiesInv' /\ LosesAll
  BY <1>4, EndsWithCounts DEF FlightInv, LosesAll
<1>5. CASE ConnectionClosed \/ Crash
  BY <1>4, <1>5 DEF ConnectionClosed, Crash, ProcessEnds
<1>6. CASE CloseBegins
  BY <1>2, <1>4, <1>6 DEF CloseBegins, ProcessEnds
<1>7. ASSUME NEW k \in Connections, ConnectionEnds(k)
      PROVE  /\ FlightInv' /\ CopiesInv'
             /\ LosesAll \/ \E S \in SUBSET Pending : Refuses(S)
  <2>1. EndsWith(On(k)) /\ On(k) \in SUBSET Pending
    BY <1>7 DEF ConnectionEnds, On
  <2>2. CASE k \in watched
    <3>1. channel = k /\ channel' = None
      BY <1>7, <2>2 DEF ConnectionEnds, ClosedHandler, ForgetsBoth, LinkInv, OnlyCurrentWatched
    <3>2. On(k) = Pending
      BY <3>1 DEF On, FlightInv
    <3> QED
      BY <1>4, <2>1, <3>1, <3>2
  <2>3. CASE k \notin watched
    <3>1. channel' = channel /\ channel # k
      BY <1>7, <2>3, ConnectionsAssumption DEF ConnectionEnds, LinkInv, OnlyCurrentWatched
    <3>2. FlightInv'
      BY <2>1, <3>1, EndsWithCounts DEF FlightInv
    <3>3. Refuses(On(k)) /\ CopiesInv'
      BY <2>1, <3>1, EndsWithCounts DEF Refuses
    <3> QED
      BY <2>1, <3>2, <3>3
  <2> QED
    BY <2>2, <2>3
<1>8. CASE Start \/ TimerFires \/ Connected \/ ChannelCreated \/ AttemptFails
  BY <1>2, <1>8 DEF Start, TimerFires, Connected, ChannelCreated, AttemptFails
<1>9. CASE ExchangeAsserted
  <2>1. channel = None
    BY <1>9 DEF ExchangeAsserted, LinkInv, NeverStranded, OnlyCurrentWatched
  <2> QED
    BY <1>2, <1>9, <2>1 DEF ExchangeAsserted
<1>10. CASE UNCHANGED vars
  BY <1>2, <1>10
<1> QED
  BY <1>1, <1>3, <1>5, <1>6, <1>7, <1>8, <1>9, <1>10 DEF Next, Attempt, Close

LEMMA PublishIsSafe == Spec => []PublishInv
<1>1. Init => FlightInv /\ CopiesInv
  BY DEF Init, FlightInv, CopiesInv, Pending
<1>2. LinkSafe' /\ PublishInv /\ [Next]_vars => PublishInv'
  BY PublishStep
<1>3. PublishInv => LinkSafe
  BY DEF PublishInv
<1>4. Init => LinkSafe
  BY LinkInit, TypeInit DEF LinkSafe
<1> QED
  BY <1>1, <1>2, <1>4, LinkIsSafe, PTL DEF Spec, PublishInv

\* An edit or a deletion reaches the exchange at most once, however connections end.
THEOREM EditsAtMostOnce == Spec => []EditsOnce
<1>1. PublishInv => EditsOnce
  BY EventsAssumption DEF PublishInv, CopiesInv, EditsOnce, Events
<1> QED
  BY <1>1, PublishIsSafe, PTL

LEMMA ContractStep ==
    ASSUME PublishInv, LinkSafe', [Next]_vars
    PROVE  [Contract!Next]_(Contract!vars)
<1> USE DEF Taken, Published
<1>1. ASSUME NEW e \in Events, Hands(e) PROVE Contract!Publish(e)
  BY <1>1 DEF Hands, Contract!Publish
<1>2. ASSUME NEW e \in Events, Lands1(e) PROVE Contract!Land(e)
  BY <1>2 DEF Lands1, Contract!Land
<1>3. ASSUME NEW e \in Events, Confirms(e) PROVE Contract!Confirm(e)
  BY <1>3 DEF Confirms, Contract!Confirm
<1>4. ASSUME NEW S \in SUBSET Pending, Refuses(S) PROVE [Contract!Next]_(Contract!vars)
  <2>1. CASE S = {}
    BY <1>4, <2>1 DEF Refuses, Contract!vars
  <2>2. CASE S # {}
    <3>1. Contract!Refuse(S)
      BY <1>4, <2>2 DEF Refuses, Contract!Refuse
    <3>2. S \in SUBSET Events
      BY <1>4 DEF Pending
    <3> QED
      BY <3>1, <3>2 DEF Contract!Next
  <2> QED
    BY <2>1, <2>2
<1>5. CASE LosesAll
  <2>1. CASE channel # None
    <3>1. Contract!Lost
      BY <1>5, <2>1 DEF LosesAll, Contract!Lost
    <3> QED
      BY <3>1 DEF Contract!Next
  <2>2. CASE channel = None
    <3>1. Pending = {}
      BY <2>2 DEF PublishInv, FlightInv
    <3> QED
      BY <1>5, <2>2, <3>1 DEF LosesAll, Contract!vars
  <2> QED
    BY <2>1, <2>2
<1>6. CASE Opens
  <2>1. CASE channel' # None
    <3>1. Contract!Opens
      BY <1>6, <2>1 DEF Opens, Contract!Opens
    <3> QED
      BY <3>1 DEF Contract!Next
  <2>2. CASE channel' = None
    BY <1>6, <2>2 DEF Opens, Contract!vars
  <2> QED
    BY <2>1, <2>2
<1>7. ASSUME NEW e \in Events, Refuses({e}) PROVE [Contract!Next]_(Contract!vars)
  BY <1>4, <1>7 DEF Refuses
<1> QED
  BY <1>1, <1>2, <1>3, <1>4, <1>5, <1>6, <1>7, PublishStep DEF Contract!Next

\* The publisher keeps the contract that the rest of the gateway relies on: answers come once,
\* "published" only for what the exchange took, and a channel that goes leaves nothing unanswered.
THEOREM KeepsChannelContract == Spec => HonoursChannel
<1>1. Init => Contract!Init
  BY DEF Init, Contract!Init, Pending
<1>2. PublishInv /\ LinkSafe' /\ [Next]_vars => [Contract!Next]_(Contract!vars)
  BY ContractStep
<1> QED
  BY <1>1, <1>2, PublishIsSafe, LinkIsSafe, PTL DEF Spec, HonoursChannel, Contract!Spec
=============================================================================
