------------------------- MODULE PublisherConnection -------------------------
(***************************************************************************)
(* RabbitMqPublisher: the one connection to the broker and its confirm     *)
(* channel, how they are made, lost, made again and closed at shutdown,    *)
(* and the events published over them (created, edited and deleted         *)
(* messages). RABBITMQ_URL is set.                                         *)
(*                                                                         *)
(* One action is the code between two awaits, a timer, or an event of the  *)
(* library. A connection is an identifier that may be used again once it   *)
(* is closed. A `created` message whose publish was not confirmed is       *)
(* published again by a later pass; an edit or a deletion is not.          *)
(*                                                                         *)
(* The answer that ends an await and the end of the connection are two     *)
(* events of the library: the code after the await runs in between.        *)
(***************************************************************************)
EXTENDS Integers, FiniteSets

CONSTANTS
    Connections,    \* names for the connections that may be open at once
    None,           \* no connection
    Created, Edited, Deleted,   \* what may happen to messages, one event each
    Ignored,        \* fromMe, or a change of a body that is no edit
    OffList,        \* of chats that RABBITMQ_CHAT_IDS leaves out
    \* Bound of the model:
    MaxFaults       \* lost connections, failed attempts, nacks, crashes, shutdowns

Events == Created \cup Edited \cup Deleted

ASSUME ConnectionsAssumption == None \notin Connections /\ IsFiniteSet(Connections)
ASSUME EventsAssumption ==
    /\ IsFiniteSet(Events)
    /\ Created \cap Edited = {} /\ Created \cap Deleted = {} /\ Edited \cap Deleted = {}
    /\ Ignored \subseteq Events /\ OffList \subseteq Events
ASSUME BoundAssumption == MaxFaults \in Nat

VARIABLES
    up, faults,
    \* the network: the connections open, and those of them that have the handlers
    open, watched,
    \* doConnect: the await it is at, and the connection it has got so far
    dialling, dialled,
    \* RabbitMqPublisher.connection, channel (by its connection) and closed, the reconnect
    \* timers that are set, and the await close() is at
    connection, channel, closed, timers, closing,
    \* the publishes: where each event stands, the channel it went out on, and how often the
    \* exchange took it (2: more than once)
    state, via, copies

netVars == <<open, watched>>
ownVars == <<connection, channel, closed, timers, closing>>
sendVars == <<state, via, copies>>
vars == <<up, faults, netVars, dialling, dialled, ownVars, sendVars>>

Dialling == {"off", "connecting", "creating", "asserting"}
States == {"new", "sent", "landed", "ignored", "filtered", "published", "unconfirmed"}

Pending == {e \in Events : state[e] \in {"sent", "landed"}}
On(k) == {e \in Pending : via[e] = k}

Fault == faults < MaxFaults /\ faults' = faults + 1

Init ==
    /\ up = FALSE /\ faults = 0
    /\ open = {} /\ watched = {}
    /\ dialling = "off" /\ dialled = None
    /\ connection = None /\ channel = None /\ closed = FALSE /\ timers = 0 /\ closing = "no"
    /\ state = [e \in Events |-> "new"]
    /\ via = [e \in Events |-> None]
    /\ copies = [e \in Events |-> 0]

----------------------------------------------------------------------------
(* connect and scheduleReconnect *)

\* connect: an attempt under way is the one that counts.
connect ==
    /\ dialling' = IF dialling = "off" THEN "connecting" ELSE dialling
    /\ UNCHANGED dialled

scheduleReconnect == timers' = IF closed THEN timers ELSE timers + 1

\* init, which nobody awaits: a broker that does not answer holds up nothing.
Start ==
    /\ ~up
    /\ up' = TRUE
    /\ closed' = FALSE
    /\ connect
    /\ UNCHANGED <<faults, netVars, connection, channel, timers, closing, sendVars>>

\* A timer that was set before close() still connects.
TimerFires ==
    /\ timers > 0
    /\ timers' = timers - 1
    /\ connect
    /\ UNCHANGED <<up, faults, netVars, connection, channel, closed, closing, sendVars>>

----------------------------------------------------------------------------
(* doConnect *)

\* Mutant: the handlers are attached as soon as there is a connection.
WatchesAtOnce(k) == watched' = watched \cup {k}
WatchesLater(k) == UNCHANGED watched

Connected ==
  LET k == CHOOSE free \in Connections : free \notin open IN
    /\ dialling = "connecting" /\ Connections \ open # {}
    /\ open' = open \cup {k}
    /\ WatchesLater(k)
    /\ dialling' = "creating" /\ dialled' = k
    /\ UNCHANGED <<up, faults, ownVars, sendVars>>

ChannelCreated ==
    /\ dialling = "creating" /\ dialled \in open
    /\ dialling' = "asserting"
    /\ UNCHANGED <<up, faults, netVars, dialled, ownVars, sendVars>>

ExchangeAsserted ==
    /\ dialling = "asserting" /\ dialled \in open
    /\ watched' = watched \cup {dialled}
    /\ connection' = dialled /\ channel' = dialled
    /\ dialling' = "off" /\ dialled' = None
    /\ UNCHANGED <<up, faults, open, closed, timers, closing, sendVars>>

\* Mutant: only a connection that was once up is made again.
GivesUp == UNCHANGED timers
TriesAgain == scheduleReconnect

\* The connect timed out or was refused, or the channel or the exchange could not be had: the
\* connection made so far is left as it is, open or not.
AttemptFails ==
    /\ dialling # "off"
    /\ IF dialling = "connecting" \/ dialled \in open THEN Fault ELSE UNCHANGED faults
    /\ dialling' = "off" /\ dialled' = None
    /\ TriesAgain
    /\ UNCHANGED <<up, netVars, connection, channel, closed, closing, sendVars>>

----------------------------------------------------------------------------
(* publishMessage, and the three that call it *)

\* Mutant: whatever is unconfirmed is published again.
RetriedAlways(e) == TRUE
\* Mutant: a message is published once, by its event.
RetriedNever(e) == FALSE
\* forwardEdit and forwardDeletion publish once, a pass looks at every message not confirmed.
Retried(e) == e \in Created

\* Mutant: the callback's error is dropped.
AnswerBlind(err) == "published"
AnswerOf(err) == IF err THEN "unconfirmed" ELSE "published"

publishMessage(e) ==
    \/ /\ e \in OffList
       /\ state' = [state EXCEPT ![e] = "filtered"]
       /\ UNCHANGED via
    \/ /\ e \notin OffList /\ (channel = None \/ channel \notin open \/ closing # "no")
       /\ state' = [state EXCEPT ![e] = "unconfirmed"]
       /\ UNCHANGED via
    \/ /\ e \notin OffList /\ channel # None /\ channel \in open /\ closing = "no"
       /\ state' = [state EXCEPT ![e] = "sent"]
       /\ via' = [via EXCEPT ![e] = channel]

\* The message event or a pass, forwardEdit, or forwardDeletion.
Forward(e) ==
    /\ up
    /\ state[e] = "new" \/ (state[e] = "unconfirmed" /\ Retried(e))
    /\ IF e \in Ignored THEN state' = [state EXCEPT ![e] = "ignored"] /\ UNCHANGED via
       ELSE publishMessage(e)
    /\ UNCHANGED <<up, faults, netVars, dialling, dialled, ownVars, copies>>

Lands(S) == copies' = [e \in Events |-> IF e \in S /\ copies[e] < 2 THEN copies[e] + 1 ELSE copies[e]]

\* Their callbacks run, with an error or not.
Answered(S, err) ==
    /\ state' = [e \in Events |-> IF e \in S THEN AnswerOf(err) ELSE state[e]]
    /\ via' = [e \in Events |-> IF e \in S THEN None ELSE via[e]]

Land(e) ==
    /\ state[e] = "sent" /\ via[e] \in open
    /\ Lands({e})
    /\ state' = [state EXCEPT ![e] = "landed"]
    /\ UNCHANGED <<up, faults, netVars, dialling, dialled, ownVars, via>>

Confirm(e) ==
    /\ state[e] = "landed" /\ via[e] \in open
    /\ Answered({e}, FALSE)
    /\ UNCHANGED <<up, faults, netVars, dialling, dialled, ownVars, copies>>

Nack(e) ==
    /\ Fault
    /\ state[e] = "sent"
    /\ Answered({e}, TRUE)
    /\ UNCHANGED <<up, netVars, dialling, dialled, ownVars, copies>>

\* Unanswered publishes of a connection that ends get an error; what is on the wire may land.
EndsWith(S) ==
    /\ Answered(S, TRUE)
    /\ \E late \in SUBSET {e \in S : state[e] = "sent"} : Lands(late)

----------------------------------------------------------------------------
(* The end of a connection *)

\* Mutant: a channel that outlives its connection.
ForgetsConnection == connection' = None /\ UNCHANGED channel
ForgetsBoth == connection' = None /\ channel' = None

\* Mutant: only failed attempts are followed by another.
ClosedHandlerQuiet == ForgetsBoth /\ UNCHANGED timers
ClosedHandler == ForgetsBoth /\ scheduleReconnect

\* The broker goes away or closes the connection. The 'close' handler does not ask which
\* connection it was attached to.
ConnectionEnds(k) ==
    /\ Fault
    /\ k \in open
    /\ open' = open \ {k} /\ watched' = watched \ {k}
    /\ EndsWith(On(k))
    /\ IF k \in watched THEN ClosedHandler ELSE UNCHANGED <<connection, channel, timers>>
    /\ UNCHANGED <<up, dialling, dialled, closed, closing>>

\* Everything in memory is gone, and with it the sockets.
ProcessEnds ==
    /\ up' = FALSE
    /\ open' = {} /\ watched' = {}
    /\ dialling' = "off" /\ dialled' = None
    /\ connection' = None /\ channel' = None /\ closed' = FALSE /\ timers' = 0 /\ closing' = "no"
    /\ EndsWith(Pending)

\* Also what an 'error' with no listener does, of a channel or of a connection that has no
\* handlers yet: an uncaught exception ends the process.
Crash ==
    /\ Fault
    /\ up
    /\ ProcessEnds

----------------------------------------------------------------------------
(* close, the last await of shutdown before it exits *)

\* With nothing to close, the exit follows at once, also in the middle of an attempt.
CloseBegins ==
    /\ Fault
    /\ up /\ ~closed
    /\ IF channel = None THEN ProcessEnds
       ELSE /\ closed' = TRUE /\ closing' = "channel"
            /\ UNCHANGED <<up, netVars, dialling, dialled, connection, channel, timers, sendVars>>

ChannelClosed ==
    /\ closing = "channel"
    /\ closing' = "connection"
    /\ EndsWith(On(channel))
    /\ UNCHANGED <<up, faults, netVars, dialling, dialled, connection, channel, closed, timers>>

ConnectionClosed ==
    /\ closing = "connection"
    /\ ProcessEnds
    /\ UNCHANGED faults

----------------------------------------------------------------------------
Attempt ==
    \/ Connected \/ ChannelCreated \/ ExchangeAsserted \/ AttemptFails

Close == ChannelClosed \/ ConnectionClosed

Next ==
    \/ Start \/ TimerFires \/ Attempt \/ Close
    \/ \E e \in Events : Forward(e) \/ Land(e) \/ Confirm(e) \/ Nack(e)
    \/ \E k \in Connections : ConnectionEnds(k)
    \/ Crash \/ CloseBegins

Spec == Init /\ [][Next]_vars

\* The platform restarts the process, a connect or an RPC ends (the first is bounded by
\* RABBITMQ_CONNECT_TIMEOUT_MS, the others by the connection's heartbeat), timers go off, passes
\* go on, and an open channel answers or ends. Nothing is assumed of faults.
FairSpec ==
    /\ Spec
    /\ WF_vars(Start) /\ WF_vars(TimerFires) /\ WF_vars(Attempt) /\ WF_vars(Close)
    /\ \A e \in Events : WF_vars(Forward(e)) /\ WF_vars(Land(e) \/ Confirm(e))

----------------------------------------------------------------------------
(* Properties *)

\* Every variable has its type; there is never a second timer.
TypeOK ==
    /\ up \in BOOLEAN /\ faults \in Nat
    /\ open \subseteq Connections /\ watched \subseteq open
    /\ dialling \in Dialling /\ dialled \in Connections \cup {None}
    /\ connection \in Connections \cup {None} /\ channel \in Connections \cup {None}
    /\ closed \in BOOLEAN /\ timers \in {0, 1} /\ closing \in {"no", "channel", "connection"}
    /\ state \in [Events -> States] /\ via \in [Events -> Connections \cup {None}]
    /\ copies \in [Events -> 0 .. 2]

\* Of an attempt, a reconnect timer and a connection whose end is heard of, a process that is
\* not shutting down has exactly one: it is never left without a way back to the broker, and no
\* second attempt or connection is ever made beside the first. (doConnect, scheduleReconnect and
\* the 'close' handler each hand over to the next.)
NeverStranded ==
    up /\ ~closed =>
        \/ dialling # "off" /\ timers = 0 /\ watched = {}
        \/ dialling = "off" /\ timers = 1 /\ watched = {}
        \/ dialling = "off" /\ timers = 0 /\ watched # {}

\* The 'close' handler forgets whatever connection is current, so the only connection that has
\* it must be the current one, and its channel the one that publishMessage uses.
OnlyCurrentWatched ==
    watched = (IF connection = None THEN {} ELSE {connection}) /\ channel = connection

\* An edit or a deletion reaches the exchange at most once, however its publish ended
\* ("it will not be retried"): a consumer has an id to tell created messages apart by, and
\* these are published under an id of their own.
EditsOnce == \A e \in Edited \cup Deleted : copies[e] <= 1

\* The publisher keeps what the rest of the gateway assumes of it: answers come once, "published"
\* only for what the exchange took, and a channel that goes leaves no publish unanswered.
Contract == INSTANCE ChannelContract WITH
    channelUp <- channel # None,
    flight <- Pending,
    taken <- {e \in Events : copies[e] > 0},
    confirmed <- {e \in Events : state[e] = "published"}
HonoursChannel == Contract!Spec

\* Once the faults are over there is a channel, and it stays.
Reconnects == <>[](channel # None)

\* Every event is answered, and a created message that has to leave is published in the end.
Delivered ==
    \A e \in Events :
        <>[](state[e] \in IF e \in Created THEN {"ignored", "filtered", "published"}
                          ELSE {"ignored", "filtered", "published", "unconfirmed"})
=============================================================================
