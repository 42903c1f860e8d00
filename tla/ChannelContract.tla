--------------------------- MODULE ChannelContract ---------------------------
(***************************************************************************)
(* What the rest of the gateway takes the publisher for: a channel that is *)
(* up or not, on which an event may be handed over while it is up, and     *)
(* that answers each of them once, "published" only for what the exchange  *)
(* has taken. InboundForwarding is written against this (its channelUp and *)
(* flight); how connections are made and lost is not part of it.           *)
(***************************************************************************)
CONSTANT Events

VARIABLES
    channelUp,
    flight,     \* the events handed over and not answered yet
    taken,      \* those the exchange has, answered or not
    confirmed   \* those ever answered "published"

vars == <<channelUp, flight, taken, confirmed>>

Init == channelUp = FALSE /\ flight = {} /\ taken = {} /\ confirmed = {}

Opens ==
    /\ ~channelUp
    /\ channelUp' = TRUE
    /\ UNCHANGED <<flight, taken, confirmed>>

Publish(e) ==
    /\ channelUp /\ e \notin flight
    /\ flight' = flight \cup {e}
    /\ UNCHANGED <<channelUp, taken, confirmed>>

Land(e) ==
    /\ e \in flight
    /\ taken' = taken \cup {e}
    /\ UNCHANGED <<channelUp, flight, confirmed>>

Confirm(e) ==
    /\ e \in flight \cap taken
    /\ flight' = flight \ {e}
    /\ confirmed' = confirmed \cup {e}
    /\ UNCHANGED <<channelUp, taken>>

\* Some of them come back unconfirmed, and what was on the wire may land all the same.
Refuse(S) ==
    /\ S # {} /\ S \subseteq flight
    /\ flight' = flight \ S
    /\ taken \subseteq taken' /\ taken' \subseteq taken \cup S
    /\ UNCHANGED <<channelUp, confirmed>>

\* The channel takes every unanswered event with it.
Lost ==
    /\ channelUp
    /\ channelUp' = FALSE
    /\ flight' = {}
    /\ taken \subseteq taken' /\ taken' \subseteq taken \cup flight
    /\ UNCHANGED confirmed

Next ==
    \/ Opens \/ Lost
    \/ \E e \in Events : Publish(e) \/ Land(e) \/ Confirm(e)
    \/ \E S \in SUBSET Events : Refuse(S)

Spec == Init /\ [][Next]_vars
=============================================================================
