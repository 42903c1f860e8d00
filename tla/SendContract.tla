---------------------------- MODULE SendContract ----------------------------
(***************************************************************************)
(* What the idempotency key promises a caller, without how it is kept: at  *)
(* most one send of a key runs at a time, a key that is answered from the  *)
(* record is not sent, and only a key some send completed is ever in the   *)
(* record. The record may expire, and a crash may lose what the file did   *)
(* not hold yet.                                                           *)
(***************************************************************************)
CONSTANTS Requests, Keys, KeyOf

VARIABLES
    running,    \* running[k]: the requests whose send of key k is running
    answered,   \* the keys a retry is answered for from the record
    ever        \* the keys some send completed

vars == <<running, answered, ever>>

Init ==
    /\ running = [k \in Keys |-> {}]
    /\ answered = {}
    /\ ever = {}

\* A key leaves the record when its time to live is over.
Expire == answered' \subseteq answered /\ UNCHANGED <<running, ever>>

\* A claim looks at the record only after dropping what expired.
Begin(r) ==
    /\ running[KeyOf[r]] = {}
    /\ running' = [running EXCEPT ![KeyOf[r]] = {r}]
    /\ answered' \subseteq answered \ {KeyOf[r]}
    /\ UNCHANGED ever

Complete(r) ==
    /\ r \in running[KeyOf[r]]
    /\ running' = [running EXCEPT ![KeyOf[r]] = @ \ {r}]
    /\ answered' = answered \cup {KeyOf[r]}
    /\ ever' = ever \cup {KeyOf[r]}

Release(r) ==
    /\ r \in running[KeyOf[r]]
    /\ running' = [running EXCEPT ![KeyOf[r]] = @ \ {r}]
    /\ UNCHANGED <<answered, ever>>

Crash ==
    /\ running' = [k \in Keys |-> {}]
    /\ answered' = {}
    /\ UNCHANGED ever

\* The next process answers for whatever the file held.
Load == answered' \subseteq ever /\ UNCHANGED <<running, ever>>

Next ==
    \/ \E r \in Requests : KeyOf[r] \in Keys /\ (Begin(r) \/ Complete(r) \/ Release(r))
    \/ Expire \/ Crash \/ Load

Spec == Init /\ [][Next]_vars
=============================================================================
