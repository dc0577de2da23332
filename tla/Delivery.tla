------------------------------ MODULE Delivery ------------------------------
(***************************************************************************)
(* What the publisher of src/src/mqttclient.rs promises its caller, with   *)
(* no thread, queue, packet id or connection in sight:                     *)
(*   - one publish call at a time, true only for a delivered message;      *)
(*   - false proves nothing: the message may be delivered later, until it  *)
(*     is lost with the connection or the client;                          *)
(*   - a message that was dropped, refused or lost never comes back, and   *)
(*     none is delivered that was not published.                           *)
(***************************************************************************)
CONSTANTS
    Metrics,   \* the messages
    NoCall     \* not a message: no call is in progress

VARIABLES
    calling,    \* the message of the call in progress
    offered,    \* messages a call was made for
    live,       \* messages that may still be delivered
    delivered,  \* messages written (QoS 0) or acknowledged (QoS 1/2)
    succeeded   \* messages whose call returned true

vars == <<calling, offered, live, delivered, succeeded>>

Init ==
    /\ calling = NoCall
    /\ offered = {} /\ live = {} /\ delivered = {} /\ succeeded = {}

\* No connection: the call returns false at once and the message is dropped.
Drop(m) ==
    /\ calling = NoCall /\ m \in Metrics \ offered
    /\ offered' = offered \cup {m}
    /\ UNCHANGED <<calling, live, delivered, succeeded>>

Call(m) ==
    /\ calling = NoCall /\ m \in Metrics \ offered
    /\ offered' = offered \cup {m}
    /\ calling' = m /\ live' = live \cup {m}
    /\ UNCHANGED <<delivered, succeeded>>

Deliver(m) ==
    /\ m \in live
    /\ live' = live \ {m} /\ delivered' = delivered \cup {m}
    /\ UNCHANGED <<calling, offered, succeeded>>

\* Refused by a limit, or gone with the connection or the client.
Lose(S) ==
    /\ S # {} /\ S \subseteq live
    /\ live' = live \ S
    /\ UNCHANGED <<calling, offered, delivered, succeeded>>

ReturnTrue ==
    /\ calling \in delivered
    /\ succeeded' = succeeded \cup {calling}
    /\ calling' = NoCall
    /\ UNCHANGED <<offered, live, delivered>>

\* A timeout leaves the message alive; a call refused before it was handed
\* over takes its message with it.
ReturnFalse ==
    /\ calling # NoCall
    /\ calling' = NoCall
    /\ live' \in {live, live \ {calling}}
    /\ UNCHANGED <<offered, delivered, succeeded>>

Next ==
    \/ \E m \in Metrics : Drop(m) \/ Call(m) \/ Deliver(m)
    \/ \E S \in SUBSET live : Lose(S)
    \/ ReturnTrue \/ ReturnFalse

Spec == Init /\ [][Next]_vars
=============================================================================
