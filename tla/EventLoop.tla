------------------------------ MODULE EventLoop ------------------------------
(***************************************************************************)
(* The MQTT library and the broker behind it, as src/src/mqttclient.rs     *)
(* uses them: rumqttc's AsyncClient / EventLoop pair, one TCP connection,  *)
(* and the broker's retained status.  External code: it is modelled from   *)
(* the calls the worker makes on it and the events it takes from poll().   *)
(*                                                                         *)
(* A message is a member of Messages; topics and payloads are left out.    *)
(* The QoS of a message is the set it belongs to.                          *)
(***************************************************************************)
EXTENDS Naturals, Sequences, FiniteSets

CONSTANTS
    AtMostOnce, AtLeastOnce, ExactlyOnce,  \* the metrics published with each QoS
    PktId,         \* packet identifiers of QoS 1/2 exchanges (0 means "no id")
    Window,        \* in-flight window of the library
    ChanCap,       \* capacity of the request channel: AsyncClient::new(_, 16)
    CleanSession,  \* mqtt.clean_session
    MaxBacklog     \* bound: a session is not resumed with a longer backlog

Metrics == AtMostOnce \cup AtLeastOnce \cup ExactlyOnce
Status == {"online", "offline"}            \* both are published with QoS 1
Messages == Metrics \cup Status
Reliable(m) == m \notin AtMostOnce

ASSUME QosAssumption ==
    /\ AtMostOnce \cap AtLeastOnce = {}
    /\ AtMostOnce \cap ExactlyOnce = {}
    /\ AtLeastOnce \cap ExactlyOnce = {}
    /\ \A w \in {"online", "offline", "disconnect", "none", "nobody", "vacant"} :
           w \notin Metrics
ASSUME LibraryAssumption ==
    /\ IsFiniteSet(PktId) /\ 0 \notin PktId   \* a packet id is a u16
    /\ Window \in Nat \ {0}
    /\ ChanCap \in Nat \ {0}
    /\ MaxBacklog \in Nat
    /\ CleanSession \in BOOLEAN

VARIABLES
    net,      \* "up" from CONNACK until the connection is lost or dropped
    chan,     \* requests the worker has queued and the library has not taken
    backlog,  \* EventLoop.pending: requests without an id kept across a loss
    flight,   \* unfinished QoS 1/2 exchange of each packet id
    sent,     \* the buffered Outgoing notification, at most one
    acks,     \* the buffered PubAck/PubComp notifications
    status,   \* the retained status at the broker once it read what was written
    done      \* history: messages written (QoS 0) or acknowledged (QoS 1/2)

libVars == <<net, chan, backlog, flight, sent, acks, status, done>>

Requests == Messages \cup {"disconnect"}
Free == [m |-> "none", stage |-> "free", onwire |-> FALSE]
NoEvent == [kind |-> "none", id |-> 0, m |-> "none"]
Exchange == [m : Messages, stage : {"pub", "rel"}, onwire : BOOLEAN]
Slot == {Free} \cup Exchange
Outgoing == [kind : {"none", "publish", "disconnect"}, id : PktId \cup {0},
             m : Requests \cup {"none"}]
Ack == [id : PktId, m : Messages]

LibTypeOK ==
    /\ net \in {"up", "down"}
    /\ chan \in Seq(Requests)
    /\ backlog \in Seq(Requests)
    /\ flight \in [PktId -> Slot]
    /\ sent \in Outgoing
    /\ acks \in SUBSET Ack
    /\ status \in Status
    /\ done \in SUBSET Messages

LibInit ==
    /\ net = "down" /\ chan = <<>> /\ backlog = <<>>
    /\ flight = [id \in PktId |-> Free]
    /\ sent = NoEvent /\ acks = {}
    /\ status = "offline" /\ done = {}

Busy(id) == flight[id].stage # "free"
InFlight == {id \in PktId : Busy(id)}
Replaying(id) == Busy(id) /\ ~flight[id].onwire

(***************************************************************************)
(* Steps of the library while poll() runs.  Buffered notifications are     *)
(* handed out before any new I/O, so a request is written only when none   *)
(* is buffered; acknowledgements are read in batches.                      *)
(***************************************************************************)
Idle == net = "up" /\ sent = NoEvent /\ acks = {}

Announce(m) == status' = IF m \in Status THEN m ELSE status

WriteDisconnect ==
    /\ sent' = [kind |-> "disconnect", id |-> 0, m |-> "disconnect"]
    /\ UNCHANGED <<flight, status, done>>

WriteFleeting(m) ==
    /\ m \in AtMostOnce
    /\ sent' = [kind |-> "publish", id |-> 0, m |-> m]
    /\ done' = done \cup {m}
    /\ UNCHANGED <<flight, status>>

WriteReliable(m) ==
    /\ m \in Messages \ AtMostOnce
    /\ \E id \in PktId \ InFlight :
          /\ flight' = [flight EXCEPT ![id] = [m |-> m, stage |-> "pub", onwire |-> TRUE]]
          /\ sent' = [kind |-> "publish", id |-> id, m |-> m]
    /\ Announce(m)
    /\ UNCHANGED done

Write(m) ==
    \/ m = "disconnect" /\ WriteDisconnect
    \/ WriteFleeting(m)
    \/ WriteReliable(m)

\* A request kept from a lost connection is replayed before the channel is read.
SendBacklog ==
    /\ Idle /\ backlog # <<>>
    /\ backlog' = Tail(backlog)
    /\ Write(Head(backlog))
    /\ UNCHANGED <<net, chan, acks>>

\* The channel is read only when nothing is replayed and the window is open.
SendNext ==
    /\ Idle /\ backlog = <<>> /\ chan # <<>>
    /\ Cardinality(InFlight) < Window
    /\ \A id \in PktId : ~Replaying(id)
    /\ chan' = Tail(chan)
    /\ Write(Head(chan))
    /\ UNCHANGED <<net, backlog, acks>>

\* Replay of an unfinished exchange: PUBLISH again under its id, or PUBREL.
Resend(id) ==
    /\ Idle /\ Replaying(id)
    /\ flight' = [flight EXCEPT ![id].onwire = TRUE]
    /\ sent' = IF flight[id].stage = "pub"
               THEN [kind |-> "publish", id |-> id, m |-> flight[id].m]
               ELSE NoEvent
    /\ Announce(flight[id].m)
    /\ UNCHANGED <<net, chan, backlog, acks, done>>

Finish(id) ==
    /\ flight' = [flight EXCEPT ![id] = Free]
    /\ acks' = acks \cup {[id |-> id, m |-> flight[id].m]}
    /\ done' = done \cup {flight[id].m}
    /\ UNCHANGED <<net, chan, backlog, sent, status>>

Readable(id, stage) ==
    net = "up" /\ sent = NoEvent /\ flight[id].stage = stage /\ flight[id].onwire

PubAck(id) == Readable(id, "pub") /\ flight[id].m \notin ExactlyOnce /\ Finish(id)

PubComp(id) == Readable(id, "rel") /\ Finish(id)

\* PUBREC is answered with PUBREL inside the library.
PubRec(id) ==
    /\ Readable(id, "pub") /\ flight[id].m \in ExactlyOnce
    /\ flight' = [flight EXCEPT ![id].stage = "rel"]
    /\ UNCHANGED <<net, chan, backlog, sent, acks, status, done>>

LibStep ==
    \/ SendBacklog
    \/ SendNext
    \/ \E id \in PktId : Resend(id) \/ PubAck(id) \/ PubRec(id) \/ PubComp(id)

(***************************************************************************)
(* What the worker's calls do to the library.                              *)
(***************************************************************************)
\* try_publish / try_disconnect: the request channel is bounded.
Accepts(ch) == Len(ch) < ChanCap

\* AsyncClient::new, or dropping the pair: whatever it held is gone.
FreshClient ==
    /\ net' = "down" /\ chan' = <<>> /\ backlog' = <<>>
    /\ flight' = [id \in PktId |-> Free]
    /\ sent' = NoEvent /\ acks' = {}

\* events.state.events.clear(), and its mutant: stale notifications stay.
StaleEvents == UNCHANGED <<sent, acks>>
ClearEvents == sent' = NoEvent /\ acks' = {}

\* EventLoop::clean plus the worker's events.state.events.clear().
KeepSession ==
    /\ net' = "down" /\ chan' = <<>>
    /\ backlog' = backlog \o chan
    /\ flight' = [id \in PktId |-> [flight[id] EXCEPT !.onwire = FALSE]]
    /\ ClearEvents

\* The broker publishes the last will unless it was sent DISCONNECT first.
LastWill ==
    status' = IF net = "up" /\ sent.kind # "disconnect" THEN "offline" ELSE status

\* CONNACK: without session_present the retained requests are cleared.
ConnAck(session_present) ==
    /\ net = "down"
    /\ session_present => ~CleanSession /\ Len(backlog) <= MaxBacklog
    /\ net' = "up"
    /\ backlog' = IF session_present THEN backlog ELSE <<>>
    /\ flight' = IF session_present THEN flight ELSE [id \in PktId |-> Free]
=============================================================================
