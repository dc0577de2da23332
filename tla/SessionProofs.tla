---------------------------- MODULE SessionProofs ----------------------------
(***************************************************************************)
(* What a session of MqttClient keeps, announces and bounds, for any       *)
(* metrics, packet ids, window, limits and delays:                         *)
(*   - an unfinished exchange stays until it is acknowledged, or until the *)
(*     broker or the client ends the session;                              *)
(*   - a connected daemon that is not stopping shows as "online", or the   *)
(*     announcement is on its way;                                         *)
(*   - mqtt.max_queued_messages bounds what publish hands to the library,  *)
(*     and on a clean session everything the library holds.                *)
(***************************************************************************)
EXTENDS DeliveryProofs, FiniteSetTheorems

(***************************************************************************)
(* Exchanges.                                                              *)
(***************************************************************************)
\* Without a worker there is no exchange, and start() runs without a worker.
NoWorkerNoExchange ==
    /\ wpc \in {"off", "done"} => \A id \in PktId : ~Busy(id)
    /\ mpc \in {"spawn", "stopped"} => wpc = "off"

LEMMA FreshIdle ==
    ASSUME FreshClient
    PROVE  \A id \in PktId : ~Busy(id)'
BY DEF FreshClient, Busy, Free

LEMMA WorkerLife ==
    ASSUME WorkerStep
    PROVE  /\ wpc \notin {"off", "done"} /\ UNCHANGED mpc
           /\ wpc' \in {"off", "done"} => FreshClient /\ wpc' = "done"
<1>1. CASE WBackoffStop \/ WStopOffline \/ WDrainEnd
  BY <1>1 DEF WBackoffStop, WStopOffline, WDrainEnd, Exit
<1>2. CASE WConnFail \/ WLost
  BY <1>2 DEF WConnFail, WLost, FailConnection
<1>3. CASE WPoll
  BY <1>3 DEF WPoll, Polling, callerVars, sharedVars
<1>4. CASE WAccept \/ WRefuse \/ WSentFleeting \/ WSentReliable \/ WWake
           \/ WStopOnline \/ WDrainEvent \/ \E a \in acks : WFinish(a)
  BY <1>4 DEF WAccept, WRefuse, WSentFleeting, WSentReliable, WWake, WStopOnline,
     WDrainEvent, WFinish, callerVars, sharedVars
<1>5. ASSUME NEW session_present \in BOOLEAN, WConnAck(session_present)
      PROVE  wpc = "select" /\ UNCHANGED <<mpc, wpc>>
  BY <1>5 DEF WConnAck
<1> QED
  BY <1>1, <1>2, <1>3, <1>4, <1>5 DEF WorkerStep

LEMMA NoExchangeStep ==
    ASSUME NoWorkerNoExchange, [Next]_vars
    PROVE  NoWorkerNoExchange'
<1>1. CASE SpawnOk
  BY <1>1 DEF SpawnOk, NoWorkerNoExchange
<1>2. CASE SpawnFail \/ Tick \/ UNCHANGED vars
  BY <1>2 DEF SpawnFail, Tick, vars, libVars, callerVars, sharedVars,
     NoWorkerNoExchange, Busy
<1>3. ASSUME NEW m \in Messages, PublishDrop(m) \/ PublishBegin(m)
      PROVE  NoWorkerNoExchange'
  BY <1>3 DEF PublishDrop, PublishBegin, AfterPublish, libVars, sharedVars,
     NoWorkerNoExchange, Busy
<1>4. CASE PublishSend \/ PublishRefused \/ PublishReturn \/ PublishTimeout
  BY <1>4 DEF PublishSend, PublishRefused, PublishReturn, PublishTimeout, Return,
     AfterPublish, libVars, sharedVars, NoWorkerNoExchange, Busy
<1>5. CASE Maintain \/ Stop \/ HaltNothing \/ HaltSignal \/ Join
  BY <1>5 DEF Maintain, Stop, HaltNothing, HaltSignal, Join, AfterTeardown, libVars,
     sharedVars, NoWorkerNoExchange, Busy
<1>6. CASE WorkerStep
  <2>1. wpc' \in {"off", "done"} => \A id \in PktId : ~Busy(id)'
    BY <1>6, WorkerLife, FreshIdle
  <2> QED
    BY <1>6, <2>1, WorkerLife DEF NoWorkerNoExchange
<1> QED
  BY <1>1, <1>2, <1>3, <1>4, <1>5, <1>6 DEF Next, CallerStep, Finished

\* A persistent session keeps what it started.
Kept(id) ==
    (Busy(id) /\ ~CleanSession) =>
        \/ flight'[id].m = flight[id].m
        \/ flight[id].m \in done'
        \/ net = "down" /\ net' = "up" /\ InFlight' = {} /\ backlog' = <<>>
        \/ wpc' = "done"

LEMMA LibStepKeeps ==
    ASSUME Typed, LibStep, NEW id \in PktId, Busy(id)
    PROVE  flight'[id].m = flight[id].m \/ flight[id].m \in done'
<1>1. flight \in [PktId -> Slot] /\ flight[id] \in Exchange
  BY SlotUpdates DEF Typed, TypeOK, LibTypeOK, Busy
<1>2. ASSUME NEW m, Write(m) PROVE flight'[id] = flight[id]
  <2>1. CASE WriteDisconnect \/ WriteFleeting(m)
    BY <2>1 DEF WriteDisconnect, WriteFleeting
  <2>2. CASE WriteReliable(m)
    <3>1. PICK k \in PktId \ InFlight :
              flight' = [flight EXCEPT ![k] = [m |-> m, stage |-> "pub", onwire |-> TRUE]]
      BY <2>2 DEF WriteReliable
    <3> QED
      BY <1>1, <3>1 DEF InFlight
  <2> QED
    BY <1>2, <2>1, <2>2 DEF Write
<1>3. CASE SendBacklog \/ SendNext
  BY <1>2, <1>3 DEF SendBacklog, SendNext
<1>4. ASSUME NEW k \in PktId, Resend(k) \/ PubAck(k) \/ PubRec(k) \/ PubComp(k)
      PROVE  flight'[id].m = flight[id].m \/ flight[id].m \in done'
  <2>1. CASE id # k
    BY <1>1, <1>4, <2>1 DEF Resend, PubAck, PubRec, PubComp, Finish
  <2>2. CASE id = k /\ Resend(k)
    <3>1. flight'[id] = [flight[id] EXCEPT !.onwire = TRUE]
      BY <1>1, <2>2, SMT DEF Resend
    <3> QED
      BY <1>1, <3>1, SMT DEF Exchange
  <2>3. CASE id = k /\ PubRec(k)
    <3>1. flight'[id] = [flight[id] EXCEPT !.stage = "rel"]
      BY <1>1, <2>3, SMT DEF PubRec
    <3> QED
      BY <1>1, <3>1, SMT DEF Exchange
  <2>4. CASE id = k /\ (PubAck(k) \/ PubComp(k))
    BY <2>4 DEF PubAck, PubComp, Finish
  <2> QED
    BY <1>4, <2>1, <2>2, <2>3, <2>4
<1> QED
  BY <1>3, <1>4 DEF LibStep

LEMMA KeptStep ==
    ASSUME Typed, NoWorkerNoExchange, [Next]_vars, NEW id \in PktId
    PROVE  Kept(id)
<1> SUFFICES ASSUME Busy(id), ~CleanSession PROVE Kept(id)
  BY DEF Kept
<1>1. ~SpawnOk
  BY DEF SpawnOk, NoWorkerNoExchange
<1>2. CASE flight' = flight
  BY <1>2 DEF Kept
<1>3. CASE WPoll
  BY <1>3, LibStepKeeps DEF WPoll, Kept
<1>4. ASSUME NEW session_present \in BOOLEAN, WConnAck(session_present) PROVE Kept(id)
  <2>1. CASE session_present
    BY <1>2, <1>4, <2>1 DEF WConnAck, ConnAck
  <2>2. CASE ~session_present
    <3>1. /\ net = "down" /\ net' = "up" /\ backlog' = <<>>
          /\ flight' = [k \in PktId |-> Free]
      BY <1>4, <2>2 DEF WConnAck, ConnAck
    <3>2. InFlight' = {}
      BY <3>1 DEF InFlight, Busy, Free
    <3> QED
      BY <3>1, <3>2 DEF Kept
  <2> QED
    BY <2>1, <2>2
<1>5. CASE WBackoffStop \/ WStopOffline \/ WDrainEnd
  BY <1>5 DEF WBackoffStop, WStopOffline, WDrainEnd, Exit, Kept
<1>6. CASE WConnFail \/ WLost
  <2>1. flight'[id] = [flight[id] EXCEPT !.onwire = FALSE]
    BY <1>6 DEF WConnFail, WLost, FailConnection, Reconnecting, KeepSession
  <2>2. flight[id] \in Slot
    BY DEF Typed, TypeOK, LibTypeOK
  <2>3. flight'[id].m = flight[id].m
    BY <2>1, <2>2, SMT DEF Slot, Free, Exchange
  <2> QED
    BY <2>3 DEF Kept
<1>7. CASE Tick \/ UNCHANGED vars
  BY <1>2, <1>7 DEF Tick, vars, libVars
<1>8. CASE CallerStep
  <2>1. Frame
    BY <1>1, <1>8, CallerFrame
  <2> QED
    BY <1>2, <2>1 DEF Frame, libVars
<1>9. CASE WAccept \/ WRefuse \/ WSentFleeting \/ WSentReliable \/ WWake \/ WStopOnline
           \/ WDrainEvent \/ \E a \in acks : WFinish(a)
  BY <1>2, <1>9 DEF WAccept, WRefuse, WSentFleeting, WSentReliable, WWake, WStopOnline,
     WDrainEvent, WFinish, libVars
<1> QED
  BY <1>3, <1>4, <1>5, <1>6, <1>7, <1>8, <1>9 DEF Next, WorkerStep, Finished

\* On a persistent session an unfinished QoS 1/2 exchange is kept, under its packet
\* id, until its acknowledgement is read, the broker drops the whole session, or the
\* client ends: neither losing nor resuming the connection loses an exchange.
THEOREM ExchangesKept == Spec => ExchangeKept
<1>1. Init => NoWorkerNoExchange
  BY DEF Init, LibInit, NoWorkerNoExchange, Busy, Free
<1>2. Init => Typed
  BY BookkeepingInit DEF Bookkeeping
<1>3. Typed /\ NoWorkerNoExchange /\ [Next]_vars => Typed' /\ NoWorkerNoExchange'
  BY TypedStep, NoExchangeStep
<1>4. Typed /\ NoWorkerNoExchange /\ [Next]_vars =>
          [\A id \in PktId :
              (Busy(id) /\ ~CleanSession) =>
                  \/ flight'[id].m = flight[id].m
                  \/ flight[id].m \in done'
                  \/ net = "down" /\ net' = "up" /\ InFlight' = {} /\ backlog' = <<>>
                  \/ wpc' = "done"]_vars
  BY KeptStep DEF Kept
<1> QED
  BY <1>1, <1>2, <1>3, <1>4, PTL DEF Spec, ExchangeKept

(***************************************************************************)
(* Announcements.                                                          *)
(***************************************************************************)
\* "offline" is published by stop() only: until then it is in no place.
Farewell ==
    /\ mpc \in {"idle", "spawn"} => goal # "stop"
    /\ mpc = "farewell" => goal = "stop"
    /\ goal # "stop" =>
           "offline" \notin {call} \cup Elements(rx) \cup Elements(Waiting) \cup Flying

\* The announcement of this connection is on its way to the broker.
OnItsWay ==
    \/ "online" \in Elements(Waiting)
    \/ \E id \in PktId : Replaying(id) /\ flight[id].m = "online"
ShownOnline == (connected /\ goal # "stop") => status = "online" \/ OnItsWay

\* No "offline" comes from elsewhere than the caller's hand.
LEMMA QuietFarewell ==
    ASSUME Farewell, UNCHANGED <<mpc, goal, call>>,
           "offline" \in Elements(rx)' \cup Elements(Waiting)' \cup Flying'
               => "offline" \in Elements(rx) \cup Elements(Waiting) \cup Flying
    PROVE  Farewell'
BY DEF Farewell

LEMMA StillPlaces ==
    ASSUME UNCHANGED <<rx, backlog, chan, flight>>
    PROVE  /\ Elements(rx)' = Elements(rx) /\ Elements(Waiting)' = Elements(Waiting)
           /\ Flying' = Flying
           /\ OnItsWay' = OnItsWay
BY DEF Elements, Waiting, Flying, OnItsWay, Replaying, Busy

LEMMA FreshPlaces ==
    ASSUME FreshClient
    PROVE  Elements(Waiting)' = {} /\ "offline" \notin Flying'
<1>1. Waiting' = <<>>
  <2>1. backlog' = <<>> /\ chan' = <<>>
    BY DEF FreshClient
  <2>2. Waiting' = <<>> \o <<>>
    BY <2>1 DEF Waiting
  <2> QED
    BY <2>2, EmptySeq, ConcatEmptySeq
<1>2. Elements(Waiting)' = {}
  BY <1>1, NoElement DEF Elements
<1>3. "offline" \notin Flying'
  BY DEF FreshClient, Flying, Free
<1> QED
  BY <1>2, <1>3

LEMMA CallerFarewell ==
    ASSUME Typed, Farewell, NoCallLeft, ShownOnline, CallerStep
    PROVE  Farewell' /\ ShownOnline'
<1>1. CASE SpawnOk
  <2>1. /\ FreshClient /\ rx' = <<>> /\ ~connected' /\ call' = call /\ mpc = "spawn"
        /\ mpc' = "idle" /\ goal' = "serve" /\ goal # "stop"
    BY <1>1 DEF SpawnOk, Farewell
  <2>2. Elements(rx)' = {}
    BY <2>1, NoElement DEF Elements
  <2> QED
    BY <2>1, <2>2, FreshPlaces DEF Farewell, ShownOnline
<1>2. CASE SpawnFail \/ Maintain \/ Stop \/ HaltNothing \/ HaltSignal \/ Join
  <2>1. /\ UNCHANGED <<rx, backlog, chan, flight, call, status>>
        /\ connected' => connected
        /\ goal' # "stop" => goal # "stop"
        /\ mpc' \in {"idle", "spawn"} => goal' # "stop"
        /\ mpc' = "farewell" => goal' = "stop"
    BY <1>2 DEF SpawnFail, Maintain, Stop, HaltNothing, HaltSignal, Join, AfterTeardown,
       libVars, sharedVars, Farewell
  <2> QED
    BY <2>1, StillPlaces DEF Farewell, ShownOnline
<1>3. ASSUME NEW m \in Messages, PublishDrop(m) \/ PublishBegin(m)
      PROVE  Farewell' /\ ShownOnline'
  <2>1. /\ UNCHANGED <<rx, backlog, chan, flight, status, goal, connected>>
        /\ mpc' \in {"idle", "halt", "send"}
        /\ mpc' = "idle" => goal # "stop"
        /\ goal # "stop" => m # "offline"
        /\ call' = call \/ call' = m
    BY <1>3, StatusNoMetric DEF PublishDrop, PublishBegin, MayPublish, AfterPublish, libVars,
       sharedVars, Farewell, Status
  <2> QED
    BY <2>1, StillPlaces DEF Farewell, ShownOnline
<1>4. CASE PublishSend
  <2>1. /\ rx' = <<call>>
        /\ UNCHANGED <<backlog, chan, flight, call, status, goal, connected>>
        /\ mpc' = "wait" /\ mpc = "send"
    BY <1>4 DEF PublishSend, libVars
  <2>2. Elements(rx)' = {call}
    <3>1. call \in Names
      BY <2>1, Constants DEF Typed, CallMade, Names
    <3> QED
      BY <2>1, <3>1, SingleElement DEF Elements
  <2>3. Elements(Waiting)' = Elements(Waiting) /\ Flying' = Flying /\ OnItsWay' = OnItsWay
    BY <2>1 DEF Elements, Waiting, Flying, OnItsWay, Replaying, Busy
  <2> QED
    BY <2>1, <2>2, <2>3 DEF Farewell, ShownOnline
<1>5. CASE PublishRefused \/ PublishReturn \/ PublishTimeout
  <2>1. /\ UNCHANGED <<rx, backlog, chan, flight, status, goal, connected>>
        /\ call' = "none" /\ mpc' = AfterPublish
    BY <1>5 DEF PublishRefused, PublishReturn, PublishTimeout, Return, libVars, sharedVars
  <2> QED
    BY <2>1, StillPlaces DEF Farewell, ShownOnline, AfterPublish
<1> QED
  BY <1>1, <1>2, <1>3, <1>4, <1>5 DEF CallerStep

\* The events of the worker that move no message, or end the connection.
LEMMA WorkerFarewell ==
    ASSUME Typed, Mirror, Farewell, ShownOnline, WorkerStep, ~WPoll
    PROVE  Farewell' /\ ShownOnline'
<1>1. UNCHANGED <<mpc, goal, call>>
  <2>1. CASE WBackoffStop \/ WStopOffline \/ WDrainEnd \/ WConnFail \/ WLost
    BY <2>1 DEF WBackoffStop, WStopOffline, WDrainEnd, WConnFail, WLost, Exit, FailConnection
  <2>2. CASE WAccept \/ WRefuse \/ WSentFleeting \/ WSentReliable \/ WWake \/ WStopOnline
             \/ WDrainEvent \/ \E a \in acks : WFinish(a)
    BY <2>2 DEF WAccept, WRefuse, WSentFleeting, WSentReliable, WWake, WStopOnline,
       WDrainEvent, WFinish, callerVars
  <2>3. CASE \E session_present \in BOOLEAN : WConnAck(session_present)
    BY <2>3 DEF WConnAck
  <2> QED
    BY <2>1, <2>2, <2>3 DEF WorkerStep
<1>2. CASE WBackoffStop \/ WStopOffline \/ WDrainEnd
  <2>1. FreshClient /\ rx' = <<>> /\ ~connected'
    BY <1>2 DEF WBackoffStop, WStopOffline, WDrainEnd, Exit
  <2>2. Elements(rx)' = {}
    BY <2>1, NoElement DEF Elements
  <2> QED
    BY <1>1, <2>1, <2>2, FreshPlaces, QuietFarewell DEF ShownOnline
<1>3. CASE WConnFail \/ WLost
  <2>1. rx' = rx /\ ~connected' /\ Reconnecting
    BY <1>3 DEF WConnFail, WLost, FailConnection
  <2>2. Elements(rx)' = Elements(rx)
    BY <2>1 DEF Elements
  <2>3. CASE CleanSession
    BY <1>1, <2>1, <2>2, <2>3, FreshPlaces, QuietFarewell DEF Reconnecting, ShownOnline
  <2>4. CASE ~CleanSession
    <3>1. /\ chan' = <<>> /\ backlog' = Waiting
          /\ flight' = [id \in PktId |-> [flight[id] EXCEPT !.onwire = FALSE]]
      BY <2>1, <2>4 DEF Reconnecting, KeepSession, Waiting
    <3>2. Waiting' = Waiting
      BY <3>1, LivePlaces, ConcatEmptySeq DEF Waiting
    <3>3. ASSUME NEW id \in PktId PROVE flight'[id].m = flight[id].m
      <4>1. flight'[id] = [flight[id] EXCEPT !.onwire = FALSE] /\ flight[id] \in Slot
        BY <3>1 DEF Typed, TypeOK, LibTypeOK
      <4> QED
        BY <4>1, SMT DEF Slot, Free, Exchange
    <3>4. Flying' = Flying /\ Elements(Waiting)' = Elements(Waiting)
      BY <3>2, <3>3 DEF Flying, Elements
    <3> QED
      BY <1>1, <2>1, <2>2, <3>4, QuietFarewell DEF ShownOnline
  <2> QED
    BY <2>3, <2>4
<1>4. CASE WRefuse \/ WSentFleeting \/ WSentReliable \/ WWake \/ WDrainEvent
           \/ \E a \in acks : WFinish(a)
  <2>1. /\ UNCHANGED <<backlog, chan, flight, status, connected>>
        /\ rx' = <<>> \/ rx' = rx
    BY <1>4 DEF WRefuse, WSentFleeting, WSentReliable, WWake, WDrainEvent, WFinish,
       libVars, sharedVars
  <2>2. Elements(rx)' \subseteq Elements(rx)
    BY <2>1, NoElement DEF Elements
  <2>3. Elements(Waiting)' = Elements(Waiting) /\ Flying' = Flying /\ OnItsWay' = OnItsWay
    BY <2>1 DEF Elements, Waiting, Flying, OnItsWay, Replaying, Busy
  <2> QED
    BY <1>1, <2>1, <2>2, <2>3, QuietFarewell DEF ShownOnline
<1>5. ASSUME NEW m \in Names, chan' = Append(chan, m), UNCHANGED <<backlog, flight>>
      PROVE  /\ Elements(Waiting)' = Elements(Waiting) \cup {m}
             /\ Flying' = Flying
  <2>1. Waiting \in Seq(Names) /\ <<m>> \in Seq(Names) /\ Elements(<<m>>) = {m}
    BY SingleElement, LivePlaces
  <2>2. Waiting' = Waiting \o <<m>>
    BY <1>5, <2>1, WaitingGrows, AppendIsConcat
  <2>3. Elements(Waiting \o <<m>>) = Elements(Waiting) \cup {m}
    BY <2>1, ConcatElements
  <2> QED
    BY <1>5, <2>2, <2>3 DEF Elements, Flying
<1>6. CASE WStopOnline
  <2>1. /\ chan' = Append(chan, "disconnect") \/ chan' = chan
        /\ UNCHANGED <<backlog, flight, rx, status, connected>>
    BY <1>6 DEF WStopOnline
  <2>2. "disconnect" \in Names
    BY DEF Names, Requests
  <2>3. CASE chan' = chan
    BY <1>1, <2>1, <2>3, StillPlaces, QuietFarewell DEF ShownOnline
  <2>4. CASE chan' = Append(chan, "disconnect")
    <3>1. Elements(Waiting)' = Elements(Waiting) \cup {"disconnect"} /\ Flying' = Flying
      BY <1>5, <2>1, <2>2, <2>4
    <3>2. Elements(rx)' = Elements(rx) /\ (OnItsWay => OnItsWay')
      BY <2>1, <3>1 DEF Elements, OnItsWay, Replaying, Busy
    <3> QED
      BY <1>1, <2>1, <3>1, <3>2, QuietFarewell DEF ShownOnline
  <2> QED
    BY <2>1, <2>3, <2>4
<1>7. CASE WAccept
  <2> DEFINE m == Head(rx)
  <2>1. /\ chan' = Append(chan, m) /\ rx # <<>> /\ rx' = <<>>
        /\ UNCHANGED <<backlog, flight, status, connected>>
    BY <1>7 DEF WAccept
  <2>2. m \in Names /\ m \in Elements(rx)
    BY <2>1, ReceivedFirst
  <2> HIDE DEF m
  <2>3. Elements(Waiting)' = Elements(Waiting) \cup {m} /\ Flying' = Flying
    BY <1>5, <2>1, <2>2
  <2>4. Elements(rx)' = {} /\ (OnItsWay => OnItsWay')
    BY <2>1, <2>3, NoElement DEF Elements, OnItsWay, Replaying, Busy
  <2> QED
    BY <1>1, <2>1, <2>2, <2>3, <2>4, QuietFarewell DEF ShownOnline
<1>8. ASSUME NEW session_present \in BOOLEAN, WConnAck(session_present)
      PROVE  Farewell' /\ ShownOnline'
  <2>1. /\ wpc = "select" /\ net = "down" /\ chan' = SendOnline(chan) /\ rx' = rx
        /\ backlog' = backlog \/ backlog' = <<>>
        /\ flight' = flight \/ flight' = [id \in PktId |-> Free]
    BY <1>8 DEF WConnAck, ConnAck
  <2>2. chan = <<>> /\ Accepts(chan)
    BY <2>1, LibraryAssumption, SMT
       DEF Mirror, EmptyOffline, Offline, Accepts, LibraryAssumption
  <2>3. chan' = <<"online">>
    <3>1. Append(<<>>, "online") = <<"online">>
      BY SMT
    <3> QED
      BY <2>1, <2>2, <3>1 DEF SendOnline
  <2>4. "online" \in Names /\ backlog \in Seq(Names) /\ <<>> \in Seq(Names)
    BY Constants, QueuesTyped, EmptySeq DEF Names
  <2>5. <<"online">> \in Seq(Names) /\ Elements(<<"online">>) = {"online"}
    BY <2>4, SingleElement
  <2>6. Elements(Waiting)' = Elements(backlog') \cup {"online"}
    <3>1. backlog' \in Seq(Names)
      BY <2>1, <2>4
    <3>2. Elements(backlog' \o <<"online">>) = Elements(backlog') \cup Elements(<<"online">>)
      BY <2>5, <3>1, ConcatElements
    <3> QED
      BY <2>3, <2>5, <3>2 DEF Waiting, Elements
  <2>7. Elements(backlog') \subseteq Elements(Waiting)
    <3>1. Elements(Waiting) = Elements(backlog) \cup Elements(<<>>)
      BY <2>2, <2>4, ConcatElements DEF Waiting
    <3> QED
      BY <2>1, <3>1, NoElement
  <2>8. "offline" \in Flying' => "offline" \in Flying
    BY <2>1 DEF Flying, Free
  <2>9. Elements(rx)' = Elements(rx)
    BY <2>1 DEF Elements
  <2> QED
    BY <1>1, <2>6, <2>7, <2>8, <2>9, QuietFarewell DEF ShownOnline, OnItsWay
<1> QED
  BY <1>2, <1>3, <1>4, <1>6, <1>7, <1>8 DEF WorkerStep

\* A write of "online" shows it; no other write hides it.
LEMMA PollFarewell ==
    ASSUME Typed, Farewell, ShownOnline, WPoll
    PROVE  Farewell' /\ ShownOnline'
<1>1. LibStep /\ UNCHANGED <<mpc, goal, call, rx, connected>>
  BY DEF WPoll, callerVars, sharedVars
<1>2. flight \in [PktId -> Slot] /\ Elements(rx)' = Elements(rx)
  BY <1>1 DEF Typed, TypeOK, LibTypeOK, Elements
<1>3. CASE SendBacklog \/ SendNext
  <2>1. PICK r \in Requests :
            Write(r) /\ <<r>> \o Waiting' = Waiting /\ Waiting' \in Seq(Names)
    BY <1>3, FirstWritten
  <2>2. Elements(Waiting) = {r} \cup Elements(Waiting')
    <3>1. r \in Names
      BY DEF Names
    <3>2. <<r>> \in Seq(Names) /\ Elements(<<r>>) = {r}
      BY <3>1, SingleElement
    <3>3. Elements(<<r>> \o Waiting') = Elements(<<r>>) \cup Elements(Waiting')
      BY <2>1, <3>2, ConcatElements
    <3> QED
      BY <2>1, <3>2, <3>3
  <2>3. Elements(Waiting)' = Elements(Waiting')
    BY DEF Elements
  <2>4. CASE flight' = flight /\ status' = status /\ r \notin Status
    <3>1. Flying' = Flying /\ (OnItsWay => OnItsWay')
      BY <2>2, <2>3, <2>4 DEF Flying, OnItsWay, Replaying, Busy, Status
    <3> QED
      BY <1>1, <1>2, <2>2, <2>3, <2>4, <3>1, QuietFarewell DEF ShownOnline
  <2>5. CASE WriteReliable(r)
    <3>1. PICK k \in PktId \ InFlight :
              flight' = [flight EXCEPT ![k] = [m |-> r, stage |-> "pub", onwire |-> TRUE]]
      BY <2>5 DEF WriteReliable
    <3>2. flight'[k].m = r /\ \A id \in PktId \ {k} : flight'[id] = flight[id]
      BY <1>2, <3>1, SMT
    <3>3. Flying' \subseteq Flying \cup {r}
      BY <3>1, <3>2 DEF Flying
    <3>4. Farewell'
      BY <1>1, <1>2, <2>2, <2>3, <3>3, QuietFarewell
    <3>5. status' = IF r \in Status THEN r ELSE status
      BY <2>5 DEF WriteReliable, Announce
    <3>6. goal # "stop" => r # "offline"
      BY <2>2 DEF Farewell
    <3>7. r # "online" /\ OnItsWay => OnItsWay'
      BY <2>2, <2>3, <3>1, <3>2 DEF OnItsWay, Replaying, Busy, InFlight
    <3> QED
      BY <1>1, <3>4, <3>5, <3>6, <3>7 DEF ShownOnline, Status
  <2>6. WriteDisconnect /\ r = "disconnect" => flight' = flight /\ status' = status /\ r \notin Status
    BY DEF WriteDisconnect, Status
  <2>7. WriteFleeting(r) => flight' = flight /\ status' = status /\ r \notin Status
    BY StatusNoMetric DEF WriteFleeting, Metrics
  <2> QED
    BY <2>1, <2>4, <2>5, <2>6, <2>7 DEF Write
<1>4. ASSUME NEW k \in PktId, Resend(k) \/ PubAck(k) \/ PubRec(k) \/ PubComp(k)
      PROVE  Farewell' /\ ShownOnline'
  <2>1. /\ UNCHANGED <<chan, backlog>> /\ Busy(k)
        /\ \A id \in PktId \ {k} : flight'[id] = flight[id]
    BY <1>2, <1>4 DEF Resend, PubAck, PubComp, PubRec, Finish, Readable, Replaying, Busy
  <2>2. flight[k] \in Exchange
    BY <1>2, <2>1, SlotUpdates DEF Busy
  <2>3. flight'[k].m = flight[k].m \/ flight'[k].m = "none"
    <3>1. CASE Resend(k)
      <4>1. flight'[k] = [flight[k] EXCEPT !.onwire = TRUE]
        BY <1>2, <3>1, SMT DEF Resend
      <4> QED
        BY <2>2, <4>1, SMT DEF Exchange
    <3>2. CASE PubRec(k)
      <4>1. flight'[k] = [flight[k] EXCEPT !.stage = "rel"]
        BY <1>2, <3>2, SMT DEF PubRec
      <4> QED
        BY <2>2, <4>1, SMT DEF Exchange
    <3>3. CASE PubAck(k) \/ PubComp(k)
      BY <1>2, <3>3 DEF PubAck, PubComp, Finish, Free
    <3> QED
      BY <1>4, <3>1, <3>2, <3>3
  <2>4. Elements(Waiting)' = Elements(Waiting)
    BY <2>1 DEF Elements, Waiting
  <2>5. "offline" \in Flying' => "offline" \in Flying
    BY <2>1, <2>3 DEF Flying
  <2>6. Farewell'
    BY <1>1, <1>2, <2>4, <2>5, QuietFarewell
  <2>7. CASE Resend(k)
    <3>1. status' = IF flight[k].m \in Status THEN flight[k].m ELSE status
      BY <2>7 DEF Resend, Announce
    <3>2. goal # "stop" => flight[k].m # "offline"
      BY DEF Farewell, Flying
    <3>3. flight[k].m # "online" /\ OnItsWay => OnItsWay'
      BY <2>1, <2>4 DEF OnItsWay, Replaying, Busy
    <3> QED
      BY <1>1, <2>6, <3>1, <3>2, <3>3 DEF ShownOnline, Status
  <2>8. CASE PubAck(k) \/ PubRec(k) \/ PubComp(k)
    <3>1. status' = status /\ ~Replaying(k)
      BY <2>8 DEF PubAck, PubRec, PubComp, Finish, Readable, Replaying
    <3>2. OnItsWay => OnItsWay'
      BY <2>1, <2>4, <3>1 DEF OnItsWay, Replaying, Busy
    <3> QED
      BY <1>1, <2>6, <3>1, <3>2 DEF ShownOnline
  <2> QED
    BY <1>4, <2>7, <2>8
<1> QED
  BY <1>1, <1>3, <1>4 DEF LibStep

Announcing == Contracted /\ Farewell /\ ShownOnline

LEMMA AnnouncingInit == Init => Announcing
<1> SUFFICES ASSUME Init PROVE Announcing
  OBVIOUS
<1>1. backlog = <<>> /\ chan = <<>> /\ rx = <<>> /\ ~connected
  BY DEF Init, LibInit
<1>2. Waiting = <<>>
  BY <1>1, EmptySeq, ConcatEmptySeq DEF Waiting
<1>3. "offline" \notin Elements(rx) \cup Elements(Waiting) \cup Flying
  BY <1>1, <1>2, NoElement DEF Flying, Init, LibInit, Free
<1> QED
  BY <1>1, <1>3, ContractInit DEF Announcing, Farewell, ShownOnline, Init

LEMMA AnnouncingStep == Announcing /\ [Next]_vars => Announcing'
<1> SUFFICES ASSUME Announcing, [Next]_vars PROVE Announcing'
  OBVIOUS
<1>1. Contracted' /\ Typed /\ Mirror /\ NoCallLeft /\ Farewell /\ ShownOnline
  BY ContractStep DEF Announcing, Contracted, Bookkeeping
<1>2. CASE Tick \/ UNCHANGED vars
  <2>1. UNCHANGED <<rx, backlog, chan, flight, mpc, goal, call, connected, status>>
    BY <1>2 DEF Tick, vars, libVars, callerVars, sharedVars
  <2> QED
    BY <1>1, <2>1, StillPlaces DEF Announcing, Farewell, ShownOnline
<1> QED
  BY <1>1, <1>2, CallerFarewell, WorkerFarewell, PollFarewell DEF Next, Finished, Announcing

\* While the daemon is connected and not stopping, the broker shows it online, or
\* the announcement is queued, or its exchange is about to be replayed: the last will
\* of an earlier connection never stays.
THEOREM OnlineShown == Spec => []OnlineAnnounced
<1>1. Announcing => OnlineAnnounced
  <2> SUFFICES ASSUME Announcing, OnItsWay
               PROVE  \/ \E i \in DOMAIN chan : chan[i] = "online"
                      \/ \E i \in DOMAIN backlog : backlog[i] = "online"
                      \/ \E id \in InFlight : flight[id].m = "online" /\ Replaying(id)
    BY DEF Announcing, ShownOnline, OnlineAnnounced
  <2>1. backlog \in Seq(Names) /\ chan \in Seq(Names)
    BY QueuesTyped DEF Announcing, Contracted, Bookkeeping
  <2>2. Elements(Waiting) = Elements(backlog) \cup Elements(chan)
    BY <2>1, ConcatElements DEF Waiting
  <2> QED
    BY <2>2 DEF OnItsWay, Elements, InFlight, Replaying
<1> QED
  BY <1>1, AnnouncingInit, AnnouncingStep, PTL DEF Spec

(***************************************************************************)
(* Limits: counting messages.                                              *)
(***************************************************************************)
\* The positions of a queue, and the exchanges, that hold a message of S.
Positions(q, S) == {i \in DOMAIN q : q[i] \in S}
CountIn(q, S) == Cardinality(Positions(q, S))
Exchanges(S) == {id \in PktId : Busy(id) /\ flight[id].m \in S}
HeldIn(S) == CountIn(Waiting, S) + Cardinality(Exchanges(S))

LEMMA CountType ==
    ASSUME NEW q \in Seq(Names), NEW S
    PROVE  IsFiniteSet(Positions(q, S)) /\ CountIn(q, S) \in Nat
<1>1. DOMAIN q = 1..Len(q) /\ Len(q) \in Nat
  BY LenProperties
<1>2. IsFiniteSet(DOMAIN q)
  BY <1>1, FS_Interval, SMT
<1>3. Positions(q, S) \in SUBSET (DOMAIN q)
  BY DEF Positions
<1> QED
  BY <1>2, <1>3, FS_Subset, FS_CardinalityType DEF CountIn

LEMMA CountEmpty ==
    ASSUME NEW S
    PROVE  CountIn(<<>>, S) = 0
<1>1. Positions(<<>>, S) = {}
  BY SMT DEF Positions
<1> QED
  BY <1>1, FS_EmptySet DEF CountIn

LEMMA CountOne ==
    ASSUME NEW m \in Names, NEW S
    PROVE  CountIn(<<m>>, S) = IF m \in S THEN 1 ELSE 0
<1>1. DOMAIN <<m>> = {1} /\ <<m>>[1] = m
  BY SMT
<1>2. Positions(<<m>>, S) = IF m \in S THEN {1} ELSE {}
  BY <1>1 DEF Positions
<1> QED
  BY <1>2, FS_Singleton, FS_EmptySet DEF CountIn

LEMMA CountConcat ==
    ASSUME NEW s \in Seq(Names), NEW t \in Seq(Names), NEW S
    PROVE  CountIn(s \o t, S) = CountIn(s, S) + CountIn(t, S)
<1> DEFINE c == s \o t
           A == Positions(s, S)
           B == Positions(t, S)
           C == Positions(c, S)
           n == Len(s)
           D == {i \in C : i > n}
<1>1. /\ c \in Seq(Names) /\ Len(c) = n + Len(t)
      /\ \A i \in 1..n + Len(t) : c[i] = IF i <= n THEN s[i] ELSE t[i - n]
  BY ConcatProperties
<1>2. /\ n \in Nat /\ Len(t) \in Nat
      /\ DOMAIN s = 1..n /\ DOMAIN t = 1..Len(t) /\ DOMAIN c = 1..Len(c)
  BY <1>1, LenProperties
<1>3. /\ \A i : i \in A <=> i \in 1..n /\ s[i] \in S
      /\ \A i : i \in B <=> i \in 1..Len(t) /\ t[i] \in S
      /\ \A i : i \in C <=> i \in 1..Len(c) /\ c[i] \in S
  BY <1>2 DEF Positions
<1>4. IsFiniteSet(A) /\ IsFiniteSet(B)
  BY CountType
<1>0. \A i : i \in D <=> i \in C /\ i > n
  OBVIOUS
<1> HIDE DEF c, A, B, C, D, n
<1>5. C = A \cup D /\ A \cap D = {}
  <2>1. ASSUME NEW i PROVE i \in C <=> i \in A \/ i \in D
    <3>1. CASE i \in 1..n
      BY <1>0, <1>1, <1>2, <1>3, <3>1, SMT
    <3>2. CASE i \notin 1..n
      BY <1>0, <1>1, <1>2, <1>3, <3>2, SMT
    <3> QED
      BY <3>1, <3>2
  <2>2. A \cap D = {}
    BY <1>0, <1>2, <1>3, SMT
  <2> QED
    BY <2>1, <2>2
<1>6. IsFiniteSet(D) /\ Cardinality(D) = Cardinality(B)
  <2> DEFINE f == [i \in B |-> i + n]
  <2>1. f \in [B -> D]
    <3>1. ASSUME NEW i \in B PROVE i + n \in D
      <4>1. i \in 1..Len(t) /\ t[i] \in S
        BY <1>3
      <4>2. i + n \in 1..n + Len(t) /\ i + n > n /\ (i + n) - n = i
        BY <1>2, <4>1, SMT
      <4>3. c[i + n] = t[i]
        BY <1>1, <1>2, <4>1, <4>2, SMT
      <4> QED
        BY <1>0, <1>1, <1>3, <4>1, <4>2, <4>3
    <3> QED
      BY <3>1
  <2>2. ASSUME NEW i \in B, NEW j \in B, f[i] = f[j] PROVE i = j
    BY <1>2, <1>3, <2>2, SMT
  <2>3. ASSUME NEW k \in D PROVE \E i \in B : f[i] = k
    <3>1. k \in 1..n + Len(t) /\ k > n /\ c[k] \in S
      BY <1>0, <1>1, <1>3
    <3>2. k - n \in 1..Len(t) /\ c[k] = t[k - n] /\ (k - n) + n = k
      BY <1>1, <1>2, <3>1, SMT
    <3>3. k - n \in B
      BY <1>3, <3>1, <3>2
    <3> QED
      BY <3>2, <3>3
  <2> HIDE DEF f
  <2>4. f \in Bijection(B, D)
    BY <2>1, <2>2, <2>3, Zenon DEF Bijection, Injection, Surjection, IsInjective
  <2>5. ExistsBijection(B, D)
    BY <2>4, Zenon DEF ExistsBijection
  <2> QED
    BY <1>4, <2>5, FS_Bijection
<1>7. /\ Cardinality(A \cap D) = 0
      /\ Cardinality(A) \in Nat /\ Cardinality(D) \in Nat
  BY <1>4, <1>5, <1>6, FS_EmptySet, FS_CardinalityType
<1>8. Cardinality(C) = Cardinality(A) + Cardinality(D) - Cardinality(A \cap D)
  BY <1>4, <1>5, <1>6, FS_Union
<1>9. Cardinality(C) = Cardinality(A) + Cardinality(B)
  BY <1>6, <1>7, <1>8, SMT
<1> QED
  BY <1>9 DEF CountIn, A, B, C, c

LEMMA ExchangesType ==
    ASSUME NEW S
    PROVE  IsFiniteSet(Exchanges(S)) /\ Cardinality(Exchanges(S)) \in Nat
<1>1. IsFiniteSet(PktId) /\ Exchanges(S) \in SUBSET PktId
  BY LibraryAssumption DEF LibraryAssumption, Exchanges
<1> QED
  BY <1>1, FS_Subset, FS_CardinalityType

(***************************************************************************)
(* Limits: what each step does to the messages held.                       *)
(***************************************************************************)
ReliableMessages == Messages \ AtMostOnce

\* Only QoS 1/2 messages have an exchange.
FlightReliable == \A id \in PktId : Busy(id) => flight[id].m \in ReliableMessages

LEMMA HeldNext ==
    ASSUME NEW S
    PROVE  HeldIn(S)' = CountIn(Waiting', S) + Cardinality(Exchanges(S)')
BY DEF HeldIn, CountIn, Positions

LEMMA HeldType ==
    ASSUME Typed, NEW S
    PROVE  /\ CountIn(Waiting, S) \in Nat /\ Cardinality(Exchanges(S)) \in Nat
           /\ HeldIn(S) \in Nat
<1>1. CountIn(Waiting, S) \in Nat /\ Cardinality(Exchanges(S)) \in Nat
  BY LivePlaces, CountType, ExchangesType
<1> QED
  BY <1>1, SMT DEF HeldIn

LEMMA HeldFresh ==
    ASSUME FreshClient, NEW S
    PROVE  HeldIn(S)' = 0
<1>1. Waiting' = <<>>
  <2>1. backlog' = <<>> /\ chan' = <<>>
    BY DEF FreshClient
  <2>2. Waiting' = <<>> \o <<>>
    BY <2>1 DEF Waiting
  <2> QED
    BY <2>2, EmptySeq, ConcatEmptySeq
<1>2. Exchanges(S)' = {}
  BY FreshIdle DEF Exchanges
<1>3. CountIn(Waiting', S) = 0 /\ Cardinality(Exchanges(S)') = 0
  BY <1>1, <1>2, CountEmpty, FS_EmptySet
<1> QED
  BY <1>3, HeldNext, SMT

LEMMA HeldStill ==
    ASSUME UNCHANGED <<backlog, chan, flight>>, NEW S
    PROVE  HeldIn(S)' = HeldIn(S)
BY DEF HeldIn, CountIn, Positions, Waiting, Exchanges, Busy

\* A request joins the queue.
LEMMA HeldGrows ==
    ASSUME Typed, NEW m \in Names, chan' = Append(chan, m),
           UNCHANGED <<backlog, flight>>, NEW S
    PROVE  HeldIn(S)' = HeldIn(S) + (IF m \in S THEN 1 ELSE 0)
<1>1. Waiting' = Waiting \o <<m>> /\ Waiting \in Seq(Names) /\ <<m>> \in Seq(Names)
  BY WaitingGrows, LivePlaces, SingleElement, AppendIsConcat
<1>2. CountIn(Waiting', S) = CountIn(Waiting, S) + (IF m \in S THEN 1 ELSE 0)
  <2>1. CountIn(Waiting \o <<m>>, S) = CountIn(Waiting, S) + CountIn(<<m>>, S)
    BY <1>1, CountConcat
  <2> QED
    BY <1>1, <2>1, CountOne
<1>3. Exchanges(S)' = Exchanges(S)
  BY DEF Exchanges, Busy
<1>4. CountIn(Waiting, S) \in Nat /\ Cardinality(Exchanges(S)) \in Nat
  BY HeldType
<1>5. HeldIn(S)' = CountIn(Waiting, S) + (IF m \in S THEN 1 ELSE 0) + Cardinality(Exchanges(S))
  BY <1>2, <1>3, HeldNext
<1> QED
  BY <1>4, <1>5, SMT DEF HeldIn

\* A lost connection: what a kept session held it still holds.
LEMMA HeldKept ==
    ASSUME Typed, KeepSession, NEW S
    PROVE  HeldIn(S)' = HeldIn(S)
<1>1. /\ chan' = <<>> /\ backlog' = Waiting
      /\ flight' = [id \in PktId |-> [flight[id] EXCEPT !.onwire = FALSE]]
  BY DEF KeepSession, Waiting
<1>2. Waiting' = Waiting
  BY <1>1, LivePlaces, ConcatEmptySeq DEF Waiting
<1>3. ASSUME NEW id \in PktId
      PROVE  flight'[id].m = flight[id].m /\ flight'[id].stage = flight[id].stage
  <2>1. flight'[id] = [flight[id] EXCEPT !.onwire = FALSE] /\ flight[id] \in Slot
    BY <1>1 DEF Typed, TypeOK, LibTypeOK
  <2> QED
    BY <2>1, SMT DEF Slot, Free, Exchange
<1>4. Exchanges(S)' = Exchanges(S)
  BY <1>3 DEF Exchanges, Busy
<1> QED
  BY <1>2, <1>4, HeldNext DEF HeldIn

\* A new connection adds its announcement; a clean session holds nothing else.
LEMMA HeldConnAck ==
    ASSUME Typed, Typed', Mirror, NEW session_present \in BOOLEAN,
           WConnAck(session_present), NEW S
    PROVE  /\ HeldIn(S)' <= HeldIn(S) + (IF "online" \in S THEN 1 ELSE 0)
           /\ CleanSession => HeldIn(S)' <= 1
<1> DEFINE one == IF "online" \in S THEN 1 ELSE 0
<1>1. /\ wpc = "select" /\ net = "down" /\ chan' = SendOnline(chan)
      /\ CleanSession => ~session_present
      /\ backlog' = IF session_present THEN backlog ELSE <<>>
      /\ flight' = IF session_present THEN flight ELSE [id \in PktId |-> Free]
  BY DEF WConnAck, ConnAck
<1>2. chan = <<>> /\ Accepts(chan)
  BY <1>1, LibraryAssumption, SMT
     DEF Mirror, EmptyOffline, Offline, Accepts, LibraryAssumption
<1>3. chan' = <<"online">>
  <2>1. Append(<<>>, "online") = <<"online">>
    BY SMT
  <2> QED
    BY <1>1, <1>2, <2>1 DEF SendOnline
<1>4. /\ "online" \in Names /\ backlog \in Seq(Names) /\ <<>> \in Seq(Names)
      /\ <<"online">> \in Seq(Names)
  BY Constants, QueuesTyped, EmptySeq, SingleElement DEF Names
<1>5. CountIn(Waiting', S) = CountIn(backlog', S) + one
  <2>1. backlog' \in Seq(Names)
    BY <1>1, <1>4
  <2>2. CountIn(backlog' \o <<"online">>, S) = CountIn(backlog', S) + CountIn(<<"online">>, S)
    BY <1>4, <2>1, CountConcat
  <2> QED
    BY <1>3, <1>4, <2>2, CountOne DEF Waiting
<1>6. Waiting = backlog
  BY <1>2, <1>4, ConcatEmptySeq DEF Waiting
<1>7. one \in {0, 1} /\ CountIn(Waiting, S) \in Nat /\ Cardinality(Exchanges(S)) \in Nat
  BY HeldType
<1>8. CASE session_present
  <2>1. CountIn(Waiting', S) = CountIn(Waiting, S) + one
    BY <1>1, <1>5, <1>6, <1>8
  <2>2. Exchanges(S)' = Exchanges(S)
    BY <1>1, <1>8 DEF Exchanges, Busy
  <2>3. HeldIn(S)' = CountIn(Waiting, S) + one + Cardinality(Exchanges(S))
    BY <2>1, <2>2, HeldNext
  <2> HIDE DEF one
  <2>4. HeldIn(S)' <= HeldIn(S) + one
    BY <1>7, <2>3, SMT DEF HeldIn
  <2> QED
    BY <1>1, <1>8, <2>4 DEF one
<1>9. CASE ~session_present
  <2>1. CountIn(Waiting', S) = 0 + one
    BY <1>1, <1>5, <1>9, CountEmpty
  <2>2. Exchanges(S)' = {}
    BY <1>1, <1>9 DEF Exchanges, Busy, Free
  <2>3. HeldIn(S)' = 0 + one + 0
    BY <2>1, <2>2, HeldNext, FS_EmptySet
  <2> HIDE DEF one
  <2>4. HeldIn(S)' <= HeldIn(S) + one /\ HeldIn(S)' <= 1
    BY <1>7, <2>3, SMT DEF HeldIn
  <2> QED
    BY <2>4 DEF one
<1> QED
  BY <1>8, <1>9

\* A write moves a QoS 1/2 message from the queue to an exchange.
LEMMA HeldSend ==
    ASSUME Typed, SendBacklog \/ SendNext, NEW S \in SUBSET ReliableMessages
    PROVE  HeldIn(S)' <= HeldIn(S)
<1>1. PICK r \in Requests :
          Write(r) /\ <<r>> \o Waiting' = Waiting /\ Waiting' \in Seq(Names)
  BY FirstWritten
<1> DEFINE one == IF r \in S THEN 1 ELSE 0
<1>2. CountIn(Waiting, S) = one + CountIn(Waiting', S)
  <2>1. r \in Names
    BY DEF Names
  <2>2. <<r>> \in Seq(Names)
    BY <2>1, SingleElement
  <2>3. CountIn(<<r>> \o Waiting', S) = CountIn(<<r>>, S) + CountIn(Waiting', S)
    BY <1>1, <2>2, CountConcat
  <2> QED
    BY <1>1, <2>1, <2>3, CountOne
<1>3. /\ one \in {0, 1} /\ CountIn(Waiting', S) \in Nat
      /\ IsFiniteSet(Exchanges(S)) /\ Cardinality(Exchanges(S)) \in Nat
  BY <1>1, CountType, ExchangesType
<1>4. flight \in [PktId -> Slot]
  BY DEF Typed, TypeOK, LibTypeOK
<1>5. Cardinality(Exchanges(S)') <= Cardinality(Exchanges(S)) + one
  <2>1. CASE flight' = flight
    <3>1. Exchanges(S)' = Exchanges(S)
      BY <2>1 DEF Exchanges, Busy
    <3> QED
      BY <1>3, <3>1, SMT
  <2>2. CASE WriteReliable(r)
    <3>1. PICK k \in PktId \ InFlight :
              flight' = [flight EXCEPT ![k] = [m |-> r, stage |-> "pub", onwire |-> TRUE]]
      BY <2>2 DEF WriteReliable
    <3>2. flight'[k].m = r /\ \A id \in PktId \ {k} : flight'[id] = flight[id]
      BY <1>4, <3>1, SMT
    <3>3. CASE r \in S
      <4>1. Exchanges(S)' \subseteq Exchanges(S) \cup {k}
        BY <3>1, <3>2 DEF Exchanges, Busy
      <4>2. /\ IsFiniteSet(Exchanges(S) \cup {k})
            /\ Cardinality(Exchanges(S) \cup {k}) <= Cardinality(Exchanges(S)) + 1
        BY <1>3, FS_AddElement, SMT
      <4>3. /\ Cardinality(Exchanges(S)') <= Cardinality(Exchanges(S) \cup {k})
            /\ Cardinality(Exchanges(S)') \in Nat
            /\ Cardinality(Exchanges(S) \cup {k}) \in Nat
        BY <4>1, <4>2, FS_Subset, FS_CardinalityType
      <4> QED
        BY <1>3, <3>3, <4>2, <4>3, SMT
    <3>4. CASE r \notin S
      <4>1. Exchanges(S)' \subseteq Exchanges(S)
        BY <3>1, <3>2, <3>4 DEF Exchanges, Busy
      <4>2. Cardinality(Exchanges(S)') <= Cardinality(Exchanges(S))
        BY <1>3, <4>1, FS_Subset
      <4> QED
        BY <3>4, <4>2, <1>3, SMT
    <3> QED
      BY <3>3, <3>4
  <2> QED
    BY <1>1, <2>1, <2>2 DEF Write, WriteDisconnect, WriteFleeting
<1>6. Cardinality(Exchanges(S)') \in Nat
  <2>1. Exchanges(S)' \in SUBSET PktId /\ IsFiniteSet(PktId)
    BY LibraryAssumption DEF Exchanges, LibraryAssumption
  <2> QED
    BY <2>1, FS_Subset, FS_CardinalityType
<1>7. HeldIn(S)' = CountIn(Waiting', S) + Cardinality(Exchanges(S)')
  BY HeldNext
<1> HIDE DEF one
<1> QED
  BY <1>2, <1>3, <1>5, <1>6, <1>7, SMT DEF HeldIn

\* Nothing else a session does adds to what it holds.
LEMMA HeldExchange ==
    ASSUME Typed, NEW k \in PktId, Resend(k) \/ PubAck(k) \/ PubRec(k) \/ PubComp(k), NEW S
    PROVE  HeldIn(S)' <= HeldIn(S)
<1>1. /\ UNCHANGED <<backlog, chan>> /\ Busy(k) /\ flight \in [PktId -> Slot]
      /\ \A id \in PktId \ {k} : flight'[id] = flight[id]
  BY DEF Resend, PubAck, PubRec, PubComp, Finish, Readable, Replaying, Busy, Typed,
     TypeOK, LibTypeOK
<1>2. flight'[k].m = flight[k].m \/ ~Busy(k)'
  <2>1. flight[k] \in Exchange
    BY <1>1, SlotUpdates DEF Busy
  <2>2. CASE Resend(k)
    <3>1. flight'[k] = [flight[k] EXCEPT !.onwire = TRUE]
      BY <1>1, <2>2, SMT DEF Resend
    <3> QED
      BY <2>1, <3>1, SMT DEF Exchange
  <2>3. CASE PubRec(k)
    <3>1. flight'[k] = [flight[k] EXCEPT !.stage = "rel"]
      BY <1>1, <2>3, SMT DEF PubRec
    <3> QED
      BY <2>1, <3>1, SMT DEF Exchange
  <2>4. CASE PubAck(k) \/ PubComp(k)
    BY <1>1, <2>4 DEF PubAck, PubComp, Finish, Busy, Free
  <2> QED
    BY <2>2, <2>3, <2>4
<1>3. Exchanges(S)' \subseteq Exchanges(S)
  BY <1>1, <1>2 DEF Exchanges, Busy
<1>4. Cardinality(Exchanges(S)') <= Cardinality(Exchanges(S)) /\ Cardinality(Exchanges(S)') \in Nat
  BY <1>3, ExchangesType, FS_Subset, FS_CardinalityType
<1>5. HeldIn(S)' = CountIn(Waiting, S) + Cardinality(Exchanges(S)')
  BY <1>1, HeldNext DEF Waiting
<1> QED
  BY <1>4, <1>5, HeldType, SMT DEF HeldIn

(***************************************************************************)
(* Limits: the worker's own count is never below what the library holds.   *)
(***************************************************************************)
LEMMA HeldOutstanding ==
    ASSUME Typed, Mirror, wpc = "select", net = "up", NEW S \in SUBSET ReliableMessages
    PROVE  HeldIn(S) <= Outstanding /\ Outstanding \in Nat
<1> DEFINE Q == {i \in DOMAIN queued : queued[i].reliable}
           P == {id \in PktId : pending[id] # "vacant"}
           E == Exchanges(S)
<1>1. /\ backlog \in Seq(Names) /\ chan \in Seq(Names) /\ Announced \in Seq(Names)
      /\ queued \in Seq(Entry) /\ Waiting \in Seq(Names)
  BY QueuesTyped, LivePlaces
<1>2. Unwritten = Announced \o Waiting /\ Unwritten \in Seq(Names)
  <2>1. Announced \o backlog \o chan = Announced \o (backlog \o chan)
    BY <1>1, ConcatAssociative
  <2> QED
    BY <1>1, <2>1, ConcatProperties DEF Unwritten, Waiting
<1>3. Matches(queued, Unwritten) /\ \A id \in PktId : TrackedAt(id)
  BY DEF Mirror, Aligned, Tracked
<1>4. IsFiniteSet(Q) /\ IsFiniteSet(P)
  <2>1. DOMAIN queued = 1..Len(queued) /\ Len(queued) \in Nat
    BY <1>1, LenProperties
  <2>2. IsFiniteSet(DOMAIN queued) /\ IsFiniteSet(PktId)
    BY <2>1, FS_Interval, LibraryAssumption, SMT DEF LibraryAssumption
  <2>3. Q \in SUBSET (DOMAIN queued) /\ P \in SUBSET PktId
    OBVIOUS
  <2> QED
    BY <2>2, <2>3, FS_Subset
<1>5. CountIn(Announced, S) + CountIn(Waiting, S) <= Cardinality(Q)
  <2>1. DOMAIN Unwritten = DOMAIN queued
    BY <1>1, <1>2, <1>3, LenProperties DEF Matches
  <2>2. Positions(Unwritten, S) \subseteq Q
    BY <1>3, <2>1 DEF Positions, Matches, Reliable, ReliableMessages
  <2>3. CountIn(Unwritten, S) <= Cardinality(Q)
    BY <1>4, <2>2, FS_Subset DEF CountIn
  <2> QED
    BY <1>1, <1>2, <2>3, CountConcat
<1>6. /\ Cardinality(Q) \in Nat /\ Cardinality(P) \in Nat
      /\ IsFiniteSet(E) /\ Cardinality(E) \in Nat
      /\ CountIn(Announced, S) \in Nat /\ CountIn(Waiting, S) \in Nat
  BY <1>1, <1>4, FS_CardinalityType, ExchangesType, CountType
<1>7. /\ Outstanding = Cardinality(Q) + Cardinality(P)
      /\ HeldIn(S) = CountIn(Waiting, S) + Cardinality(E)
  BY DEF Outstanding, HeldIn
<1>8. E \subseteq PktId /\ \A id \in E : Busy(id) /\ flight[id].m \in S
  BY DEF Exchanges
<1> HIDE DEF Q, E
<1>9. CASE E \subseteq P
  <2>1. Cardinality(E) <= Cardinality(P)
    BY <1>4, <1>9, FS_Subset
  <2> HIDE DEF P
  <2> QED
    BY <1>5, <1>6, <1>7, <2>1, SMT
<1>10. CASE ~(E \subseteq P)
  <2>1. PICK id \in E : id \notin P
    BY <1>10
  <2>2. sent.kind = "publish" /\ sent.id = id /\ pending[id] = "vacant"
    BY <1>3, <1>8, <2>1 DEF TrackedAt
  <2>3. Announced = <<sent.m>> /\ sent.m \in S /\ sent.m \in Names
    <3>1. id # 0
      BY <1>8, <2>1, LibraryAssumption DEF LibraryAssumption
    <3>2. Announced = <<sent.m>>
      BY <2>2 DEF Announced
    <3>3. flight[id].m = sent.m
      BY <2>2, <3>1 DEF Mirror, Evidence
    <3>4. sent.m \in S /\ S \subseteq Messages
      BY <1>8, <2>1, <3>3 DEF ReliableMessages
    <3> QED
      BY <3>2, <3>4, Constants DEF Names
  <2>4. CountIn(Announced, S) = 1
    BY <2>3, CountOne
  <2>5. E \ {id} \subseteq P
    <3>1. ASSUME NEW other \in E \ {id} PROVE other \in P
      <4>1. pending[other] = "vacant" => sent.id = other
        BY <1>3, <1>8, <3>1 DEF TrackedAt
      <4> QED
        BY <1>8, <2>2, <3>1, <4>1
    <3> QED
      BY <3>1
  <2>6. Cardinality(E \ {id}) <= Cardinality(P)
    BY <1>4, <2>5, FS_Subset
  <2>7. Cardinality(E \ {id}) = Cardinality(E) - 1
    BY <1>6, <2>1, FS_RemoveElement
  <2> HIDE DEF P
  <2> QED
    BY <1>5, <1>6, <1>7, <2>4, <2>6, <2>7, SMT
<1> QED
  BY <1>9, <1>10

Bounded(S) == Capacity # 0 => HeldIn(S) <= Capacity

\* An accepted QoS 1/2 message found room; everything else adds nothing, except the
\* announcement of a new connection.
LEMMA BoundedStep ==
    ASSUME Bookkeeping, Typed', NEW S \in SUBSET ReliableMessages,
           "online" \notin S \/ CleanSession, Bounded(S), [Next]_vars
    PROVE  Bounded(S)'
<1>1. Typed /\ Mirror /\ Capacity \in Nat /\ HeldIn(S) \in Nat
  BY ClientAssumption, HeldType DEF Bookkeeping, ClientAssumption
<1>2. HeldIn(S)' \in Nat
  <2>1. CountIn(Waiting', S) \in Nat
    BY LivePlacesNext, CountType
  <2>2. Exchanges(S)' \in SUBSET PktId /\ IsFiniteSet(PktId)
    BY LibraryAssumption DEF Exchanges, LibraryAssumption
  <2>3. Cardinality(Exchanges(S)') \in Nat
    BY <2>2, FS_Subset, FS_CardinalityType
  <2> QED
    BY <2>1, <2>3, HeldNext, SMT
<1>3. ASSUME HeldIn(S)' <= HeldIn(S) PROVE Bounded(S)'
  BY <1>1, <1>2, <1>3, SMT DEF Bounded
<1>4. ASSUME UNCHANGED <<backlog, chan, flight>> PROVE Bounded(S)'
  BY <1>1, <1>3, <1>4, HeldStill, SMT
<1>5. ASSUME FreshClient PROVE Bounded(S)'
  BY <1>1, <1>3, <1>5, HeldFresh, SMT
<1>6. CASE CallerStep
  <2>1. CASE SpawnOk
    BY <1>5, <2>1 DEF SpawnOk
  <2>2. CASE Frame
    BY <1>4, <2>2 DEF Frame, libVars
  <2> QED
    BY <1>6, <2>1, <2>2, CallerFrame
<1>7. CASE WAccept
  <2> DEFINE m == Head(rx)
  <2>1. /\ wpc = "select" /\ rx # <<>> /\ connected /\ ~OverLimit(m)
        /\ chan' = Append(chan, m) /\ UNCHANGED <<backlog, flight>>
    BY <1>7 DEF WAccept, Admits
  <2>2. net = "up"
    BY <1>1, <2>1 DEF Mirror, EmptyOffline, Offline, Typed, TypeOK, LibTypeOK
  <2>3. m \in Names
    BY <1>1, <2>1, ReceivedFirst
  <2>4. HeldIn(S) <= Outstanding /\ Outstanding \in Nat
    BY <1>1, <2>1, <2>2, HeldOutstanding
  <2>5. m \in S /\ Capacity # 0 => ~(Outstanding >= Capacity)
    BY <2>1 DEF OverLimit, Reliable, ReliableMessages
  <2> HIDE DEF m
  <2>6. HeldIn(S)' = HeldIn(S) + (IF m \in S THEN 1 ELSE 0)
    BY <1>1, <2>1, <2>3, HeldGrows
  <2> QED
    BY <1>1, <2>4, <2>5, <2>6, SMT DEF Bounded
<1>8. ASSUME NEW session_present \in BOOLEAN, WConnAck(session_present) PROVE Bounded(S)'
  <2>1. /\ HeldIn(S)' <= HeldIn(S) + (IF "online" \in S THEN 1 ELSE 0)
        /\ CleanSession => HeldIn(S)' <= 1
    BY <1>1, <1>8, HeldConnAck
  <2> QED
    BY <1>1, <1>2, <2>1, SMT DEF Bounded
<1>9. CASE WConnFail \/ WLost
  <2>1. Reconnecting
    BY <1>9 DEF WConnFail, WLost, FailConnection
  <2>2. CASE KeepSession
    BY <1>1, <1>3, <2>2, HeldKept, SMT
  <2> QED
    BY <1>5, <2>1, <2>2 DEF Reconnecting
<1>10. CASE WBackoffStop \/ WStopOffline \/ WDrainEnd
  BY <1>5, <1>10 DEF WBackoffStop, WStopOffline, WDrainEnd, Exit
<1>11. CASE WStopOnline
  <2>1. "disconnect" \in Names /\ "disconnect" \notin S
    <3>1. "disconnect" \notin Messages
      BY StatusNoMetric, SMT DEF Messages, Status
    <3> QED
      BY <3>1 DEF Names, Requests, ReliableMessages
  <2>2. CASE chan' = Append(chan, "disconnect")
    <3>1. HeldIn(S)' = HeldIn(S) + 0
      BY <1>1, <1>11, <2>1, <2>2, HeldGrows DEF WStopOnline
    <3> QED
      BY <1>1, <1>3, <3>1, SMT
  <2> QED
    BY <1>4, <1>11, <2>2 DEF WStopOnline
<1>12. CASE WPoll
  BY <1>1, <1>3, <1>12, HeldSend, HeldExchange DEF WPoll, LibStep
<1>13. CASE WRefuse \/ WSentFleeting \/ WSentReliable \/ WWake \/ WDrainEvent \/ Tick
            \/ UNCHANGED vars \/ \E a \in acks : WFinish(a)
  BY <1>4, <1>13 DEF WRefuse, WSentFleeting, WSentReliable, WWake, WDrainEvent, Tick,
     WFinish, vars, libVars
<1> QED
  BY <1>6, <1>7, <1>8, <1>9, <1>10, <1>11, <1>12, <1>13 DEF Next, WorkerStep, Finished

LEMMA FlightReliableStep ==
    ASSUME Typed, FlightReliable, [Next]_vars
    PROVE  FlightReliable'
<1>1. flight \in [PktId -> Slot]
  BY DEF Typed, TypeOK, LibTypeOK
<1>2. ASSUME \A id \in PktId : Busy(id)' => Busy(id) /\ flight'[id].m = flight[id].m
      PROVE  FlightReliable'
  BY <1>2 DEF FlightReliable
<1>3. ASSUME flight' = flight PROVE FlightReliable'
  BY <1>3 DEF FlightReliable, Busy
<1>4. ASSUME flight' = [id \in PktId |-> Free] PROVE FlightReliable'
  BY <1>4 DEF FlightReliable, Busy, Free
<1>5. CASE CallerStep
  BY <1>3, <1>4, <1>5, CallerFrame DEF SpawnOk, FreshClient, Frame, libVars
<1>6. CASE WConnFail \/ WLost
  <2>1. Reconnecting
    BY <1>6 DEF WConnFail, WLost, FailConnection
  <2>2. ASSUME KeepSession, NEW id \in PktId
        PROVE  flight'[id].m = flight[id].m /\ flight'[id].stage = flight[id].stage
    <3>1. flight'[id] = [flight[id] EXCEPT !.onwire = FALSE] /\ flight[id] \in Slot
      BY <1>1, <2>2 DEF KeepSession
    <3> QED
      BY <3>1, SMT DEF Slot, Free, Exchange
  <2> QED
    BY <1>2, <1>4, <2>1, <2>2 DEF Reconnecting, FreshClient, Busy
<1>7. CASE WBackoffStop \/ WStopOffline \/ WDrainEnd
  BY <1>4, <1>7 DEF WBackoffStop, WStopOffline, WDrainEnd, Exit, FreshClient
<1>8. ASSUME NEW session_present \in BOOLEAN, WConnAck(session_present)
      PROVE  FlightReliable'
  BY <1>3, <1>4, <1>8 DEF WConnAck, ConnAck
<1>9. CASE WAccept \/ WRefuse \/ WSentFleeting \/ WSentReliable \/ WWake \/ WStopOnline
           \/ WDrainEvent \/ Tick \/ UNCHANGED vars \/ \E a \in acks : WFinish(a)
  BY <1>3, <1>9 DEF WAccept, WRefuse, WSentFleeting, WSentReliable, WWake, WStopOnline,
     WDrainEvent, WFinish, Tick, vars, libVars
<1>10. ASSUME NEW m, Write(m) PROVE FlightReliable'
  <2>1. CASE WriteReliable(m)
    <3>1. PICK k \in PktId \ InFlight :
              flight' = [flight EXCEPT ![k] = [m |-> m, stage |-> "pub", onwire |-> TRUE]]
      BY <2>1 DEF WriteReliable
    <3>2. flight'[k].m = m /\ \A id \in PktId \ {k} : flight'[id] = flight[id]
      BY <1>1, <3>1, SMT
    <3>3. m \in ReliableMessages
      BY <2>1 DEF WriteReliable, ReliableMessages
    <3> QED
      BY <3>2, <3>3 DEF FlightReliable, Busy
  <2> QED
    BY <1>3, <1>10, <2>1 DEF Write, WriteDisconnect, WriteFleeting
<1>11. ASSUME NEW k \in PktId, Resend(k) \/ PubAck(k) \/ PubRec(k) \/ PubComp(k)
       PROVE  FlightReliable'
  <2>1. Busy(k) /\ \A id \in PktId \ {k} : flight'[id] = flight[id]
    BY <1>1, <1>11 DEF Resend, PubAck, PubRec, PubComp, Finish, Readable, Replaying, Busy
  <2>2. Busy(k)' => flight'[k].m = flight[k].m
    <3>1. flight[k] \in Exchange
      BY <1>1, <2>1, SlotUpdates DEF Busy
    <3>2. CASE Resend(k)
      <4>1. flight'[k] = [flight[k] EXCEPT !.onwire = TRUE]
        BY <1>1, <3>2, SMT DEF Resend
      <4> QED
        BY <3>1, <4>1, SMT DEF Exchange
    <3>3. CASE PubRec(k)
      <4>1. flight'[k] = [flight[k] EXCEPT !.stage = "rel"]
        BY <1>1, <3>3, SMT DEF PubRec
      <4> QED
        BY <3>1, <4>1, SMT DEF Exchange
    <3>4. CASE PubAck(k) \/ PubComp(k)
      BY <1>1, <3>4 DEF PubAck, PubComp, Finish, Busy, Free
    <3> QED
      BY <1>11, <3>2, <3>3, <3>4
  <2> QED
    BY <1>2, <2>1, <2>2 DEF Busy
<1>12. CASE WPoll
  BY <1>10, <1>11, <1>12 DEF WPoll, LibStep, SendBacklog, SendNext
<1> QED
  BY <1>5, <1>6, <1>7, <1>8, <1>9, <1>12 DEF Next, WorkerStep, Finished

(***************************************************************************)
(* Limits: the theorems.                                                   *)
(***************************************************************************)
Limited(S) == Bookkeeping /\ FlightReliable /\ Bounded(S)

LEMMA LimitedInit ==
    ASSUME NEW S
    PROVE  Init => Limited(S)
<1> SUFFICES ASSUME Init PROVE Limited(S)
  OBVIOUS
<1>1. /\ backlog = <<>> /\ chan = <<>> /\ flight = [id \in PktId |-> Free]
      /\ Waiting = <<>> \o <<>>
  BY DEF Init, LibInit, Waiting
<1>2. Waiting = <<>>
  BY <1>1, EmptySeq, ConcatEmptySeq
<1>3. Exchanges(S) = {}
  BY <1>1 DEF Exchanges, Busy, Free
<1>4. HeldIn(S) = 0
  <2>1. CountIn(Waiting, S) = 0 /\ Cardinality(Exchanges(S)) = 0
    BY <1>2, <1>3, CountEmpty, FS_EmptySet
  <2> QED
    BY <2>1, SMT DEF HeldIn
<1>5. Bounded(S)
  BY <1>4, ClientAssumption, SMT DEF Bounded, ClientAssumption
<1>6. FlightReliable
  BY <1>1 DEF FlightReliable, Busy, Free
<1> QED
  BY <1>5, <1>6, BookkeepingInit DEF Limited

LEMMA LimitedStep ==
    ASSUME NEW S \in SUBSET ReliableMessages, "online" \notin S \/ CleanSession
    PROVE  Limited(S) /\ [Next]_vars => Limited(S)'
<1> SUFFICES ASSUME Limited(S), [Next]_vars PROVE Limited(S)'
  OBVIOUS
<1>1. Bookkeeping' /\ Typed /\ Typed'
  BY BookkeepingStep DEF Limited, Bookkeeping
<1> QED
  BY <1>1, BoundedStep, FlightReliableStep DEF Limited

\* The queue and the exchanges, counted apart as the invariants do.
LEMMA HeldParts ==
    ASSUME Typed, NEW S
    PROVE  HeldIn(S) = CountIn(backlog, S) + CountIn(chan, S) + Cardinality(Exchanges(S))
<1>1. backlog \in Seq(Names) /\ chan \in Seq(Names)
  BY QueuesTyped
<1>2. CountIn(Waiting, S) = CountIn(backlog, S) + CountIn(chan, S)
  BY <1>1, CountConcat DEF Waiting
<1> QED
  BY <1>2 DEF HeldIn

\* mqtt.max_queued_messages bounds the QoS 1/2 messages that publish handed to the
\* library and that are not acknowledged yet, on clean and persistent sessions alike,
\* whatever is lost and resumed: the announcements alone may exceed it.
THEOREM MetricsLimit == Spec => []MetricsBounded
<1> DEFINE S == ReliableMessages \ {"online"}
<1>1. Limited(S) => MetricsBounded
  <2> SUFFICES ASSUME Limited(S), Capacity # 0 PROVE MetricsBounded
    BY DEF MetricsBounded
  <2>1. \A q : CountMetrics(q) = CountIn(q, S)
    <3>1. \A q : {i \in DOMAIN q : q[i] \in Messages \ {"online"} /\ Reliable(q[i])}
                    = Positions(q, S)
      BY DEF Positions, Reliable, ReliableMessages
    <3> QED
      BY <3>1 DEF CountMetrics, CountIn
  <2>2. {id \in InFlight : flight[id].m # "online"} = Exchanges(S)
    BY DEF Limited, FlightReliable, InFlight, Exchanges
  <2>3. HeldIn(S) = CountIn(backlog, S) + CountIn(chan, S) + Cardinality(Exchanges(S))
    BY HeldParts DEF Limited, Bookkeeping
  <2>4. HeldIn(S) <= Capacity
    BY DEF Limited, Bounded
  <2> QED
    BY <2>1, <2>2, <2>3, <2>4 DEF MetricsBounded
<1>2. S \in SUBSET ReliableMessages /\ "online" \notin S
  OBVIOUS
<1>3. Init => Limited(S)
  BY LimitedInit
<1> HIDE DEF S
<1>4. Limited(S) /\ [Next]_vars => Limited(S)'
  BY <1>2, LimitedStep
<1> QED
  BY <1>1, <1>3, <1>4, PTL DEF Spec

\* On a clean session the bound covers everything the library holds, announcements
\* included.  On a persistent one it does not: a resumed backlog and a fresh "online"
\* add up, as the run queue_limit shows.
THEOREM CleanSessionLimit ==
    ASSUME CleanSession
    PROVE  Spec => []OutstandingBounded
<1> DEFINE S == ReliableMessages
<1>1. Limited(S) => OutstandingBounded
  <2> SUFFICES ASSUME Limited(S), Capacity # 0 PROVE OutstandingBounded
    BY DEF OutstandingBounded
  <2>1. \A q : Count(q) = CountIn(q, S)
    <3>1. \A q : {i \in DOMAIN q : q[i] \in Messages /\ Reliable(q[i])} = Positions(q, S)
      BY DEF Positions, Reliable, ReliableMessages
    <3> QED
      BY <3>1 DEF Count, CountIn
  <2>2. InFlight = Exchanges(S)
    BY DEF Limited, FlightReliable, InFlight, Exchanges
  <2>3. HeldIn(S) = CountIn(backlog, S) + CountIn(chan, S) + Cardinality(Exchanges(S))
    BY HeldParts DEF Limited, Bookkeeping
  <2>4. HeldIn(S) <= Capacity
    BY DEF Limited, Bounded
  <2> QED
    BY <2>1, <2>2, <2>3, <2>4 DEF OutstandingBounded, Held
<1>2. S \in SUBSET ReliableMessages
  OBVIOUS
<1>3. Init => Limited(S)
  BY LimitedInit
<1> HIDE DEF S
<1>4. Limited(S) /\ [Next]_vars => Limited(S)'
  BY <1>2, LimitedStep
<1> QED
  BY <1>1, <1>3, <1>4, PTL DEF Spec
=============================================================================
