------------------------------ MODULE MqttClient ------------------------------
(***************************************************************************)
(* The outage-tolerant publisher of src/src/mqttclient.rs: the handle the  *)
(* reporting loop calls (start, publish, maintain, stop) and the private   *)
(* worker thread that owns the connection (run).  They share `connected`   *)
(* and `outage` under a mutex, the message channel rx of capacity 1, the   *)
(* stop signal, and one reply channel per publish call.                    *)
(*                                                                         *)
(* The handle is used by one thread, so at most one call is outstanding.   *)
(* The counter `dropped` and `last_log` only feed a log line and are left  *)
(* out.  A metric is published at most once, so its name identifies the    *)
(* call and its reply channel.                                             *)
(***************************************************************************)
EXTENDS EventLoop

CONSTANTS
    Capacity,       \* mqtt.max_queued_messages, 0 for no limit
    MinDelay,       \* mqtt.reconnect_min_delay_secs
    MaxDelay,       \* mqtt.reconnect_max_delay_secs
    Recreate,       \* mqtt.recreate_client_after_secs, 0 for never
    SpawnMayFail    \* whether start() can meet a runtime or thread error

ASSUME ClientAssumption ==
    /\ Capacity \in Nat
    /\ MinDelay \in Nat \ {0} /\ MaxDelay \in Nat /\ MinDelay <= MaxDelay
    /\ Recreate \in Nat
    /\ SpawnMayFail \in BOOLEAN

VARIABLES
    mpc,        \* where the calling thread is
    goal,       \* what its current teardown or start is part of
    call,       \* the message of the publish call in progress
    answer,     \* what its reply channel holds
    used,       \* history: metrics a publish call was made for
    succeeded,  \* history: messages publish returned true for
    wpc,        \* where the worker thread is; "off": Publisher.worker is None
    connected,  \* State.connected
    outage,     \* time since State.since, saturating at Recreate
    rx,         \* the message channel, capacity 1
    stopSig,    \* the stop oneshot has been sent
    queued,     \* accepted messages the worker has not seen written
    pending,    \* its QoS 1/2 exchanges: "vacant", "nobody" (None) or a waiter
    delay       \* its reconnection delay

callerVars == <<mpc, goal, call, answer, used, succeeded>>
workVars == <<queued, pending, delay>>
sharedVars == <<wpc, connected, outage, rx, stopSig>>
vars == <<libVars, callerVars, workVars, sharedVars>>

Entry == [reliable : BOOLEAN, waiter : Messages \cup {"nobody"}]

CallerTypeOK ==
    /\ mpc \in {"spawn", "idle", "farewell", "send", "wait", "halt", "join", "stopped"}
    /\ goal \in {"start", "serve", "rebuild", "stop"}
    /\ call \in Messages \cup {"none"}
    /\ answer \in {"none", "ok", "failed"}
    /\ used \in SUBSET Metrics
    /\ succeeded \in SUBSET Messages

SharedTypeOK ==
    /\ wpc \in {"off", "select", "backoff", "drain", "done"}
    /\ connected \in BOOLEAN
    /\ outage \in 0..Recreate
    /\ rx \in Seq(Messages)
    /\ stopSig \in BOOLEAN

WorkTypeOK ==
    /\ queued \in Seq(Entry)
    /\ pending \in [PktId -> Messages \cup {"vacant", "nobody"}]
    /\ delay \in MinDelay..MaxDelay

TypeOK == LibTypeOK /\ CallerTypeOK /\ SharedTypeOK /\ WorkTypeOK

Vacant == [id \in PktId |-> "vacant"]

Init ==
    /\ LibInit
    /\ mpc = "spawn" /\ goal = "start" /\ call = "none" /\ answer = "none"
    /\ used = {} /\ succeeded = {}
    /\ wpc = "off" /\ connected = FALSE /\ outage = 0
    /\ rx = <<>> /\ stopSig = FALSE
    /\ queued = <<>> /\ pending = Vacant /\ delay = MinDelay

(***************************************************************************)
(* The calling thread.                                                     *)
(***************************************************************************)
\* The rest of start(), once teardown() is done.
SpawnOk ==
    /\ mpc = "spawn"
    /\ mpc' = "idle" /\ goal' = "serve"
    /\ wpc' = "select" /\ connected' = FALSE /\ outage' = 0
    /\ rx' = <<>> /\ stopSig' = FALSE
    /\ FreshClient
    /\ queued' = <<>> /\ pending' = Vacant /\ delay' = MinDelay
    /\ UNCHANGED <<call, answer, used, succeeded, status, done>>

\* Runtime or thread creation fails: Publisher.worker stays None.
SpawnFail ==
    /\ mpc = "spawn" /\ SpawnMayFail
    /\ mpc' = IF goal = "start" THEN "stopped" ELSE "idle"
    /\ goal' = IF goal = "start" THEN "start" ELSE "serve"
    /\ connected' = FALSE /\ outage' = 0
    /\ UNCHANGED <<libVars, workVars, call, answer, used, succeeded, wpc, rx, stopSig>>

\* After a publish call: back to the reporter, or on with stop().
AfterPublish == IF goal = "stop" THEN "halt" ELSE "idle"

\* The metrics the reporter publishes, or the goodbye of stop().
MayPublish(m) ==
    \/ mpc = "idle" /\ m \in Metrics \ used
    \/ mpc = "farewell" /\ m = "offline"

\* publish: no worker or no connection, the message is dropped.
PublishDrop(m) ==
    /\ MayPublish(m)
    /\ wpc = "off" \/ ~connected
    /\ used' = used \cup ({m} \cap Metrics)
    /\ mpc' = AfterPublish
    /\ UNCHANGED <<libVars, workVars, sharedVars, goal, call, answer, succeeded>>

PublishBegin(m) ==
    /\ MayPublish(m)
    /\ wpc # "off" /\ connected
    /\ used' = used \cup ({m} \cap Metrics)
    /\ mpc' = "send" /\ call' = m /\ answer' = "none"
    /\ UNCHANGED <<libVars, workVars, sharedVars, goal, succeeded>>

\* try_send on the channel of capacity 1, then recv_timeout on the reply.
PublishSend ==
    /\ mpc = "send" /\ rx = <<>> /\ wpc # "done"
    /\ rx' = <<call>>
    /\ mpc' = "wait"
    /\ UNCHANGED <<libVars, workVars, wpc, connected, outage, stopSig,
                   goal, call, answer, used, succeeded>>

PublishRefused ==
    /\ mpc = "send" /\ (rx # <<>> \/ wpc = "done")
    /\ mpc' = AfterPublish /\ call' = "none"
    /\ UNCHANGED <<libVars, workVars, sharedVars, goal, answer, used, succeeded>>

\* The value publish returns; mutants: any reply is success, unwrap_or(true),
\* and recv() without a timeout.
AnyReply(value) == TRUE
Success(value) == value = "ok"
UnwrapTrue == "ok"
UnwrapOr == "failed"
WaitsForever == answer = "none" /\ wpc \in {"off", "done"}
TimedOut == answer = "none"

Return(value) ==
    /\ mpc' = AfterPublish /\ call' = "none" /\ answer' = "none"
    /\ succeeded' = IF Success(value) THEN succeeded \cup {call} ELSE succeeded
    /\ UNCHANGED <<libVars, workVars, sharedVars, goal, used>>

PublishReturn == mpc = "wait" /\ answer # "none" /\ Return(answer)
PublishTimeout == mpc = "wait" /\ TimedOut /\ Return(UnwrapOr)

\* maintain: a clean session that has been down long enough is rebuilt.
Maintain ==
    /\ mpc = "idle"
    /\ CleanSession /\ Recreate # 0 /\ ~connected /\ wpc # "off"
    /\ outage >= Recreate
    /\ mpc' = "halt" /\ goal' = "rebuild"
    /\ UNCHANGED <<libVars, workVars, sharedVars, call, answer, used, succeeded>>

\* stop: say goodbye when connected, then teardown().
Stop ==
    /\ mpc = "idle"
    /\ goal' = "stop"
    /\ mpc' = IF wpc # "off" /\ connected THEN "farewell" ELSE "halt"
    /\ UNCHANGED <<libVars, workVars, sharedVars, call, answer, used, succeeded>>

\* Mutant of AfterTeardown: maintain tears down but does not start again.
ForgetsStart == IF goal = "stop" THEN "stopped" ELSE "idle"

AfterTeardown == IF goal = "stop" THEN "stopped" ELSE "spawn"

\* teardown: without a worker there is nothing to join.
HaltNothing ==
    /\ mpc = "halt" /\ wpc = "off"
    /\ connected' = FALSE /\ mpc' = AfterTeardown
    /\ UNCHANGED <<libVars, workVars, goal, call, answer, used, succeeded,
                   wpc, outage, rx, stopSig>>

HaltSignal ==
    /\ mpc = "halt" /\ wpc # "off"
    /\ stopSig' = TRUE /\ mpc' = "join"
    /\ UNCHANGED <<libVars, workVars, goal, call, answer, used, succeeded,
                   wpc, connected, outage, rx>>

Join ==
    /\ mpc = "join" /\ wpc = "done"
    /\ wpc' = "off" /\ connected' = FALSE /\ mpc' = AfterTeardown
    /\ UNCHANGED <<libVars, workVars, goal, call, answer, used, succeeded,
                   outage, rx, stopSig>>

(***************************************************************************)
(* The worker thread.                                                      *)
(***************************************************************************)
\* Sending on the reply channels of a set of waiters.
Reply(waiters, value) ==
    answer' = IF mpc = "wait" /\ call \in waiters /\ answer = "none"
              THEN value ELSE answer

Waiters == {queued[i].waiter : i \in DOMAIN queued} \cup {pending[id] : id \in PktId}

\* Mutant of Outstanding: exchanges already written are not counted.
CountsQueuedOnly == Cardinality({i \in DOMAIN queued : queued[i].reliable})

Outstanding ==
    Cardinality({i \in DOMAIN queued : queued[i].reliable})
        + Cardinality({id \in PktId : pending[id] # "vacant"})

\* Mutant of OverLimit: > for >=.
OneOver(m) == Reliable(m) /\ Capacity # 0 /\ Outstanding > Capacity

OverLimit(m) == Reliable(m) /\ Capacity # 0 /\ Outstanding >= Capacity

\* rx.recv: a refused message is answered false.
Admits(m) == connected /\ ~OverLimit(m) /\ Accepts(chan)

WAccept ==
    /\ wpc = "select" /\ rx # <<>> /\ Admits(Head(rx))
    /\ rx' = <<>>
    /\ chan' = Append(chan, Head(rx))
    /\ queued' = Append(queued, [reliable |-> Reliable(Head(rx)), waiter |-> Head(rx)])
    /\ UNCHANGED <<net, backlog, flight, sent, acks, status, done, pending, delay,
                   callerVars, wpc, connected, outage, stopSig>>

WRefuse ==
    /\ wpc = "select" /\ rx # <<>> /\ ~Admits(Head(rx))
    /\ rx' = <<>>
    /\ Reply({Head(rx)}, "failed")
    /\ UNCHANGED <<libVars, workVars, mpc, goal, call, used, succeeded,
                   wpc, connected, outage, stopSig>>

\* ConnAck: rebuild the bookkeeping from EventLoop.pending, announce "online".
\* The replies that clear() drops read as false.
Resumed(requests) ==
    [i \in DOMAIN requests |-> [reliable |-> Reliable(requests[i]), waiter |-> "nobody"]]

\* try_publish of "online" and its entry in queued; mutants: no announcement,
\* and one that is not accounted for.
SendsNothing(ch) == ch
SendOnline(ch) == IF Accepts(ch) THEN Append(ch, "online") ELSE ch
Uncounted == <<>>
OnlineEntry ==
    IF Accepts(chan) THEN <<[reliable |-> TRUE, waiter |-> "nobody"]>> ELSE <<>>

WConnAck(session_present) ==
    /\ wpc = "select"
    /\ ConnAck(session_present)
    /\ pending' = [id \in PktId |-> IF flight'[id].stage = "free" THEN "vacant" ELSE "nobody"]
    /\ chan' = SendOnline(chan)
    /\ queued' = Resumed(backlog') \o OnlineEntry
    /\ Reply(Waiters, "failed")
    /\ connected' = TRUE /\ delay' = MinDelay
    /\ UNCHANGED <<sent, acks, status, done, mpc, goal, call, used, succeeded,
                   wpc, outage, rx, stopSig>>

\* queued.pop_front()
PopWaiter == IF queued = <<>> THEN "nobody" ELSE Head(queued).waiter
Popped == IF queued = <<>> THEN <<>> ELSE Tail(queued)

\* Outgoing::Publish(0): a QoS 0 message was written; its caller is answered.
WSentFleeting ==
    /\ wpc = "select" /\ sent.kind = "publish" /\ sent.id = 0
    /\ sent' = NoEvent
    /\ queued' = Popped
    /\ Reply({PopWaiter}, "ok")
    /\ UNCHANGED <<net, chan, backlog, flight, acks, status, done, pending, delay,
                   mpc, goal, call, used, succeeded, sharedVars>>

\* Entry::Vacant; mutant: a retransmission is taken for a first write.
AnyWrite(id) == TRUE
FirstWrite(id) == pending[id] = "vacant"

\* Outgoing::Publish(id): the first write of an exchange moves its waiter to
\* pending; a retransmission finds the entry occupied.
WSentReliable ==
    /\ wpc = "select" /\ sent.kind = "publish" /\ sent.id # 0
    /\ sent' = NoEvent
    /\ IF FirstWrite(sent.id)
       THEN queued' = Popped /\ pending' = [pending EXCEPT ![sent.id] = PopWaiter]
       ELSE UNCHANGED <<queued, pending>>
    /\ UNCHANGED <<net, chan, backlog, flight, acks, status, done, delay,
                   callerVars, sharedVars>>

\* pending.remove(id); mutant: the entry is read but stays.
Peek(id) == pending
Remove(id) == [pending EXCEPT ![id] = "vacant"]

\* PubAck / PubComp: finish().
WFinish(a) ==
    /\ wpc = "select"
    /\ acks' = acks \ {a}
    /\ pending' = Remove(a.id)
    /\ Reply({pending[a.id]}, "ok")
    /\ UNCHANGED <<net, chan, backlog, flight, sent, status, done, queued, delay,
                   mpc, goal, call, used, succeeded, sharedVars>>

\* Both queues are drained; mutant: only queued is.
DrainQueued == queued' = <<>> /\ pending' = pending
DrainBoth == queued' = <<>> /\ pending' = Vacant

\* Mutant of Reconnecting: the session is thrown away even when persistent.
AlwaysFresh == FreshClient
Reconnecting == IF CleanSession THEN FreshClient ELSE KeepSession

\* Err(_): fail every waiter, keep the session or start a new client, back off.
FailConnection ==
    /\ connected' = FALSE
    /\ outage' = IF connected THEN 0 ELSE outage
    /\ Reply(Waiters, "failed")
    /\ DrainBoth
    /\ Reconnecting
    /\ LastWill
    /\ wpc' = "backoff"
    /\ UNCHANGED <<done, delay, mpc, goal, call, used, succeeded, rx, stopSig>>

WConnFail == wpc = "select" /\ net = "down" /\ FailConnection
WLost == wpc = "select" /\ net = "up" /\ FailConnection

\* saturating_mul(2).min(max_delay); mutant: without the ceiling.
Uncapped == 2 * delay
Doubled == IF 2 * delay <= MaxDelay THEN 2 * delay ELSE MaxDelay

WWake ==
    /\ wpc = "backoff"
    /\ wpc' = "select" /\ delay' = Doubled
    /\ UNCHANGED <<libVars, callerVars, queued, pending, connected, outage, rx, stopSig>>

\* The thread function returns: client, queues and reply channels are dropped.
Exit ==
    /\ wpc' = "done" /\ connected' = FALSE
    /\ FreshClient /\ LastWill
    /\ queued' = <<>> /\ pending' = Vacant /\ rx' = <<>>
    /\ Reply(Waiters \cup {rx[i] : i \in DOMAIN rx}, "failed")
    /\ UNCHANGED <<done, delay, mpc, goal, call, used, succeeded, outage, stopSig>>

WBackoffStop == wpc = "backoff" /\ stopSig /\ Exit
WStopOffline == wpc = "select" /\ stopSig /\ ~connected /\ Exit

\* try_disconnect, then poll for at most one second.
WStopOnline ==
    /\ wpc = "select" /\ stopSig /\ connected
    /\ wpc' = "drain"
    /\ chan' = IF Accepts(chan) THEN Append(chan, "disconnect") ELSE chan
    /\ UNCHANGED <<net, backlog, flight, sent, acks, status, done, workVars,
                   callerVars, connected, outage, rx, stopSig>>

WDrainEvent ==
    /\ wpc = "drain" /\ sent.kind # "disconnect"
    /\ sent # NoEvent \/ acks # {}
    /\ sent' = NoEvent
    /\ acks' = {}
    /\ UNCHANGED <<net, chan, backlog, flight, status, done, workVars, callerVars,
                   sharedVars>>

\* DISCONNECT written, connection lost, or the second is over.
\* Mutant of WDrainEnd: no one-second limit.
DrainsForever == wpc = "drain" /\ (sent.kind = "disconnect" \/ net = "down") /\ Exit

WDrainEnd == wpc = "drain" /\ Exit

Polling == wpc \in {"select", "drain"}
WPoll == Polling /\ LibStep /\ UNCHANGED <<callerVars, workVars, sharedVars>>

\* Time passes; only the age of an outage matters, up to Recreate.
Tick ==
    /\ ~connected /\ outage < Recreate
    /\ outage' = outage + 1
    /\ UNCHANGED <<libVars, callerVars, workVars, wpc, connected, rx, stopSig>>

\* The process has left run(); nothing happens any more.
Finished == mpc = "stopped" /\ UNCHANGED vars

CallerStep ==
    \/ SpawnOk \/ SpawnFail
    \/ \E m \in Messages : PublishDrop(m) \/ PublishBegin(m)
    \/ PublishSend \/ PublishRefused \/ PublishReturn \/ PublishTimeout
    \/ Maintain \/ Stop \/ HaltNothing \/ HaltSignal \/ Join

WorkerStep ==
    \/ WAccept \/ WRefuse
    \/ \E session_present \in BOOLEAN : WConnAck(session_present)
    \/ WSentFleeting \/ WSentReliable
    \/ \E a \in acks : WFinish(a)
    \/ WConnFail \/ WLost \/ WWake
    \/ WBackoffStop \/ WStopOffline \/ WStopOnline \/ WDrainEvent \/ WDrainEnd
    \/ WPoll

Next == CallerStep \/ WorkerStep \/ Tick \/ Finished

Spec == Init /\ [][Next]_vars

(***************************************************************************)
(* Fairness.  Both threads keep running: every wait of either is bounded   *)
(* (recv_timeout, sleep, the one-second drain, keep-alive on a dead peer), *)
(* and the reporting loop calls maintain on every tick.  Nothing is        *)
(* assumed of the network except, for recovery, that a broker that is      *)
(* dialled again and again answers in the end.                             *)
(***************************************************************************)
CallerFairness ==
    /\ WF_vars(SpawnOk)
    /\ WF_vars(PublishSend \/ PublishRefused)
    /\ WF_vars(PublishReturn \/ PublishTimeout)
    /\ \A m \in Messages : WF_vars(mpc = "farewell" /\ (PublishDrop(m) \/ PublishBegin(m)))
    /\ WF_vars(Maintain)
    /\ WF_vars(HaltNothing \/ HaltSignal)
    /\ WF_vars(Join)

WorkerFairness ==
    /\ WF_vars(WWake)
    /\ WF_vars(WBackoffStop \/ WStopOffline \/ WStopOnline)
    /\ WF_vars(WDrainEnd)
    /\ WF_vars(Tick)

BrokerAnswers == SF_vars(WConnAck(FALSE))

FairSpec == Spec /\ CallerFairness /\ WorkerFairness
LiveSpec == FairSpec /\ BrokerAnswers

(***************************************************************************)
(* Safety.                                                                 *)
(***************************************************************************)
\* The reply of a publish call is never a false positive: true means that the
\* message was written (QoS 0) or its acknowledgement was read (QoS 1/2), even
\* though the worker answers by position in `queued` and by packet id, across
\* reconnections, retransmissions and resumed sessions.
TruthfulSuccess ==
    /\ succeeded \subseteq done
    /\ (mpc = "wait" /\ answer = "ok") => call \in done

\* The next Outgoing::Publish event that concerns the head of `queued`.
Announced ==
    IF sent.kind = "publish" /\ (sent.id = 0 \/ pending[sent.id] = "vacant")
    THEN <<sent.m>> ELSE <<>>

\* A queue of entries stands, one by one, for a sequence of requests.
Matches(q, u) ==
    /\ Len(q) = Len(u)
    /\ \A i \in DOMAIN q :
           /\ q[i].reliable = Reliable(u[i])
           /\ q[i].waiter \in {"nobody", u[i]}

\* While the connection is up, `queued` lists, in order, exactly the messages
\* the library has not reported as written: positional matching is correct.
Unwritten == Announced \o backlog \o chan
Aligned == (wpc = "select" /\ net = "up") => Matches(queued, Unwritten)

\* An entry of `pending` is occupied exactly while the library's exchange is
\* unfinished or its acknowledgement is still buffered, and it holds the
\* waiter of that very message: packet ids never cross two exchanges.
Acked(id) == \E a \in acks : a.id = id
TrackedAt(id) ==
    /\ \A a, b \in acks : (a.id = id /\ b.id = id) => a = b
    /\ Acked(id) => ~Busy(id) /\ pending[id] # "vacant"
    /\ pending[id] # "vacant" => Busy(id) \/ Acked(id)
    /\ (Busy(id) /\ pending[id] = "vacant") => sent.kind = "publish" /\ sent.id = id
    /\ pending[id] \notin {"vacant", "nobody"} =>
           \/ flight[id].m = pending[id]
           \/ \E a \in acks : a.id = id /\ a.m = pending[id]
Tracked == (wpc = "select" /\ net = "up") => \A id \in PktId : TrackedAt(id)

\* When the connection is gone the worker holds no waiter and no accounting of
\* the old connection.
NothingHeldOffline ==
    (wpc = "backoff" \/ (wpc = "select" /\ net = "down")) =>
        ~connected /\ queued = <<>> /\ pending = Vacant

\* mqtt.max_queued_messages: the reliable messages the library holds.
Count(q) == Cardinality({i \in DOMAIN q : q[i] \in Messages /\ Reliable(q[i])})
Held == Count(backlog) + Count(chan) + Cardinality(InFlight)
OutstandingBounded == Capacity # 0 => Held <= Capacity

\* The same, of the messages publish accepted: the "online" announcements, which
\* bypass the limit, are not counted.
CountMetrics(q) == Cardinality({i \in DOMAIN q : q[i] \in Messages \ {"online"} /\ Reliable(q[i])})
MetricsBounded ==
    Capacity # 0 =>
        CountMetrics(backlog) + CountMetrics(chan)
            + Cardinality({id \in InFlight : flight[id].m # "online"}) <= Capacity

\* While the daemon serves and believes it is connected, the broker shows it
\* online, or the announcement is on its way to it.
OnlineAnnounced ==
    (connected /\ goal # "stop") =>
        \/ status = "online"
        \/ \E i \in DOMAIN chan : chan[i] = "online"
        \/ \E i \in DOMAIN backlog : backlog[i] = "online"
        \/ \E id \in InFlight : flight[id].m = "online" /\ Replaying(id)

\* README: "The retained `offline` status stays on the broker" once the daemon
\* has stopped.
OfflineAfterStop == mpc = "stopped" => status = "offline"

\* A persistent session keeps every unfinished QoS 1/2 exchange until its
\* acknowledgement, the broker dropping the whole session, or the end of the client:
\* neither a lost connection nor a resumed one takes a single exchange.
ExchangeKept ==
    [][ \A id \in PktId :
            (Busy(id) /\ ~CleanSession) =>
                \/ flight'[id].m = flight[id].m
                \/ flight[id].m \in done'
                \/ net = "down" /\ net' = "up" /\ InFlight' = {} /\ backlog' = <<>>
                \/ wpc' = "done" ]_vars

\* docs/rust-mqtt.md: "On connection loss, outstanding callers fail promptly."
PromptFailure == (wpc = "backoff" /\ mpc = "wait") => answer # "none"

(***************************************************************************)
(* The publisher implements the contract of its caller: what is live is    *)
(* what the channel, the library's queues and its exchanges hold.          *)
(***************************************************************************)
Elements(q) == {q[i] : i \in DOMAIN q}
LiveMetrics ==
    Metrics \cap (Elements(rx) \cup Elements(chan) \cup Elements(backlog)
                    \cup {flight[id].m : id \in PktId}
                    \cup (IF mpc = "send" THEN {call} ELSE {}))

Contract == INSTANCE Delivery WITH
    NoCall <- "none",
    calling <- IF call \in Metrics THEN call ELSE "none",
    offered <- used,
    live <- LiveMetrics,
    delivered <- done \cap Metrics,
    succeeded <- succeeded \cap Metrics

\* Every step of the handle, the worker and the library is a step of the
\* contract or none at all.
ImplementsDelivery == Contract!Spec

(***************************************************************************)
(* Liveness.                                                               *)
(***************************************************************************)
\* teardown's join always returns: a stop or a rebuild cannot hang on a worker
\* that is connecting, backing off, or draining a blocked window.
TeardownEnds == (mpc \in {"halt", "join"}) ~> (mpc \in {"stopped", "spawn", "idle"})

\* publish returns, whatever the worker and the network do.
PublishEnds == (call # "none") ~> (call = "none")

\* A lost connection comes back, by reconnection or by maintain, unless the
\* daemon is stopped first.
Recovers == (mpc = "idle" /\ ~connected) ~> (connected \/ goal = "stop")
=============================================================================
