-------------------------- MODULE MqttClientProofs --------------------------
(***************************************************************************)
(* Proofs about the publisher, for any sets of metrics and packet ids, any *)
(* window, limits and delays.                                              *)
(***************************************************************************)
EXTENDS MqttClient, SequenceTheorems, TLAPS

\* The constant records and sequences the actions assign are well typed.
LEMMA Constants ==
    /\ "online" \in Messages /\ "offline" \in Messages
    /\ Messages \subseteq Requests /\ Metrics \subseteq Messages
    /\ Free \in Slot /\ NoEvent \in Outgoing
    /\ [id \in PktId |-> Free] \in [PktId -> Slot]
    /\ Vacant \in [PktId -> Messages \cup {"vacant", "nobody"}]
    /\ MinDelay \in MinDelay..MaxDelay /\ 0 \in 0..Recreate
BY LibraryAssumption, ClientAssumption, SMT
DEF LibraryAssumption, ClientAssumption, Messages, Requests, Status, Free, Slot,
    NoEvent, Outgoing, Vacant

LEMMA TypeInit == Init => TypeOK
<1> SUFFICES ASSUME Init PROVE TypeOK
  OBVIOUS
<1>1. connected \in BOOLEAN /\ stopSig \in BOOLEAN
  BY DEF Init
<1>2. LibTypeOK
  BY Constants, SMT DEF Init, LibInit, LibTypeOK, Status
<1> QED
  BY <1>1, <1>2, Constants, SMT DEF Init, TypeOK, CallerTypeOK, SharedTypeOK, WorkTypeOK

LEMMA SameField ==
    ASSUME NEW b
    PROVE  [[m |-> "none", stage |-> "free", onwire |-> b] EXCEPT !.onwire = b]
               = [m |-> "none", stage |-> "free", onwire |-> b]
BY SMT

LEMMA SlotUpdates ==
    ASSUME NEW s \in Slot
    PROVE  /\ [s EXCEPT !.onwire = FALSE] \in Slot
           /\ s.stage # "free" => /\ s \in Exchange /\ s.m \in Messages
                                  /\ [s EXCEPT !.onwire = TRUE] \in Slot
                                  /\ [s EXCEPT !.stage = "rel"] \in Slot
<1>1. CASE s = Free
  <2>1. [s EXCEPT !.onwire = FALSE] = Free /\ s.stage = "free"
    BY <1>1, SameField DEF Free
  <2> QED
    BY <2>1 DEF Slot
<1>2. CASE s \in Exchange
  <2>1. s.m \in Messages /\ [s EXCEPT !.stage = "rel"] \in Exchange
    BY <1>2, SMT DEF Exchange
  <2>2. [s EXCEPT !.onwire = FALSE] \in Exchange
    BY <1>2, Zenon DEF Exchange
  <2>3. [s EXCEPT !.onwire = TRUE] \in Exchange
    BY <1>2, Zenon DEF Exchange
  <2> QED
    BY <1>2, <2>1, <2>2, <2>3 DEF Slot
<1> QED
  BY <1>1, <1>2 DEF Slot

\* Typing of what the worker's calls do to the library.
LEMMA FreshClientTyped ==
    ASSUME FreshClient, status' \in Status, done' \in SUBSET Messages
    PROVE  LibTypeOK'
<1>1. /\ sent' \in Outgoing /\ flight' \in [PktId -> Slot]
  BY Constants DEF FreshClient
<1> QED
  BY <1>1, SMT DEF FreshClient, LibTypeOK

LEMMA KeepSessionTyped ==
    ASSUME LibTypeOK, KeepSession, status' \in Status, done' = done
    PROVE  LibTypeOK'
<1>1. backlog' \in Seq(Requests)
  BY ConcatProperties, SMT DEF KeepSession, LibTypeOK
<1>2. flight' \in [PktId -> Slot]
  <2>1. \A id \in PktId : [flight[id] EXCEPT !.onwire = FALSE] \in Slot
    BY SlotUpdates DEF LibTypeOK
  <2> QED
    BY <2>1 DEF KeepSession
<1>3. sent' \in Outgoing /\ acks' \in SUBSET Ack
  BY Constants DEF KeepSession, ClearEvents
<1> QED
  BY <1>1, <1>2, <1>3, SMT DEF KeepSession, LibTypeOK

LEMMA WriteTyped ==
    ASSUME LibTypeOK, NEW m \in Requests, Write(m)
    PROVE  /\ flight' \in [PktId -> Slot] /\ sent' \in Outgoing
           /\ status' \in Status /\ done' \in SUBSET Messages
<1>1. CASE m = "disconnect" /\ WriteDisconnect
  BY <1>1, SMT DEF WriteDisconnect, LibTypeOK, Outgoing, Requests
<1>2. CASE WriteFleeting(m)
  BY <1>2, Constants, SMT DEF WriteFleeting, LibTypeOK, Outgoing, Requests, Metrics
<1>3. CASE WriteReliable(m)
  <2>1. PICK id \in PktId \ InFlight :
            /\ flight' = [flight EXCEPT ![id] = [m |-> m, stage |-> "pub", onwire |-> TRUE]]
            /\ sent' = [kind |-> "publish", id |-> id, m |-> m]
    BY <1>3 DEF WriteReliable
  <2>2. m \in Messages /\ status' \in Status /\ done' \in SUBSET Messages
    BY <1>3, SMT DEF WriteReliable, LibTypeOK, Announce
  <2>3. [m |-> m, stage |-> "pub", onwire |-> TRUE] \in Slot
    BY <2>2, SMT DEF Slot, Exchange
  <2>4. sent' \in Outgoing
    BY <2>1, <2>2, Constants, SMT DEF Outgoing
  <2>5. flight' \in [PktId -> Slot]
    BY <2>1, <2>3, SMT DEF LibTypeOK
  <2> QED
    BY <2>2, <2>4, <2>5
<1> QED
  BY <1>1, <1>2, <1>3 DEF Write

LEMMA LibStepTyped ==
    ASSUME LibTypeOK, LibStep
    PROVE  LibTypeOK'
<1>1. CASE SendBacklog
  <2>1. Head(backlog) \in Requests /\ backlog' \in Seq(Requests)
    BY <1>1, HeadTailProperties DEF SendBacklog, LibTypeOK
  <2> QED
    BY <1>1, <2>1, WriteTyped DEF SendBacklog, LibTypeOK
<1>2. CASE SendNext
  <2>1. Head(chan) \in Requests /\ chan' \in Seq(Requests)
    BY <1>2, HeadTailProperties DEF SendNext, LibTypeOK
  <2> QED
    BY <1>2, <2>1, WriteTyped DEF SendNext, LibTypeOK
<1>3. ASSUME NEW id \in PktId, Resend(id) \/ PubAck(id) \/ PubRec(id) \/ PubComp(id)
      PROVE  LibTypeOK'
  <2>1. flight[id] \in Slot
    BY DEF LibTypeOK
  <2>2. CASE Resend(id)
    <3>1. flight' \in [PktId -> Slot]
      <4>1. [flight[id] EXCEPT !.onwire = TRUE] \in Slot
        BY <2>1, <2>2, SlotUpdates DEF Resend, Replaying, Busy
      <4>2. flight' = [flight EXCEPT ![id] = [flight[id] EXCEPT !.onwire = TRUE]]
        BY <2>2, SMT DEF Resend, LibTypeOK
      <4> QED
        BY <4>1, <4>2, SMT DEF LibTypeOK
    <3>2. flight[id].m \in Messages
      BY <2>1, <2>2, SlotUpdates DEF Resend, Replaying, Busy
    <3>3. sent' \in Outgoing
      BY <2>2, <3>2, Constants, SMT DEF Resend, Outgoing
    <3>4. status' \in Status
      BY <2>2, SMT DEF Resend, Announce, LibTypeOK
    <3> QED
      BY <2>2, <3>1, <3>3, <3>4 DEF Resend, LibTypeOK
  <2>3. CASE PubRec(id)
    <3>1. flight' \in [PktId -> Slot]
      <4>1. [flight[id] EXCEPT !.stage = "rel"] \in Slot
        <5>1. flight[id].stage # "free"
          BY <2>3 DEF PubRec, Readable
        <5> QED
          BY <2>1, <5>1, SlotUpdates
      <4>2. flight' = [flight EXCEPT ![id] = [flight[id] EXCEPT !.stage = "rel"]]
        BY <2>3, SMT DEF PubRec, LibTypeOK
      <4> QED
        BY <4>1, <4>2, SMT DEF LibTypeOK
    <3> QED
      BY <2>3, <3>1 DEF PubRec, LibTypeOK
  <2>4. CASE PubAck(id) \/ PubComp(id)
    <3>1. Finish(id) /\ flight[id].stage # "free"
      BY <2>4 DEF PubAck, PubComp, Readable
    <3>2. flight[id].m \in Messages
      BY <2>1, <3>1, SlotUpdates
    <3>3. flight' \in [PktId -> Slot]
      BY <3>1, Constants, SMT DEF Finish, LibTypeOK
    <3>4. acks' \in SUBSET Ack /\ done' \in SUBSET Messages
      BY <3>1, <3>2, SMT DEF Finish, LibTypeOK, Ack
    <3> QED
      BY <3>1, <3>3, <3>4 DEF Finish, LibTypeOK
  <2> QED
    BY <1>3, <2>2, <2>3, <2>4
<1> QED
  BY <1>1, <1>2, <1>3 DEF LibStep

\* A call in progress is about a message.
CallMade == mpc \in {"send", "wait"} => call \in Messages

Typed == TypeOK /\ CallMade

\* The steps of the calling thread.
LEMMA CallerTyped ==
    ASSUME Typed, CallerStep
    PROVE  Typed'
<1> USE DEF Typed, TypeOK
<1>1. CASE SpawnOk
  <2>1. LibTypeOK'
    BY <1>1, FreshClientTyped DEF SpawnOk, LibTypeOK
  <2>2. CallerTypeOK' /\ CallMade'
    BY <1>1, SMT DEF SpawnOk, CallerTypeOK, CallMade
  <2>3. connected' \in BOOLEAN /\ stopSig' \in BOOLEAN
    BY <1>1 DEF SpawnOk
  <2>4. SharedTypeOK' /\ WorkTypeOK'
    BY <1>1, <2>3, Constants, SMT DEF SpawnOk, SharedTypeOK, WorkTypeOK
  <2> QED
    BY <2>1, <2>2, <2>4
<1>2. CASE SpawnFail
  <2>1. LibTypeOK' /\ WorkTypeOK'
    BY <1>2 DEF SpawnFail, libVars, workVars, LibTypeOK, WorkTypeOK
  <2>2. CallerTypeOK' /\ CallMade'
    BY <1>2, SMT DEF SpawnFail, CallerTypeOK, CallMade
  <2>3. connected' \in BOOLEAN
    BY <1>2 DEF SpawnFail
  <2>4. SharedTypeOK'
    BY <1>2, <2>3, Constants, SMT DEF SpawnFail, SharedTypeOK
  <2> QED
    BY <2>1, <2>2, <2>4
<1>3. ASSUME NEW m \in Messages, PublishDrop(m) PROVE Typed'
  <2>1. CallerTypeOK' /\ CallMade'
    BY <1>3, SMT DEF PublishDrop, AfterPublish, CallerTypeOK, CallMade
  <2> QED
    BY <1>3, <2>1 DEF PublishDrop, libVars, workVars, sharedVars,
       LibTypeOK, WorkTypeOK, SharedTypeOK
<1>4. ASSUME NEW m \in Messages, PublishBegin(m) PROVE Typed'
  <2>1. CallerTypeOK' /\ CallMade'
    BY <1>4, SMT DEF PublishBegin, CallerTypeOK, CallMade
  <2> QED
    BY <1>4, <2>1 DEF PublishBegin, libVars, workVars, sharedVars,
       LibTypeOK, WorkTypeOK, SharedTypeOK
<1>5. CASE PublishSend
  <2>1. call \in Messages
    BY <1>5 DEF PublishSend, CallMade
  <2>2. CallerTypeOK' /\ CallMade'
    BY <1>5, <2>1, SMT DEF PublishSend, CallerTypeOK, CallMade
  <2>3. SharedTypeOK'
    BY <1>5, <2>1, SMT DEF PublishSend, SharedTypeOK
  <2> QED
    BY <1>5, <2>2, <2>3 DEF PublishSend, libVars, workVars, LibTypeOK, WorkTypeOK
<1>6. CASE PublishRefused
  <2>1. CallerTypeOK' /\ CallMade'
    BY <1>6, SMT DEF PublishRefused, AfterPublish, CallerTypeOK, CallMade
  <2> QED
    BY <1>6, <2>1 DEF PublishRefused, libVars, workVars, sharedVars,
       LibTypeOK, WorkTypeOK, SharedTypeOK
<1>7. CASE PublishReturn \/ PublishTimeout
  <2>1. call \in Messages
    BY <1>7 DEF PublishReturn, PublishTimeout, CallMade
  <2>2. PICK value : Return(value)
    BY <1>7 DEF PublishReturn, PublishTimeout
  <2>3. CallerTypeOK' /\ CallMade'
    BY <2>1, <2>2, SMT DEF Return, AfterPublish, CallerTypeOK, CallMade
  <2> QED
    BY <2>2, <2>3 DEF Return, libVars, workVars, sharedVars,
       LibTypeOK, WorkTypeOK, SharedTypeOK
<1>8. CASE Maintain \/ Stop
  <2>1. CallerTypeOK' /\ CallMade'
    BY <1>8, SMT DEF Maintain, Stop, CallerTypeOK, CallMade
  <2> QED
    BY <1>8, <2>1 DEF Maintain, Stop, libVars, workVars, sharedVars,
       LibTypeOK, WorkTypeOK, SharedTypeOK
<1>9. CASE HaltNothing \/ HaltSignal \/ Join
  <2>1. CallerTypeOK' /\ CallMade'
    BY <1>9, SMT DEF HaltNothing, HaltSignal, Join, AfterTeardown, CallerTypeOK, CallMade
  <2>2. SharedTypeOK'
    BY <1>9, Zenon DEF HaltNothing, HaltSignal, Join, SharedTypeOK
  <2> QED
    BY <1>9, <2>1, <2>2 DEF HaltNothing, HaltSignal, Join, libVars, workVars,
       LibTypeOK, WorkTypeOK
<1> QED
  BY <1>1, <1>2, <1>3, <1>4, <1>5, <1>6, <1>7, <1>8, <1>9 DEF CallerStep

\* A reply leaves the caller's variables typed.
LEMMA ReplyTyped ==
    ASSUME CallerTypeOK, CallMade, NEW W, NEW value \in {"ok", "failed"}, Reply(W, value),
           UNCHANGED <<mpc, goal, call, used, succeeded>>
    PROVE  CallerTypeOK' /\ CallMade'
BY SMT DEF Reply, CallerTypeOK, CallMade

LEMMA PoppedTyped ==
    ASSUME WorkTypeOK
    PROVE  Popped \in Seq(Entry) /\ PopWaiter \in Messages \cup {"nobody"}
<1>1. CASE queued = <<>>
  BY <1>1, SMT DEF Popped, PopWaiter, WorkTypeOK
<1>2. CASE queued # <<>>
  <2>1. Head(queued) \in Entry /\ Tail(queued) \in Seq(Entry)
    BY <1>2, HeadTailProperties DEF WorkTypeOK
  <2> QED
    BY <1>2, <2>1, SMT DEF Popped, PopWaiter, Entry
<1> QED
  BY <1>1, <1>2

LEMMA ResumedTyped ==
    ASSUME NEW q \in Seq(Requests)
    PROVE  Resumed(q) \in Seq(Entry)
<1>1. /\ Len(q) \in Nat /\ DOMAIN q = 1..Len(q)
      /\ \A i \in 1..Len(q) : Reliable(q[i]) \in BOOLEAN
  BY LenProperties DEF Reliable
<1>2. \A i \in 1..Len(q) : [reliable |-> Reliable(q[i]), waiter |-> "nobody"] \in Entry
  BY <1>1, Zenon DEF Entry
<1> QED
  BY <1>1, <1>2, SMT DEF Resumed

LEMMA DrainTyped ==
    ASSUME DrainBoth, delay' \in MinDelay..MaxDelay
    PROVE  WorkTypeOK'
BY Constants, SMT DEF DrainBoth, WorkTypeOK

LEMMA FailTyped ==
    ASSUME Typed, FailConnection
    PROVE  Typed'
<1> USE DEF Typed, TypeOK
<1>1. CallerTypeOK' /\ CallMade'
  BY ReplyTyped DEF FailConnection
<1>2. WorkTypeOK'
  BY DrainTyped DEF FailConnection, WorkTypeOK
<1>3. status' \in Status
  BY SMT DEF FailConnection, LastWill, LibTypeOK, Status
<1>4. LibTypeOK'
  BY <1>3, FreshClientTyped, KeepSessionTyped DEF FailConnection, Reconnecting, LibTypeOK
<1>5. connected' \in BOOLEAN
  BY DEF FailConnection
<1>6. SharedTypeOK'
  BY <1>5, Constants, SMT DEF FailConnection, SharedTypeOK
<1> QED
  BY <1>1, <1>2, <1>4, <1>6

LEMMA ExitTyped ==
    ASSUME Typed, Exit
    PROVE  Typed'
<1> USE DEF Typed, TypeOK
<1>1. CallerTypeOK' /\ CallMade'
  BY ReplyTyped DEF Exit
<1>2. WorkTypeOK'
  BY Constants, SMT DEF Exit, WorkTypeOK
<1>3. status' \in Status
  BY SMT DEF Exit, LastWill, LibTypeOK, Status
<1>4. LibTypeOK'
  BY <1>3, FreshClientTyped DEF Exit, LibTypeOK
<1>5. connected' \in BOOLEAN
  BY DEF Exit
<1>6. SharedTypeOK'
  BY <1>5, SMT DEF Exit, SharedTypeOK
<1> QED
  BY <1>1, <1>2, <1>4, <1>6

\* The steps of the worker thread.
LEMMA WorkerTyped ==
    ASSUME Typed, WorkerStep
    PROVE  Typed'
<1> USE DEF Typed, TypeOK
<1>1. CASE WAccept
  <2>1. Head(rx) \in Messages /\ Head(rx) \in Requests
    BY <1>1, HeadTailProperties, Constants DEF WAccept, SharedTypeOK
  <2>2. LibTypeOK'
    BY <1>1, <2>1, AppendProperties DEF WAccept, LibTypeOK
  <2>3. [reliable |-> Reliable(Head(rx)), waiter |-> Head(rx)] \in Entry
    <3>1. Reliable(Head(rx)) \in BOOLEAN
      BY DEF Reliable
    <3> QED
      BY <2>1, <3>1, Zenon DEF Entry
  <2>4. WorkTypeOK'
    BY <1>1, <2>3, AppendProperties DEF WAccept, WorkTypeOK
  <2>5. CallerTypeOK' /\ CallMade'
    BY <1>1 DEF WAccept, callerVars, CallerTypeOK, CallMade
  <2>6. SharedTypeOK'
    BY <1>1, SMT DEF WAccept, SharedTypeOK
  <2> QED
    BY <2>2, <2>4, <2>5, <2>6
<1>2. CASE WRefuse
  <2>1. CallerTypeOK' /\ CallMade'
    BY <1>2, ReplyTyped DEF WRefuse
  <2>2. LibTypeOK' /\ WorkTypeOK'
    BY <1>2 DEF WRefuse, libVars, workVars, LibTypeOK, WorkTypeOK
  <2>3. SharedTypeOK'
    BY <1>2, SMT DEF WRefuse, SharedTypeOK
  <2> QED
    BY <2>1, <2>2, <2>3
<1>3. ASSUME NEW session_present \in BOOLEAN, WConnAck(session_present)
      PROVE  Typed'
  <2>1. backlog' \in Seq(Requests) /\ flight' \in [PktId -> Slot] /\ net' \in {"up", "down"}
    BY <1>3, Constants, SMT DEF WConnAck, ConnAck, LibTypeOK
  <2>2. chan' \in Seq(Requests)
    BY <1>3, Constants, AppendProperties DEF WConnAck, SendOnline, LibTypeOK
  <2>3. LibTypeOK'
    BY <1>3, <2>1, <2>2 DEF WConnAck, LibTypeOK
  <2>4. [reliable |-> TRUE, waiter |-> "nobody"] \in Entry
    BY Zenon DEF Entry
  <2>5. OnlineEntry \in Seq(Entry)
    BY <2>4, SMT DEF OnlineEntry
  <2>6. queued' \in Seq(Entry)
    BY <1>3, <2>1, <2>5, ResumedTyped, ConcatProperties DEF WConnAck
  <2>7. pending' \in [PktId -> Messages \cup {"vacant", "nobody"}]
    BY <1>3, SMT DEF WConnAck
  <2>8. WorkTypeOK'
    BY <1>3, <2>6, <2>7, Constants DEF WConnAck, WorkTypeOK
  <2>9. CallerTypeOK' /\ CallMade'
    BY <1>3, ReplyTyped DEF WConnAck
  <2>10. connected' \in BOOLEAN
    BY <1>3 DEF WConnAck
  <2>11. SharedTypeOK'
    BY <1>3, <2>10 DEF WConnAck, SharedTypeOK
  <2> QED
    BY <2>3, <2>8, <2>9, <2>11
<1>4. CASE WSentFleeting
  <2>1. LibTypeOK'
    BY <1>4, Constants DEF WSentFleeting, LibTypeOK
  <2>2. WorkTypeOK'
    BY <1>4, PoppedTyped DEF WSentFleeting, WorkTypeOK
  <2>3. CallerTypeOK' /\ CallMade'
    BY <1>4, ReplyTyped DEF WSentFleeting
  <2> QED
    BY <1>4, <2>1, <2>2, <2>3 DEF WSentFleeting, sharedVars, SharedTypeOK
<1>5. CASE WSentReliable
  <2>1. LibTypeOK'
    BY <1>5, Constants DEF WSentReliable, LibTypeOK
  <2>2. sent.id \in PktId
    BY <1>5, SMT DEF WSentReliable, LibTypeOK, Outgoing
  <2>3. WorkTypeOK'
    BY <1>5, <2>2, PoppedTyped, SMT DEF WSentReliable, WorkTypeOK
  <2> QED
    BY <1>5, <2>1, <2>3 DEF WSentReliable, callerVars, sharedVars,
       CallerTypeOK, CallMade, SharedTypeOK
<1>6. ASSUME NEW a \in acks, WFinish(a) PROVE Typed'
  <2>1. LibTypeOK'
    BY <1>6 DEF WFinish, LibTypeOK
  <2>2. a.id \in PktId
    BY SMT DEF LibTypeOK, Ack
  <2>3. WorkTypeOK'
    BY <1>6, <2>2, SMT DEF WFinish, Remove, WorkTypeOK
  <2>4. CallerTypeOK' /\ CallMade'
    BY <1>6, ReplyTyped DEF WFinish
  <2> QED
    BY <1>6, <2>1, <2>3, <2>4 DEF WFinish, sharedVars, SharedTypeOK
<1>7. CASE WConnFail \/ WLost
  BY <1>7, FailTyped DEF WConnFail, WLost
<1>8. CASE WWake
  <2>1. delay' \in MinDelay..MaxDelay
    BY <1>8, ClientAssumption, SMT DEF WWake, Doubled, WorkTypeOK, ClientAssumption
  <2>2. SharedTypeOK'
    BY <1>8 DEF WWake, SharedTypeOK
  <2> QED
    BY <1>8, <2>1, <2>2 DEF WWake, libVars, callerVars, LibTypeOK, CallerTypeOK,
       CallMade, WorkTypeOK
<1>9. CASE WBackoffStop \/ WStopOffline \/ WDrainEnd
  BY <1>9, ExitTyped DEF WBackoffStop, WStopOffline, WDrainEnd
<1>10. CASE WStopOnline
  <2>1. "disconnect" \in Requests
    BY DEF Requests
  <2>2. LibTypeOK'
    BY <1>10, <2>1, AppendProperties DEF WStopOnline, LibTypeOK
  <2> QED
    BY <1>10, <2>2 DEF WStopOnline, workVars, callerVars, WorkTypeOK, CallerTypeOK,
       CallMade, SharedTypeOK
<1>11. CASE WDrainEvent
  <2>1. LibTypeOK'
    BY <1>11, Constants DEF WDrainEvent, LibTypeOK
  <2> QED
    BY <1>11, <2>1 DEF WDrainEvent, workVars, callerVars, sharedVars, WorkTypeOK,
       CallerTypeOK, CallMade, SharedTypeOK
<1>12. CASE WPoll
  BY <1>12, LibStepTyped DEF WPoll, callerVars, workVars, sharedVars, CallerTypeOK,
     CallMade, WorkTypeOK, SharedTypeOK
<1> QED
  BY <1>1, <1>2, <1>3, <1>4, <1>5, <1>6, <1>7, <1>8, <1>9, <1>10, <1>11, <1>12
     DEF WorkerStep

LEMMA TypedStep ==
    ASSUME Typed, [Next]_vars
    PROVE  Typed'
<1>1. CASE Tick
  <2>1. outage' \in 0..Recreate
    BY <1>1, ClientAssumption, SMT DEF Tick, Typed, TypeOK, SharedTypeOK, ClientAssumption
  <2> QED
    BY <1>1, <2>1 DEF Tick, libVars, callerVars, workVars, Typed, TypeOK, LibTypeOK,
       CallerTypeOK, CallMade, WorkTypeOK, SharedTypeOK
<1>2. CASE UNCHANGED vars
  BY <1>2 DEF vars, libVars, callerVars, workVars, sharedVars, Typed, TypeOK, LibTypeOK,
     CallerTypeOK, CallMade, WorkTypeOK, SharedTypeOK
<1> QED
  BY <1>1, <1>2, CallerTyped, WorkerTyped DEF Next, Finished

\* Every variable keeps its type: no sequence of calls, events and losses makes
\* the queues, the packet-id tables or the delay anything else.
THEOREM TypeCorrect == Spec => []TypeOK
<1>1. Init => Typed
  BY TypeInit DEF Typed, CallMade, Init
<1>2. Typed /\ [Next]_vars => Typed'
  BY TypedStep
<1>3. Typed => TypeOK
  BY DEF Typed
<1> QED
  BY <1>1, <1>2, <1>3, PTL DEF Spec
=============================================================================
