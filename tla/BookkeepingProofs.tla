-------------------------- MODULE BookkeepingProofs --------------------------
(***************************************************************************)
(* Why the worker of MqttClient never answers the wrong caller: what it    *)
(* keeps in `queued` and `pending` mirrors, at every event, what the       *)
(* library holds.  For any metrics, packet ids, window, limits and delays. *)
(***************************************************************************)
EXTENDS MqttClientProofs

\* Nothing is buffered without a connection, and never both kinds at once.
Quiet ==
    /\ net = "down" => sent = NoEvent /\ acks = {}
    /\ acks # {} => sent = NoEvent

\* The worker's view of a lost connection.
Offline == wpc = "backoff" \/ (wpc = "select" /\ net = "down")
EmptyOffline ==
    Offline => /\ net = "down" /\ ~connected
               /\ chan = <<>> /\ queued = <<>> /\ pending = Vacant

\* DISCONNECT is only ever queued while the worker drains.
OnlyPublishes ==
    /\ backlog \in Seq(Messages)
    /\ wpc # "drain" => chan \in Seq(Messages)

\* What the buffered notifications say about the messages they name.
Evidence ==
    /\ (sent.kind = "publish" /\ sent.id = 0) => sent.m \in done
    /\ (sent.kind = "publish" /\ sent.id # 0) =>
           Busy(sent.id) /\ flight[sent.id].m = sent.m
    /\ \A a \in acks : a.m \in done

\* A call that has not been sent has no reply yet.
FreshReply == mpc = "send" => answer = "none"

\* The bookkeeping mirrors the library.
Mirror == Quiet /\ EmptyOffline /\ OnlyPublishes /\ Evidence /\ Aligned /\ Tracked

Bookkeeping == Typed /\ Mirror /\ FreshReply /\ TruthfulSuccess

(***************************************************************************)
(* Sequences: `queued` against the messages it stands for.                 *)
(***************************************************************************)
Names == Requests \cup {"none"}

LEMMA MatchAppend ==
    ASSUME NEW q \in Seq(Entry), NEW u \in Seq(Names), Matches(q, u),
           NEW m \in Names, NEW e \in Entry,
           e.reliable = Reliable(m), e.waiter \in {"nobody", m}
    PROVE  Matches(Append(q, e), Append(u, m))
<1> DEFINE r == Append(q, e)
           v == Append(u, m)
<1>1. /\ Len(q) \in Nat /\ DOMAIN q = 1..Len(q) /\ Len(q) = Len(u)
      /\ DOMAIN r = 1..Len(r)
  BY LenProperties, AppendProperties DEF Matches
<1>2. /\ Len(r) = Len(q) + 1 /\ r[Len(q) + 1] = e
      /\ \A i \in 1..Len(q) : r[i] = q[i]
  BY AppendProperties
<1>3. /\ Len(v) = Len(u) + 1 /\ v[Len(u) + 1] = m
      /\ \A i \in 1..Len(u) : v[i] = u[i]
  BY AppendProperties
<1> HIDE DEF r, v
<1>4. ASSUME NEW i \in DOMAIN r
      PROVE  r[i].reliable = Reliable(v[i]) /\ r[i].waiter \in {"nobody", v[i]}
  <2>1. i \in 1..Len(q) \/ i = Len(q) + 1
    BY <1>1, <1>2, SMT
  <2>2. CASE i \in 1..Len(q)
    BY <1>1, <1>2, <1>3, <2>2 DEF Matches
  <2>3. CASE i = Len(q) + 1
    BY <1>1, <1>2, <1>3, <2>3
  <2> QED
    BY <2>1, <2>2, <2>3
<1>5. Len(r) = Len(v)
  BY <1>1, <1>2, <1>3
<1>6. Matches(r, v)
  BY <1>4, <1>5 DEF Matches
<1> QED
  BY <1>6 DEF r, v

LEMMA MatchTail ==
    ASSUME NEW q \in Seq(Entry), NEW u \in Seq(Names), Matches(q, u), u # <<>>
    PROVE  /\ q # <<>> /\ Head(q).waiter \in {"nobody", Head(u)}
           /\ Matches(Tail(q), Tail(u))
<1> DEFINE r == Tail(q)
           v == Tail(u)
<1>1. /\ Len(q) \in Nat /\ DOMAIN q = 1..Len(q) /\ Len(q) = Len(u) /\ Len(u) > 0
      /\ q # <<>>
  <2>1. Len(u) \in Nat /\ Len(u) # 0
    BY EmptySeq
  <2> QED
    BY <2>1, LenProperties, EmptySeq, SMT DEF Matches
<1>2. /\ Len(r) = Len(q) - 1 /\ DOMAIN r = 1..Len(r)
      /\ \A i \in 1..Len(r) : r[i] = q[i + 1]
  BY <1>1, HeadTailProperties, LenProperties
<1>3. /\ Len(v) = Len(u) - 1
      /\ \A i \in 1..Len(v) : v[i] = u[i + 1]
  BY <1>1, HeadTailProperties
<1>4. Head(q) = q[1] /\ Head(u) = u[1] /\ 1 \in DOMAIN q
  BY <1>1, SMT
<1> HIDE DEF r, v
<1>5. ASSUME NEW i \in DOMAIN r
      PROVE  r[i].reliable = Reliable(v[i]) /\ r[i].waiter \in {"nobody", v[i]}
  <2>1. i + 1 \in DOMAIN q /\ i \in 1..Len(v) /\ i \in 1..Len(r)
    BY <1>1, <1>2, <1>3, SMT
  <2> QED
    BY <1>2, <1>3, <2>1 DEF Matches
<1>6. Matches(r, v)
  BY <1>1, <1>2, <1>3, <1>5 DEF Matches
<1> QED
  BY <1>1, <1>4, <1>6 DEF r, v, Matches

LEMMA MatchResumed ==
    ASSUME NEW b \in Seq(Messages)
    PROVE  Matches(Resumed(b), b)
<1>1. Len(b) \in Nat /\ DOMAIN b = 1..Len(b)
  BY LenProperties
<1>2. DOMAIN Resumed(b) = 1..Len(b) /\ Resumed(b) \in Seq(Entry)
  <2>1. b \in Seq(Requests)
    BY Constants, SeqMonotonic
  <2> QED
    BY <1>1, <2>1, ResumedTyped DEF Resumed
<1>3. Len(Resumed(b)) = Len(b)
  BY <1>1, <1>2, LenProperties, SMT
<1>4. \A i \in 1..Len(b) : Resumed(b)[i] = [reliable |-> Reliable(b[i]), waiter |-> "nobody"]
  BY <1>1 DEF Resumed
<1> QED
  BY <1>2, <1>3, <1>4 DEF Matches

\* A first element moves from one queue to the next.
LEMMA Moved ==
    ASSUME NEW s \in Seq(Names), s # <<>>
    PROVE  <<Head(s)>> \o Tail(s) = s
<1>1. /\ Head(s) \in Names /\ Tail(s) \in Seq(Names) /\ Len(Tail(s)) = Len(s) - 1
      /\ \A i \in 1..Len(Tail(s)) : Tail(s)[i] = s[i + 1]
  BY HeadTailProperties
<1>2. Len(s) \in Nat \ {0} /\ Head(s) = s[1]
  BY EmptySeq
<1> DEFINE h == <<Head(s)>>
<1>3. h \in Seq(Names) /\ Len(h) = 1 /\ h[1] = s[1]
  BY <1>1, <1>2, SMT
<1> HIDE DEF h
<1> DEFINE t == Tail(s)
           c == h \o t
<1>0. t \in Seq(Names)
  BY <1>1
<1> HIDE DEF t
<1>4. c \in Seq(Names) /\ Len(c) = Len(h) + Len(t)
      /\ \A i \in 1..Len(h) + Len(t) : c[i] = IF i <= Len(h) THEN h[i] ELSE t[i - Len(h)]
  BY <1>0, <1>3, ConcatProperties
<1> HIDE DEF c
<1>5. Len(c) = Len(s)
  BY <1>1, <1>2, <1>3, <1>4, SMT DEF t
<1>6. ASSUME NEW i \in 1..Len(s) PROVE c[i] = s[i]
  <2>1. CASE i = 1
    BY <2>1, <1>1, <1>2, <1>3, <1>4, <1>5, SMT
  <2>2. CASE i # 1
    <3>1. i - 1 \in 1..Len(t) /\ t[i - 1] = s[i]
      BY <2>2, <1>1, <1>2, SMT DEF t
    <3>2. ~(i <= Len(h)) /\ i \in 1..Len(h) + Len(t)
      BY <2>2, <1>2, <1>3, <1>4, <1>5, SMT
    <3> QED
      BY <3>1, <3>2, <1>3, <1>4, SMT
  <2> QED
    BY <2>1, <2>2
<1>7. c = s
  BY <1>4, <1>5, <1>6, SeqEqual
<1> QED
  BY <1>7 DEF c, h, t

LEMMA TailOfCons ==
    ASSUME NEW n \in Names, NEW s \in Seq(Names)
    PROVE  /\ <<n>> \o s \in Seq(Names) /\ <<n>> \o s # <<>>
           /\ Head(<<n>> \o s) = n /\ Tail(<<n>> \o s) = s
<1> DEFINE h == <<n>>
           c == h \o s
<1>1. h \in Seq(Names) /\ Len(h) = 1 /\ h[1] = n
  BY SMT
<1> HIDE DEF h
<1>2. c \in Seq(Names) /\ Len(c) = 1 + Len(s)
      /\ \A i \in 1..1 + Len(s) : c[i] = IF i <= 1 THEN h[i] ELSE s[i - 1]
  BY <1>1, ConcatProperties
<1>3. Len(s) \in Nat
  BY LenProperties
<1> HIDE DEF c
<1>4. c # <<>> /\ Head(c) = n
  BY <1>1, <1>2, <1>3, EmptySeq, SMT
<1> DEFINE t == Tail(c)
<1>5. t \in Seq(Names) /\ Len(t) = Len(s) /\ \A i \in 1..Len(t) : t[i] = c[i + 1]
  BY <1>2, <1>3, <1>4, HeadTailProperties, SMT
<1> HIDE DEF t
<1>6. \A i \in 1..Len(t) : t[i] = s[i]
  BY <1>2, <1>3, <1>5, SMT
<1>7. t = s
  BY <1>5, <1>6, SeqEqual
<1> QED
  BY <1>2, <1>4, <1>7 DEF c, h, t

LEMMA QueuesTyped ==
    ASSUME Typed
    PROVE  /\ backlog \in Seq(Names) /\ chan \in Seq(Names) /\ Announced \in Seq(Names)
           /\ queued \in Seq(Entry) /\ sent \in Outgoing
<1>1. Requests \subseteq Names
  BY DEF Names
<1>2. backlog \in Seq(Requests) /\ chan \in Seq(Requests) /\ sent \in Outgoing
  BY DEF Typed, TypeOK, LibTypeOK
<1>3. backlog \in Seq(Names) /\ chan \in Seq(Names)
  BY <1>1, <1>2, SeqMonotonic
<1>4. sent.m \in Names
  BY <1>2, SMT DEF Outgoing, Names
<1>5. Announced \in Seq(Names)
  BY <1>4, SMT DEF Announced
<1> QED
  BY <1>2, <1>3, <1>5 DEF Typed, TypeOK, WorkTypeOK

\* Without a buffered notification the unwritten messages are the queues.
LEMMA QuietQueues ==
    ASSUME NEW b \in Seq(Names), NEW c \in Seq(Names)
    PROVE  <<>> \o b \o c = b \o c
<1>1. <<>> \o b = b
  BY ConcatEmptySeq
<1> QED
  BY <1>1

(***************************************************************************)
(* Mirror is inductive: the steps that leave the worker's queues alone.    *)
(***************************************************************************)
Frame ==
    /\ UNCHANGED <<libVars, queued, pending>>
    /\ connected' => connected
    /\ \/ wpc' = wpc
       \/ wpc = "done" /\ wpc' = "off"
       \/ wpc = "backoff" /\ wpc' = "select"

LEMMA FrameMirror ==
    ASSUME Mirror, Frame
    PROVE  Mirror'
<1>1. /\ net' = net /\ chan' = chan /\ backlog' = backlog /\ flight' = flight
      /\ sent' = sent /\ acks' = acks /\ done' = done
      /\ queued' = queued /\ pending' = pending
  BY DEF Frame, libVars
<1>2. Quiet' /\ Evidence'
  BY <1>1 DEF Mirror, Quiet, Evidence, Busy
<1>3. EmptyOffline'
  BY <1>1 DEF Frame, Mirror, EmptyOffline, Offline
<1>4. OnlyPublishes'
  BY <1>1 DEF Frame, Mirror, OnlyPublishes
<1>5. wpc' = "select" /\ net' = "up" => wpc = "select" /\ net = "up"
  BY <1>1 DEF Frame, Mirror, EmptyOffline, Offline
<1>6. Aligned'
  BY <1>1, <1>5 DEF Mirror, Aligned, Matches, Unwritten, Announced
<1>7. Tracked'
  BY <1>1, <1>5 DEF Mirror, Tracked, TrackedAt, Acked, Busy
<1> QED
  BY <1>2, <1>3, <1>4, <1>6, <1>7 DEF Mirror

\* The calling thread only starts the worker, or takes note of its end.
LEMMA CallerFrame ==
    ASSUME CallerStep
    PROVE  SpawnOk \/ Frame
<1>1. CASE SpawnFail \/ Maintain \/ Stop \/ HaltSignal
  BY <1>1 DEF SpawnFail, Maintain, Stop, HaltSignal, Frame, libVars, workVars, sharedVars
<1>2. CASE HaltNothing \/ Join
  BY <1>2 DEF HaltNothing, Join, Frame, libVars, workVars
<1>3. ASSUME NEW m \in Messages, PublishDrop(m) \/ PublishBegin(m)
      PROVE  Frame
  BY <1>3 DEF PublishDrop, PublishBegin, Frame, libVars, workVars, sharedVars
<1>4. CASE PublishSend \/ PublishRefused
  BY <1>4 DEF PublishSend, PublishRefused, Frame, libVars, workVars, sharedVars
<1>5. CASE PublishReturn \/ PublishTimeout
  BY <1>5 DEF PublishReturn, PublishTimeout, Return, Frame, libVars, workVars, sharedVars
<1> QED
  BY <1>1, <1>2, <1>3, <1>4, <1>5 DEF CallerStep

LEMMA OtherFrame ==
    ASSUME WRefuse \/ WWake \/ Tick \/ UNCHANGED vars
    PROVE  Frame
<1>1. CASE WRefuse
  BY <1>1 DEF WRefuse, Frame, libVars, workVars
<1>2. CASE WWake
  BY <1>2 DEF WWake, Frame, libVars
<1>3. CASE Tick
  BY <1>3 DEF Tick, Frame, libVars, workVars
<1>4. CASE UNCHANGED vars
  BY <1>4 DEF vars, Frame, libVars, workVars, sharedVars
<1> QED
  BY <1>1, <1>2, <1>3, <1>4

(***************************************************************************)
(* The steps that end or start a connection.                               *)
(***************************************************************************)
\* A fresh client holds nothing.
LEMMA FreshMirror ==
    ASSUME FreshClient, queued' = <<>>, pending' = Vacant, ~connected'
    PROVE  Mirror'
<1>1. /\ net' = "down" /\ chan' = <<>> /\ backlog' = <<>>
      /\ sent' = NoEvent /\ acks' = {}
  BY DEF FreshClient
<1>2. Quiet' /\ EmptyOffline'
  BY <1>1 DEF Quiet, EmptyOffline, Vacant
<1>3. OnlyPublishes'
  BY <1>1, EmptySeq DEF OnlyPublishes
<1>4. Evidence'
  BY <1>1, SMT DEF Evidence, NoEvent
<1>5. Aligned' /\ Tracked'
  BY <1>1 DEF Aligned, Tracked
<1> QED
  BY <1>2, <1>3, <1>4, <1>5 DEF Mirror

\* A kept session has its requests moved to the backlog.
LEMMA FailMirror ==
    ASSUME Mirror, FailConnection, wpc = "select"
    PROVE  Mirror'
<1>1. queued' = <<>> /\ pending' = Vacant /\ ~connected'
  BY DEF FailConnection, DrainBoth
<1>2. CASE CleanSession
  BY <1>1, <1>2, FreshMirror DEF FailConnection, Reconnecting
<1>3. CASE ~CleanSession
  <2>1. /\ net' = "down" /\ chan' = <<>> /\ backlog' = backlog \o chan
        /\ sent' = NoEvent /\ acks' = {}
    BY <1>3 DEF FailConnection, Reconnecting, KeepSession, ClearEvents
  <2>2. Quiet' /\ EmptyOffline'
    BY <1>1, <2>1 DEF Quiet, EmptyOffline, Vacant
  <2>3. OnlyPublishes'
    <3>1. backlog \in Seq(Messages) /\ chan \in Seq(Messages)
      BY DEF Mirror, OnlyPublishes
    <3> QED
      BY <2>1, <3>1, ConcatProperties, EmptySeq DEF OnlyPublishes
  <2>4. Evidence'
    BY <2>1, SMT DEF Evidence, NoEvent
  <2>5. Aligned' /\ Tracked'
    BY <2>1 DEF Aligned, Tracked
  <2> QED
    BY <2>2, <2>3, <2>4, <2>5 DEF Mirror
<1> QED
  BY <1>2, <1>3

LEMMA ConnAckMirror ==
    ASSUME Typed, Mirror, NEW session_present \in BOOLEAN, WConnAck(session_present)
    PROVE  Mirror'
<1>1. /\ wpc = "select" /\ net = "down" /\ wpc' = "select" /\ net' = "up"
      /\ sent' = sent /\ acks' = acks
      /\ backlog' = backlog \/ backlog' = <<>>
  BY DEF WConnAck, ConnAck
<1>2. sent = NoEvent /\ acks = {} /\ chan = <<>>
  BY <1>1 DEF Mirror, Quiet, EmptyOffline, Offline
<1>3. Quiet' /\ EmptyOffline'
  BY <1>1, <1>2 DEF Quiet, EmptyOffline, Offline
<1>4. Evidence'
  BY <1>1, <1>2, SMT DEF Evidence, NoEvent
<1>5. Accepts(chan)
  BY <1>2, LibraryAssumption, SMT DEF Accepts, LibraryAssumption
<1>6. chan' = <<"online">>
  <2>1. chan' = Append(<<>>, "online")
    BY <1>2, <1>5 DEF WConnAck, SendOnline
  <2> QED
    BY <2>1, SMT
<1>7. backlog' \in Seq(Messages) /\ OnlyPublishes'
  <2>1. backlog' \in Seq(Messages)
    BY <1>1, EmptySeq DEF Mirror, OnlyPublishes
  <2>2. chan' \in Seq(Messages)
    BY <1>6, Constants, SMT
  <2> QED
    BY <2>1, <2>2 DEF OnlyPublishes
<1>8. Aligned'
  <2> DEFINE e == [reliable |-> TRUE, waiter |-> "nobody"]
             r == Resumed(backlog')
  <2>1. /\ backlog' \in Seq(Names) /\ backlog' \in Seq(Requests)
        /\ "online" \in Names
    BY <1>7, Constants, SeqMonotonic DEF Names
  <2>2. r \in Seq(Entry)
    BY <2>1, ResumedTyped
  <2>3. Matches(r, backlog')
    BY <1>7, MatchResumed
  <2>4. e \in Entry /\ e.waiter \in {"nobody", "online"}
    BY Zenon DEF Entry
  <2>5. e.reliable = Reliable("online")
    <3>1. "online" \notin AtMostOnce
      BY QosAssumption, Zenon DEF QosAssumption, Metrics
    <3> QED
      BY <3>1 DEF Reliable
  <2>6. queued' = r \o <<e>>
    BY <1>5 DEF WConnAck, OnlineEntry
  <2> HIDE DEF e, r
  <2>7. Matches(Append(r, e), Append(backlog', "online"))
    BY <2>1, <2>2, <2>3, <2>4, <2>5, MatchAppend
  <2>8. queued' = Append(r, e)
    BY <2>2, <2>4, <2>6, AppendIsConcat
  <2>9. Unwritten' = Append(backlog', "online")
    <3>1. Announced' = <<>>
      BY <1>1, <1>2, SMT DEF Announced, NoEvent
    <3>2. Unwritten' = <<>> \o backlog' \o <<"online">>
      BY <1>6, <3>1 DEF Unwritten
    <3>3. <<"online">> \in Seq(Names)
      BY <2>1, SMT
    <3> QED
      BY <2>1, <3>2, <3>3, QuietQueues, AppendIsConcat
  <2> QED
    BY <2>7, <2>8, <2>9 DEF Aligned, Matches
<1>9. Tracked'
  <2>1. \A id \in PktId : pending'[id] = IF flight'[id].stage = "free" THEN "vacant" ELSE "nobody"
    BY DEF WConnAck
  <2>2. acks' = {}
    BY <1>1, <1>2
  <2>3. ASSUME NEW id \in PktId PROVE TrackedAt(id)'
    BY <2>1, <2>2 DEF TrackedAt, Acked, Busy
  <2> QED
    BY <2>3 DEF Tracked
<1> QED
  BY <1>3, <1>4, <1>7, <1>8, <1>9 DEF Mirror

\* A message is accepted: both queues grow at the end.
LEMMA AcceptMirror ==
    ASSUME Typed, Mirror, WAccept
    PROVE  Mirror'
<1> DEFINE m == Head(rx)
           e == [reliable |-> Reliable(m), waiter |-> m]
<1>1. /\ wpc = "select" /\ connected /\ wpc' = wpc /\ connected' = connected
      /\ net' = net /\ backlog' = backlog /\ flight' = flight /\ sent' = sent
      /\ acks' = acks /\ done' = done /\ pending' = pending
      /\ chan' = Append(chan, m) /\ queued' = Append(queued, e)
  BY DEF WAccept, Admits
<1>2. net = "up"
  BY <1>1 DEF Mirror, EmptyOffline, Offline, Typed, TypeOK, LibTypeOK
<1>3. m \in Messages
  BY HeadTailProperties DEF WAccept, Typed, TypeOK, SharedTypeOK
<1>4. Quiet' /\ Evidence' /\ EmptyOffline'
  BY <1>1, <1>2 DEF Mirror, Quiet, Evidence, Busy, EmptyOffline, Offline
<1>5. OnlyPublishes'
  BY <1>1, <1>3, AppendProperties DEF Mirror, OnlyPublishes
<1>6. Tracked'
  BY <1>1 DEF Mirror, Tracked, TrackedAt, Acked, Busy
<1>7. Aligned'
  <2>1. m \in Names /\ e \in Entry /\ e.reliable = Reliable(m) /\ e.waiter = m
    <3>1. Reliable(m) \in BOOLEAN
      BY DEF Reliable
    <3> QED
      BY <1>3, <3>1, Constants, Zenon DEF Names, Entry
  <2> HIDE DEF m, e
  <2> DEFINE a == Announced \o backlog
  <2>2. a \in Seq(Names) /\ chan \in Seq(Names) /\ queued \in Seq(Entry)
    BY QueuesTyped, ConcatProperties
  <2>3. Unwritten = a \o chan
    BY DEF Unwritten
  <2>4. Unwritten' = a \o Append(chan, m)
    BY <1>1 DEF Unwritten, Announced
  <2> HIDE DEF a
  <2>5. Unwritten \in Seq(Names) /\ <<m>> \in Seq(Names)
    BY <2>1, <2>2, <2>3, ConcatProperties, SMT
  <2>6. a \o Append(chan, m) = a \o (chan \o <<m>>)
    BY <2>1, <2>2, AppendIsConcat
  <2>7. Append(Unwritten, m) = (a \o chan) \o <<m>>
    BY <2>1, <2>3, <2>5, AppendIsConcat
  <2>8. (a \o chan) \o <<m>> = a \o (chan \o <<m>>)
    BY <2>2, <2>5, ConcatAssociative
  <2>9. Unwritten' = Append(Unwritten, m)
    BY <2>4, <2>6, <2>7, <2>8
  <2>10. Matches(queued, Unwritten)
    BY <1>1, <1>2 DEF Mirror, Aligned
  <2>11. Matches(Append(queued, e), Append(Unwritten, m))
    BY <2>1, <2>2, <2>5, <2>10, MatchAppend
  <2> QED
    BY <1>1, <2>9, <2>11 DEF Aligned, Matches
<1> QED
  BY <1>4, <1>5, <1>6, <1>7 DEF Mirror

(***************************************************************************)
(* The steps that take a notification.                                     *)
(***************************************************************************)
\* The first entry of `queued` is the one of the announced write.
LEMMA PopMatches ==
    ASSUME Typed, Mirror, wpc = "select", net = "up", Announced = <<sent.m>>
    PROVE  /\ PopWaiter \in {"nobody", sent.m}
           /\ Matches(Popped, backlog \o chan)
<1> DEFINE n == sent.m
           s == backlog \o chan
<1>1. /\ backlog \in Seq(Names) /\ chan \in Seq(Names) /\ queued \in Seq(Entry)
      /\ n \in Names
  BY QueuesTyped, SMT DEF Outgoing, Names
<1>2. s \in Seq(Names)
  BY <1>1, ConcatProperties
<1>3. Unwritten = <<n>> \o s
  <2>1. <<n>> \in Seq(Names)
    BY <1>1, SMT
  <2>2. (<<n>> \o backlog) \o chan = <<n>> \o (backlog \o chan)
    BY <1>1, <2>1, ConcatAssociative
  <2> QED
    BY <2>2 DEF Unwritten
<1>4. Matches(queued, Unwritten)
  BY DEF Mirror, Aligned
<1> HIDE DEF n, s
<1>5. Unwritten \in Seq(Names) /\ Unwritten # <<>> /\ Head(Unwritten) = n /\ Tail(Unwritten) = s
  BY <1>1, <1>2, <1>3, TailOfCons
<1>6. /\ queued # <<>> /\ Head(queued).waiter \in {"nobody", n}
      /\ Matches(Tail(queued), s)
  BY <1>1, <1>4, <1>5, MatchTail
<1> QED
  BY <1>6 DEF n, s, PopWaiter, Popped

LEMMA FleetingMirror ==
    ASSUME Typed, Mirror, WSentFleeting
    PROVE  Mirror' /\ PopWaiter \in done \cup {"nobody"}
<1>1. /\ wpc = "select" /\ sent.kind = "publish" /\ sent.id = 0
      /\ wpc' = wpc /\ connected' = connected /\ net' = net /\ chan' = chan
      /\ backlog' = backlog /\ flight' = flight /\ acks' = acks /\ done' = done
      /\ pending' = pending /\ sent' = NoEvent /\ queued' = Popped
  BY DEF WSentFleeting, sharedVars
<1>2. net = "up" /\ sent.m \in done
  <2>1. sent # NoEvent
    BY <1>1 DEF NoEvent
  <2> QED
    BY <1>1, <2>1 DEF Mirror, Quiet, Evidence, Typed, TypeOK, LibTypeOK
<1>3. Announced = <<sent.m>>
  BY <1>1 DEF Announced
<1>4. PopWaiter \in {"nobody", sent.m} /\ Matches(Popped, backlog \o chan)
  BY <1>1, <1>2, <1>3, PopMatches
<1>5. Quiet' /\ OnlyPublishes' /\ EmptyOffline'
  BY <1>1, <1>2 DEF Mirror, Quiet, OnlyPublishes, EmptyOffline, Offline
<1>6. Evidence'
  BY <1>1, SMT DEF Mirror, Evidence, NoEvent
<1>7. Aligned'
  <2>1. Announced' = <<>>
    BY <1>1, SMT DEF Announced, NoEvent
  <2>2. Unwritten' = backlog \o chan
    BY <1>1, <2>1, QueuesTyped, QuietQueues DEF Unwritten
  <2> QED
    BY <1>1, <1>4, <2>2 DEF Aligned, Matches
<1>8. Tracked'
  <2>1. 0 \notin PktId
    BY LibraryAssumption DEF LibraryAssumption
  <2>2. ASSUME NEW id \in PktId PROVE TrackedAt(id)'
    <3>1. TrackedAt(id) /\ sent.id # id
      BY <1>1, <1>2, <2>1 DEF Mirror, Tracked
    <3> QED
      BY <1>1, <3>1 DEF TrackedAt, Acked, Busy
  <2> QED
    BY <2>2 DEF Tracked
<1> QED
  BY <1>2, <1>4, <1>5, <1>6, <1>7, <1>8 DEF Mirror

LEMMA ReliableMirror ==
    ASSUME Typed, Mirror, WSentReliable
    PROVE  Mirror'
<1>1. /\ wpc = "select" /\ sent.kind = "publish" /\ sent.id # 0
      /\ wpc' = wpc /\ connected' = connected /\ net' = net /\ chan' = chan
      /\ backlog' = backlog /\ flight' = flight /\ acks' = acks /\ done' = done
      /\ sent' = NoEvent
  BY DEF WSentReliable, sharedVars
<1>2. /\ net = "up" /\ Busy(sent.id) /\ flight[sent.id].m = sent.m /\ acks = {}
  <2>1. sent # NoEvent
    BY <1>1 DEF NoEvent
  <2> QED
    BY <1>1, <2>1 DEF Mirror, Quiet, Evidence, Typed, TypeOK, LibTypeOK
<1>3. sent.id \in PktId
  BY <1>1, SMT DEF Typed, TypeOK, LibTypeOK, Outgoing
<1>4. Quiet' /\ OnlyPublishes' /\ EmptyOffline'
  BY <1>1, <1>2 DEF Mirror, Quiet, OnlyPublishes, EmptyOffline, Offline
<1>5. Evidence'
  BY <1>1, SMT DEF Mirror, Evidence, NoEvent
<1>6. Unwritten' = backlog \o chan
  <2>1. Announced' = <<>>
    BY <1>1, SMT DEF Announced, NoEvent
  <2> QED
    BY <1>1, <2>1, QueuesTyped, QuietQueues DEF Unwritten
<1>7. CASE FirstWrite(sent.id)
  <2>1. /\ pending[sent.id] = "vacant" /\ queued' = Popped
        /\ pending' = [pending EXCEPT ![sent.id] = PopWaiter]
    BY <1>7 DEF WSentReliable, FirstWrite
  <2>2. Announced = <<sent.m>>
    BY <1>1, <2>1 DEF Announced
  <2>3. PopWaiter \in {"nobody", sent.m} /\ Matches(Popped, backlog \o chan)
    BY <1>1, <1>2, <2>2, PopMatches
  <2>4. Aligned'
    BY <1>1, <1>6, <2>1, <2>3 DEF Aligned, Matches
  <2>5. PopWaiter # "vacant"
    <3>1. sent.m # "vacant"
      BY QosAssumption, SMT
         DEF Typed, TypeOK, LibTypeOK, Outgoing, Requests, Messages, Status, QosAssumption
    <3> QED
      BY <2>3, <3>1
  <2>6. ASSUME NEW id \in PktId PROVE TrackedAt(id)'
    <3>1. TrackedAt(id) /\ pending \in [PktId -> Messages \cup {"vacant", "nobody"}]
      BY <1>1, <1>2 DEF Mirror, Tracked, Typed, TypeOK, WorkTypeOK
    <3>2. CASE id = sent.id
      <4>1. pending'[id] = PopWaiter /\ acks' = {} /\ flight'[id].m = sent.m /\ Busy(id)'
        BY <1>1, <1>2, <1>3, <2>1, <3>1, <3>2 DEF Busy
      <4> QED
        BY <2>3, <2>5, <4>1 DEF TrackedAt, Acked
    <3>3. CASE id # sent.id
      <4>1. pending'[id] = pending[id]
        BY <2>1, <3>1, <3>3
      <4> QED
        BY <1>1, <3>1, <3>3, <4>1 DEF TrackedAt, Acked, Busy
    <3> QED
      BY <3>2, <3>3
  <2> QED
    BY <1>4, <1>5, <2>4, <2>6 DEF Mirror, Tracked
<1>8. CASE ~FirstWrite(sent.id)
  <2>1. pending[sent.id] # "vacant" /\ queued' = queued /\ pending' = pending
    BY <1>8 DEF WSentReliable, FirstWrite
  <2>2. Announced = <<>>
    BY <1>1, <2>1 DEF Announced
  <2>3. Unwritten = backlog \o chan
    BY <2>2, QueuesTyped, QuietQueues DEF Unwritten
  <2>4. Aligned'
    BY <1>1, <1>2, <1>6, <2>1, <2>3 DEF Mirror, Aligned, Matches
  <2>5. ASSUME NEW id \in PktId PROVE TrackedAt(id)'
    <3>1. TrackedAt(id)
      BY <1>1, <1>2 DEF Mirror, Tracked
    <3> QED
      BY <1>1, <2>1, <3>1 DEF TrackedAt, Acked, Busy
  <2> QED
    BY <1>4, <1>5, <2>4, <2>5 DEF Mirror, Tracked
<1> QED
  BY <1>7, <1>8

\* An acknowledgement is taken by the waiter of its own message.
LEMMA FinishMirror ==
    ASSUME Typed, Mirror, NEW a \in acks, WFinish(a)
    PROVE  Mirror' /\ pending[a.id] \in done \cup {"nobody"}
<1>1. /\ wpc = "select" /\ wpc' = wpc /\ connected' = connected /\ net' = net
      /\ chan' = chan /\ backlog' = backlog /\ flight' = flight /\ sent' = sent
      /\ done' = done /\ queued' = queued /\ acks' = acks \ {a}
      /\ pending' = [pending EXCEPT ![a.id] = "vacant"]
  BY DEF WFinish, Remove, sharedVars
<1>2. net = "up" /\ sent = NoEvent /\ a.id \in PktId
  BY SMT DEF Mirror, Quiet, Typed, TypeOK, LibTypeOK, Ack
<1>3. TrackedAt(a.id) /\ pending \in [PktId -> Messages \cup {"vacant", "nobody"}]
  BY <1>1, <1>2 DEF Mirror, Tracked, Typed, TypeOK, WorkTypeOK
<1>4. /\ Acked(a.id) /\ ~Busy(a.id) /\ pending[a.id] # "vacant"
      /\ \A b \in acks : b.id = a.id => b = a
  BY <1>3 DEF TrackedAt, Acked
<1>5. pending[a.id] \in done \cup {"nobody"}
  <2>1. SUFFICES ASSUME pending[a.id] # "nobody" PROVE pending[a.id] \in done
    OBVIOUS
  <2>2. pending[a.id] \in Messages
    BY <1>2, <1>3, <1>4, <2>1
  <2>3. flight[a.id] = Free
    <3>1. flight[a.id] \in Slot
      BY <1>2 DEF Typed, TypeOK, LibTypeOK
    <3>2. flight[a.id] \notin Exchange
      BY <1>4, SMT DEF Busy, Exchange
    <3> QED
      BY <3>1, <3>2 DEF Slot
  <2>4. flight[a.id].m # pending[a.id]
    <3>1. "none" \notin Messages
      BY QosAssumption, SMT DEF QosAssumption, Messages, Status
    <3> QED
      BY <2>2, <2>3, <3>1 DEF Free
  <2>5. PICK b \in acks : b.id = a.id /\ b.m = pending[a.id]
    BY <1>3, <1>4, <2>1, <2>4 DEF TrackedAt
  <2> QED
    BY <2>5 DEF Mirror, Evidence
<1>6. Quiet' /\ OnlyPublishes' /\ EmptyOffline' /\ Evidence'
  BY <1>1, <1>2 DEF Mirror, Quiet, OnlyPublishes, EmptyOffline, Offline, Evidence, Busy
<1>7. Aligned'
  <2>1. Announced = <<>> /\ Announced' = <<>>
    BY <1>1, <1>2, SMT DEF Announced, NoEvent
  <2>2. Unwritten' = Unwritten
    BY <1>1, <2>1 DEF Unwritten
  <2> QED
    BY <1>1, <2>2 DEF Mirror, Aligned, Matches
<1>8. ASSUME NEW id \in PktId PROVE TrackedAt(id)'
  <2>1. TrackedAt(id)
    BY <1>1, <1>2 DEF Mirror, Tracked
  <2>2. CASE id = a.id
    <3>1. pending'[id] = "vacant" /\ ~Busy(id)'
      BY <1>1, <1>2, <1>3, <1>4, <2>2 DEF Busy
    <3>2. \A b \in acks' : b.id # id
      BY <1>1, <1>4, <2>2
    <3> QED
      BY <3>1, <3>2 DEF TrackedAt, Acked
  <2>3. CASE id # a.id
    <3>1. pending'[id] = pending[id]
      BY <1>1, <1>3, <2>3
    <3>2. \A b : b \in acks' /\ b.id = id <=> b \in acks /\ b.id = id
      BY <1>1, <2>3
    <3> QED
      BY <1>1, <2>1, <3>1, <3>2 DEF TrackedAt, Acked, Busy
  <2> QED
    BY <2>2, <2>3
<1> QED
  BY <1>5, <1>6, <1>7, <1>8 DEF Mirror, Tracked

(***************************************************************************)
(* The steps of the library while the worker polls.                        *)
(***************************************************************************)
\* A write announces its message, under id 0 or under a free packet id.
LEMMA WriteAnnounces ==
    ASSUME Typed, Mirror, Idle, NEW m \in Messages, Write(m), pending' = pending,
           acks' = acks, net' = net, wpc' = wpc
    PROVE  /\ Quiet' /\ Evidence'
           /\ wpc = "select" => Announced' = <<m>> /\ Tracked'
<1>1. m # "disconnect" /\ 0 \notin PktId
  BY QosAssumption, LibraryAssumption, SMT
     DEF QosAssumption, LibraryAssumption, Messages, Status
<1>2. net = "up" /\ sent = NoEvent /\ acks = {} /\ acks' = {}
  BY DEF Idle
<1>3. Quiet'
  BY <1>2 DEF Quiet
<1>4. wpc = "select" => \A id \in PktId : TrackedAt(id)
  BY <1>2 DEF Mirror, Tracked
<1>5. \A id : ~(sent.kind = "publish" /\ sent.id = id)
  BY <1>2, SMT DEF NoEvent
<1>6. CASE WriteFleeting(m)
  <2>1. /\ sent' = [kind |-> "publish", id |-> 0, m |-> m] /\ done' = done \cup {m}
        /\ flight' = flight
    BY <1>6 DEF WriteFleeting
  <2>2. sent'.kind = "publish" /\ sent'.id = 0 /\ sent'.m = m
    BY <2>1, SMT
  <2>3. Evidence'
    BY <1>2, <2>1, <2>2 DEF Evidence
  <2>4. Announced' = <<m>>
    BY <2>2 DEF Announced
  <2>5. ASSUME wpc = "select", NEW id \in PktId PROVE TrackedAt(id)'
    <3>1. TrackedAt(id)
      BY <1>4, <2>5
    <3> QED
      BY <1>2, <1>5, <2>1, <3>1 DEF TrackedAt, Acked, Busy
  <2> QED
    BY <1>3, <2>3, <2>4, <2>5 DEF Tracked
<1>7. CASE WriteReliable(m)
  <2>1. PICK k \in PktId \ InFlight :
            /\ flight' = [flight EXCEPT ![k] = [m |-> m, stage |-> "pub", onwire |-> TRUE]]
            /\ sent' = [kind |-> "publish", id |-> k, m |-> m]
    BY <1>7 DEF WriteReliable
  <2>2. sent'.kind = "publish" /\ sent'.id = k /\ sent'.m = m /\ k # 0 /\ ~Busy(k)
    BY <1>1, <2>1, SMT DEF InFlight
  <2>3. flight \in [PktId -> Slot]
    BY DEF Typed, TypeOK, LibTypeOK
  <2>4. flight'[k].stage = "pub" /\ flight'[k].m = m
    BY <2>1, <2>3, SMT
  <2>5. Evidence'
    BY <1>2, <2>2, <2>4 DEF Evidence, Busy
  <2>6. ASSUME wpc = "select" PROVE Announced' = <<m>> /\ Tracked'
    <3>1. pending[k] = "vacant"
      BY <1>2, <1>4, <2>2, <2>6 DEF TrackedAt, Acked
    <3>2. Announced' = <<m>>
      BY <2>2, <3>1 DEF Announced
    <3>3. ASSUME NEW id \in PktId PROVE TrackedAt(id)'
      <4>1. TrackedAt(id)
        BY <1>4, <2>6
      <4>2. CASE id = k
        BY <1>2, <2>2, <2>4, <3>1, <4>2 DEF TrackedAt, Acked, Busy
      <4>3. CASE id # k
        <5>1. flight'[id] = flight[id]
          BY <2>1, <2>3, <4>3
        <5> QED
          BY <1>2, <1>5, <4>1, <5>1 DEF TrackedAt, Acked, Busy
      <4> QED
        BY <4>2, <4>3
    <3> QED
      BY <3>2, <3>3 DEF Tracked
  <2> QED
    BY <1>3, <2>5, <2>6
<1> QED
  BY <1>1, <1>6, <1>7 DEF Write

\* DISCONNECT is written only while the worker drains.
LEMMA WriteDrained ==
    ASSUME Mirror, Idle, Write("disconnect"), acks' = acks, net' = net
    PROVE  Quiet' /\ Evidence'
<1>1. "disconnect" \notin Messages
  BY QosAssumption, SMT DEF QosAssumption, Messages, Status
<1>2. WriteDisconnect
  BY <1>1, SMT DEF Write, WriteFleeting, WriteReliable, Messages, Metrics
<1>3. sent' = [kind |-> "disconnect", id |-> 0, m |-> "disconnect"]
  BY <1>2 DEF WriteDisconnect
<1> QED
  BY <1>3, SMT DEF Idle, Quiet, Evidence

LEMMA SendMirror ==
    ASSUME Typed, Mirror, SendBacklog \/ SendNext, Polling,
           UNCHANGED <<queued, pending, wpc, connected>>
    PROVE  Mirror'
<1>1. /\ Idle /\ net = "up" /\ net' = "up" /\ acks' = acks
      /\ queued' = queued /\ pending' = pending /\ wpc' = wpc
  BY DEF SendBacklog, SendNext, Idle
<1>2. /\ backlog \in Seq(Names) /\ chan \in Seq(Names)
      /\ chan \in Seq(Requests) /\ backlog \in Seq(Messages)
  BY QueuesTyped DEF Mirror, OnlyPublishes, Typed, TypeOK, LibTypeOK
<1>3. EmptyOffline'
  BY <1>1 DEF EmptyOffline, Offline, Polling
<1>4. Unwritten = backlog \o chan
  <2>1. Announced = <<>>
    BY <1>1, SMT DEF Idle, Announced, NoEvent
  <2> QED
    BY <1>2, <2>1, QuietQueues DEF Unwritten
<1>5. OnlyPublishes'
  <2>1. CASE SendBacklog
    <3>1. backlog' \in Seq(Messages) /\ chan' = chan
      BY <1>2, <2>1, HeadTailProperties DEF SendBacklog
    <3> QED
      BY <1>1, <3>1 DEF Mirror, OnlyPublishes
  <2>2. CASE SendNext
    <3>1. backlog' = backlog /\ chan' = Tail(chan) /\ chan # <<>>
      BY <2>2 DEF SendNext
    <3> QED
      BY <1>1, <3>1, HeadTailProperties DEF Mirror, OnlyPublishes
  <2> QED
    BY <2>1, <2>2
<1>6. PICK r \in Requests :
          /\ Write(r) /\ r \in Names
          /\ wpc = "select" => r \in Messages
          /\ <<r>> \o backlog' \o chan' = backlog \o chan
  <2>1. CASE SendBacklog
    <3> DEFINE h == Head(backlog)
    <3>1. /\ Write(h) /\ backlog # <<>> /\ backlog' = Tail(backlog) /\ chan' = chan
          /\ h \in Messages
      BY <1>2, <2>1, HeadTailProperties DEF SendBacklog
    <3>2. <<h>> \o backlog' = backlog
      BY <1>2, <3>1, Moved
    <3> QED
      BY <3>1, <3>2, Constants DEF Names
  <2>2. CASE SendNext
    <3> DEFINE h == Head(chan)
    <3>1. /\ Write(h) /\ chan # <<>> /\ backlog = <<>> /\ backlog' = <<>>
          /\ chan' = Tail(chan) /\ h \in Requests
      BY <1>2, <2>2, HeadTailProperties DEF SendNext
    <3>2. wpc = "select" => h \in Messages
      BY <3>1, HeadTailProperties DEF Mirror, OnlyPublishes
    <3>3. h \in Names
      BY <3>1 DEF Names
    <3> HIDE DEF h
    <3>4. <<h>> \in Seq(Names)
      BY <3>3, SMT
    <3>5. <<h>> \o <<>> = <<h>> /\ <<>> \o chan = chan
      BY <1>2, <3>4, ConcatEmptySeq
    <3>6. <<h>> \o Tail(chan) = chan
      BY <1>2, <3>1, Moved DEF h
    <3> QED
      BY <3>1, <3>2, <3>3, <3>5, <3>6
  <2> QED
    BY <2>1, <2>2
<1>7. Quiet' /\ Evidence'
  <2>1. r \in Messages \/ r = "disconnect"
    BY <1>6 DEF Requests
  <2> QED
    BY <1>1, <1>6, <2>1, WriteAnnounces, WriteDrained
<1>8. ASSUME wpc = "select" PROVE Aligned' /\ Tracked'
  <2>1. Announced' = <<r>> /\ Tracked'
    BY <1>1, <1>6, <1>8, WriteAnnounces
  <2>2. Unwritten' = Unwritten
    BY <1>4, <1>6, <2>1 DEF Unwritten
  <2>3. Matches(queued, Unwritten)
    BY <1>1, <1>8 DEF Mirror, Aligned
  <2> QED
    BY <1>1, <2>1, <2>2, <2>3 DEF Aligned, Matches
<1>9. wpc # "select" => Aligned' /\ Tracked'
  BY <1>1 DEF Aligned, Tracked
<1> QED
  BY <1>3, <1>5, <1>7, <1>8, <1>9 DEF Mirror

\* A step on an exchange that buffers at most its own notification.
LEMMA ExchangeMirror ==
    ASSUME Typed, Mirror, Polling, NEW k \in PktId,
           Resend(k) \/ PubAck(k) \/ PubRec(k) \/ PubComp(k),
           UNCHANGED <<queued, pending, wpc, connected>>
    PROVE  Mirror'
<1>1. /\ net = "up" /\ net' = "up" /\ sent = NoEvent /\ Busy(k)
      /\ chan' = chan /\ backlog' = backlog
      /\ queued' = queued /\ pending' = pending /\ wpc' = wpc
  BY DEF Resend, PubAck, PubRec, PubComp, Finish, Readable, Replaying, Idle, Busy
<1>2. EmptyOffline' /\ OnlyPublishes'
  BY <1>1 DEF EmptyOffline, Offline, Polling, Mirror, OnlyPublishes
<1>3. /\ \A id : ~(sent.kind = "publish" /\ sent.id = id)
      /\ Announced = <<>>
  BY <1>1, SMT DEF NoEvent, Announced
<1>4. /\ flight \in [PktId -> Slot] /\ k # 0
      /\ wpc = "select" => \A id \in PktId : TrackedAt(id)
  BY <1>1, LibraryAssumption
     DEF Typed, TypeOK, LibTypeOK, LibraryAssumption, Mirror, Tracked
<1>5. ASSUME wpc = "select" PROVE pending[k] # "vacant" /\ ~Acked(k)
  BY <1>1, <1>3, <1>4, <1>5 DEF TrackedAt
<1>6. ASSUME Announced' = <<>> PROVE Aligned'
  <2>1. Unwritten' = Unwritten
    BY <1>1, <1>3, <1>6 DEF Unwritten
  <2> QED
    BY <1>1, <2>1 DEF Mirror, Aligned, Matches
<1>7. CASE Resend(k) \/ PubRec(k)
  <2>1. acks' = acks /\ done' = done
    BY <1>7 DEF Resend, PubRec
  <2>2. /\ flight' = [flight EXCEPT ![k] = flight'[k]]
        /\ flight'[k].m = flight[k].m /\ flight'[k].stage # "free"
    <3>1. flight[k].stage # "free" /\ flight[k] \in Exchange
      BY <1>1, <1>4, SlotUpdates DEF Busy
    <3>2. CASE Resend(k)
      <4>1. flight' = [flight EXCEPT ![k] = [flight[k] EXCEPT !.onwire = TRUE]]
        BY <1>4, <3>2, SMT DEF Resend
      <4>2. flight'[k] = [flight[k] EXCEPT !.onwire = TRUE]
        BY <1>4, <4>1
      <4>3. flight'[k].m = flight[k].m /\ flight'[k].stage = flight[k].stage
        BY <3>1, <4>2, SMT DEF Exchange
      <4> QED
        BY <3>1, <4>1, <4>2, <4>3
    <3>3. CASE PubRec(k)
      <4>1. flight' = [flight EXCEPT ![k] = [flight[k] EXCEPT !.stage = "rel"]]
        BY <1>4, <3>3, SMT DEF PubRec
      <4>2. flight'[k] = [flight[k] EXCEPT !.stage = "rel"]
        BY <1>4, <4>1
      <4>3. flight'[k].m = flight[k].m /\ flight'[k].stage = "rel"
        BY <3>1, <4>2, SMT DEF Exchange
      <4> QED
        BY <4>1, <4>2, <4>3
    <3> QED
      BY <1>7, <3>2, <3>3
  <2>3. /\ sent' = NoEvent \/ sent' = [kind |-> "publish", id |-> k, m |-> flight[k].m]
        /\ acks # {} => sent' = NoEvent
    BY <1>1, <1>7 DEF Resend, PubRec, Idle
  <2>4. Quiet'
    BY <1>1, <2>1, <2>3 DEF Quiet
  <2>5. Evidence'
    <3>1. CASE sent' = NoEvent
      BY <2>1, <3>1, SMT DEF Mirror, Evidence, NoEvent
    <3>2. CASE sent' = [kind |-> "publish", id |-> k, m |-> flight[k].m]
      <4>1. sent'.id = k /\ sent'.m = flight[k].m
        BY <3>2, SMT
      <4> QED
        BY <1>4, <2>1, <2>2, <4>1 DEF Mirror, Evidence, Busy
    <3> QED
      BY <2>3, <3>1, <3>2
  <2>6. ASSUME wpc = "select" PROVE Announced' = <<>>
    <3>1. CASE sent' = NoEvent
      BY <3>1, SMT DEF Announced, NoEvent
    <3>2. CASE sent' = [kind |-> "publish", id |-> k, m |-> flight[k].m]
      <4>1. sent'.id = k
        BY <3>2, SMT
      <4> QED
        BY <1>1, <1>4, <1>5, <2>6, <4>1 DEF Announced
    <3> QED
      BY <2>3, <3>1, <3>2
  <2>7. Aligned'
    BY <1>1, <1>6, <2>6 DEF Aligned
  <2>8. ASSUME wpc = "select", NEW id \in PktId PROVE TrackedAt(id)'
    <3>1. TrackedAt(id)
      BY <1>4, <2>8
    <3>2. flight'[id].m = flight[id].m /\ (Busy(id)' <=> Busy(id))
      BY <1>1, <1>4, <2>2 DEF Busy
    <3> QED
      BY <1>1, <1>3, <2>1, <3>1, <3>2 DEF TrackedAt, Acked
  <2> QED
    BY <1>1, <1>2, <2>4, <2>5, <2>7, <2>8 DEF Mirror, Tracked
<1>8. CASE PubAck(k) \/ PubComp(k)
  <2> DEFINE b == [id |-> k, m |-> flight[k].m]
  <2>1. /\ flight' = [flight EXCEPT ![k] = Free] /\ sent' = NoEvent
        /\ acks' = acks \cup {b} /\ done' = done \cup {flight[k].m}
    BY <1>1, <1>8 DEF PubAck, PubComp, Finish
  <2>2. b.id = k /\ b.m = flight[k].m
    BY SMT
  <2> HIDE DEF b
  <2>3. Quiet' /\ Announced' = <<>>
    BY <1>1, <2>1, SMT DEF Quiet, Announced, NoEvent
  <2>4. Evidence'
    BY <2>1, <2>2, SMT DEF Mirror, Evidence, NoEvent
  <2>5. ASSUME wpc = "select", NEW id \in PktId PROVE TrackedAt(id)'
    <3>1. TrackedAt(id)
      BY <1>4, <2>5
    <3>2. CASE id = k
      <4>1. flight'[k] = Free /\ ~Busy(id)'
        BY <1>4, <2>1, <3>2, SMT DEF Busy, Free
      <4>2. \A a \in acks' : a.id = id <=> a = b
        BY <1>5, <2>1, <2>2, <2>5, <3>2 DEF Acked
      <4>3. b \in acks'
        BY <2>1
      <4>4. pending[k] \notin {"vacant", "nobody"} => b.m = pending[k]
        BY <1>5, <2>2, <2>5, <3>1, <3>2 DEF TrackedAt, Acked
      <4> QED
        BY <1>1, <1>5, <2>2, <2>5, <3>2, <4>1, <4>2, <4>3, <4>4 DEF TrackedAt, Acked
    <3>3. CASE id # k
      <4>1. flight'[id] = flight[id]
        BY <1>4, <2>1, <3>3
      <4>2. \A a : a \in acks' /\ a.id = id <=> a \in acks /\ a.id = id
        BY <2>1, <2>2, <3>3
      <4> QED
        BY <1>1, <1>3, <3>1, <4>1, <4>2 DEF TrackedAt, Acked, Busy
    <3> QED
      BY <3>2, <3>3
  <2> QED
    BY <1>1, <1>2, <1>6, <2>3, <2>4, <2>5 DEF Mirror, Tracked
<1> QED
  BY <1>7, <1>8

(***************************************************************************)
(* Mirror is inductive.                                                    *)
(***************************************************************************)
LEMMA DrainMirror ==
    ASSUME Mirror, WStopOnline \/ WDrainEvent
    PROVE  Mirror'
<1>1. /\ wpc' = "drain" /\ net' = net /\ backlog' = backlog /\ flight' = flight
      /\ done' = done
  BY DEF WStopOnline, WDrainEvent, sharedVars
<1>2. (sent' = sent /\ acks' = acks) \/ (sent' = NoEvent /\ acks' = {})
  BY DEF WStopOnline, WDrainEvent
<1>3. Quiet'
  BY <1>1, <1>2 DEF Mirror, Quiet
<1>4. Evidence'
  <2>1. CASE sent' = sent /\ acks' = acks
    BY <1>1, <2>1 DEF Mirror, Evidence, Busy
  <2>2. CASE sent' = NoEvent /\ acks' = {}
    BY <2>2, SMT DEF Evidence, NoEvent
  <2> QED
    BY <1>2, <2>1, <2>2
<1> QED
  BY <1>1, <1>3, <1>4
     DEF Mirror, EmptyOffline, Offline, OnlyPublishes, Aligned, Tracked

LEMMA MirrorStep ==
    ASSUME Typed, Mirror, [Next]_vars
    PROVE  Mirror'
<1>1. CASE SpawnOk
  <2>1. ~connected'
    BY <1>1 DEF SpawnOk
  <2> QED
    BY <1>1, <2>1, FreshMirror DEF SpawnOk
<1>2. CASE CallerStep
  BY <1>1, <1>2, CallerFrame, FrameMirror
<1>3. CASE WAccept
  BY <1>3, AcceptMirror
<1>4. ASSUME NEW session_present \in BOOLEAN, WConnAck(session_present) PROVE Mirror'
  BY <1>4, ConnAckMirror
<1>5. CASE WSentFleeting \/ WSentReliable
  BY <1>5, FleetingMirror, ReliableMirror
<1>6. ASSUME NEW a \in acks, WFinish(a) PROVE Mirror'
  BY <1>6, FinishMirror
<1>7. CASE WConnFail \/ WLost
  BY <1>7, FailMirror DEF WConnFail, WLost
<1>8. CASE WBackoffStop \/ WStopOffline \/ WDrainEnd
  <2>1. Exit
    BY <1>8 DEF WBackoffStop, WStopOffline, WDrainEnd
  <2>2. ~connected'
    BY <2>1 DEF Exit
  <2> QED
    BY <2>1, <2>2, FreshMirror DEF Exit
<1>9. CASE WStopOnline \/ WDrainEvent
  BY <1>9, DrainMirror
<1>10. CASE WPoll
  <2>1. Polling /\ LibStep /\ UNCHANGED <<queued, pending, wpc, connected>>
    BY <1>10 DEF WPoll, workVars, sharedVars
  <2> QED
    BY <2>1, SendMirror, ExchangeMirror DEF LibStep
<1>11. CASE WRefuse \/ WWake \/ Tick \/ UNCHANGED vars
  BY <1>11, OtherFrame, FrameMirror
<1> QED
  BY <1>2, <1>3, <1>4, <1>5, <1>6, <1>7, <1>8, <1>9, <1>10, <1>11
     DEF Next, WorkerStep, Finished


(***************************************************************************)
(* From the mirror to the caller: no false reply.                          *)
(***************************************************************************)
Truth == FreshReply /\ TruthfulSuccess

\* A reply "ok" only reaches the waiters it is meant for.
LEMMA ReplyTruth ==
    ASSUME Typed, Truth, NEW W, NEW value \in {"ok", "failed"}, Reply(W, value),
           value = "ok" => W \subseteq done \cup {"nobody"},
           UNCHANGED <<mpc, call, succeeded, done>>
    PROVE  Truth'
<1>1. mpc' = mpc /\ call' = call /\ succeeded' = succeeded /\ done' = done
  OBVIOUS
<1>2. CASE answer' = answer
  BY <1>1, <1>2 DEF Truth, FreshReply, TruthfulSuccess
<1>3. CASE answer' # answer
  <2>1. mpc = "wait" /\ call \in W /\ answer' = value
    BY <1>3 DEF Reply
  <2>2. call # "nobody"
    <3>1. "nobody" \notin Messages
      BY QosAssumption, SMT DEF QosAssumption, Messages, Status
    <3> QED
      BY <2>1, <3>1 DEF Typed, CallMade
  <2> QED
    BY <1>1, <2>1, <2>2 DEF Truth, FreshReply, TruthfulSuccess
<1> QED
  BY <1>2, <1>3

\* What is done stays done, and nothing else concerns the caller.
LEMMA IdleTruth ==
    ASSUME Truth, UNCHANGED <<mpc, call, answer, succeeded>>, done \subseteq done'
    PROVE  Truth'
BY DEF Truth, FreshReply, TruthfulSuccess

LEMMA LibStepDone ==
    ASSUME LibStep
    PROVE  done \subseteq done'
<1>1. ASSUME NEW m, Write(m) PROVE done \subseteq done'
  BY <1>1 DEF Write, WriteDisconnect, WriteFleeting, WriteReliable
<1>2. CASE SendBacklog \/ SendNext
  BY <1>1, <1>2 DEF SendBacklog, SendNext
<1>3. ASSUME NEW id \in PktId, Resend(id) \/ PubAck(id) \/ PubRec(id) \/ PubComp(id)
      PROVE  done \subseteq done'
  BY <1>3 DEF Resend, PubAck, PubRec, PubComp, Finish
<1> QED
  BY <1>2, <1>3 DEF LibStep

LEMMA CallerTruth ==
    ASSUME Truth, CallerStep
    PROVE  Truth'
<1>1. done' = done
  BY DEF CallerStep, SpawnOk, SpawnFail, PublishDrop, PublishBegin, PublishSend,
     PublishRefused, PublishReturn, PublishTimeout, Return, Maintain, Stop, HaltNothing,
     HaltSignal, Join, libVars
<1>2. CASE \E m \in Messages : PublishBegin(m)
  BY <1>1, <1>2 DEF PublishBegin, Truth, FreshReply, TruthfulSuccess
<1>3. CASE PublishSend
  BY <1>1, <1>3 DEF PublishSend, Truth, FreshReply, TruthfulSuccess
<1>4. CASE PublishReturn \/ PublishTimeout
  <2>1. PICK value :
            /\ mpc = "wait" /\ Return(value)
            /\ value = "ok" => answer = "ok"
    BY <1>4 DEF PublishReturn, PublishTimeout, UnwrapOr
  <2>2. /\ mpc' \in {"halt", "idle"}
        /\ succeeded' = IF value = "ok" THEN succeeded \cup {call} ELSE succeeded
    BY <2>1 DEF Return, AfterPublish, Success
  <2>3. succeeded' \subseteq done'
    BY <1>1, <2>1, <2>2 DEF Truth, TruthfulSuccess
  <2> QED
    BY <2>2, <2>3 DEF Truth, FreshReply, TruthfulSuccess
<1>5. CASE SpawnOk \/ SpawnFail \/ Maintain \/ Stop \/ HaltNothing \/ HaltSignal \/ Join
  <2>1. mpc' \notin {"send", "wait"} /\ succeeded' = succeeded
    BY <1>5 DEF SpawnOk, SpawnFail, Maintain, Stop, HaltNothing, HaltSignal, Join,
       AfterTeardown
  <2> QED
    BY <1>1, <2>1 DEF Truth, FreshReply, TruthfulSuccess
<1>6. CASE PublishRefused \/ \E m \in Messages : PublishDrop(m)
  <2>1. mpc' \notin {"send", "wait"} /\ succeeded' = succeeded
    BY <1>6 DEF PublishRefused, PublishDrop, AfterPublish
  <2> QED
    BY <1>1, <2>1 DEF Truth, FreshReply, TruthfulSuccess
<1> QED
  BY <1>2, <1>3, <1>4, <1>5, <1>6 DEF CallerStep

LEMMA WorkerTruth ==
    ASSUME Typed, Mirror, Truth, WorkerStep
    PROVE  Truth'
<1>1. CASE WSentFleeting
  <2>1. Reply({PopWaiter}, "ok") /\ UNCHANGED <<mpc, call, succeeded, done>>
    BY <1>1 DEF WSentFleeting
  <2> QED
    BY <1>1, <2>1, FleetingMirror, ReplyTruth
<1>2. ASSUME NEW a \in acks, WFinish(a) PROVE Truth'
  <2>1. Reply({pending[a.id]}, "ok") /\ UNCHANGED <<mpc, call, succeeded, done>>
    BY <1>2 DEF WFinish
  <2> QED
    BY <1>2, <2>1, FinishMirror, ReplyTruth
<1>3. CASE WRefuse
  <2>1. Reply({Head(rx)}, "failed") /\ UNCHANGED <<mpc, call, succeeded, done>>
    BY <1>3 DEF WRefuse, libVars
  <2> QED
    BY <2>1, ReplyTruth
<1>4. ASSUME NEW session_present \in BOOLEAN, WConnAck(session_present) PROVE Truth'
  <2>1. Reply(Waiters, "failed") /\ UNCHANGED <<mpc, call, succeeded, done>>
    BY <1>4 DEF WConnAck
  <2> QED
    BY <2>1, ReplyTruth
<1>5. CASE WConnFail \/ WLost
  <2>1. Reply(Waiters, "failed") /\ UNCHANGED <<mpc, call, succeeded, done>>
    BY <1>5 DEF WConnFail, WLost, FailConnection
  <2> QED
    BY <2>1, ReplyTruth
<1>6. CASE WBackoffStop \/ WStopOffline \/ WDrainEnd
  <2>1. /\ Reply(Waiters \cup {rx[i] : i \in DOMAIN rx}, "failed")
        /\ UNCHANGED <<mpc, call, succeeded, done>>
    BY <1>6 DEF WBackoffStop, WStopOffline, WDrainEnd, Exit
  <2> QED
    BY <2>1, ReplyTruth
<1>7. CASE WAccept \/ WSentReliable \/ WWake \/ WStopOnline \/ WDrainEvent
  <2>1. UNCHANGED <<mpc, call, answer, succeeded, done>>
    BY <1>7 DEF WAccept, WSentReliable, WWake, WStopOnline, WDrainEvent, callerVars, libVars
  <2> QED
    BY <2>1, IdleTruth
<1>8. CASE WPoll
  <2>1. LibStep /\ UNCHANGED <<mpc, call, answer, succeeded>>
    BY <1>8 DEF WPoll, callerVars
  <2> QED
    BY <2>1, LibStepDone, IdleTruth
<1> QED
  BY <1>1, <1>2, <1>3, <1>4, <1>5, <1>6, <1>7, <1>8 DEF WorkerStep

LEMMA TruthStep ==
    ASSUME Typed, Mirror, Truth, [Next]_vars
    PROVE  Truth'
<1>1. CASE Tick \/ UNCHANGED vars
  <2>1. UNCHANGED <<mpc, call, answer, succeeded, done>>
    BY <1>1 DEF Tick, vars, callerVars, libVars
  <2> QED
    BY <2>1, IdleTruth
<1> QED
  BY <1>1, CallerTruth, WorkerTruth DEF Next, Finished

(***************************************************************************)
(* The theorems.                                                           *)
(***************************************************************************)
LEMMA BookkeepingInit == Init => Bookkeeping
<1> SUFFICES ASSUME Init PROVE Bookkeeping
  OBVIOUS
<1>1. Typed
  BY TypeInit DEF Typed, CallMade, Init
<1>2. /\ net = "down" /\ chan = <<>> /\ backlog = <<>> /\ sent = NoEvent /\ acks = {}
      /\ queued = <<>> /\ pending = Vacant /\ ~connected
  BY DEF Init, LibInit
<1>3. Quiet /\ EmptyOffline /\ Aligned /\ Tracked
  BY <1>2 DEF Quiet, EmptyOffline, Aligned, Tracked
<1>4. OnlyPublishes
  BY <1>2, EmptySeq DEF OnlyPublishes
<1>5. Evidence
  BY <1>2, SMT DEF Evidence, NoEvent
<1>6. FreshReply /\ TruthfulSuccess
  BY DEF Init, FreshReply, TruthfulSuccess
<1> QED
  BY <1>1, <1>3, <1>4, <1>5, <1>6 DEF Bookkeeping, Mirror

LEMMA BookkeepingStep == Bookkeeping /\ [Next]_vars => Bookkeeping'
BY TypedStep, MirrorStep, TruthStep DEF Bookkeeping, Truth

\* publish never returns true, and no reply "ok" waits for its caller, unless the
\* message was written to the socket (QoS 0) or acknowledged (QoS 1/2): whatever
\* is lost, resumed, retransmitted, refused or timed out in between.
THEOREM TruthfulReply == Spec => []TruthfulSuccess
<1>1. Bookkeeping => TruthfulSuccess
  BY DEF Bookkeeping
<1> QED
  BY <1>1, BookkeepingInit, BookkeepingStep, PTL DEF Spec

\* While a connection is up, `queued` lists, in order, exactly the messages the
\* library has not reported as written: popping its front at each Outgoing::Publish
\* always finds the entry of the message that was written.
THEOREM QueueAligned == Spec => []Aligned
<1>1. Bookkeeping => Aligned
  BY DEF Bookkeeping, Mirror
<1> QED
  BY <1>1, BookkeepingInit, BookkeepingStep, PTL DEF Spec

\* While a connection is up, an entry of `pending` is occupied exactly while the
\* exchange of its packet id is unfinished or its acknowledgement is buffered, and
\* it holds the waiter of that very message.
THEOREM ExchangesTracked == Spec => []Tracked
<1>1. Bookkeeping => Tracked
  BY DEF Bookkeeping, Mirror
<1> QED
  BY <1>1, BookkeepingInit, BookkeepingStep, PTL DEF Spec

\* Between connections the worker holds no waiter and no accounting of the old
\* connection, and reports itself as disconnected.
THEOREM OfflineEmpty == Spec => []NothingHeldOffline
<1>1. Bookkeeping => NothingHeldOffline
  BY DEF Bookkeeping, Mirror, EmptyOffline, Offline, NothingHeldOffline
<1> QED
  BY <1>1, BookkeepingInit, BookkeepingStep, PTL DEF Spec
=============================================================================
