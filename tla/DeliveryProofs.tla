--------------------------- MODULE DeliveryProofs ---------------------------
(***************************************************************************)
(* The publisher of MqttClient implements the contract of Delivery: every  *)
(* step of the handle, the worker and the library is a step of the         *)
(* contract or none at all.  For any metrics, packet ids, window, limits   *)
(* and delays.                                                             *)
(*                                                                         *)
(* The argument: a metric exists at most once between the call that        *)
(* publishes it and its delivery - in the caller's hand, in the message    *)
(* channel, in the library's queues or in one exchange - so that what      *)
(* delivers it, refuses it or loses it takes the only copy.                *)
(***************************************************************************)
EXTENDS BookkeepingProofs

\* Where a message may be: the caller's hand, rx, the queues, an exchange.
Sending == IF mpc = "send" THEN {call} ELSE {}
Waiting == backlog \o chan
Flying == {flight[id].m : id \in PktId}

OnceIn(q) == \A i, j \in DOMAIN q : (q[i] \in Metrics /\ q[i] = q[j]) => i = j
Apart(A, B) == Metrics \cap A \cap B = {}

\* No metric is in two places, or twice in one.
OneCopy ==
    /\ OnceIn(Waiting)
    /\ \A a, b \in PktId :
           (flight[a].m \in Metrics /\ flight[a].m = flight[b].m) => a = b
    /\ Apart(Sending, Elements(rx) \cup Elements(Waiting) \cup Flying)
    /\ Apart(Elements(rx), Elements(Waiting) \cup Flying)
    /\ Apart(Elements(Waiting), Flying)
    /\ LiveMetrics \subseteq used

\* Between two calls there is none.
NoCallLeft == mpc \notin {"send", "wait"} => call = "none"

Contracted == Bookkeeping /\ OneCopy /\ NoCallLeft

(***************************************************************************)
(* Sequences: the elements of a queue.                                     *)
(***************************************************************************)
LEMMA ConcatElements ==
    ASSUME NEW s \in Seq(Names), NEW t \in Seq(Names)
    PROVE  Elements(s \o t) = Elements(s) \cup Elements(t)
<1> DEFINE c == s \o t
<1>1. /\ c \in Seq(Names) /\ Len(c) = Len(s) + Len(t)
      /\ \A i \in 1..Len(s) + Len(t) : c[i] = IF i <= Len(s) THEN s[i] ELSE t[i - Len(s)]
  BY ConcatProperties
<1>2. /\ Len(s) \in Nat /\ Len(t) \in Nat
      /\ DOMAIN s = 1..Len(s) /\ DOMAIN t = 1..Len(t) /\ DOMAIN c = 1..Len(c)
  BY <1>1, LenProperties
<1> HIDE DEF c
<1>3. ASSUME NEW i \in DOMAIN c PROVE c[i] \in Elements(s) \cup Elements(t)
  <2>1. (i \in DOMAIN s /\ i <= Len(s)) \/ (i - Len(s) \in DOMAIN t /\ ~(i <= Len(s)))
    BY <1>1, <1>2, SMT
  <2> QED
    BY <1>1, <1>2, <2>1, SMT DEF Elements
<1>4. ASSUME NEW i \in DOMAIN s PROVE s[i] \in Elements(c)
  <2>1. i \in DOMAIN c /\ c[i] = s[i]
    BY <1>1, <1>2, SMT
  <2> QED
    BY <2>1 DEF Elements
<1>5. ASSUME NEW i \in DOMAIN t PROVE t[i] \in Elements(c)
  <2>1. i + Len(s) \in DOMAIN c /\ c[i + Len(s)] = t[i]
    BY <1>1, <1>2, SMT
  <2> QED
    BY <2>1 DEF Elements
<1> QED
  BY <1>3, <1>4, <1>5 DEF c, Elements

LEMMA SingleElement ==
    ASSUME NEW m \in Names
    PROVE  <<m>> \in Seq(Names) /\ Elements(<<m>>) = {m} /\ OnceIn(<<m>>)
<1>1. <<m>> \in Seq(Names) /\ DOMAIN <<m>> = {1} /\ <<m>>[1] = m
  BY SMT
<1> QED
  BY <1>1 DEF Elements, OnceIn

LEMMA NoElement == Elements(<<>>) = {} /\ OnceIn(<<>>)
BY SMT DEF Elements, OnceIn

\* A message that waits nowhere can join the end of the queue.
LEMMA AppendOnce ==
    ASSUME NEW s \in Seq(Names), NEW m \in Names,
           OnceIn(s), m \notin Metrics \cap Elements(s)
    PROVE  Append(s, m) \in Seq(Names) /\ OnceIn(Append(s, m))
           /\ Elements(Append(s, m)) = Elements(s) \cup {m}
<1> DEFINE c == Append(s, m)
<1>1. /\ c \in Seq(Names) /\ Len(c) = Len(s) + 1 /\ c[Len(s) + 1] = m
      /\ \A i \in 1..Len(s) : c[i] = s[i]
  BY AppendProperties
<1>2. Len(s) \in Nat /\ DOMAIN s = 1..Len(s) /\ DOMAIN c = 1..Len(c)
  BY <1>1, LenProperties
<1> HIDE DEF c
<1>3. DOMAIN c = DOMAIN s \cup {Len(s) + 1}
  BY <1>1, <1>2, SMT
<1>4. \A i \in DOMAIN s : c[i] = s[i] /\ s[i] \in Elements(s)
  BY <1>1, <1>2 DEF Elements
<1>5. ASSUME NEW i \in DOMAIN c, NEW j \in DOMAIN c, c[i] \in Metrics, c[i] = c[j]
      PROVE  i = j
  <2>1. CASE i \in DOMAIN s /\ j \in DOMAIN s
    BY <1>4, <1>5, <2>1 DEF OnceIn
  <2>2. CASE i \notin DOMAIN s /\ j \notin DOMAIN s
    BY <1>3, <2>2
  <2>3. CASE i \in DOMAIN s <=> j \notin DOMAIN s
    BY <1>1, <1>3, <1>4, <1>5, <2>3
  <2> QED
    BY <2>1, <2>2, <2>3
<1>6. OnceIn(c)
  BY <1>5 DEF OnceIn
<1>7. Elements(c) = Elements(s) \cup {m}
  BY <1>1, <1>3, <1>4 DEF Elements
<1> QED
  BY <1>1, <1>6, <1>7 DEF c

\* The first message of a queue is nowhere in the rest.
LEMMA TailOnce ==
    ASSUME NEW m \in Names, NEW s \in Seq(Names)
    PROVE  OnceIn(<<m>> \o s) => OnceIn(s) /\ m \notin Metrics \cap Elements(s)
<1> DEFINE h == <<m>>
           c == h \o s
<1>1. h \in Seq(Names) /\ Len(h) = 1 /\ h[1] = m
  BY SMT
<1> HIDE DEF h
<1>2. c \in Seq(Names) /\ Len(c) = 1 + Len(s)
      /\ \A i \in 1..1 + Len(s) : c[i] = IF i <= 1 THEN h[i] ELSE s[i - 1]
  BY <1>1, ConcatProperties
<1>3. Len(s) \in Nat /\ DOMAIN s = 1..Len(s) /\ DOMAIN c = 1..Len(c)
  BY <1>2, LenProperties
<1> HIDE DEF c
<1>4. SUFFICES ASSUME OnceIn(c) PROVE OnceIn(s) /\ m \notin Metrics \cap Elements(s)
  BY DEF c, h
<1>5. c[1] = m /\ 1 \in DOMAIN c
  BY <1>1, <1>2, <1>3, SMT
<1>6. \A i \in DOMAIN s : i + 1 \in DOMAIN c /\ c[i + 1] = s[i] /\ i + 1 # 1 /\ i \in Nat
  BY <1>2, <1>3, SMT
<1>7. ASSUME NEW i \in DOMAIN s, NEW j \in DOMAIN s, s[i] \in Metrics, s[i] = s[j]
      PROVE  i = j
  <2>1. i + 1 = j + 1
    BY <1>4, <1>6, <1>7 DEF OnceIn
  <2> QED
    BY <1>6, <2>1, SMT
<1>8. ASSUME NEW i \in DOMAIN s, m \in Metrics PROVE s[i] # m
  BY <1>4, <1>5, <1>6, <1>8 DEF OnceIn
<1> QED
  BY <1>7, <1>8 DEF OnceIn, Elements

(***************************************************************************)
(* OneCopy is inductive.                                                   *)
(***************************************************************************)
\* No message moves to a place: every place keeps its messages or loses some.
Fewer ==
    /\ Metrics \cap Elements(rx)' \subseteq Elements(rx)
    /\ Metrics \cap Elements(Waiting)' \subseteq Elements(Waiting)
    /\ OnceIn(Waiting)'
    /\ \A id \in PktId : flight'[id].m \in Metrics => flight'[id].m = flight[id].m
    /\ Sending' \subseteq Sending
    /\ used \subseteq used'

\* What is live, place by place.
LEMMA LivePlaces ==
    ASSUME Typed
    PROVE  /\ LiveMetrics =
                 Metrics \cap (Elements(rx) \cup Elements(Waiting) \cup Flying \cup Sending)
           /\ Waiting \in Seq(Names)
<1>1. backlog \in Seq(Names) /\ chan \in Seq(Names)
  BY QueuesTyped
<1>2. Elements(Waiting) = Elements(backlog) \cup Elements(chan)
  BY <1>1, ConcatElements DEF Waiting
<1>3. Waiting \in Seq(Names)
  BY <1>1, ConcatProperties DEF Waiting
<1> QED
  BY <1>2, <1>3 DEF LiveMetrics, Flying, Sending

LEMMA LivePlacesNext ==
    ASSUME Typed'
    PROVE  /\ LiveMetrics' =
                 Metrics \cap (Elements(rx) \cup Elements(Waiting) \cup Flying \cup Sending)'
           /\ Waiting' \in Seq(Names)
<1>1. backlog' \in Seq(Names) /\ chan' \in Seq(Names)
  <2>1. backlog' \in Seq(Requests) /\ chan' \in Seq(Requests) /\ Requests \subseteq Names
    BY DEF Typed, TypeOK, LibTypeOK, Names
  <2> QED
    BY <2>1, SeqMonotonic
<1>2. Elements(Waiting)' = Elements(backlog)' \cup Elements(chan)'
  BY <1>1, ConcatElements DEF Waiting, Elements
<1>3. Waiting' \in Seq(Names)
  BY <1>1, ConcatProperties DEF Waiting
<1> QED
  BY <1>2, <1>3 DEF LiveMetrics, Flying, Sending, Elements

\* The message rx.recv returns is one of the channel's.
LEMMA ReceivedFirst ==
    ASSUME Typed, rx # <<>>
    PROVE  Head(rx) \in Names /\ Head(rx) \in Elements(rx)
<1>1. rx \in Seq(Messages)
  BY DEF Typed, TypeOK, SharedTypeOK
<1>2. Len(rx) \in Nat \ {0} /\ DOMAIN rx = 1..Len(rx) /\ Head(rx) \in Messages
  BY <1>1, EmptySeq, LenProperties, HeadTailProperties
<1>3. Head(rx) = rx[1] /\ 1 \in DOMAIN rx
  BY <1>1, <1>2, SMT
<1> QED
  BY <1>2, <1>3, Constants DEF Elements, Names

\* A request joins the end of what waits.
LEMMA WaitingGrows ==
    ASSUME Typed, NEW m \in Names, chan' = Append(chan, m), backlog' = backlog
    PROVE  Waiting' = Append(Waiting, m)
<1>1. /\ backlog \in Seq(Names) /\ chan \in Seq(Names) /\ <<m>> \in Seq(Names)
      /\ Waiting \in Seq(Names)
  BY QueuesTyped, SingleElement, LivePlaces
<1>2. Waiting' = backlog \o (chan \o <<m>>)
  BY <1>1, AppendIsConcat DEF Waiting
<1>3. Waiting' = Waiting \o <<m>>
  BY <1>1, <1>2, ConcatAssociative DEF Waiting
<1> QED
  BY <1>1, <1>3, AppendIsConcat

LEMMA FewerCopies ==
    ASSUME Typed, Typed', OneCopy, Fewer
    PROVE  OneCopy' /\ LiveMetrics' \subseteq LiveMetrics
<1>1. Metrics \cap Flying' \subseteq Flying
  BY DEF Fewer, Flying
<1>2. LiveMetrics' \subseteq LiveMetrics
  BY <1>1, LivePlaces, LivePlacesNext DEF Fewer
<1>3. LiveMetrics' \subseteq used'
  BY <1>2 DEF OneCopy, Fewer
<1>4. /\ Apart(Sending, Elements(rx) \cup Elements(Waiting) \cup Flying)'
      /\ Apart(Elements(rx), Elements(Waiting) \cup Flying)'
      /\ Apart(Elements(Waiting), Flying)'
  BY <1>1 DEF OneCopy, Fewer, Apart
<1>5. \A a, b \in PktId :
          (flight'[a].m \in Metrics /\ flight'[a].m = flight'[b].m) => a = b
  BY DEF OneCopy, Fewer
<1> QED
  BY <1>2, <1>3, <1>4, <1>5 DEF OneCopy, Fewer

(***************************************************************************)
(* Steps of the contract.                                                  *)
(***************************************************************************)
Refines == [Contract!Next]_Contract!vars

LEMMA StatusNoMetric == Metrics \cap (Status \cup {"disconnect", "none", "nobody", "vacant"}) = {}
BY QosAssumption, SMT DEF QosAssumption, Status

\* Messages may be lost at any time, and are lost together.
LEMMA LoseRefines ==
    ASSUME LiveMetrics' \subseteq LiveMetrics, UNCHANGED <<call, used, succeeded>>,
           done' \cap Metrics = done \cap Metrics
    PROVE  Refines
<1> DEFINE S == LiveMetrics \ LiveMetrics'
<1>1. CASE S = {}
  <2>1. LiveMetrics' = LiveMetrics
    BY <1>1
  <2> QED
    BY <2>1 DEF Refines, Contract!vars
<1>2. CASE S # {}
  <2>1. S \in SUBSET LiveMetrics /\ LiveMetrics' = LiveMetrics \ S
    OBVIOUS
  <2> HIDE DEF S
  <2>2. Contract!Lose(S)
    BY <1>2, <2>1 DEF Contract!Lose
  <2> QED
    BY <2>1, <2>2 DEF Refines, Contract!Next
<1> QED
  BY <1>1, <1>2

LEMMA DeliverRefines ==
    ASSUME NEW m \in LiveMetrics, m \in Metrics,
           LiveMetrics' = LiveMetrics \ {m}, done' = done \cup {m},
           UNCHANGED <<call, used, succeeded>>
    PROVE  Refines
<1>1. done' \cap Metrics = (done \cap Metrics) \cup {m}
  OBVIOUS
<1>2. Contract!Deliver(m)
  BY <1>1 DEF Contract!Deliver
<1> QED
  BY <1>2 DEF Refines, Contract!Next

(***************************************************************************)
(* The calling thread.                                                     *)
(***************************************************************************)
\* Nothing moves while the caller is not sending.
LEMMA StillFewer ==
    ASSUME OneCopy, UNCHANGED <<backlog, chan, flight, rx>>, used \subseteq used',
           Sending' \subseteq Sending
    PROVE  Fewer
BY DEF Fewer, OneCopy, Waiting, Elements, OnceIn

LEMMA StillLive ==
    ASSUME Typed, Typed', UNCHANGED <<backlog, chan, flight, rx>>
    PROVE  Sending' = Sending => LiveMetrics' = LiveMetrics
<1>1. /\ Elements(rx)' = Elements(rx) /\ Elements(Waiting)' = Elements(Waiting)
      /\ Flying' = Flying
  BY DEF Elements, Waiting, Flying
<1> QED
  BY <1>1, LivePlaces, LivePlacesNext

LEMMA PublishContract ==
    ASSUME Typed, Typed', OneCopy, NoCallLeft, NEW m \in Messages,
           PublishDrop(m) \/ PublishBegin(m)
    PROVE  OneCopy' /\ NoCallLeft' /\ Refines
<1>1. /\ mpc \in {"idle", "farewell"} /\ call = "none" /\ Sending = {}
      /\ (m \in Metrics /\ m \notin used) \/ m = "offline"
      /\ used' = used \cup ({m} \cap Metrics) /\ succeeded' = succeeded /\ done' = done
      /\ UNCHANGED <<backlog, chan, flight, rx>>
  BY DEF PublishDrop, PublishBegin, MayPublish, NoCallLeft, Sending, libVars, sharedVars
<1>2. "offline" \notin Metrics /\ "none" \notin Metrics
  BY StatusNoMetric DEF Status
<1>3. CASE PublishDrop(m)
  <2>1. mpc' \in {"idle", "halt"} /\ call' = call /\ Sending' = {}
    BY <1>3 DEF PublishDrop, AfterPublish, Sending
  <2>2. OneCopy' /\ NoCallLeft'
    BY <1>1, <2>1, StillFewer, FewerCopies DEF NoCallLeft
  <2>3. LiveMetrics' = LiveMetrics
    BY <1>1, <2>1, StillLive
  <2>4. CASE m \in Metrics
    <3>1. Contract!Drop(m)
      BY <1>1, <1>2, <2>1, <2>3, <2>4 DEF Contract!Drop
    <3> QED
      BY <2>2, <2>4, <3>1 DEF Refines, Contract!Next
  <2>5. CASE m \notin Metrics
    <3>1. used' = used
      BY <1>1, <2>5
    <3> QED
      BY <1>1, <2>1, <2>2, <2>3, <3>1 DEF Refines, Contract!vars
  <2> QED
    BY <2>4, <2>5
<1>4. CASE PublishBegin(m)
  <2>1. mpc' = "send" /\ call' = m /\ Sending' = {m}
    BY <1>4 DEF PublishBegin, Sending
  <2>2. /\ Elements(rx)' = Elements(rx) /\ Elements(Waiting)' = Elements(Waiting)
        /\ Flying' = Flying /\ OnceIn(Waiting)' = OnceIn(Waiting)
    BY <1>1 DEF Elements, Waiting, Flying, OnceIn
  <2>3. LiveMetrics' = LiveMetrics \cup (Metrics \cap {m})
    BY <1>1, <2>1, <2>2, LivePlaces, LivePlacesNext
  <2>4. Metrics \cap (Elements(rx) \cup Elements(Waiting) \cup Flying) \subseteq used
    BY LivePlaces DEF OneCopy
  <2>5. m \notin Metrics \cap (Elements(rx) \cup Elements(Waiting) \cup Flying)
    BY <1>1, <1>2, <2>4
  <2>6. OneCopy'
    <3>1. LiveMetrics' \subseteq used'
      BY <1>1, <2>3 DEF OneCopy
    <3>2. Apart(Sending, Elements(rx) \cup Elements(Waiting) \cup Flying)'
      BY <2>1, <2>2, <2>5 DEF Apart
    <3> QED
      BY <1>1, <2>2, <3>1, <3>2 DEF OneCopy, Apart
  <2>7. NoCallLeft'
    BY <2>1 DEF NoCallLeft
  <2>8. CASE m \in Metrics
    <3>1. Contract!Call(m)
      BY <1>1, <1>2, <2>1, <2>3, <2>8 DEF Contract!Call
    <3> QED
      BY <2>6, <2>7, <2>8, <3>1 DEF Refines, Contract!Next
  <2>9. CASE m \notin Metrics
    <3>1. used' = used /\ LiveMetrics' = LiveMetrics
      BY <1>1, <2>3, <2>9
    <3> QED
      BY <1>1, <1>2, <2>1, <2>6, <2>7, <2>9, <3>1 DEF Refines, Contract!vars
  <2> QED
    BY <2>8, <2>9
<1> QED
  BY <1>3, <1>4

\* try_send: the message goes from the caller's hand to the empty channel.
LEMMA SendContract ==
    ASSUME Typed, Typed', OneCopy, NoCallLeft, PublishSend
    PROVE  OneCopy' /\ NoCallLeft' /\ Refines
<1>1. /\ mpc = "send" /\ mpc' = "wait" /\ rx = <<>> /\ rx' = <<call>>
      /\ UNCHANGED <<backlog, chan, flight, call, used, succeeded, done>>
  BY DEF PublishSend, libVars
<1>2. call \in Names
  BY <1>1, Constants DEF Typed, CallMade, Names
<1>3. /\ Elements(rx) = {} /\ Elements(rx)' = {call}
      /\ Elements(Waiting)' = Elements(Waiting)
      /\ Flying' = Flying /\ OnceIn(Waiting)' = OnceIn(Waiting)
      /\ Sending = {call} /\ Sending' = {}
  <2>1. Elements(rx) = {}
    BY <1>1, NoElement DEF Elements
  <2>2. Elements(rx)' = {call}
    BY <1>1, <1>2, SingleElement DEF Elements
  <2> QED
    BY <1>1, <2>1, <2>2 DEF Elements, Waiting, Flying, OnceIn, Sending
<1>4. LiveMetrics' = LiveMetrics
  BY <1>3, LivePlaces, LivePlacesNext
<1>5. OneCopy'
  BY <1>1, <1>3, <1>4 DEF OneCopy, Apart
<1>6. NoCallLeft'
  BY <1>1 DEF NoCallLeft
<1> QED
  BY <1>1, <1>4, <1>5, <1>6, LoseRefines

LEMMA RefusedContract ==
    ASSUME Typed, Typed', OneCopy, NoCallLeft, PublishRefused
    PROVE  OneCopy' /\ NoCallLeft' /\ Refines
<1>1. /\ mpc = "send" /\ mpc' \in {"idle", "halt"} /\ call' = "none"
      /\ UNCHANGED <<backlog, chan, flight, rx, used, succeeded, done>>
  BY DEF PublishRefused, AfterPublish, libVars, sharedVars
<1>2. Sending = {call} /\ Sending' = {}
  BY <1>1 DEF Sending
<1>3. OneCopy' /\ NoCallLeft' /\ LiveMetrics' \subseteq LiveMetrics
  BY <1>1, <1>2, StillFewer, FewerCopies DEF NoCallLeft
<1>4. "none" \notin Metrics
  BY StatusNoMetric
<1>5. /\ Elements(rx)' = Elements(rx) /\ Elements(Waiting)' = Elements(Waiting)
      /\ Flying' = Flying
  BY <1>1 DEF Elements, Waiting, Flying
<1>6. LiveMetrics' = LiveMetrics \ {call}
  BY <1>2, <1>5, LivePlaces, LivePlacesNext DEF OneCopy, Apart
<1>7. CASE call \in Metrics
  <2>1. Contract!ReturnFalse
    BY <1>1, <1>4, <1>6, <1>7 DEF Contract!ReturnFalse
  <2> QED
    BY <1>3, <2>1 DEF Refines, Contract!Next
<1>8. CASE call \notin Metrics
  <2>1. LiveMetrics' = LiveMetrics
    BY <1>6, <1>8 DEF LiveMetrics
  <2> QED
    BY <1>1, <1>3, <1>4, <1>8, <2>1 DEF Refines, Contract!vars
<1> QED
  BY <1>7, <1>8

\* The reply, or the timeout: the message, if it is live, stays so.
LEMMA ReturnContract ==
    ASSUME Typed, Typed', OneCopy, NoCallLeft, TruthfulSuccess,
           PublishReturn \/ PublishTimeout
    PROVE  OneCopy' /\ NoCallLeft' /\ Refines
<1>1. PICK value :
          /\ mpc = "wait" /\ Return(value)
          /\ value = "ok" => answer = "ok"
  BY DEF PublishReturn, PublishTimeout, UnwrapOr
<1>2. /\ mpc' \in {"idle", "halt"} /\ call' = "none"
      /\ succeeded' = IF value = "ok" THEN succeeded \cup {call} ELSE succeeded
      /\ UNCHANGED <<backlog, chan, flight, rx, used, done>>
  BY <1>1 DEF Return, AfterPublish, Success, libVars, sharedVars
<1>3. Sending = {} /\ Sending' = {}
  BY <1>1, <1>2 DEF Sending
<1>4. OneCopy' /\ NoCallLeft'
  BY <1>2, <1>3, StillFewer, FewerCopies DEF NoCallLeft
<1>5. LiveMetrics' = LiveMetrics
  BY <1>2, <1>3, StillLive
<1>6. "none" \notin Metrics
  BY StatusNoMetric
<1>7. CASE call \notin Metrics
  <2>1. succeeded' \cap Metrics = succeeded \cap Metrics
    BY <1>2, <1>7
  <2> QED
    BY <1>2, <1>4, <1>5, <1>6, <1>7, <2>1 DEF Refines, Contract!vars
<1>8. CASE call \in Metrics /\ value = "ok"
  <2>1. call \in done
    BY <1>1, <1>8 DEF TruthfulSuccess
  <2>2. succeeded' \cap Metrics = (succeeded \cap Metrics) \cup {call}
    BY <1>2, <1>8
  <2>3. Contract!ReturnTrue
    BY <1>2, <1>5, <1>6, <1>8, <2>1, <2>2 DEF Contract!ReturnTrue
  <2> QED
    BY <1>4, <2>3 DEF Refines, Contract!Next
<1>9. CASE call \in Metrics /\ value # "ok"
  <2>1. Contract!ReturnFalse
    BY <1>2, <1>5, <1>6, <1>9 DEF Contract!ReturnFalse
  <2> QED
    BY <1>4, <2>1 DEF Refines, Contract!Next
<1> QED
  BY <1>7, <1>8, <1>9

\* Everything a client held is gone with it.
LEMMA FreshFewer ==
    ASSUME FreshClient, rx' = <<>> \/ rx' = rx, Sending' \subseteq Sending, used' = used
    PROVE  Fewer
<1>1. Waiting' = <<>>
  <2>1. backlog' = <<>> /\ chan' = <<>>
    BY DEF FreshClient
  <2>2. Waiting' = <<>> \o <<>>
    BY <2>1 DEF Waiting
  <2> QED
    BY <2>2, EmptySeq, ConcatEmptySeq
<1>2. Elements(Waiting)' = {} /\ OnceIn(Waiting)'
  BY <1>1, NoElement DEF Elements, OnceIn
<1>3. Elements(rx)' \subseteq Elements(rx)
  BY NoElement DEF Elements
<1>4. ASSUME NEW id \in PktId PROVE flight'[id].m \notin Metrics
  <2>1. flight'[id] = Free
    BY DEF FreshClient
  <2> QED
    BY <2>1, StatusNoMetric DEF Free
<1> QED
  BY <1>2, <1>3, <1>4 DEF Fewer

\* Whatever becomes less without a call returning is lost.
LEMMA FewerContract ==
    ASSUME Typed, Typed', OneCopy, NoCallLeft, Fewer,
           UNCHANGED <<call, used, succeeded>>, done' \cap Metrics = done \cap Metrics,
           mpc' \in {"send", "wait"} <=> mpc \in {"send", "wait"}
    PROVE  OneCopy' /\ NoCallLeft' /\ Refines
<1>1. OneCopy' /\ LiveMetrics' \subseteq LiveMetrics
  BY FewerCopies
<1>2. NoCallLeft'
  BY DEF NoCallLeft
<1> QED
  BY <1>1, <1>2, LoseRefines

LEMMA CallerContract ==
    ASSUME Typed, Typed', OneCopy, NoCallLeft, TruthfulSuccess, CallerStep
    PROVE  OneCopy' /\ NoCallLeft' /\ Refines
<1>1. CASE SpawnOk
  <2>1. /\ FreshClient /\ rx' = <<>> /\ Sending' = {} /\ mpc = "spawn" /\ mpc' = "idle"
        /\ UNCHANGED <<call, used, succeeded, done>>
    BY <1>1 DEF SpawnOk, Sending
  <2> QED
    BY <2>1, FreshFewer, FewerContract
<1>2. CASE SpawnFail \/ Maintain \/ Stop \/ HaltNothing \/ HaltSignal \/ Join
  <2>1. /\ UNCHANGED <<backlog, chan, flight, rx, call, used, succeeded, done>>
        /\ mpc \notin {"send", "wait"} /\ mpc' \notin {"send", "wait"}
    BY <1>2 DEF SpawnFail, Maintain, Stop, HaltNothing, HaltSignal, Join, AfterTeardown,
       libVars, sharedVars
  <2>2. Sending' \subseteq Sending
    BY <2>1 DEF Sending
  <2> QED
    BY <2>1, <2>2, StillFewer, FewerContract
<1> QED
  BY <1>1, <1>2, PublishContract, SendContract, RefusedContract, ReturnContract
     DEF CallerStep

(***************************************************************************)
(* The worker thread.                                                      *)
(***************************************************************************)
\* rx.recv: the message joins the end of the library's queue.
LEMMA AcceptContract ==
    ASSUME Typed, Typed', OneCopy, NoCallLeft, WAccept
    PROVE  OneCopy' /\ NoCallLeft' /\ Refines
<1> DEFINE m == Head(rx)
<1>1. /\ rx # <<>> /\ rx' = <<>> /\ chan' = Append(chan, m)
      /\ UNCHANGED <<backlog, flight, call, used, succeeded, done, mpc>>
  BY DEF WAccept, callerVars
<1>2. m \in Names /\ m \in Elements(rx)
  BY <1>1, ReceivedFirst
<1> HIDE DEF m
<1>3. Waiting' = Append(Waiting, m) /\ Waiting \in Seq(Names)
  BY <1>1, <1>2, WaitingGrows, LivePlaces
<1>4. OnceIn(Waiting)' /\ Elements(Waiting)' = Elements(Waiting) \cup {m}
  <2>1. m \notin Metrics \cap Elements(Waiting)
    BY <1>2 DEF OneCopy, Apart
  <2>2. OnceIn(Waiting)
    BY DEF OneCopy
  <2>3. OnceIn(Append(Waiting, m)) /\ Elements(Append(Waiting, m)) = Elements(Waiting) \cup {m}
    BY <1>2, <1>3, <2>1, <2>2, AppendOnce
  <2> QED
    BY <1>3, <2>3 DEF OnceIn, Elements
<1>5. Elements(rx)' = {} /\ Flying' = Flying /\ Sending' = Sending
  BY <1>1, NoElement DEF Elements, Flying, Sending
<1>6. LiveMetrics' \subseteq LiveMetrics
  BY <1>2, <1>4, <1>5, LivePlaces, LivePlacesNext
<1>7. OneCopy'
  <2>1. LiveMetrics' \subseteq used'
    BY <1>1, <1>6 DEF OneCopy
  <2> QED
    BY <1>1, <1>2, <1>4, <1>5, <2>1 DEF OneCopy, Apart
<1>8. NoCallLeft'
  BY <1>1 DEF NoCallLeft
<1> QED
  BY <1>1, <1>6, <1>7, <1>8, LoseRefines

\* Only an announcement or DISCONNECT joins the queue.
LEMMA AnnounceFewer ==
    ASSUME Typed, OneCopy, NEW m \in Names \ Metrics,
           Waiting' = Append(Waiting, m) \/ Waiting' = Waiting,
           \A id \in PktId : flight'[id].m \in Metrics => flight'[id].m = flight[id].m,
           UNCHANGED <<rx, mpc, call, used>>
    PROVE  Fewer
<1>1. Waiting \in Seq(Names)
  BY LivePlaces
<1>2. OnceIn(Append(Waiting, m)) /\ Elements(Append(Waiting, m)) = Elements(Waiting) \cup {m}
  BY <1>1, AppendOnce DEF OneCopy
<1>3. OnceIn(Waiting)' /\ Metrics \cap Elements(Waiting)' \subseteq Elements(Waiting)
  <2>1. CASE Waiting' = Append(Waiting, m)
    BY <1>2, <2>1 DEF OnceIn, Elements
  <2>2. CASE Waiting' = Waiting
    BY <2>2 DEF OneCopy, OnceIn, Elements
  <2> QED
    BY <2>1, <2>2
<1> QED
  BY <1>3 DEF Fewer, Sending, Elements

LEMMA ConnAckContract ==
    ASSUME Typed, Typed', Mirror, OneCopy, NoCallLeft,
           NEW session_present \in BOOLEAN, WConnAck(session_present)
    PROVE  OneCopy' /\ NoCallLeft' /\ Refines
<1>1. /\ wpc = "select" /\ net = "down" /\ chan' = SendOnline(chan)
      /\ UNCHANGED <<rx, mpc, call, used, succeeded, done>>
      /\ backlog' = IF session_present THEN backlog ELSE <<>>
      /\ flight' = IF session_present THEN flight ELSE [id \in PktId |-> Free]
  BY DEF WConnAck, ConnAck
<1>2. chan = <<>>
  BY <1>1 DEF Mirror, EmptyOffline, Offline
<1>3. "online" \in Names \ Metrics
  BY Constants, StatusNoMetric DEF Names, Status
<1>4. chan' = <<>> \/ chan' = <<"online">>
  <2>1. Append(<<>>, "online") = <<"online">>
    BY SMT
  <2> QED
    BY <1>1, <1>2, <2>1 DEF SendOnline
<1>5. \A id \in PktId : flight'[id].m \in Metrics => flight'[id].m = flight[id].m
  BY <1>1, StatusNoMetric DEF Free
<1>6. backlog \in Seq(Names) /\ Waiting = backlog
  <2>1. backlog \in Seq(Names)
    BY QueuesTyped
  <2> QED
    BY <1>2, <2>1, ConcatEmptySeq DEF Waiting
<1>7. CASE backlog' = backlog
  <2>1. Waiting' = Waiting \/ Waiting' = Append(Waiting, "online")
    <3>1. backlog \o <<>> = backlog
      BY <1>6, ConcatEmptySeq
    <3>2. backlog \o <<"online">> = Append(backlog, "online")
      BY <1>3, <1>6, AppendIsConcat
    <3> QED
      BY <1>4, <1>6, <1>7, <3>1, <3>2 DEF Waiting
  <2>2. Fewer
    BY <1>1, <1>3, <1>5, <2>1, AnnounceFewer
  <2> QED
    BY <1>1, <2>2, FewerContract
<1>8. CASE backlog' = <<>>
  <2>1. Waiting' = <<>> \/ Waiting' = <<"online">>
    <3>1. <<"online">> \in Seq(Names) /\ <<>> \in Seq(Names)
      BY <1>3, SingleElement, EmptySeq
    <3> QED
      BY <1>4, <1>8, <3>1, ConcatEmptySeq DEF Waiting
  <2>2. OnceIn(Waiting)' /\ Metrics \cap Elements(Waiting)' = {}
    <3>1. OnceIn(<<"online">>) /\ Elements(<<"online">>) = {"online"}
      BY <1>3, SingleElement
    <3> QED
      BY <1>3, <2>1, <3>1, NoElement DEF OnceIn, Elements
  <2>3. Fewer
    BY <1>1, <1>5, <2>2 DEF Fewer, Sending, Elements
  <2> QED
    BY <1>1, <2>3, FewerContract
<1> QED
  BY <1>1, <1>7, <1>8

\* A lost connection: a kept session keeps its messages, a clean one loses them.
LEMMA FailContract ==
    ASSUME Typed, Typed', OneCopy, NoCallLeft, FailConnection
    PROVE  OneCopy' /\ NoCallLeft' /\ Refines
<1>1. UNCHANGED <<rx, mpc, call, used, succeeded, done>>
  BY DEF FailConnection
<1>2. Sending' = Sending
  BY <1>1 DEF Sending
<1>3. CASE CleanSession
  <2>1. FreshClient
    BY <1>3 DEF FailConnection, Reconnecting
  <2> QED
    BY <1>1, <1>2, <2>1, FreshFewer, FewerContract
<1>4. CASE ~CleanSession
  <2>1. /\ chan' = <<>> /\ backlog' = Waiting
        /\ flight' = [id \in PktId |-> [flight[id] EXCEPT !.onwire = FALSE]]
    BY <1>4 DEF FailConnection, Reconnecting, KeepSession, Waiting
  <2>2. Waiting' = Waiting
    BY <2>1, LivePlaces, ConcatEmptySeq DEF Waiting
  <2>3. ASSUME NEW id \in PktId PROVE flight'[id].m = flight[id].m
    <3>1. flight'[id] = [flight[id] EXCEPT !.onwire = FALSE]
      BY <2>1
    <3>2. flight[id] \in Slot
      BY DEF Typed, TypeOK, LibTypeOK
    <3> QED
      BY <3>1, <3>2, SMT DEF Slot, Free, Exchange
  <2>4. Fewer
    BY <1>1, <1>2, <2>2, <2>3 DEF Fewer, OneCopy, OnceIn, Elements
  <2> QED
    BY <1>1, <2>4, FewerContract
<1> QED
  BY <1>3, <1>4

(***************************************************************************)
(* The library, while the worker polls.                                    *)
(***************************************************************************)
\* A write takes the first of the waiting messages.
LEMMA FirstWritten ==
    ASSUME Typed, SendBacklog \/ SendNext
    PROVE  \E r \in Requests : Write(r) /\ <<r>> \o Waiting' = Waiting /\ Waiting' \in Seq(Names)
<1>1. /\ backlog \in Seq(Names) /\ chan \in Seq(Names)
      /\ backlog \in Seq(Requests) /\ chan \in Seq(Requests)
  BY QueuesTyped DEF Typed, TypeOK, LibTypeOK
<1>2. CASE SendBacklog
  <2> DEFINE h == Head(backlog)
             t == Tail(backlog)
  <2>1. /\ Write(h) /\ backlog # <<>> /\ backlog' = t /\ chan' = chan
        /\ h \in Requests /\ t \in Seq(Names)
    BY <1>1, <1>2, HeadTailProperties DEF SendBacklog
  <2>2. h \in Names
    BY <2>1 DEF Names
  <2>3. <<h>> \o t = backlog
    BY <1>1, <2>1, Moved
  <2> HIDE DEF h, t
  <2>4. <<h>> \in Seq(Names)
    BY <2>2, SingleElement
  <2>5. (<<h>> \o t) \o chan = <<h>> \o (t \o chan)
    BY <1>1, <2>1, <2>4, ConcatAssociative
  <2>6. t \o chan \in Seq(Names)
    BY <1>1, <2>1, ConcatProperties
  <2> QED
    BY <2>1, <2>3, <2>5, <2>6 DEF Waiting
<1>3. CASE SendNext
  <2> DEFINE h == Head(chan)
             t == Tail(chan)
  <2>1. /\ Write(h) /\ chan # <<>> /\ chan' = t /\ backlog = <<>> /\ backlog' = <<>>
        /\ h \in Requests /\ t \in Seq(Names)
    BY <1>1, <1>3, HeadTailProperties DEF SendNext
  <2>2. <<h>> \o t = chan
    BY <1>1, <2>1, Moved
  <2> HIDE DEF h, t
  <2>3. <<>> \o t = t /\ <<>> \o chan = chan
    BY <1>1, <2>1, ConcatEmptySeq
  <2> QED
    BY <2>1, <2>2, <2>3 DEF Waiting
<1> QED
  BY <1>2, <1>3

LEMMA SendContractLib ==
    ASSUME Typed, Typed', OneCopy, NoCallLeft, SendBacklog \/ SendNext,
           UNCHANGED <<callerVars, rx>>
    PROVE  OneCopy' /\ NoCallLeft' /\ Refines
<1>1. UNCHANGED <<mpc, call, used, succeeded, rx>>
  BY DEF callerVars
<1>2. PICK r \in Requests :
          Write(r) /\ <<r>> \o Waiting' = Waiting /\ Waiting' \in Seq(Names)
  BY FirstWritten
<1>3. /\ OnceIn(Waiting') /\ r \notin Metrics \cap Elements(Waiting')
      /\ Elements(Waiting) = {r} \cup Elements(Waiting')
  <2>1. r \in Names /\ OnceIn(<<r>> \o Waiting')
    BY <1>2 DEF Names, OneCopy
  <2>2. <<r>> \in Seq(Names) /\ Elements(<<r>>) = {r}
    BY <2>1, SingleElement
  <2>3. Elements(<<r>> \o Waiting') = Elements(<<r>>) \cup Elements(Waiting')
    BY <1>2, <2>2, ConcatElements
  <2> QED
    BY <1>2, <2>1, <2>2, <2>3, TailOnce
<1>4. /\ OnceIn(Waiting)' /\ Elements(Waiting)' = Elements(Waiting')
      /\ Elements(rx)' = Elements(rx) /\ Sending' = Sending
  BY <1>1, <1>3 DEF OnceIn, Elements, Sending
<1>5. NoCallLeft'
  BY <1>1 DEF NoCallLeft
<1>6. CASE r = "disconnect" /\ WriteDisconnect
  <2>1. flight' = flight /\ done' = done
    BY <1>6 DEF WriteDisconnect
  <2>2. Fewer
    BY <1>1, <1>3, <1>4, <2>1 DEF Fewer
  <2> QED
    BY <1>1, <2>1, <2>2, FewerContract
<1>7. CASE WriteFleeting(r)
  <2>1. flight' = flight /\ done' = done \cup {r} /\ r \in Metrics
    BY <1>7 DEF WriteFleeting, Metrics
  <2>2. Fewer
    BY <1>1, <1>3, <1>4, <2>1 DEF Fewer
  <2>3. OneCopy'
    BY <2>2, FewerCopies
  <2>4. r \in LiveMetrics /\ LiveMetrics' = LiveMetrics \ {r}
    <3>1. Flying' = Flying
      BY <2>1 DEF Flying
    <3>2. r \notin Elements(rx) \cup Flying \cup Sending
      BY <1>3, <2>1 DEF OneCopy, Apart
    <3> QED
      BY <1>3, <1>4, <2>1, <3>1, <3>2, LivePlaces, LivePlacesNext
  <2>5. Refines
    BY <1>1, <2>1, <2>4, DeliverRefines
  <2> QED
    BY <1>5, <2>3, <2>5
<1>8. CASE WriteReliable(r)
  <2>1. PICK k \in PktId \ InFlight :
            /\ flight' = [flight EXCEPT ![k] = [m |-> r, stage |-> "pub", onwire |-> TRUE]]
            /\ done' = done
    BY <1>8 DEF WriteReliable
  <2>2. flight \in [PktId -> Slot]
    BY DEF Typed, TypeOK, LibTypeOK
  <2>3. flight'[k].m = r /\ \A id \in PktId \ {k} : flight'[id] = flight[id]
    BY <2>1, <2>2, SMT
  <2>4. flight[k].m \notin Metrics
    <3>1. flight[k] = Free
      <4>1. flight[k] \in Slot /\ flight[k].stage = "free"
        BY <2>1, <2>2 DEF InFlight, Busy
      <4>2. flight[k] \notin Exchange
        BY <4>1, SMT DEF Exchange
      <4> QED
        BY <4>1, <4>2 DEF Slot
    <3> QED
      BY <3>1, StatusNoMetric DEF Free
  <2>5. Metrics \cap Flying' = Metrics \cap (Flying \cup {r})
    BY <2>1, <2>3, <2>4 DEF Flying
  <2>6. LiveMetrics' = LiveMetrics
    BY <1>3, <1>4, <2>5, LivePlaces, LivePlacesNext
  <2>7. ASSUME NEW a \in PktId, NEW b \in PktId, flight'[a].m \in Metrics,
               flight'[a].m = flight'[b].m
        PROVE  a = b
    <3>1. r \in Metrics => \A id \in PktId : flight[id].m # r
      BY <1>3 DEF OneCopy, Apart, Flying
    <3> QED
      BY <2>3, <2>7, <3>1 DEF OneCopy
  <2>8. LiveMetrics' \subseteq used'
    BY <1>1, <2>6 DEF OneCopy
  <2>9. OneCopy'
    BY <1>3, <1>4, <2>5, <2>7, <2>8 DEF OneCopy, Apart
  <2> QED
    BY <1>1, <1>5, <2>1, <2>6, <2>9, LoseRefines
<1> QED
  BY <1>2, <1>6, <1>7, <1>8 DEF Write

\* An acknowledgement delivers the message of its exchange; the other steps of an
\* exchange leave every message where it is.
LEMMA ExchangeContract ==
    ASSUME Typed, Typed', OneCopy, NoCallLeft, NEW k \in PktId,
           Resend(k) \/ PubAck(k) \/ PubRec(k) \/ PubComp(k),
           UNCHANGED <<callerVars, rx>>
    PROVE  OneCopy' /\ NoCallLeft' /\ Refines
<1>1. /\ UNCHANGED <<mpc, call, used, succeeded, rx, backlog, chan>>
      /\ flight[k].stage # "free"
  BY DEF callerVars, Resend, PubAck, PubRec, PubComp, Finish, Readable, Replaying, Busy
<1>2. flight \in [PktId -> Slot] /\ flight[k] \in Exchange
  BY <1>1, SlotUpdates DEF Typed, TypeOK, LibTypeOK
<1>3. /\ OnceIn(Waiting)' /\ Elements(Waiting)' = Elements(Waiting)
      /\ Elements(rx)' = Elements(rx) /\ Sending' = Sending
  BY <1>1 DEF OneCopy, OnceIn, Waiting, Elements, Sending
<1>4. NoCallLeft'
  BY <1>1 DEF NoCallLeft
<1>5. CASE Resend(k) \/ PubRec(k)
  <2>1. done' = done
    BY <1>5 DEF Resend, PubRec
  <2>2. ASSUME NEW id \in PktId PROVE flight'[id].m = flight[id].m
    <3>1. CASE id # k
      BY <1>2, <1>5, <3>1 DEF Resend, PubRec
    <3>2. CASE id = k /\ Resend(k)
      <4>1. flight'[k] = [flight[k] EXCEPT !.onwire = TRUE]
        BY <1>2, <3>2, SMT DEF Resend
      <4> QED
        BY <1>2, <3>2, <4>1, SMT DEF Exchange
    <3>3. CASE id = k /\ PubRec(k)
      <4>1. flight'[k] = [flight[k] EXCEPT !.stage = "rel"]
        BY <1>2, <3>3, SMT DEF PubRec
      <4> QED
        BY <1>2, <3>3, <4>1, SMT DEF Exchange
    <3> QED
      BY <1>5, <3>1, <3>2, <3>3
  <2>3. Fewer
    BY <1>1, <1>3, <2>2 DEF Fewer
  <2> QED
    BY <1>1, <2>1, <2>3, FewerContract
<1>6. CASE PubAck(k) \/ PubComp(k)
  <2> DEFINE m == flight[k].m
  <2>1. flight' = [flight EXCEPT ![k] = Free] /\ done' = done \cup {m}
    BY <1>6 DEF PubAck, PubComp, Finish
  <2>2. /\ flight'[k].m \notin Metrics
        /\ \A id \in PktId \ {k} : flight'[id] = flight[id]
    BY <1>2, <2>1, StatusNoMetric DEF Free
  <2> HIDE DEF m
  <2>3. Fewer
    BY <1>1, <1>3, <2>2 DEF Fewer
  <2>4. CASE m \in Metrics
    <3>1. m \in Flying /\ m \notin Elements(rx) \cup Elements(Waiting) \cup Sending
      BY <2>4 DEF m, Flying, OneCopy, Apart
    <3>2. ASSUME NEW id \in PktId \ {k} PROVE flight[id].m # m
      BY <2>4 DEF m, OneCopy
    <3>3. Metrics \cap Flying' = Metrics \cap (Flying \ {m})
      BY <2>2, <3>2 DEF Flying, m
    <3>4. m \in LiveMetrics /\ LiveMetrics' = LiveMetrics \ {m}
      BY <1>3, <2>4, <3>1, <3>3, LivePlaces, LivePlacesNext
    <3>5. OneCopy'
      BY <2>3, FewerCopies
    <3>6. Refines
      BY <1>1, <2>1, <2>4, <3>4, DeliverRefines
    <3> QED
      BY <1>4, <3>5, <3>6
  <2>5. CASE m \notin Metrics
    <3>1. done' \cap Metrics = done \cap Metrics
      BY <2>1, <2>5
    <3> QED
      BY <1>1, <2>3, <3>1, FewerContract
  <2> QED
    BY <2>4, <2>5
<1> QED
  BY <1>5, <1>6

LEMMA WorkerContract ==
    ASSUME Typed, Typed', Mirror, OneCopy, NoCallLeft, WorkerStep
    PROVE  OneCopy' /\ NoCallLeft' /\ Refines
<1>1. CASE WRefuse \/ WSentFleeting \/ WSentReliable \/ WWake \/ WDrainEvent
           \/ \E a \in acks : WFinish(a)
  <2>1. /\ UNCHANGED <<backlog, chan, flight, mpc, call, used, succeeded, done>>
        /\ rx' = <<>> \/ rx' = rx
    BY <1>1 DEF WRefuse, WSentFleeting, WSentReliable, WWake, WDrainEvent, WFinish,
       libVars, callerVars, sharedVars
  <2>2. Elements(rx)' \subseteq Elements(rx)
    BY <2>1, NoElement DEF Elements
  <2>3. Fewer
    BY <2>1, <2>2 DEF Fewer, OneCopy, Waiting, Sending, OnceIn, Elements
  <2> QED
    BY <2>1, <2>3, FewerContract
<1>2. CASE WBackoffStop \/ WStopOffline \/ WDrainEnd
  <2>1. /\ FreshClient /\ rx' = <<>>
        /\ UNCHANGED <<mpc, call, used, succeeded, done>>
    BY <1>2 DEF WBackoffStop, WStopOffline, WDrainEnd, Exit
  <2>2. Sending' = Sending
    BY <2>1 DEF Sending
  <2> QED
    BY <2>1, <2>2, FreshFewer, FewerContract
<1>3. CASE WStopOnline
  <2>1. /\ chan' = Append(chan, "disconnect") \/ chan' = chan
        /\ UNCHANGED <<backlog, flight, rx, mpc, call, used, succeeded, done>>
    BY <1>3 DEF WStopOnline, callerVars
  <2>2. "disconnect" \in Names \ Metrics
    BY StatusNoMetric DEF Names, Requests
  <2>3. Waiting' = Append(Waiting, "disconnect") \/ Waiting' = Waiting
    BY <2>1, <2>2, WaitingGrows DEF Waiting
  <2>4. Fewer
    BY <2>1, <2>2, <2>3, AnnounceFewer
  <2> QED
    BY <2>1, <2>4, FewerContract
<1>4. CASE WPoll
  <2>1. LibStep /\ UNCHANGED <<callerVars, rx>>
    BY <1>4 DEF WPoll, sharedVars
  <2> QED
    BY <2>1, SendContractLib, ExchangeContract DEF LibStep
<1> QED
  BY <1>1, <1>2, <1>3, <1>4, AcceptContract, ConnAckContract, FailContract
     DEF WorkerStep, WConnFail, WLost

(***************************************************************************)
(* The theorem.                                                            *)
(***************************************************************************)
LEMMA ContractInit == Init => Contracted /\ Contract!Init
<1> SUFFICES ASSUME Init PROVE Contracted /\ Contract!Init
  OBVIOUS
<1>1. Bookkeeping /\ Typed
  BY BookkeepingInit DEF Bookkeeping
<1>2. /\ backlog = <<>> /\ chan = <<>> /\ rx = <<>> /\ mpc = "spawn" /\ call = "none"
      /\ used = {} /\ succeeded = {} /\ done = {} /\ flight = [id \in PktId |-> Free]
  BY DEF Init, LibInit
<1>3. Waiting = <<>>
  BY <1>2, EmptySeq, ConcatEmptySeq DEF Waiting
<1>4. Elements(Waiting) = {} /\ OnceIn(Waiting) /\ Elements(rx) = {} /\ Sending = {}
  BY <1>2, <1>3, NoElement DEF Sending
<1>5. \A id \in PktId : flight[id].m \notin Metrics
  BY <1>2, StatusNoMetric DEF Free
<1>6. LiveMetrics = {}
  BY <1>1, <1>4, <1>5, LivePlaces DEF Flying
<1>7. OneCopy /\ NoCallLeft
  BY <1>2, <1>4, <1>5, <1>6 DEF OneCopy, Apart, NoCallLeft
<1>8. Contract!Init
  BY <1>2, <1>6, StatusNoMetric DEF Contract!Init
<1> QED
  BY <1>1, <1>7, <1>8 DEF Contracted

LEMMA ContractStep == Contracted /\ [Next]_vars => Contracted' /\ Refines
<1> SUFFICES ASSUME Contracted, [Next]_vars PROVE Contracted' /\ Refines
  OBVIOUS
<1>1. /\ Bookkeeping' /\ Typed /\ Typed' /\ Mirror /\ TruthfulSuccess
      /\ OneCopy /\ NoCallLeft
  BY BookkeepingStep DEF Contracted, Bookkeeping
<1>2. CASE Tick \/ UNCHANGED vars
  <2>1. UNCHANGED <<backlog, chan, flight, rx, mpc, call, used, succeeded, done>>
    BY <1>2 DEF Tick, vars, libVars, callerVars, sharedVars
  <2>2. Fewer
    BY <1>1, <2>1, StillFewer DEF Sending
  <2> QED
    BY <1>1, <2>1, <2>2, FewerContract DEF Contracted
<1> QED
  BY <1>1, <1>2, CallerContract, WorkerContract DEF Next, Finished, Contracted

\* The publisher keeps the promise Delivery makes to the reporting loop: one call at
\* a time, true only for a message that was delivered, every message delivered at
\* most once and only if it was published, and none back once it is dropped,
\* refused or lost - through reconnections, resumed sessions and shutdown.
THEOREM PublisherImplementsDelivery == Spec => ImplementsDelivery
<1>1. Init => Contracted /\ Contract!Init
  BY ContractInit
<1>2. Contracted /\ [Next]_vars => Contracted' /\ [Contract!Next]_(Contract!vars)
  BY ContractStep DEF Refines
<1> QED
  BY <1>1, <1>2, PTL DEF Spec, ImplementsDelivery, Contract!Spec

\* A metric is never in two places of the publisher at once, nor twice in a queue:
\* no loss, replay or resumed session makes a second copy of it.
THEOREM OneCopyAtMost == Spec => []OneCopy
<1>1. Contracted => OneCopy
  BY DEF Contracted
<1> QED
  BY <1>1, ContractInit, ContractStep, PTL DEF Spec
=============================================================================
