----------------------------- MODULE LoggerProofs -----------------------------
(***************************************************************************)
(* Theorems about the logger: no record is lost or repeated, both outputs  *)
(* agree on the order, and syslog gets nothing behind a record it missed.  *)
(***************************************************************************)
EXTENDS Logger, FiniteSetTheorems, SequenceTheorems, TLAPS

(***************************************************************************)
(* The inductive invariant.                                                *)
(***************************************************************************)
\* How many handlers a record comes to.
Places == Len(handlers)

\* The chosen handler is first and has the application's name; the extra one of
\* log_to_console is behind it.  Nobody logs before apply_knobs.
Arranged ==
    /\ handlers[1].app = TRUE
    /\ Places \in {1, 2} /\ (Places = 2 => handlers[2] = ExtraConsole)
    /\ ~knobbed => Places = 1 /\ passed = {}
    /\ \A t \in Threads : turn[t] <= Places

\* One thread at most is at a handler, and a thread between the filter and the end of
\* the loop has its latest record in hand.
Exclusive ==
    /\ \A t, u \in Threads : turn[t] # 0 /\ turn[u] # 0 => t = u
    /\ \A t \in waiting : turn[t] = 0
    /\ \A t \in Threads : ~Idle(t) => Record(t) \in passed
    /\ \A r \in passed : r[2] <= calls[r[1]]

\* Record r is past the handler at place h.
Past(r, h) ==
    /\ r \in passed
    /\ \/ r[2] < calls[r[1]]
       \/ r[1] \notin waiting /\ (turn[r[1]] = 0 \/ h < turn[r[1]])

OnSyslog(r) == \E i \in DOMAIN syslog : syslog[i] = r
OnConsole(line) == \E i \in DOMAIN console : console[i] = line

\* The place of the handler that writes lines with (TRUE) or without the application's name.
Place(app) == IF app THEN 1 ELSE 2

\* Nothing is written twice, nor before the record has come to the handler.
NoneTwice ==
    /\ \A i, j \in DOMAIN syslog : syslog[i] = syslog[j] => i = j
    /\ \A i, j \in DOMAIN console : console[i] = console[j] => i = j
    /\ \A r \in Records : OnSyslog(r) => ~OnConsole(<<r, TRUE>>)

NoneEarly ==
    /\ \A r \in Records : OnSyslog(r) => Past(r, 1)
    /\ \A r \in Records, app \in BOOLEAN : OnConsole(<<r, app>>) => Past(r, Place(app))

\* What is past a handler was written, or refused by stderr.
NoneLost ==
    /\ \A r \in Records : Past(r, 1) =>
          OnSyslog(r) \/ OnConsole(<<r, TRUE>>) \/ <<r, TRUE>> \in unwritten
    /\ \A r \in Records : Past(r, 2) /\ Places = 2 =>
          OnConsole(<<r, FALSE>>) \/ <<r, FALSE>> \in unwritten

\* While syslog is in use it has everything.
SyslogWhole ==
    handlers[1].kind # "console" => \A r \in Records : Past(r, 1) => OnSyslog(r)

\* A record between its two handlers is the latest wherever it has been written.
Latest ==
    \A t \in Threads : turn[t] = 2 =>
        /\ \A k \in DOMAIN syslog : syslog[k] = Record(t) => k = Len(syslog)
        /\ \A i \in DOMAIN console : console[i][1] = Record(t) => i = Len(console)

Orderly == TypeOK /\ Arranged /\ Exclusive
Written == NoneTwice /\ NoneEarly /\ NoneLost /\ SyslogWhole

(***************************************************************************)
(* Handlers and mutex.                                                     *)
(***************************************************************************)
LEMMA PlacesAre ==
    /\ Places = 2 <=> Len(handlers) = 2
    /\ Places = 1 <=> Len(handlers) = 1
    /\ Places' = 2 <=> Len(handlers') = 2
    /\ Places \in 1..2 <=> Len(handlers) \in 1..2
    /\ Places' \in 1..2 <=> Len(handlers') \in 1..2
    /\ Places' = Places <=> Len(handlers') = Len(handlers)
<1>1. Places = Len(handlers) /\ Places' = Len(handlers')
  BY DEF Places
<1> QED
  BY <1>1, Zenon

LEMMA InitOrderly == Init => Orderly
<1> SUFFICES ASSUME Init PROVE Orderly
  OBVIOUS
<1>1. \A j \in BOOLEAN, f \in [{1, 2} -> Paths] :
         BuildHandler(j, f) \in {"console", "datagram", "stream"}
  BY DEF BuildHandler, Chosen, Paths
<1>2. PICK k \in {"console", "datagram", "stream"} : handlers = <<[kind |-> k, app |-> TRUE]>>
  BY <1>1 DEF Init
<1>3. /\ handlers \in Seq(Handlers) /\ Len(handlers) = 1
      /\ handlers[1] = [kind |-> k, app |-> TRUE]
  BY <1>2 DEF Handlers
<1>6. Places = 1
  BY <1>3, PlacesAre
<1>4. TypeOK
  <2>1. handlers \in Seq(Handlers) /\ Len(handlers) \in 1..2
    BY <1>3, <1>6, PlacesAre
  <2>2. syslog \in Seq(Records) /\ console \in Seq(Records \X BOOLEAN)
    BY DEF Init
  <2>3. /\ turn \in [Threads -> 0..2] /\ calls \in [Threads -> 0..MaxRecords]
        /\ unread \in 0..SyslogCap
    BY LoggerAssumption DEF Init
  <2>4. /\ debug \in BOOLEAN /\ knobbed \in BOOLEAN /\ gone \in BOOLEAN
        /\ waiting \in SUBSET Threads /\ passed \in SUBSET Records
        /\ unwritten \in SUBSET (Records \X BOOLEAN)
    BY DEF Init
  <2> QED
    BY <2>1, <2>2, <2>3, <2>4 DEF TypeOK
<1>5. Arranged /\ Exclusive
  BY <1>3, <1>6 DEF Init, Arranged, Exclusive, Idle
<1> QED
  BY <1>4, <1>5 DEF Orderly

\* What a record in hand says about its thread's place.
LEMMA InHand ==
    ASSUME Orderly, NEW t \in Threads, turn[t] # 0
    PROVE  /\ knobbed /\ calls[t] \in 1..MaxRecords /\ Record(t) \in Records
           /\ Record(t) \in passed /\ t \notin waiting
           /\ turn[t] <= Places /\ Places \in {1, 2} /\ turn[t] \in {1, 2}
           /\ At(t) \in Handlers
           /\ turn[t] = 2 => At(t) = ExtraConsole /\ Places = 2
           /\ turn[t] = 1 => At(t).app = TRUE
           /\ \A u \in Threads : u # t => turn[u] = 0
<1>1. Record(t) \in passed /\ t \notin waiting /\ \A u \in Threads : u # t => turn[u] = 0
  BY DEF Orderly, Exclusive, Idle
<1>2. Record(t) \in Records /\ calls[t] \in 1..MaxRecords
  BY <1>1 DEF Orderly, TypeOK, Records, Record
<1>3. turn[t] <= Places /\ Places \in {1, 2} /\ turn[t] \in {1, 2}
  BY DEF Orderly, TypeOK, Arranged
<1>4. At(t) \in Handlers
  <2>1. turn[t] \in 1..Len(handlers)
    BY <1>3 DEF Places
  <2> QED
    BY <2>1 DEF Orderly, TypeOK, At
<1>5. turn[t] = 2 => At(t) = ExtraConsole /\ Places = 2
  BY <1>3 DEF Orderly, Arranged, At
<1>6. turn[t] = 1 => At(t).app = TRUE
  BY <1>3 DEF Orderly, Arranged, At
<1> QED
  BY <1>1, <1>2, <1>3, <1>4, <1>5, <1>6 DEF Orderly, Arranged

\* log() writes a record in one of three ways: to the socket, or in its place to the
\* console, or to the console that log_to_console asked for.
ToSocket(t) ==
    /\ turn[t] = 1 /\ handlers[1].kind # "console"
    /\ syslog' = Append(syslog, Record(t)) /\ unread' \in 0..SyslogCap
    /\ UNCHANGED <<handlers, console, unwritten>>

ToConsole(t) ==
    /\ turn[t] = 1 /\ handlers'[1] = [kind |-> "console", app |-> TRUE]
    /\ WriteLine(<<Record(t), TRUE>>)
    /\ handlers' \in Seq(Handlers) /\ Places' = Places
    /\ Places = 2 => handlers'[2] = handlers[2]
    /\ UNCHANGED <<unread, syslog>>

ToExtra(t) ==
    /\ turn[t] = 2 /\ WriteLine(<<Record(t), FALSE>>)
    /\ UNCHANGED <<handlers, unread, syslog>>

LEMMA EmitWrites ==
    ASSUME Orderly, NEW t \in Threads, Emit(t)
    PROVE  /\ turn[t] # 0 /\ Advance(t)
           /\ ToSocket(t) \/ ToConsole(t) \/ ToExtra(t)
<1>0. turn[t] # 0 /\ Advance(t)
  BY DEF Emit, EmitConsole, EmitSyslog, FallBack
<1> USE <1>0
<1>1. /\ turn[t] \in {1, 2} /\ At(t) \in Handlers
      /\ turn[t] = 2 => At(t).kind = "console" /\ At(t).app = FALSE
      /\ turn[t] = 1 => At(t).app = TRUE
  <2>1. turn[t] = 2 => At(t) = ExtraConsole
    BY InHand
  <2>2. ExtraConsole.kind = "console" /\ ExtraConsole.app = FALSE
    BY DEF ExtraConsole
  <2> QED
    BY <2>1, <2>2, InHand DEF At
<1>2. CASE EmitSyslog(t)
  <2>1. turn[t] = 1
    BY <1>1, <1>2 DEF EmitSyslog
  <2>2. unread' \in 0..SyslogCap
    BY <1>2, LoggerAssumption DEF EmitSyslog, Orderly, TypeOK
  <2> QED
    BY <1>2, <2>1, <2>2 DEF EmitSyslog, ToSocket, At
<1>3. CASE EmitConsole(t) /\ turn[t] = 1
  <2>1. handlers[1] = [kind |-> "console", app |-> TRUE] /\ At(t) = handlers[1]
    BY <1>1, <1>3 DEF EmitConsole, At, Handlers
  <2> QED
    BY <1>3, <2>1 DEF EmitConsole, ToConsole, Orderly, TypeOK, Places
<1>4. CASE EmitConsole(t) /\ turn[t] = 2
  BY <1>1, <1>4 DEF EmitConsole, ToExtra
<1>5. CASE FallBack(t)
  <2>1. turn[t] = 1 /\ At(t) = handlers[1] /\ At(t).app = TRUE
    BY <1>1, <1>5 DEF FallBack, At
  <2>2. handlers' = [handlers EXCEPT ![1].kind = "console"]
    BY <1>5, <2>1 DEF FallBack, Replaced
  <2>3. handlers \in Seq(Handlers) /\ Places \in {1, 2}
    BY DEF Orderly, Arranged, TypeOK
  <2>4. [handlers[1] EXCEPT !.kind = "console"] = [kind |-> "console", app |-> TRUE]
    <3>1. PICK k \in {"console", "datagram", "stream"} :
             handlers[1] = [kind |-> k, app |-> TRUE]
      BY <1>1, <2>1 DEF Handlers
    <3>2. \A a : [[kind |-> k, app |-> a] EXCEPT !.kind = "console"]
                  = [kind |-> "console", app |-> a]
      OBVIOUS
    <3> QED
      BY <3>1, <3>2
  <2>5. handlers' = [handlers EXCEPT ![1] = [kind |-> "console", app |-> TRUE]]
    BY <2>2, <2>4
  <2>6. [kind |-> "console", app |-> TRUE] \in Handlers
    BY DEF Handlers
  <2>7. /\ handlers' \in Seq(Handlers) /\ Places' = Places
        /\ handlers'[1] = [kind |-> "console", app |-> TRUE]
        /\ Places = 2 => handlers'[2] = handlers[2]
    BY <2>3, <2>5, <2>6 DEF Places
  <2> QED
    BY <1>5, <2>1, <2>7 DEF FallBack, Retried, ToConsole
<1> QED
  BY <1>1, <1>2, <1>3, <1>4, <1>5 DEF Emit

LEMMA LineTyped ==
    ASSUME NEW S, NEW line \in S, console \in Seq(S), unwritten \in SUBSET S
    PROVE  WriteLine(line) => console' \in Seq(S) /\ unwritten' \in SUBSET S
BY DEF WriteLine

LEMMA EmitOrderly ==
    ASSUME Orderly, NEW t \in Threads, Emit(t)
    PROVE  Orderly'
<1>1. turn[t] # 0 /\ Advance(t) /\ (ToSocket(t) \/ ToConsole(t) \/ ToExtra(t))
  BY EmitWrites
<1> USE <1>1
<1>2. /\ Record(t) \in Records /\ turn[t] <= Places /\ turn[t] \in {1, 2}
      /\ knobbed /\ t \notin waiting /\ \A u \in Threads : u # t => turn[u] = 0
  BY InHand
<1>3. /\ handlers' \in Seq(Handlers) /\ Places' = Places /\ Places \in {1, 2}
      /\ handlers'[1].app = TRUE
      /\ Places = 2 => handlers'[2] = ExtraConsole
  <2>1. CASE handlers' = handlers
    BY <2>1 DEF Orderly, TypeOK, Arranged, Places
  <2>2. CASE ToConsole(t)
    BY <2>2 DEF ToConsole, Orderly, Arranged
  <2> QED
    BY <2>1, <2>2 DEF ToSocket, ToExtra
<1>4. /\ turn' \in [Threads -> 0..2]
      /\ turn'[t] = IF turn[t] = Places THEN 0 ELSE turn[t] + 1
      /\ \A u \in Threads : u # t => turn'[u] = 0
  <2>1. turn \in [Threads -> 0..2] /\ Places \in {1, 2}
    BY DEF Orderly, TypeOK, Arranged
  <2>2. turn' = [turn EXCEPT ![t] = IF turn[t] = Places THEN 0 ELSE turn[t] + 1]
    BY DEF Advance, Places
  <2>3. turn[t] # Places => turn[t] = 1
    BY <1>2, <2>1
  <2> QED
    BY <1>2, <2>1, <2>2, <2>3
<1>5. \A line \in Records \X BOOLEAN : WriteLine(line) =>
         console' \in Seq(Records \X BOOLEAN) /\ unwritten' \in SUBSET (Records \X BOOLEAN)
  <2>1. console \in Seq(Records \X BOOLEAN) /\ unwritten \in SUBSET (Records \X BOOLEAN)
    BY DEF Orderly, TypeOK
  <2> QED
    BY <2>1, LineTyped
<1>6. TypeOK'
  <2>1. console' \in Seq(Records \X BOOLEAN) /\ unwritten' \in SUBSET (Records \X BOOLEAN)
    <3>1. \A app \in BOOLEAN : <<Record(t), app>> \in Records \X BOOLEAN
      BY <1>2
    <3>2. console \in Seq(Records \X BOOLEAN) /\ unwritten \in SUBSET (Records \X BOOLEAN)
      BY DEF Orderly, TypeOK
    <3> QED
      BY <1>5, <3>1, <3>2 DEF ToSocket, ToConsole, ToExtra
  <2>2. syslog' \in Seq(Records) /\ unread' \in 0..SyslogCap
    <3>1. syslog \in Seq(Records) /\ unread \in 0..SyslogCap
      BY DEF Orderly, TypeOK
    <3> QED
      BY <1>2, <3>1 DEF ToSocket, ToConsole, ToExtra
  <2> QED
    <3>1. Len(handlers') \in 1..2
      BY <1>3, PlacesAre
    <3> QED
      BY <1>3, <1>4, <2>1, <2>2, <3>1 DEF TypeOK, Orderly, Advance, Records
<1>7. Arranged'
  BY <1>2, <1>3, <1>4 DEF Arranged, Advance
<1>8. Exclusive'
  BY <1>2, <1>4 DEF Orderly, Exclusive, Advance, Idle, Record
<1> QED
  BY <1>6, <1>7, <1>8 DEF Orderly

LEMMA OrderlyStep ==
    ASSUME Orderly, [Next]_vars
    PROVE  Orderly'
<1> USE DEF Orderly
<1>1. ASSUME NEW knobs \in SUBSET Knobs, ApplyKnobs(knobs)
      PROVE  Orderly'
  <2>1. ExtraConsole \in Handlers /\ Places = 1
    BY <1>1 DEF ApplyKnobs, Arranged, ExtraConsole, Handlers
  <2>2. /\ handlers' \in Seq(Handlers) /\ Places' \in {1, 2}
        /\ handlers'[1] = handlers[1]
        /\ Places' = 2 => handlers'[2] = ExtraConsole
    <3>1. handlers \in Seq(Handlers) /\ Len(handlers) \in Nat
      BY DEF TypeOK
    <3>2. \/ handlers' = Append(handlers, ExtraConsole)
          \/ handlers' = handlers
      BY <1>1 DEF ApplyKnobs
    <3>3. CASE handlers' = Append(handlers, ExtraConsole)
      <4>1. /\ handlers' \in Seq(Handlers) /\ Places' = Places + 1
            /\ handlers'[Places + 1] = ExtraConsole
            /\ \A i \in 1..Places : handlers'[i] = handlers[i]
        <5>1. /\ handlers' \in Seq(Handlers) /\ Len(handlers') = Len(handlers) + 1
              /\ handlers'[Len(handlers) + 1] = ExtraConsole
              /\ \A i \in 1..Len(handlers) : handlers'[i] = handlers[i]
          BY <2>1, <3>1, <3>3, AppendProperties
        <5> QED
          BY <5>1 DEF Places
      <4> QED
        BY <2>1, <4>1
    <3>4. CASE handlers' = handlers
      BY <2>1, <3>1, <3>4 DEF Places
    <3> QED
      BY <3>2, <3>3, <3>4
  <2>3. TypeOK'
    <3>1. Len(handlers') \in 1..2
      BY <2>2, PlacesAre
    <3> QED
      BY <1>1, <2>2, <3>1 DEF ApplyKnobs, TypeOK, threadVars, sinkVars, Records
  <2>4. Arranged'
    <3>1. turn' = turn /\ knobbed' = TRUE
      BY <1>1 DEF ApplyKnobs, threadVars
    <3>2. \A t \in Threads : turn[t] \in Nat /\ turn[t] <= 1
      BY <2>1 DEF Arranged, TypeOK
    <3> QED
      BY <2>2, <3>1, <3>2 DEF Arranged
  <2>5. Exclusive'
    BY <1>1 DEF ApplyKnobs, Exclusive, threadVars, Idle, Record
  <2> QED
    BY <2>3, <2>4, <2>5
<1>2. ASSUME NEW t \in Threads, Log(t)
      PROVE  Orderly'
  <2>1. calls' = [calls EXCEPT ![t] = calls[t] + 1] /\ calls[t] + 1 \in 1..MaxRecords
    BY <1>2, LoggerAssumption DEF Log, TypeOK
  <2>2. \/ waiting' = waiting \cup {t} /\ passed' = passed \cup {<<t, calls[t] + 1>>}
        \/ UNCHANGED <<waiting, passed>>
    BY <1>2 DEF Log
  <2>3. TypeOK'
    BY <1>2, <2>1, <2>2 DEF Log, TypeOK, sinkVars, Records
  <2>4. Arranged'
    BY <1>2 DEF Log, Arranged, Places
  <2>5. Exclusive'
    <3>1. turn' = turn /\ Idle(t)
      BY <1>2 DEF Log
    <3>2. \A u \in Threads : (~Idle(u) => Record(u) \in passed)'
      <4>1. TAKE u \in Threads
      <4>2. CASE u = t
        BY <2>1, <2>2, <3>1, <4>2 DEF Idle, Record, TypeOK
      <4>3. CASE u # t
        BY <2>1, <2>2, <3>1, <4>3 DEF Idle, Record, TypeOK, Exclusive
      <4> QED
        BY <4>2, <4>3
    <3>3. \A r \in passed' : r[2] <= calls'[r[1]]
      <4>1. TAKE r \in passed'
      <4>2. CASE r \in passed
        BY <2>1, <4>2 DEF TypeOK, Exclusive, Records
      <4>3. CASE r = <<t, calls[t] + 1>>
        BY <2>1, <4>3 DEF TypeOK
      <4> QED
        BY <2>2, <4>2, <4>3
    <3>4. \A u \in waiting' : turn'[u] = 0
      BY <2>2, <3>1 DEF Exclusive, Idle
    <3> QED
      BY <3>1, <3>2, <3>3, <3>4 DEF Exclusive
  <2> QED
    BY <2>3, <2>4, <2>5
<1>3. ASSUME NEW t \in Threads, Lock(t)
      PROVE  Orderly'
  <2>1. /\ turn' = [turn EXCEPT ![t] = 1] /\ waiting' = waiting \ {t} /\ t \in waiting
        /\ \A u \in Threads : turn[u] = 0
    BY <1>3 DEF Lock, Free
  <2>2. TypeOK'
    BY <1>3, <2>1 DEF Lock, TypeOK, sinkVars, Records
  <2>3. Arranged'
    BY <1>3, <2>1 DEF Lock, Arranged, TypeOK, Places
  <2>4. Exclusive'
    BY <1>3, <2>1 DEF Lock, Exclusive, TypeOK, Idle, Record
  <2> QED
    BY <2>2, <2>3, <2>4
<1>4. ASSUME NEW t \in Threads, Emit(t)
      PROVE  Orderly'
  BY <1>4, EmitOrderly
<1>5. CASE Read \/ Leave
  <2>1. TypeOK'
    <3>1. unread' \in 0..SyslogCap
      <4>1. unread \in 0..SyslogCap
        BY DEF TypeOK
      <4> QED
        BY <1>5, <4>1, LoggerAssumption DEF Read, Leave
    <3>2. gone' \in BOOLEAN
      BY <1>5 DEF Read, Leave, TypeOK
    <3> QED
      BY <1>5, <3>1, <3>2 DEF Read, Leave, TypeOK, threadVars, Records
  <2>2. Arranged' /\ Exclusive'
    BY <1>5 DEF Read, Leave, Arranged, Places, Exclusive, threadVars, Idle, Record
  <2> QED
    BY <2>1, <2>2
<1>6. CASE UNCHANGED vars
  BY <1>6 DEF vars, threadVars, sinkVars, TypeOK, Records, Arranged, Places, Exclusive, Idle, Record
<1> QED
  BY <1>1, <1>2, <1>3, <1>4, <1>5, <1>6 DEF Next, Finished

\* The logger's variables have their types: init_logger leaves one handler,
\* apply_knobs adds at most one, and the fallback replaces a handler in place.
THEOREM TypeCorrect == Spec => []TypeOK
<1>1. Orderly /\ [Next]_vars => Orderly'
  BY OrderlyStep
<1>2. Orderly => TypeOK
  BY DEF Orderly
<1> QED
  BY InitOrderly, <1>1, <1>2, PTL DEF Spec

(***************************************************************************)
(* Records and what is written of them.                                    *)
(***************************************************************************)
\* A step of the loop over the handlers takes the record in hand past one of them.
LEMMA PastEmit ==
    ASSUME Orderly, NEW t \in Threads, turn[t] # 0, Advance(t)
    PROVE  /\ \A r \in Records, h \in {1, 2} : Past(r, h) => Past(r, h)'
           /\ \A r \in Records, h \in {1, 2} : r # Record(t) => (Past(r, h)' => Past(r, h))
           /\ ~Past(Record(t), turn[t]) /\ ~Past(Record(t), 2)
           /\ \A h \in {1, 2} : h = turn[t] => Past(Record(t), h)'
           /\ turn[t] = 1 /\ Places = 2 => ~Past(Record(t), 2)'
           /\ turn[t] = 2 => Past(Record(t), 1)
           /\ Record(t)' = Record(t)
<1>1. /\ turn[t] \in {1, 2} /\ Places \in {1, 2} /\ turn[t] <= Places
      /\ t \notin waiting /\ calls[t] \in 1..MaxRecords /\ Record(t) \in passed
      /\ \A u \in Threads : u # t => turn[u] = 0
  BY InHand
<1>2. turn \in [Threads -> 0..2] /\ \A r \in Records : r[1] \in Threads /\ r[2] \in 1..MaxRecords
  BY DEF Orderly, TypeOK, Records
<1>3. /\ turn'[t] = IF turn[t] = Places THEN 0 ELSE turn[t] + 1
      /\ \A u \in Threads : u # t => turn'[u] = turn[u]
  BY <1>2 DEF Advance, Places
<1>4. UNCHANGED <<waiting, calls, passed>> /\ Record(t)' = Record(t)
  BY DEF Advance, Record
<1>5. Record(t)[1] = t /\ Record(t)[2] = calls[t] /\ ~(calls[t] < calls[t])
  BY <1>1 DEF Record
<1>6. ~Past(Record(t), turn[t]) /\ ~Past(Record(t), 2)
  BY <1>1, <1>5 DEF Past
<1>7. turn[t] = 2 => Past(Record(t), 1)
  BY <1>1, <1>5 DEF Past
<1>8. turn'[t] = 0 \/ (turn[t] = 1 /\ turn'[t] = 2)
  <2>1. turn[t] = Places \/ turn[t] = 1
    BY <1>1
  <2>2. turn[t] = Places => turn'[t] = 0
    BY <1>3
  <2>3. turn[t] # Places => turn'[t] = 2
    BY <1>3, <2>1
  <2> QED
    BY <2>1, <2>2, <2>3
<1>9. \A h \in {1, 2} : h = turn[t] => Past(Record(t), h)'
  BY <1>1, <1>4, <1>5, <1>8 DEF Past
<1>10. turn[t] = 1 /\ Places = 2 => ~Past(Record(t), 2)'
  BY <1>1, <1>3, <1>4, <1>5 DEF Past
<1>11. \A r \in Records, h \in {1, 2} : Past(r, h) => Past(r, h)'
  <2>1. TAKE r \in Records, h \in {1, 2}
  <2>2. r[1] # t => turn'[r[1]] = turn[r[1]]
    BY <1>2, <1>3
  <2>3. CASE r[1] # t
    BY <1>4, <2>2, <2>3 DEF Past
  <2>4. CASE r[1] = t
    BY <1>1, <1>4, <1>8, <2>4 DEF Past
  <2> QED
    BY <2>3, <2>4
<1>12. \A r \in Records, h \in {1, 2} : r # Record(t) => (Past(r, h)' => Past(r, h))
  <2>1. TAKE r \in Records, h \in {1, 2}
  <2>2. CASE r[1] # t
    BY <1>2, <1>3, <1>4, <2>2 DEF Past
  <2>3. CASE r[1] = t /\ r # Record(t)
    <3>1. r[2] # calls[t]
      BY <2>3 DEF Records, Record
    <3>2. r \in passed => r[2] < calls[t]
      BY <1>1, <1>2, <2>3, <3>1 DEF Orderly, Exclusive
    <3> QED
      BY <1>4, <2>3, <3>2 DEF Past
  <2> QED
    BY <2>2, <2>3
<1> QED
  BY <1>4, <1>6, <1>7, <1>9, <1>10, <1>11, <1>12

\* Every other step writes nothing and takes no record past a handler; the handlers
\* change before the first record only.
Silent ==
    /\ UNCHANGED <<syslog, console, unwritten>>
    /\ \A r \in Records, h \in {1, 2} : Past(r, h)' <=> Past(r, h)
    /\ UNCHANGED handlers \/ passed = {}
    /\ \A t \in Threads : turn'[t] = 2 => turn[t] = 2 /\ Record(t)' = Record(t)

LEMMA OtherSteps ==
    ASSUME Orderly, [Next]_vars, ~(\E t \in Threads : Emit(t))
    PROVE  Silent
<1>1. ASSUME NEW knobs \in SUBSET Knobs, ApplyKnobs(knobs)
      PROVE  Silent
  BY <1>1 DEF ApplyKnobs, threadVars, sinkVars, Orderly, Arranged, Silent, Past, Record
<1>2. ASSUME NEW t \in Threads, Log(t)
      PROVE  Silent
  <2>1. /\ calls' = [calls EXCEPT ![t] = calls[t] + 1] /\ calls[t] \in Nat
        /\ t \notin waiting /\ turn[t] = 0 /\ turn' = turn
        /\ UNCHANGED <<handlers, syslog, console, unwritten>>
    BY <1>2 DEF Log, Idle, sinkVars, Orderly, TypeOK
  <2>2. \/ waiting' = waiting \cup {t} /\ passed' = passed \cup {<<t, calls[t] + 1>>}
        \/ UNCHANGED <<waiting, passed>>
    BY <1>2 DEF Log
  <2>3. calls \in [Threads -> 0..MaxRecords]
        /\ \A r \in Records : r[1] \in Threads /\ r[2] \in Nat
    BY DEF Orderly, TypeOK, Records
  <2>4. \A r \in Records, h \in {1, 2} : Past(r, h)' <=> Past(r, h)
    <3>1. TAKE r \in Records, h \in {1, 2}
    <3>2. CASE r[1] # t
      <4>1. /\ calls'[r[1]] = calls[r[1]] /\ (r[1] \in waiting' <=> r[1] \in waiting)
            /\ r \in passed' <=> r \in passed
        BY <2>1, <2>2, <2>3, <3>2
      <4> QED
        BY <2>1, <4>1 DEF Past
    <3>3. CASE r[1] = t /\ r \in passed
      <4>1. r[2] <= calls[t] /\ calls'[t] = calls[t] + 1 /\ r \in passed'
        BY <2>1, <2>2, <2>3, <3>3 DEF Orderly, Exclusive
      <4>2. Past(r, h)
        BY <2>1, <3>3 DEF Past
      <4>3. r[2] < calls'[t]
        BY <2>1, <2>3, <4>1
      <4>4. Past(r, h)'
        BY <3>3, <4>1, <4>3 DEF Past
      <4> QED
        BY <4>2, <4>4
    <3>4. CASE r[1] = t /\ r \notin passed
      <4>1. ~Past(r, h)
        BY <3>4 DEF Past
      <4>2. CASE r \notin passed'
        BY <4>1, <4>2 DEF Past
      <4>3. CASE r \in passed'
        <5>1. r[2] = calls[t] + 1 /\ calls'[t] = calls[t] + 1 /\ t \in waiting'
          BY <2>1, <2>2, <2>3, <3>4, <4>3
        <5> QED
          BY <2>1, <3>4, <4>1, <5>1 DEF Past
      <4> QED
        BY <4>2, <4>3
    <3> QED
      BY <3>2, <3>3, <3>4
  <2>5. \A u \in Threads : turn'[u] = 2 => turn[u] = 2 /\ Record(u)' = Record(u)
    BY <2>1, <2>3 DEF Record
  <2> QED
    BY <2>1, <2>4, <2>5 DEF Silent
<1>3. ASSUME NEW t \in Threads, Lock(t)
      PROVE  Silent
  <2>1. /\ turn' = [turn EXCEPT ![t] = 1] /\ waiting' = waiting \ {t} /\ t \in waiting
        /\ \A u \in Threads : turn[u] = 0
        /\ UNCHANGED <<handlers, calls, passed, syslog, console, unwritten>>
    BY <1>3 DEF Lock, Free, sinkVars
  <2>2. /\ turn \in [Threads -> 0..2] /\ calls \in [Threads -> 0..MaxRecords]
        /\ \A r \in Records : r[1] \in Threads /\ r[2] \in Nat
    BY DEF Orderly, TypeOK, Records
  <2>3. turn'[t] = 1 /\ \A u \in Threads : u # t => turn'[u] = 0
    BY <2>1, <2>2
  <2>4. \A r \in Records, h \in {1, 2} : Past(r, h)' <=> Past(r, h)
    BY <2>1, <2>2, <2>3 DEF Past
  <2>5. \A u \in Threads : turn'[u] = 2 => turn[u] = 2 /\ Record(u)' = Record(u)
    BY <2>3
  <2> QED
    BY <2>1, <2>4, <2>5 DEF Silent
<1>4. CASE Read \/ Leave
  BY <1>4 DEF Read, Leave, threadVars, Silent, Past, Record
<1>5. CASE UNCHANGED vars
  BY <1>5 DEF vars, threadVars, sinkVars, Silent, Past, Record
<1> QED
  BY <1>1, <1>2, <1>3, <1>4, <1>5 DEF Next, Finished

\* Sequence z is s with e behind it, told by positions.
Grown(z, s, e) ==
    /\ Len(z) \in DOMAIN z /\ z[Len(z)] = e /\ Len(z) \notin DOMAIN s
    /\ DOMAIN z \subseteq Nat
    /\ \A i \in DOMAIN s : i \in DOMAIN z /\ z[i] = s[i]
    /\ \A i \in DOMAIN z : i # Len(z) => i \in DOMAIN s /\ i < Len(z)

LEMMA AppendGrows ==
    ASSUME NEW S, NEW s \in Seq(S), NEW e \in S
    PROVE  Grown(Append(s, e), s, e)
<1> DEFINE z == Append(s, e)
<1>1. /\ z \in Seq(S) /\ Len(z) = Len(s) + 1 /\ z[Len(s) + 1] = e
      /\ \A i \in 1..Len(s) : z[i] = s[i]
  BY AppendProperties
<1>2. DOMAIN s = 1..Len(s) /\ DOMAIN z = 1..Len(z) /\ Len(s) \in Nat
  BY <1>1
<1> HIDE DEF z
<1> QED
  BY <1>1, <1>2 DEF Grown, z

LEMMA GrownHas ==
    ASSUME NEW z, NEW s, NEW e, Grown(z, s, e)
    PROVE  \A x : (\E i \in DOMAIN z : z[i] = x) <=> (\E i \in DOMAIN s : s[i] = x) \/ x = e
BY DEF Grown

LEMMA GrownOnce ==
    ASSUME NEW z, NEW s, NEW e, Grown(z, s, e),
           \A i, j \in DOMAIN s : s[i] = s[j] => i = j,
           ~\E i \in DOMAIN s : s[i] = e
    PROVE  \A i, j \in DOMAIN z : z[i] = z[j] => i = j
BY DEF Grown

\* A line that was not on the console is there once, or was refused.
LEMMA LineWritten ==
    ASSUME Orderly, NEW line \in Records \X BOOLEAN, WriteLine(line)
    PROVE  \/ Grown(console', console, line) /\ unwritten' = unwritten
           \/ console' = console /\ unwritten' = unwritten \cup {line}
<1>1. console \in Seq(Records \X BOOLEAN)
  BY DEF Orderly, TypeOK
<1>2. Grown(Append(console, line), console, line)
  BY <1>1, AppendGrows
<1>3. \/ console' = Append(console, line) /\ unwritten' = unwritten
      \/ console' = console /\ unwritten' = unwritten \cup {line}
  BY DEF WriteLine
<1> QED
  BY <1>2, <1>3, Zenon

\* What a step of the loop adds to the outputs: the record in hand to one of them,
\* in its own place, or to the lines refused.
Tells(t, app) ==
    LET line == <<Record(t), app>> IN
    /\ syslog' = syslog
    /\ \/ Grown(console', console, line) /\ unwritten' = unwritten
       \/ console' = console /\ unwritten' = unwritten \cup {line}

LEMMA EmitTells ==
    ASSUME Orderly, NEW t \in Threads, Emit(t)
    PROVE  \/ /\ turn[t] = 1 /\ handlers[1].kind # "console" /\ handlers' = handlers
              /\ Grown(syslog', syslog, Record(t)) /\ UNCHANGED <<console, unwritten>>
           \/ turn[t] = 1 /\ handlers'[1].kind = "console" /\ Tells(t, TRUE)
           \/ turn[t] = 2 /\ handlers' = handlers /\ Tells(t, FALSE)
<1>1. turn[t] # 0 /\ (ToSocket(t) \/ ToConsole(t) \/ ToExtra(t))
  BY EmitWrites
<1>2. Record(t) \in Records
  BY <1>1, InHand
<1>3. <<Record(t), TRUE>> \in Records \X BOOLEAN /\ <<Record(t), FALSE>> \in Records \X BOOLEAN
  BY <1>2
<1>4. CASE ToSocket(t)
  <2>1. syslog \in Seq(Records)
    BY DEF Orderly, TypeOK
  <2>2. Grown(Append(syslog, Record(t)), syslog, Record(t))
    BY <1>2, <2>1, AppendGrows
  <2> QED
    BY <1>4, <2>2, Zenon DEF ToSocket
<1>5. CASE ToConsole(t)
  <2>1. Tells(t, TRUE)
    BY <1>3, <1>5, LineWritten DEF ToConsole, Tells
  <2>2. handlers'[1].kind = "console"
    BY <1>5 DEF ToConsole
  <2> QED
    BY <1>5, <2>1, <2>2 DEF ToConsole
<1>6. CASE ToExtra(t)
  <2>1. Tells(t, FALSE)
    BY <1>3, <1>6, LineWritten DEF ToExtra, Tells
  <2> QED
    BY <1>6, <2>1 DEF ToExtra
<1> QED
  BY <1>1, <1>4, <1>5, <1>6

LEMMA TellsHas ==
    ASSUME NEW t \in Threads, NEW app \in BOOLEAN, NEW r \in Records, r = Record(t),
           Tells(t, app)
    PROVE  /\ \A line : OnConsole(line) => OnConsole(line)'
           /\ \A line : OnConsole(line)' => OnConsole(line) \/ line = <<r, app>>
           /\ unwritten \subseteq unwritten'
           /\ OnConsole(<<r, app>>)' \/ <<r, app>> \in unwritten'
<1>1. CASE Grown(console', console, <<r, app>>) /\ unwritten' = unwritten
  <2>1. \A x : (\E i \in DOMAIN console' : console'[i] = x)
                  <=> (\E i \in DOMAIN console : console[i] = x) \/ x = <<r, app>>
    BY <1>1, GrownHas
  <2> QED
    BY <1>1, <2>1, Zenon DEF OnConsole
<1>2. CASE console' = console /\ unwritten' = unwritten \cup {<<r, app>>}
  BY <1>2, Zenon DEF OnConsole
<1> QED
  BY <1>1, <1>2, Zenon DEF Tells

LEMMA TellsOnce ==
    ASSUME NEW t \in Threads, NEW app \in BOOLEAN, NEW r \in Records, r = Record(t),
           Tells(t, app), ~OnConsole(<<r, app>>),
           \A i, j \in DOMAIN console : console[i] = console[j] => i = j
    PROVE  (\A i, j \in DOMAIN console : console[i] = console[j] => i = j)'
<1>1. CASE Grown(console', console, <<r, app>>)
  BY <1>1, GrownOnce, Zenon DEF OnConsole
<1>2. CASE console' = console
  BY <1>2, Zenon
<1> QED
  BY <1>1, <1>2, Zenon DEF Tells

LEMMA SocketWritten ==
    ASSUME Orderly, Written, NEW t \in Threads, turn[t] = 1, Advance(t),
           handlers' = handlers, Grown(syslog', syslog, Record(t)),
           UNCHANGED <<console, unwritten>>
    PROVE  Written'
<1>1. PICK r0 \in Records : r0 = Record(t)
  <2>1. turn[t] # 0
    OBVIOUS
  <2> QED
    BY <2>1, InHand
<1>2. /\ \A r \in Records, h \in {1, 2} : Past(r, h) => Past(r, h)'
      /\ \A r \in Records, h \in {1, 2} : r # r0 => (Past(r, h)' => Past(r, h))
      /\ ~Past(r0, 1) /\ Past(r0, 1)' /\ (Places = 2 => ~Past(r0, 2)')
  BY <1>1, PastEmit
<1>3. \A r : OnSyslog(r)' <=> OnSyslog(r) \/ r = r0
  <2>1. \A x : (\E i \in DOMAIN syslog' : syslog'[i] = x)
                  <=> (\E i \in DOMAIN syslog : syslog[i] = x) \/ x = r0
    BY <1>1, GrownHas
  <2> QED
    BY <2>1, Zenon DEF OnSyslog
<1>4. \A line : OnConsole(line)' <=> OnConsole(line)
  BY DEF OnConsole
<1>5. ~OnSyslog(r0) /\ ~OnConsole(<<r0, TRUE>>)
  <2>1. OnConsole(<<r0, TRUE>>) => Past(r0, Place(TRUE))
    BY DEF Written, NoneEarly
  <2> QED
    BY <1>2, <2>1 DEF Written, NoneEarly, Place
<1>6. Places' = Places
  BY DEF Places
<1>7. NoneTwice'
  <2>1. (\A i, j \in DOMAIN syslog : syslog[i] = syslog[j] => i = j)'
    BY <1>1, <1>5, GrownOnce, Zenon DEF OnSyslog, Written, NoneTwice
  <2>2. (\A i, j \in DOMAIN console : console[i] = console[j] => i = j)'
    BY DEF Written, NoneTwice
  <2>3. \A r \in Records : OnSyslog(r)' => ~OnConsole(<<r, TRUE>>)'
    BY <1>3, <1>4, <1>5 DEF Written, NoneTwice
  <2> QED
    BY <2>1, <2>2, <2>3 DEF NoneTwice
<1>8. NoneEarly'
  <2>1. \A r \in Records : OnSyslog(r)' => Past(r, 1)'
    BY <1>2, <1>3 DEF Written, NoneEarly
  <2>2. \A r \in Records, app \in BOOLEAN : OnConsole(<<r, app>>)' => Past(r, Place(app))'
    BY <1>2, <1>4 DEF Written, NoneEarly, Place
  <2> QED
    BY <2>1, <2>2 DEF NoneEarly
<1>9. NoneLost'
  <2>1. \A r \in Records : Past(r, 1)' =>
          OnSyslog(r)' \/ OnConsole(<<r, TRUE>>)' \/ <<r, TRUE>> \in unwritten'
    BY <1>2, <1>3, <1>4 DEF Written, NoneLost
  <2>2. \A r \in Records : Past(r, 2)' /\ Places' = 2 =>
          OnConsole(<<r, FALSE>>)' \/ <<r, FALSE>> \in unwritten'
    BY <1>2, <1>4, <1>6 DEF Written, NoneLost
  <2> QED
    BY <2>1, <2>2 DEF NoneLost
<1>10. SyslogWhole'
  <2>1. handlers[1].kind # "console" => \A r \in Records : Past(r, 1)' => OnSyslog(r)'
    BY <1>2, <1>3 DEF Written, SyslogWhole
  <2> QED
    BY <2>1 DEF SyslogWhole
<1> QED
  BY <1>7, <1>8, <1>9, <1>10 DEF Written

LEMMA ConsoleWritten ==
    ASSUME Orderly, Written, NEW t \in Threads, NEW app \in BOOLEAN, turn[t] = Place(app),
           Advance(t), Tells(t, app), Places' = Places,
           app => handlers'[1].kind = "console", ~app => handlers' = handlers
    PROVE  Written'
<1>0. Place(app) \in {1, 2} /\ (Place(app) = 1 <=> app)
  <2>1. CASE app = TRUE
    BY <2>1 DEF Place
  <2>2. CASE app = FALSE
    BY <2>2 DEF Place
  <2> QED
    BY <2>1, <2>2
<1>1. PICK r0 \in Records : r0 = Record(t)
  <2>1. turn[t] # 0
    BY <1>0
  <2> QED
    BY <2>1, InHand
<1>2. /\ \A r \in Records, h \in {1, 2} : Past(r, h) => Past(r, h)'
      /\ \A r \in Records, h \in {1, 2} : r # r0 => (Past(r, h)' => Past(r, h))
      /\ ~Past(r0, Place(app)) /\ Past(r0, Place(app))'
      /\ app /\ Places = 2 => ~Past(r0, 2)'
      /\ ~app => Past(r0, 1)
  BY <1>0, <1>1, PastEmit
<1>3. \A r : OnSyslog(r)' <=> OnSyslog(r)
  BY DEF OnSyslog, Tells
<1>4. /\ \A line : OnConsole(line) => OnConsole(line)'
      /\ \A line : OnConsole(line)' => OnConsole(line) \/ line = <<r0, app>>
      /\ unwritten \subseteq unwritten'
      /\ OnConsole(<<r0, app>>)' \/ <<r0, app>> \in unwritten'
  BY <1>1, TellsHas
<1>5. ~OnConsole(<<r0, app>>)
  BY <1>2 DEF Written, NoneEarly
<1>6. NoneTwice'
  <2>1. (\A i, j \in DOMAIN syslog : syslog[i] = syslog[j] => i = j)'
    BY DEF Written, NoneTwice, Tells
  <2>2. (\A i, j \in DOMAIN console : console[i] = console[j] => i = j)'
    BY <1>1, <1>5, TellsOnce, Zenon DEF Written, NoneTwice
  <2>3. app => ~OnSyslog(r0)
    BY <1>0, <1>2 DEF Written, NoneEarly
  <2>4. \A r \in Records : OnSyslog(r)' => ~OnConsole(<<r, TRUE>>)'
    BY <1>3, <1>4, <2>3 DEF Written, NoneTwice
  <2> QED
    BY <2>1, <2>2, <2>4 DEF NoneTwice
<1>7. NoneEarly'
  <2>1. \A r \in Records : OnSyslog(r)' => Past(r, 1)'
    BY <1>2, <1>3 DEF Written, NoneEarly
  <2>2. ASSUME NEW r \in Records, NEW a \in BOOLEAN, OnConsole(<<r, a>>)'
        PROVE  Past(r, Place(a))'
    <3>1. CASE OnConsole(<<r, a>>)
      <4>1. Place(a) \in {1, 2}
        BY DEF Place
      <4> QED
        BY <1>2, <3>1, <4>1 DEF Written, NoneEarly
    <3>2. CASE r = r0 /\ a = app
      BY <1>2, <3>2
    <3> QED
      BY <1>4, <2>2, <3>1, <3>2
  <2> QED
    BY <2>1, <2>2 DEF NoneEarly
<1>8. NoneLost'
  <2>1. ASSUME NEW r \in Records, Past(r, 1)'
        PROVE  OnSyslog(r)' \/ OnConsole(<<r, TRUE>>)' \/ <<r, TRUE>> \in unwritten'
    <3>1. CASE Past(r, 1)
      BY <1>3, <1>4, <3>1 DEF Written, NoneLost
    <3>2. CASE ~Past(r, 1)
      <4>1. r = r0 /\ app = TRUE
        BY <1>2, <2>1, <3>2
      <4> QED
        BY <1>4, <4>1
    <3> QED
      BY <3>1, <3>2
  <2>2. ASSUME NEW r \in Records, Past(r, 2)', Places = 2
        PROVE  OnConsole(<<r, FALSE>>)' \/ <<r, FALSE>> \in unwritten'
    <3>1. CASE Past(r, 2)
      BY <1>4, <2>2, <3>1 DEF Written, NoneLost
    <3>2. CASE ~Past(r, 2)
      <4>1. r = r0 /\ app = FALSE
        BY <1>2, <2>2, <3>2
      <4> QED
        BY <1>4, <4>1
    <3> QED
      BY <3>1, <3>2
  <2> QED
    BY <2>1, <2>2 DEF NoneLost
<1>9. SyslogWhole'
  <2>1. CASE app
    BY <2>1 DEF SyslogWhole
  <2>2. CASE ~app
    <3>1. \A r \in Records : Past(r, 1)' => Past(r, 1)
      BY <1>2, <2>2
    <3>2. handlers[1].kind # "console" => \A r \in Records : Past(r, 1)' => OnSyslog(r)'
      BY <1>3, <3>1 DEF Written, SyslogWhole
    <3> QED
      BY <2>2, <3>2 DEF SyslogWhole
  <2> QED
    BY <2>1, <2>2
<1> QED
  BY <1>6, <1>7, <1>8, <1>9 DEF Written

LEMMA EmitWritten ==
    ASSUME Orderly, Written, NEW t \in Threads, Emit(t)
    PROVE  Written'
<1>1. turn[t] # 0 /\ Advance(t) /\ Places' = Places
  BY EmitWrites DEF ToSocket, ToConsole, ToExtra, Places
<1>2. CASE /\ turn[t] = 1 /\ handlers[1].kind # "console" /\ handlers' = handlers
           /\ Grown(syslog', syslog, Record(t)) /\ UNCHANGED <<console, unwritten>>
  BY <1>1, <1>2, SocketWritten
<1>3. CASE turn[t] = 1 /\ handlers'[1].kind = "console" /\ Tells(t, TRUE)
  <2>1. turn[t] = Place(TRUE)
    BY <1>3 DEF Place
  <2> QED
    BY <1>1, <1>3, <2>1, ConsoleWritten
<1>4. CASE turn[t] = 2 /\ handlers' = handlers /\ Tells(t, FALSE)
  <2>1. turn[t] = Place(FALSE)
    BY <1>4 DEF Place
  <2> QED
    BY <1>1, <1>4, <2>1, ConsoleWritten
<1> QED
  BY <1>2, <1>3, <1>4, EmitTells

LEMMA SilentWritten ==
    ASSUME Orderly, Written, Silent
    PROVE  Written'
<1>1. /\ \A r : OnSyslog(r)' <=> OnSyslog(r)
      /\ \A line : OnConsole(line)' <=> OnConsole(line)
      /\ unwritten' = unwritten
      /\ \A r \in Records, h \in {1, 2} : Past(r, h)' <=> Past(r, h)
  BY DEF Silent, OnSyslog, OnConsole
<1>2. passed = {} => \A r, h : ~Past(r, h)
  BY DEF Past
<1>3. \A app \in BOOLEAN : Place(app) \in {1, 2}
  BY DEF Place
<1>4. NoneTwice'
  <2>1. \A r \in Records : OnSyslog(r)' => ~OnConsole(<<r, TRUE>>)'
    BY <1>1 DEF Written, NoneTwice
  <2> QED
    BY <2>1 DEF Silent, Written, NoneTwice
<1>5. NoneEarly'
  <2>1. \A r \in Records : OnSyslog(r)' => Past(r, 1)'
    BY <1>1 DEF Written, NoneEarly
  <2>2. \A r \in Records, app \in BOOLEAN : OnConsole(<<r, app>>)' => Past(r, Place(app))'
    BY <1>1, <1>3 DEF Written, NoneEarly
  <2> QED
    BY <2>1, <2>2 DEF NoneEarly
<1>6. NoneLost'
  <2>1. \A r \in Records : Past(r, 1)' =>
          OnSyslog(r)' \/ OnConsole(<<r, TRUE>>)' \/ <<r, TRUE>> \in unwritten'
    BY <1>1 DEF Written, NoneLost
  <2>2. \A r \in Records : Past(r, 2)' /\ Places' = 2 =>
          OnConsole(<<r, FALSE>>)' \/ <<r, FALSE>> \in unwritten'
    <3>1. CASE passed = {}
      BY <1>1, <1>2, <3>1
    <3>2. CASE handlers' = handlers
      <4>1. Places' = Places
        BY <3>2 DEF Places
      <4> QED
        BY <1>1, <4>1 DEF Written, NoneLost
    <3> QED
      BY <3>1, <3>2 DEF Silent
  <2> QED
    BY <2>1, <2>2 DEF NoneLost
<1>7. SyslogWhole'
  <2>1. CASE passed = {}
    <3>1. \A r \in Records : ~Past(r, 1)'
      BY <1>1, <1>2, <2>1
    <3> QED
      BY <3>1 DEF SyslogWhole
  <2>2. CASE handlers' = handlers
    <3>1. handlers[1].kind # "console" => \A r \in Records : Past(r, 1)' => OnSyslog(r)'
      BY <1>1 DEF Written, SyslogWhole
    <3> QED
      BY <2>2, <3>1 DEF SyslogWhole
  <2> QED
    BY <2>1, <2>2 DEF Silent
<1> QED
  BY <1>4, <1>5, <1>6, <1>7 DEF Written

(***************************************************************************)
(* The order of the outputs.                                               *)
(***************************************************************************)
\* What a record in hand has been written to before the handler its thread is at.
LEMMA NotYet ==
    ASSUME Orderly, Written, NEW t \in Threads, turn[t] # 0
    PROVE  turn[t] = 1 => /\ \A k \in DOMAIN syslog : syslog[k] # Record(t)
                          /\ \A i \in DOMAIN console : console[i][1] # Record(t)
<1> SUFFICES ASSUME turn[t] = 1
             PROVE  /\ \A k \in DOMAIN syslog : syslog[k] # Record(t)
                    /\ \A i \in DOMAIN console : console[i][1] # Record(t)
  OBVIOUS
<1>1. Record(t) \in Records /\ ~Past(Record(t), 1) /\ ~Past(Record(t), 2)
  <2>1. t \notin waiting /\ calls[t] \in 1..MaxRecords /\ Record(t) \in Records
    BY InHand
  <2>2. Record(t)[1] = t /\ Record(t)[2] = calls[t] /\ ~(calls[t] < calls[t])
    BY <2>1 DEF Record
  <2> QED
    BY <2>1, <2>2 DEF Past
<1>2. \A k \in DOMAIN syslog : syslog[k] # Record(t)
  BY <1>1 DEF Written, NoneEarly, OnSyslog
<1>3. ASSUME NEW i \in DOMAIN console, console[i][1] = Record(t)
      PROVE  FALSE
  <2>1. PICK r \in Records, app \in BOOLEAN : console[i] = <<r, app>>
    BY DEF Orderly, TypeOK
  <2>2. OnConsole(<<r, app>>) /\ r = Record(t)
    BY <1>3, <2>1 DEF OnConsole
  <2>3. Past(r, Place(app))
    BY <2>2 DEF Written, NoneEarly
  <2> QED
    BY <1>1, <2>2, <2>3 DEF Place
<1> QED
  BY <1>2, <1>3

LEMMA Positions ==
    ASSUME Orderly
    PROVE  /\ \A k \in DOMAIN syslog : k \in Nat /\ k <= Len(syslog)
           /\ \A i \in DOMAIN console : i \in Nat /\ i <= Len(console)
           /\ Len(syslog) \in Nat /\ Len(console) \in Nat
<1>1. syslog \in Seq(Records) /\ console \in Seq(Records \X BOOLEAN)
  BY DEF Orderly, TypeOK
<1> QED
  BY <1>1, LenProperties

\* Only the thread at its first handler comes to a second one.
LEMMA TurnOfEmit ==
    ASSUME Orderly, NEW t \in Threads, turn[t] # 0, Advance(t)
    PROVE  /\ \A u \in Threads : turn'[u] = 2 => u = t /\ turn[t] = 1
           /\ Record(t)' = Record(t)
<1>1. /\ turn[t] \in {1, 2} /\ Places \in {1, 2} /\ turn[t] <= Places
      /\ \A u \in Threads : u # t => turn[u] = 0
  BY InHand
<1>2. turn' = [turn EXCEPT ![t] = IF turn[t] = Places THEN 0 ELSE turn[t] + 1]
  BY DEF Advance, Places
<1>3. turn \in [Threads -> 0..2]
  BY DEF Orderly, TypeOK
<1>4. \A u \in Threads : u # t => turn'[u] = 0
  BY <1>1, <1>2, <1>3
<1>5. turn[t] = 2 => turn'[t] = 0
  <2>1. turn[t] = 2 => turn[t] = Places
    BY <1>1
  <2> QED
    BY <1>2, <1>3, <2>1
<1> QED
  BY <1>1, <1>4, <1>5 DEF Advance, Record

LEMMA SocketOrdered ==
    ASSUME Orderly, Written, SameOrder, NEW t \in Threads, turn[t] = 1, Advance(t),
           Grown(syslog', syslog, Record(t)), console' = console
    PROVE  SameOrder' /\ Latest'
<1>0. turn[t] # 0
  OBVIOUS
<1>1. PICK r : r = Record(t)
  OBVIOUS
<1>2. /\ \A k \in DOMAIN syslog : syslog[k] # r
      /\ \A i \in DOMAIN console : console[i][1] # r
  BY <1>0, <1>1, NotYet
<1>3. Grown(syslog', syslog, r)
  BY <1>1
<1>4. Latest'
  <2>1. \A u \in Threads : turn'[u] = 2 => u = t
    BY <1>0, TurnOfEmit
  <2>2. Record(t)' = r
    BY <1>0, <1>1, TurnOfEmit
  <2>3. \A k \in DOMAIN syslog' : syslog'[k] = r => k = Len(syslog')
    BY <1>2, <1>3 DEF Grown
  <2>4. \A i \in DOMAIN console' : console'[i][1] = r => i = Len(console')
    BY <1>2
  <2> QED
    BY <2>1, <2>2, <2>3, <2>4 DEF Latest
<1>5. ASSUME NEW i \in DOMAIN console, NEW j \in DOMAIN console,
             NEW k \in DOMAIN syslog', NEW l \in DOMAIN syslog',
             i < j, k < l, console[i][1] = syslog'[l], console[j][1] = syslog'[k]
      PROVE  syslog'[k] = syslog'[l]
  <2>1. k # Len(syslog') /\ l # Len(syslog')
    BY <1>2, <1>3, <1>5 DEF Grown
  <2>2. k \in DOMAIN syslog /\ l \in DOMAIN syslog
        /\ syslog'[k] = syslog[k] /\ syslog'[l] = syslog[l]
    BY <1>3, <2>1 DEF Grown
  <2> QED
    BY <1>5, <2>2 DEF SameOrder
<1> QED
  BY <1>4, <1>5 DEF SameOrder

LEMMA ConsoleOrdered ==
    ASSUME Orderly, Written, Latest, SameOrder, NEW t \in Threads, NEW app \in BOOLEAN,
           turn[t] # 0, Advance(t), Tells(t, app)
    PROVE  SameOrder' /\ Latest'
<1>1. PICK r : r = Record(t)
  OBVIOUS
<1>2. /\ turn[t] = 1 => /\ \A k \in DOMAIN syslog : syslog[k] # r
                        /\ \A i \in DOMAIN console : console[i][1] # r
      /\ turn[t] = 2 => /\ \A k \in DOMAIN syslog : syslog[k] = r => k = Len(syslog)
                        /\ \A i \in DOMAIN console : console[i][1] = r => i = Len(console)
      /\ turn[t] \in {1, 2}
  BY <1>1, NotYet, InHand DEF Latest
<1>3. \A k \in DOMAIN syslog : k \in Nat /\ k <= Len(syslog)
  BY Positions
<1>4. \A i \in DOMAIN console : i \in Nat /\ i <= Len(console)
  BY Positions
<1>5. Len(syslog) \in Nat /\ Len(console) \in Nat /\ syslog' = syslog
  BY Positions DEF Tells
<1>6. CASE console' = console
  <2>1. SameOrder'
    BY <1>5, <1>6 DEF SameOrder
  <2>2. Latest'
    <3>1. \A u \in Threads : turn'[u] = 2 => u = t /\ turn[t] = 1
      BY TurnOfEmit
    <3>2. Record(t)' = r
      BY <1>1, TurnOfEmit
    <3> QED
      BY <1>2, <1>5, <1>6, <3>1, <3>2 DEF Latest
  <2> QED
    BY <2>1, <2>2
<1>7. CASE Grown(console', console, <<r, app>>)
  <2>1. Latest'
    <3>1. \A u \in Threads : turn'[u] = 2 => u = t /\ turn[t] = 1
      BY TurnOfEmit
    <3>2. Record(t)' = r
      BY <1>1, TurnOfEmit
    <3>3. turn[t] = 1 => \A i \in DOMAIN console' : console'[i][1] = r => i = Len(console')
      BY <1>2, <1>7 DEF Grown
    <3> QED
      BY <1>2, <1>5, <3>1, <3>2, <3>3 DEF Latest
  <2>2. ASSUME NEW i \in DOMAIN console', NEW j \in DOMAIN console',
               NEW k \in DOMAIN syslog, NEW l \in DOMAIN syslog,
               i < j, k < l, console'[i][1] = syslog[l], console'[j][1] = syslog[k]
        PROVE  syslog[k] = syslog[l]
    <3>1. i # Len(console') /\ i \in DOMAIN console /\ console'[i] = console[i]
      BY <1>7, <2>2 DEF Grown
    <3>2. CASE j = Len(console')
      <4>1. syslog[k] = r
        BY <1>7, <2>2, <3>2 DEF Grown
      <4>2. k # Len(syslog)
        BY <1>3, <1>5, <2>2
      <4> QED
        BY <1>2, <4>1, <4>2
    <3>3. CASE j # Len(console')
      <4>1. j \in DOMAIN console /\ console'[j] = console[j]
        BY <1>7, <3>3 DEF Grown
      <4> QED
        BY <2>2, <3>1, <4>1 DEF SameOrder
    <3> QED
      BY <3>2, <3>3
  <2>3. ASSUME NEW i \in DOMAIN console', NEW j \in DOMAIN console', NEW k \in DOMAIN console',
               i < j, j < k, console'[i][1] = console'[k][1]
        PROVE  console'[j][1] = console'[i][1]
    <3>1. /\ i \in DOMAIN console /\ console'[i] = console[i]
          /\ j \in DOMAIN console /\ console'[j] = console[j]
      BY <1>7, <2>3 DEF Grown
    <3>2. CASE k = Len(console')
      <4>1. console[i][1] = r
        BY <1>7, <2>3, <3>1, <3>2 DEF Grown
      <4>2. i # Len(console)
        BY <1>4, <1>5, <2>3, <3>1
      <4> QED
        BY <1>2, <3>1, <4>1, <4>2
    <3>3. CASE k # Len(console')
      <4>1. k \in DOMAIN console /\ console'[k] = console[k]
        BY <1>7, <3>3 DEF Grown
      <4> QED
        BY <2>3, <3>1, <4>1 DEF SameOrder
    <3> QED
      BY <3>2, <3>3
  <2> QED
    BY <1>5, <2>1, <2>2, <2>3 DEF SameOrder
<1> QED
  BY <1>1, <1>6, <1>7 DEF Tells

LEMMA SilentOrdered ==
    ASSUME Latest, SameOrder, Silent
    PROVE  SameOrder' /\ Latest'
<1>1. SameOrder'
  BY DEF Silent, SameOrder
<1>2. Latest'
  BY DEF Silent, Latest
<1> QED
  BY <1>1, <1>2

(***************************************************************************)
(* The invariant and what follows from it.                                 *)
(***************************************************************************)
Sound == Orderly /\ Written /\ Latest /\ SameOrder

LEMMA InitSound == Init => Sound
<1> SUFFICES ASSUME Init PROVE Sound
  OBVIOUS
<1>1. passed = {} /\ DOMAIN syslog = {} /\ DOMAIN console = {} /\ syslog = <<>> /\ console = <<>>
  BY DEF Init
<1>2. \A r, h : ~Past(r, h) /\ ~OnSyslog(r) /\ ~OnConsole(r)
  BY <1>1 DEF Past, OnSyslog, OnConsole
<1>3. Written
  BY <1>1, <1>2 DEF Written, NoneTwice, NoneEarly, NoneLost, SyslogWhole
<1>4. Latest /\ SameOrder
  BY <1>1 DEF Latest, SameOrder
<1> QED
  BY <1>3, <1>4, InitOrderly DEF Sound

LEMMA EmitSound ==
    ASSUME Sound, NEW t \in Threads, Emit(t)
    PROVE  Sound'
<1>1. turn[t] # 0 /\ Advance(t)
  BY EmitWrites DEF Sound
<1>2. Orderly' /\ Written'
  BY EmitOrderly, EmitWritten DEF Sound
<1>3. CASE turn[t] = 1 /\ Grown(syslog', syslog, Record(t)) /\ console' = console
  BY <1>1, <1>2, <1>3, SocketOrdered DEF Sound
<1>4. CASE Tells(t, TRUE) \/ Tells(t, FALSE)
  BY <1>1, <1>2, <1>4, ConsoleOrdered DEF Sound
<1> QED
  BY <1>3, <1>4, EmitTells DEF Sound

LEMMA SoundStep ==
    ASSUME Sound, [Next]_vars
    PROVE  Sound'
<1>1. CASE \E t \in Threads : Emit(t)
  BY <1>1, EmitSound
<1>2. CASE ~\E t \in Threads : Emit(t)
  <2>1. Silent /\ Orderly'
    BY <1>2, OtherSteps, OrderlyStep DEF Sound
  <2> QED
    BY <2>1, SilentWritten, SilentOrdered DEF Sound
<1> QED
  BY <1>1, <1>2

\* The loop over the handlers keeps, at each of its places, what it owes to the record
\* in hand and to those behind it: log.rs, emit and fallback under the mutex.
THEOREM AlwaysSound == Spec => []Sound
BY InitSound, SoundStep, PTL DEF Spec

\* In a sequence without repetition each value occurs once or not at all.
Times(s, x) == Cardinality({i \in DOMAIN s : s[i] = x})

LEMMA Occurrences ==
    ASSUME NEW s, \A i, j \in DOMAIN s : s[i] = s[j] => i = j, NEW x
    PROVE  /\ (\E i \in DOMAIN s : s[i] = x) => Times(s, x) = 1
           /\ ~(\E i \in DOMAIN s : s[i] = x) => Times(s, x) = 0
<1> DEFINE T == {i \in DOMAIN s : s[i] = x}
<1>1. ASSUME NEW k \in DOMAIN s, s[k] = x
      PROVE  Times(s, x) = 1
  <2>1. T = {k}
    BY <1>1
  <2> QED
    BY <2>1, FS_Singleton DEF Times
<1>2. ASSUME ~\E i \in DOMAIN s : s[i] = x
      PROVE  Times(s, x) = 0
  <2>1. T = {}
    BY <1>2
  <2> QED
    BY <2>1, FS_EmptySet DEF Times
<1> QED
  BY <1>1, <1>2

LEMMA Counts ==
    ASSUME Sound, NEW r
    PROVE  /\ OnSyslog(r) => Packets(r) = 1
           /\ ~OnSyslog(r) => Packets(r) = 0
           /\ \A app : OnConsole(<<r, app>>) => Lines(r, app) = 1
           /\ \A app : ~OnConsole(<<r, app>>) => Lines(r, app) = 0
<1>1. /\ \A i, j \in DOMAIN syslog : syslog[i] = syslog[j] => i = j
      /\ \A i, j \in DOMAIN console : console[i] = console[j] => i = j
  BY DEF Sound, Written, NoneTwice
<1>2. Packets(r) = Times(syslog, r) /\ \A app : Lines(r, app) = Times(console, <<r, app>>)
  BY Zenon DEF Packets, Lines, Times
<1>3. (OnSyslog(r) => Packets(r) = 1) /\ (~OnSyslog(r) => Packets(r) = 0)
  BY <1>1, <1>2, Occurrences, Zenon DEF OnSyslog
<1>4. ASSUME NEW app
      PROVE  /\ OnConsole(<<r, app>>) => Lines(r, app) = 1
             /\ ~OnConsole(<<r, app>>) => Lines(r, app) = 0
  BY <1>1, <1>2, Occurrences, Zenon DEF OnConsole
<1> QED
  BY <1>3, <1>4

LEMMA ReturnedIsPast ==
    ASSUME Sound, NEW r \in Records, Returned(r)
    PROVE  r \in Records /\ Past(r, 1) /\ Past(r, 2)
BY DEF Returned, Past, Idle

LEMMA OneOfTwo ==
    /\ \A p, q : p = 0 /\ q = 0 => p + q <= 1
    /\ \A p, q : p = 1 /\ q = 0 => p + q <= 1 /\ p + q = 1
    /\ \A p, q : p = 0 /\ q = 1 => p + q <= 1 /\ p + q = 1
    /\ \A p : p = 0 \/ p = 1 => p <= 1
OBVIOUS

LEMMA SoundOnce ==
    ASSUME Sound
    PROVE  ExactlyOnce
<1>1. ASSUME NEW r \in Records
      PROVE  Packets(r) + Lines(r, TRUE) <= 1 /\ Lines(r, FALSE) <= 1
  <2>1. ~(OnSyslog(r) /\ OnConsole(<<r, TRUE>>))
    BY DEF Sound, Written, NoneTwice
  <2>2. \/ Packets(r) = 0 /\ Lines(r, TRUE) = 0
        \/ Packets(r) = 0 /\ Lines(r, TRUE) = 1
        \/ Packets(r) = 1 /\ Lines(r, TRUE) = 0
    BY <2>1, Counts, Zenon
  <2>3. Lines(r, FALSE) = 0 \/ Lines(r, FALSE) = 1
    BY Counts, Zenon
  <2> QED
    BY <2>2, <2>3, OneOfTwo, Zenon
<1>2. ASSUME NEW r \in Records, Returned(r)
      PROVE  /\ Packets(r) + Lines(r, TRUE) = 1 \/ <<r, TRUE>> \in unwritten
             /\ Len(handlers) = 2 => Lines(r, FALSE) = 1 \/ <<r, FALSE>> \in unwritten
  <2>1. Past(r, 1) /\ Past(r, 2)
    BY <1>2, ReturnedIsPast
  <2>2. ~(OnSyslog(r) /\ OnConsole(<<r, TRUE>>))
    BY DEF Sound, Written, NoneTwice
  <2>3. OnSyslog(r) \/ OnConsole(<<r, TRUE>>) \/ <<r, TRUE>> \in unwritten
    BY <2>1 DEF Sound, Written, NoneLost
  <2>4. Places = 2 => OnConsole(<<r, FALSE>>) \/ <<r, FALSE>> \in unwritten
    BY <2>1 DEF Sound, Written, NoneLost
  <2>5. Packets(r) + Lines(r, TRUE) = 1 \/ <<r, TRUE>> \in unwritten
    <3>1. \/ <<r, TRUE>> \in unwritten
          \/ Packets(r) = 1 /\ Lines(r, TRUE) = 0
          \/ Packets(r) = 0 /\ Lines(r, TRUE) = 1
      BY <2>2, <2>3, Counts, Zenon
    <3> QED
      BY <3>1, OneOfTwo, Zenon
  <2>6. Places = 2 => Lines(r, FALSE) = 1 \/ <<r, FALSE>> \in unwritten
    BY <2>4, Counts
  <2> QED
    BY <2>5, <2>6, PlacesAre, Zenon
<1> QED
  BY <1>1, <1>2 DEF ExactlyOnce

\* Each record that passes the filter is written once by each handler, to syslog or in
\* its place to the console, or was refused by stderr: under any number of threads, any
\* socket buffer, and wherever in the loop the reader leaves.
THEOREM OnceEach == Spec => []ExactlyOnce
<1>1. Sound => ExactlyOnce
  BY SoundOnce
<1> QED
  BY <1>1, AlwaysSound, PTL

\* Syslog and console show the threads' records in one order, and both lines of a
\* record stand together: the mutex is held across the loop over the handlers.
THEOREM OneOrder == Spec => []SameOrder
<1>1. Sound => SameOrder
  BY DEF Sound
<1> QED
  BY <1>1, AlwaysSound, PTL

\* Once a record has missed syslog, syslog gets no other: the handler that failed was
\* replaced before its record's loop ended, and never comes back.
THEOREM SyslogStaysAway == Spec => NoHoles
<1>1. ASSUME Sound, [Next]_vars, NEW r \in passed, Returned(r), Packets(r) = 0
      PROVE  syslog' = syslog
  <2>1. r \in Records
    BY <1>1 DEF Sound, Orderly, TypeOK
  <2>2. Past(r, 1) /\ ~OnSyslog(r)
    BY <1>1, <2>1, ReturnedIsPast, Counts
  <2>3. handlers[1].kind = "console"
    BY <1>1, <2>1, <2>2 DEF Sound, Written, SyslogWhole
  <2>4. ASSUME NEW t \in Threads, Emit(t)
        PROVE  syslog' = syslog
    BY <1>1, <2>3, <2>4, EmitTells DEF Sound, Tells
  <2>5. CASE ~\E t \in Threads : Emit(t)
    BY <1>1, <2>5, OtherSteps DEF Sound, Silent
  <2> QED
    BY <2>4, <2>5
<1>2. Sound /\ [Next]_vars =>
        [(\E r \in passed : Returned(r) /\ Packets(r) = 0) => syslog' = syslog]_vars
  BY <1>1
<1> QED
  BY <1>2, AlwaysSound, PTL DEF Spec, NoHoles
=============================================================================
