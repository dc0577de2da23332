-------------------------------- MODULE Logger --------------------------------
(***************************************************************************)
(* The logger of src/src/log.rs, shared by the main thread and the worker: *)
(* a handler chosen at start-up, perhaps an extra console handler, both    *)
(* written under one mutex, and the fallback to the console when the       *)
(* syslog socket fails.  A record is named by its thread and its number;   *)
(* its text and priority are left out.                                     *)
(***************************************************************************)
EXTENDS Naturals, Sequences, FiniteSets

CONSTANTS
    Threads,     \* the main thread and the worker
    MaxRecords,  \* bound: calls of log() by each thread
    SyslogCap    \* records the syslog socket buffers

ASSUME LoggerAssumption == MaxRecords \in Nat /\ SyslogCap \in Nat \ {0}

Levels == {"info", "debug", "trace"}
Knobs == {"log_to_console", "log_level_debug"}
Handlers == [kind : {"console", "datagram", "stream"}, app : BOOLEAN]
Records == Threads \X (1..MaxRecords)

VARIABLES
    handlers,  \* Logger.handlers
    debug,     \* Logger.debug
    knobbed,   \* apply_knobs was called
    waiting,   \* threads at the mutex
    turn,      \* per thread: the handler it is at, 0 without the mutex
    calls,     \* per thread: calls of log() begun
    passed,    \* history: records that passed the filter
    gone,      \* the syslog socket has no reader any more
    unread,    \* records in the socket's buffer
    syslog,    \* history: records the socket took, in order
    console,   \* history: lines on stderr, <<record, with the application's name>>
    unwritten  \* history: lines stderr refused

threadVars == <<waiting, turn, calls, passed>>
sinkVars == <<gone, unread, syslog, console, unwritten>>
vars == <<handlers, debug, knobbed, threadVars, sinkVars>>

TypeOK ==
    /\ handlers \in Seq(Handlers) /\ Len(handlers) \in 1..2
    /\ debug \in BOOLEAN /\ knobbed \in BOOLEAN /\ gone \in BOOLEAN
    /\ waiting \in SUBSET Threads /\ turn \in [Threads -> 0..2]
    /\ calls \in [Threads -> 0..MaxRecords] /\ passed \in SUBSET Records
    /\ unread \in 0..SyslogCap /\ syslog \in Seq(Records)
    /\ console \in Seq(Records \X BOOLEAN) /\ unwritten \in SUBSET (Records \X BOOLEAN)

(***************************************************************************)
(* Start-up: init_logger and apply_knobs, before any record.               *)
(***************************************************************************)
\* What may be at the two paths of LOG_SOCKETS; a stale socket has no reader.
Paths == {"none", "datagram", "stream", "stale"}

\* The first socket decides, even when it is stale and the second is not.
Chosen(files) == IF files[1] # "none" THEN files[1] ELSE files[2]

BuildHandler(journal, files) ==
    IF journal \/ Chosen(files) \in {"none", "stale"} THEN "console" ELSE Chosen(files)

Init ==
    /\ \E journal \in BOOLEAN, files \in [{1, 2} -> Paths] :
          handlers = <<[kind |-> BuildHandler(journal, files), app |-> TRUE]>>
    /\ debug = FALSE /\ knobbed = FALSE
    /\ waiting = {} /\ turn = [t \in Threads |-> 0]
    /\ calls = [t \in Threads |-> 0] /\ passed = {}
    /\ gone = FALSE /\ unread = 0 /\ syslog = <<>> /\ console = <<>> /\ unwritten = {}

ExtraConsole == [kind |-> "console", app |-> FALSE]

ApplyKnobs(knobs) ==
    /\ ~knobbed /\ knobbed' = TRUE
    /\ handlers' = IF "log_to_console" \in knobs
                   THEN Append(handlers, ExtraConsole) ELSE handlers
    /\ debug' = ("log_level_debug" \in knobs)
    /\ UNCHANGED <<threadVars, sinkVars>>

(***************************************************************************)
(* log(): the filter, the mutex, and one handler after the other.          *)
(***************************************************************************)
Idle(t) == t \notin waiting /\ turn[t] = 0
Record(t) == <<t, calls[t]>>

\* Only this crate's records; "info" stands for INFO and above, TRACE never passes.
Enabled(own, level) == own /\ (level = "info" \/ (level = "debug" /\ debug))

Log(t) ==
    /\ knobbed /\ Idle(t) /\ calls[t] < MaxRecords
    /\ calls' = [calls EXCEPT ![t] = @ + 1]
    /\ \E own \in BOOLEAN, level \in Levels :
          IF Enabled(own, level)
          THEN waiting' = waiting \cup {t} /\ passed' = passed \cup {<<t, calls[t] + 1>>}
          ELSE UNCHANGED <<waiting, passed>>
    /\ UNCHANGED <<handlers, debug, knobbed, turn, sinkVars>>

\* Mutant of Free: no mutex around the loop over the handlers.
Unguarded == TRUE
Free == \A t \in Threads : turn[t] = 0

Lock(t) ==
    /\ t \in waiting /\ Free
    /\ waiting' = waiting \ {t} /\ turn' = [turn EXCEPT ![t] = 1]
    /\ UNCHANGED <<handlers, debug, knobbed, calls, passed, sinkVars>>

\* The mutex is released behind the last handler.
Advance(t) ==
    /\ turn' = [turn EXCEPT ![t] = IF @ = Len(handlers) THEN 0 ELSE @ + 1]
    /\ UNCHANGED <<debug, knobbed, waiting, calls, passed, gone>>

At(t) == handlers[turn[t]]

\* One line on stderr; an error of the console is ignored.
WriteLine(line) ==
    \/ console' = Append(console, line) /\ UNCHANGED unwritten
    \/ unwritten' = unwritten \cup {line} /\ UNCHANGED console

EmitConsole(t) ==
    /\ turn[t] # 0 /\ At(t).kind = "console"
    /\ WriteLine(<<Record(t), At(t).app>>)
    /\ Advance(t) /\ UNCHANGED <<handlers, unread, syslog>>

EmitSyslog(t) ==
    /\ turn[t] # 0 /\ At(t).kind # "console" /\ ~gone /\ unread < SyslogCap
    /\ syslog' = Append(syslog, Record(t)) /\ unread' = unread + 1
    /\ Advance(t) /\ UNCHANGED <<handlers, console, unwritten>>

\* The reader is gone, or has left no room for the one second of the write timeout
\* (a stream may have taken a part of the record by then: not counted as written).
\* Mutant: no timeout.
NeverTimesOut == gone
Fails == gone \/ unread = SyslogCap

\* Mutants of Retried: the record in hand is not repeated on the console.  Of
\* Replaced: the handler stays, to be tried again with the next record.
NotRetried(line) == UNCHANGED <<console, unwritten>>
Retried(line) == WriteLine(line)
Kept(i) == handlers
Added(i) == Append(handlers, ExtraConsole)
Replaced(i) == [handlers EXCEPT ![i].kind = "console"]

FallBack(t) ==
    /\ turn[t] # 0 /\ At(t).kind # "console" /\ Fails
    /\ handlers' = Replaced(turn[t])
    /\ Retried(<<Record(t), At(t).app>>)
    /\ Advance(t) /\ UNCHANGED <<unread, syslog>>

Emit(t) == EmitConsole(t) \/ EmitSyslog(t) \/ FallBack(t)

(***************************************************************************)
(* The reader of the socket.  One that comes back listens on a new socket. *)
(***************************************************************************)
Read ==
    /\ ~gone /\ unread > 0
    /\ unread' = unread - 1
    /\ UNCHANGED <<handlers, debug, knobbed, threadVars, gone, syslog, console, unwritten>>

Leave ==
    /\ ~gone
    /\ gone' = TRUE
    /\ UNCHANGED <<handlers, debug, knobbed, threadVars, unread, syslog, console, unwritten>>

Finished ==
    /\ knobbed /\ \A t \in Threads : Idle(t) /\ calls[t] = MaxRecords
    /\ UNCHANGED vars

Next ==
    \/ \E knobs \in SUBSET Knobs : ApplyKnobs(knobs)
    \/ \E t \in Threads : Log(t) \/ Lock(t) \/ Emit(t)
    \/ Read \/ Leave \/ Finished

\* A thread that holds the mutex keeps running; nothing is assumed of the reader.
Spec == Init /\ [][Next]_vars /\ \A t \in Threads : WF_vars(Emit(t))

(***************************************************************************)
(* Properties.                                                             *)
(***************************************************************************)
Packets(r) == Cardinality({i \in DOMAIN syslog : syslog[i] = r})
Lines(r, app) == Cardinality({i \in DOMAIN console : console[i] = <<r, app>>})
Returned(r) == r \in passed /\ (r[2] < calls[r[1]] \/ Idle(r[1]))

\* A record is never lost and never repeated, whatever happens to the socket and
\* when: each handler has it exactly once, on syslog or on the console, unless the
\* console itself refused it (log.rs: "must not silently swallow future records").
ExactlyOnce ==
    /\ \A r \in Records :
          Packets(r) + Lines(r, TRUE) <= 1 /\ Lines(r, FALSE) <= 1
    /\ \A r \in Records : Returned(r) =>
          /\ Packets(r) + Lines(r, TRUE) = 1 \/ <<r, TRUE>> \in unwritten
          /\ Len(handlers) = 2 => Lines(r, FALSE) = 1 \/ <<r, FALSE>> \in unwritten

\* The threads' records are in the same order on both outputs, and the two lines of
\* one record stand together on the console (log.rs: one lock around the handlers).
SameOrder ==
    /\ \A i, j \in DOMAIN console, k, l \in DOMAIN syslog :
          (i < j /\ k < l /\ console[i][1] = syslog[l] /\ console[j][1] = syslog[k])
             => syslog[k] = syslog[l]
    /\ \A i, j, k \in DOMAIN console :
          (i < j /\ j < k /\ console[i][1] = console[k][1]) => console[j][1] = console[i][1]

\* Syslog has no holes: behind a record that went to the console, or to nobody, in
\* its place, it gets none any more ("it stays on console for subsequent records").
NoHoles ==
    [][(\E r \in passed : Returned(r) /\ Packets(r) = 0) => syslog' = syslog]_vars

\* A reader that neither reads nor leaves does not keep the mutex from the other
\* thread: every holder gives it back.
MutexFreed == \A t \in Threads : turn[t] # 0 ~> turn[t] = 0
=============================================================================
