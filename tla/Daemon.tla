-------------------------------- MODULE Daemon --------------------------------
(***************************************************************************)
(* The life cycle of the process, src/src/main.rs, between the service     *)
(* manager that starts, watches and ends it and the MQTT publisher it      *)
(* starts and stops.  MqttClient and Reporter describe what goes on inside *)
(* `start`, `maintain`, `stop` and `tick`; here only what they return      *)
(* matters.  Time is left out: a deadline may pass at any moment.          *)
(***************************************************************************)
EXTENDS Notifier

CONSTANTS
    MaxPatience,  \* reconnect_max_delay_secs, in waits of --once
    MaxStarts     \* bound: how often the manager starts the service

ASSUME DaemonAssumption == MaxPatience \in Nat /\ MaxStarts \in Nat \ {0}

Flags == {"once", "dry_run", "print_config"}
Signals == {"TERM", "INT"}

VARIABLES
    pc,         \* where run() is
    rc,         \* its result, 3 while it runs
    flags,      \* the command line
    handlers,   \* signals whose handler is registered
    stop,       \* the flag the handlers set
    patience,   \* --once: what is left of connect_wait
    gaveUp,     \* history: Reporter::run gave up in this process
    worker,     \* the publisher has a worker thread
    connected,  \* publisher.connected()
    started,    \* history: publisher.start() succeeded in this process
    unit,       \* the manager's view; "none": not started by a manager
    heard,      \* history: states the manager read from this process
    asked,      \* the manager was asked to stop the service for good
    starts      \* processes started

processVars == <<pc, rc, flags, handlers, stop, patience, gaveUp>>
mqttVars == <<worker, connected, started>>
managerVars == <<unit, heard, asked, starts>>
vars == <<notifierVars, processVars, mqttVars, managerVars>>

Boot == {"args", "config", "signals", "create", "start"}
Serving == {"ready", "once", "nap", "once_done", "check", "tick", "report", "failed",
            "pet", "sleep"}
Ending == {"stopping", "stop", "close"}
Dead == {"exited", "killed"}
Alive == pc \notin Dead

TypeOK ==
    /\ NotifierTypeOK
    /\ pc \in Boot \cup Serving \cup Ending \cup Dead
    /\ rc \in 0..3
    /\ flags \in SUBSET Flags /\ handlers \in SUBSET Signals
    /\ stop \in BOOLEAN /\ patience \in 0..MaxPatience /\ gaveUp \in BOOLEAN
    /\ worker \in BOOLEAN /\ connected \in BOOLEAN
    /\ started \in BOOLEAN
    /\ unit \in {"none", "activating", "active", "deactivating", "dead"}
    /\ heard \in SUBSET States /\ asked \in BOOLEAN /\ starts \in 1..MaxStarts

Init ==
    /\ NotifierInit
    /\ pc = "args" /\ rc = 3 /\ flags \in SUBSET Flags /\ handlers = {}
    /\ stop = FALSE /\ patience = MaxPatience /\ gaveUp = FALSE
    /\ worker = FALSE /\ connected = FALSE /\ started = FALSE
    /\ unit = IF enabled THEN "activating" ELSE "none"
    /\ heard = {} /\ asked = FALSE /\ starts = 1

(***************************************************************************)
(* run(): start-up.                                                        *)
(***************************************************************************)
Goto(place) == pc' = place /\ rc' = rc
Exit(code) == pc' = "exited" /\ rc' = code
\* The result is kept while the process winds down.
Return(code) == pc' = "stopping" /\ rc' = code

Unmoved == UNCHANGED <<flags, handlers, stop, patience, gaveUp>>

\* An invalid command line, --help or --version, or the daemon proper.
ParseArgs ==
    /\ pc = "args"
    /\ Exit(2) \/ Exit(0) \/ Goto("config")
    /\ Silent /\ Unmoved /\ UNCHANGED <<mqttVars, managerVars>>

\* An invalid configuration; --print-config; --dry-run; or on.
LoadConfig ==
    /\ pc = "config"
    /\ \/ Exit(2)
       \/ "print_config" \in flags /\ Exit(0)
       \/ flags \cap {"print_config", "dry_run"} = {"dry_run"} /\ (Exit(0) \/ Exit(1))
       \/ flags \cap {"print_config", "dry_run"} = {} /\ Goto("signals")
    /\ Silent /\ Unmoved /\ UNCHANGED <<mqttVars, managerVars>>

\* SIGTERM, then SIGINT; a refused registration ends the process.
Register ==
    /\ pc = "signals"
    /\ \/ Exit(1) /\ handlers' = handlers
       \/ handlers = {} /\ handlers' = {"TERM"} /\ Goto("signals")
       \/ handlers = {"TERM"} /\ handlers' = Signals /\ Goto("create")
    /\ Silent /\ UNCHANGED <<flags, stop, patience, gaveUp, mqttVars, managerVars>>

\* Publisher::new: a bad TLS identity; mutant: READY before the worker runs.
ReadyFirst == "ready"
NextOfCreate == "start"

Create ==
    /\ pc = "create"
    /\ Exit(2) \/ Goto(NextOfCreate)
    /\ Silent /\ Unmoved /\ UNCHANGED <<mqttVars, managerVars>>

Start ==
    /\ pc = "start"
    /\ \/ Exit(1) /\ UNCHANGED mqttVars
       \/ Goto("ready") /\ worker' = TRUE /\ started' = TRUE /\ UNCHANGED connected
    /\ Silent /\ Unmoved /\ UNCHANGED managerVars

Ready ==
    /\ pc = "ready"
    /\ Notify("READY")
    /\ Goto(IF "once" \in flags THEN "once" ELSE "check")
    /\ Unmoved /\ UNCHANGED <<mqttVars, managerVars>>

(***************************************************************************)
(* --once: a bounded wait for the broker, then one report.                 *)
(***************************************************************************)
\* connect_wait.saturating_sub(elapsed): the deadline may pass while the loop
\* body runs; mutant: a plain subtraction.
Unsaturated == patience - 1
Spent == IF patience > 0 THEN patience - 1 ELSE 0

\* Mutant of InTime: the wait has no deadline.
NoDeadline == TRUE
InTime == patience > 0
Waits == ~connected /\ InTime /\ ~stop

OnceWait ==
    /\ pc = "once" /\ Waits
    /\ Watchdog /\ Goto("nap")
    /\ patience' \in {patience, Spent}
    /\ UNCHANGED <<flags, handlers, stop, gaveUp, mqttVars, managerVars>>

OnceNap ==
    /\ pc = "nap"
    /\ Goto("once")
    /\ patience' = Spent \/ (stop /\ patience' = patience)
    /\ Silent /\ UNCHANGED <<flags, handlers, stop, gaveUp, mqttVars, managerVars>>

OnceLeave ==
    /\ pc = "once" /\ ~Waits
    /\ Goto("once_done")
    /\ Silent /\ Unmoved /\ UNCHANGED <<mqttVars, managerVars>>

\* The stop flag is read once more; connected or not, the report is made.
OnceDone ==
    /\ pc = "once_done"
    /\ IF stop THEN Return(0) ELSE Goto("report")
    /\ Silent /\ Unmoved /\ UNCHANGED <<mqttVars, managerVars>>

(***************************************************************************)
(* Reporter::run.                                                          *)
(***************************************************************************)
\* Mutant of LoopStops: only a connected loop looks at the flag.
StopsOnline == stop /\ connected
LoopStops == stop

Check ==
    /\ pc = "check"
    /\ IF LoopStops THEN Return(0) ELSE Goto("tick")
    /\ Silent /\ Unmoved /\ UNCHANGED <<mqttVars, managerVars>>

\* Nothing is due, a slot is skipped, or a report is due.
Tick ==
    /\ pc = "tick"
    /\ Goto("pet") \/ (connected /\ Goto("report"))
    /\ Silent /\ Unmoved /\ UNCHANGED <<mqttVars, managerVars>>

\* maintain()? fails: the old worker is gone, there is no new one.
MaintainFails ==
    /\ pc = "tick" /\ worker /\ ~connected
    /\ worker' = FALSE
    /\ Goto("failed")
    /\ Silent /\ Unmoved /\ UNCHANGED <<connected, started, managerVars>>

\* report_once: publish, then STATUS; or its error path.
Report ==
    /\ pc = "report"
    /\ \/ Notify("STATUS") /\ IF "once" \in flags THEN Return(0) ELSE Goto("pet")
       \/ Silent /\ IF "once" \in flags THEN Return(1) ELSE Goto("failed")
    /\ Unmoved /\ UNCHANGED <<mqttVars, managerVars>>

\* run() goes on, or gives up after too many failures in a row (Reporter counts
\* them); mutant: a stop that was asked for meanwhile turns it into a success.
GaveUpWell == IF stop THEN 0 ELSE 1
GaveUp == 1

Failure ==
    /\ pc = "failed"
    /\ \/ Goto("pet") /\ gaveUp' = gaveUp
       \/ Return(GaveUp) /\ gaveUp' = TRUE
    /\ Silent /\ UNCHANGED <<flags, handlers, stop, patience, mqttVars, managerVars>>

Pet ==
    /\ pc = "pet"
    /\ Watchdog /\ Goto("sleep")
    /\ Unmoved /\ UNCHANGED <<mqttVars, managerVars>>

\* The end of a wait notifies nobody; mutant: a signalled one announces the stop,
\* which the end of run() announces again.
AnnounceEarly == IF stop THEN Notify("STOPPING") ELSE Silent
OnWake == Silent

Wake ==
    /\ pc = "sleep"
    /\ OnWake /\ Goto("check")
    /\ Unmoved /\ UNCHANGED <<mqttVars, managerVars>>

(***************************************************************************)
(* The end of run(), in the order of the code.                             *)
(***************************************************************************)
\* Mutant of Farewell: the supervisor is not told.
NoFarewell == Silent
Farewell == Notify("STOPPING")

Stopping ==
    /\ pc = "stopping"
    /\ Farewell /\ Goto("stop")
    /\ Unmoved /\ UNCHANGED <<mqttVars, managerVars>>

StopPublisher ==
    /\ pc = "stop"
    /\ worker' = FALSE /\ connected' = FALSE /\ started' = started
    /\ Silent /\ Goto("close")
    /\ Unmoved /\ UNCHANGED managerVars

CloseNotifier ==
    /\ pc = "close"
    /\ Close /\ Goto("exited")
    /\ Unmoved /\ UNCHANGED <<mqttVars, managerVars>>

(***************************************************************************)
(* Around the process: the worker thread, signals and the manager.         *)
(***************************************************************************)
Connection ==
    /\ worker /\ connected' = ~connected
    /\ UNCHANGED <<notifierVars, processVars, worker, started, managerVars>>

\* The process is gone, and its sockets and threads with it.
Kill ==
    /\ pc' = "killed" /\ socket' = "none" /\ worker' = FALSE /\ connected' = FALSE
    /\ UNCHANGED <<enabled, armed, listening, inbox, lost, outages, rc, flags, handlers,
                   stop, patience, gaveUp, started>>

\* A handled signal sets the flag; any other ends the process.
Deliver(signal) ==
    \/ /\ signal \in handlers
       /\ stop' = TRUE
       /\ UNCHANGED <<notifierVars, pc, rc, flags, handlers, patience, gaveUp, mqttVars>>
    \/ signal \notin handlers /\ Kill

Interrupt(signal) == Alive /\ Deliver(signal) /\ UNCHANGED managerVars

\* The manager reads a datagram: READY and STOPPING change the unit's state.
Hear ==
    /\ listening /\ inbox # <<>>
    /\ inbox' = Tail(inbox)
    /\ heard' = heard \cup {Head(inbox)}
    /\ unit' = IF Head(inbox) = "READY" /\ unit = "activating" THEN "active"
               ELSE IF Head(inbox) = "STOPPING" /\ unit \in {"activating", "active"}
               THEN "deactivating" ELSE unit
    /\ UNCHANGED <<enabled, armed, socket, listening, lost, outages, processVars,
                   mqttVars, asked, starts>>

\* systemctl stop, or no READY within the start timeout: SIGTERM.
Terminate ==
    /\ Alive /\ unit \in {"activating", "active"}
    /\ Deliver("TERM")
    /\ unit' = "deactivating"
    /\ asked' = TRUE \/ (unit = "activating" /\ asked' = asked)
    /\ UNCHANGED <<heard, starts>>

\* WatchdogSec of an active unit, or TimeoutStopSec, has passed.
TimeOut ==
    /\ Alive
    /\ (unit = "active" /\ armed) \/ unit = "deactivating"
    /\ Kill
    /\ unit' = "deactivating"
    /\ UNCHANGED <<heard, asked, starts>>

\* The manager reads what the process sent before it looks at its exit.
Reap ==
    /\ ~Alive /\ inbox = <<>> /\ unit \notin {"none", "dead"}
    /\ unit' = "dead"
    /\ UNCHANGED <<notifierVars, processVars, mqttVars, heard, asked, starts>>

\* Restart=always.
Restart ==
    /\ unit = "dead" /\ ~asked /\ starts < MaxStarts
    /\ starts' = starts + 1 /\ unit' = "activating" /\ heard' = {} /\ asked' = asked
    /\ pc' = "args" /\ rc' = 3 /\ handlers' = {} /\ stop' = FALSE
    /\ patience' = MaxPatience /\ gaveUp' = FALSE /\ flags' = flags
    /\ worker' = FALSE /\ connected' = FALSE /\ started' = FALSE
    /\ socket' = "none" /\ lost' = {}
    /\ UNCHANGED <<enabled, armed, listening, inbox, outages>>

ProcessStep ==
    \/ ParseArgs \/ LoadConfig \/ Register \/ Create \/ Start \/ Ready
    \/ OnceWait \/ OnceNap \/ OnceLeave \/ OnceDone
    \/ Check \/ Tick \/ MaintainFails \/ Report \/ Failure \/ Pet \/ Wake
    \/ Stopping \/ StopPublisher \/ CloseNotifier

ManagerStep == Hear \/ Terminate \/ TimeOut \/ Reap \/ Restart

ReceiverStep ==
    /\ Vanish \/ Appear
    /\ UNCHANGED <<processVars, mqttVars, managerVars>>

Finished == ~Alive /\ UNCHANGED vars

Next ==
    \/ ProcessStep \/ ManagerStep \/ ReceiverStep
    \/ Connection \/ \E signal \in Signals : Interrupt(signal)
    \/ Finished

Spec == Init /\ [][Next]_vars

\* The process keeps running: each wait of run() is bounded (`wait`, maintain,
\* publish and stop, see MqttClient), and a send blocks only until the manager
\* reads its queue, which it does.  Nothing is assumed of the network.
FairSpec == Spec /\ WF_vars(ProcessStep) /\ WF_vars(Hear)

(***************************************************************************)
(* Properties.                                                             *)
(***************************************************************************)
Said == heard \cup Queued \cup lost

\* The manager is never told anything that is not so: a unit it takes for active
\* has a publisher that was started in this very process, and a stop it was told
\* of is under way.  (READY, main.rs after start(); STOPPING before stop().)
ToldTruth ==
    /\ "READY" \in Said => started
    /\ (unit = "active" /\ Alive) => started
    /\ "STOPPING" \in Said => pc \in {"stop", "close"} \cup Dead

\* What a process sends reads READY first and STOPPING last, even when single
\* datagrams are lost: no WATCHDOG or STATUS revives a unit that is stopping.
Ordered ==
    /\ \A i \in DOMAIN inbox : inbox[i] = "READY" => i = 1
    /\ \A i \in DOMAIN inbox : inbox[i] = "STOPPING" => i = Len(inbox)
    /\ heard # {} => "READY" \notin Queued
    /\ "STOPPING" \in heard => inbox = <<>>

\* The connection is taken down only after the manager was told, or could not be:
\* a goodbye that takes long is then a stop that takes long, not a hung loop.
AnnouncedStop ==
    (enabled /\ started /\ pc \in {"stop", "close", "exited"}) => "STOPPING" \in Said

\* A daemon that ends by itself does not report success; and one whose loop gave up
\* reports it, even if a signal comes during its last failure or while it winds down.
\* (Reporter::run returns 1 before it looks at the flag again; main.rs keeps that.)
ExitTruth ==
    pc = "exited" =>
        /\ (rc = 0 /\ started /\ "once" \notin flags) => stop
        /\ gaveUp => rc = 1

\* Once its handler has run, a signal ends the process, in whatever it was doing.
EndsOnSignal == (Alive /\ stop) ~> ~Alive

\* --once ends without a broker, without a signal.
OnceEnds == (Alive /\ "once" \in flags) ~> ~Alive
=============================================================================
