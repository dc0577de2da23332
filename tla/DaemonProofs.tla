----------------------------- MODULE DaemonProofs -----------------------------
(***************************************************************************)
(* Proofs about the life cycle of the process, for any queue of the        *)
(* manager, any number of outages, restarts and waits.                     *)
(***************************************************************************)
EXTENDS Daemon, SequenceTheorems, TLAPS

\* What the place of run() says about the rest.
Place ==
    /\ pc \in Boot => ~started
    /\ pc \in Serving \cup Ending => started
    /\ pc \in Boot \cup {"ready"} => heard = {} /\ inbox = <<>>
    /\ pc \in {"once", "nap", "once_done"} => "once" \in flags
    /\ unit = "active" => "READY" \in heard
    /\ unit = "dead" => inbox = <<>> /\ pc \in Dead

\* The result is settled before the process winds down, and kept while it does.
Reason ==
    /\ (pc \in Ending \cup {"exited"} /\ rc = 0 /\ started /\ "once" \notin flags) => stop
    /\ gaveUp => pc = "killed" \/ (pc \in Ending \cup {"exited"} /\ rc = 1)

LifeCycle == TypeOK /\ Place /\ Reason /\ ToldTruth /\ Ordered /\ AnnouncedStop

(***************************************************************************)
(* The queue of the receiving end.                                         *)
(***************************************************************************)
LEMMA QueuedEmpty == inbox = <<>> => Queued = {}
<1> SUFFICES ASSUME inbox = <<>> PROVE Queued = {}
  OBVIOUS
<1>1. DOMAIN inbox = {}
  BY SMT
<1> QED
  BY <1>1 DEF Queued

LEMMA QueuedAppend ==
    ASSUME inbox \in Seq(States), NEW s \in States, inbox' = Append(inbox, s)
    PROVE  /\ Queued' = Queued \cup {s}
           /\ inbox' \in Seq(States) /\ Len(inbox') = Len(inbox) + 1
           /\ DOMAIN inbox' = 1..Len(inbox) + 1 /\ DOMAIN inbox = 1..Len(inbox)
           /\ inbox'[Len(inbox) + 1] = s
           /\ \A i \in 1..Len(inbox) : inbox'[i] = inbox[i]
<1>1. /\ inbox' \in Seq(States) /\ Len(inbox') = Len(inbox) + 1 /\ Len(inbox) \in Nat
      /\ DOMAIN inbox' = 1..Len(inbox) + 1 /\ DOMAIN inbox = 1..Len(inbox)
      /\ inbox'[Len(inbox) + 1] = s
      /\ \A i \in 1..Len(inbox) : inbox'[i] = inbox[i]
  BY AppendProperties, LenProperties, SMT
<1>2. DOMAIN inbox' = DOMAIN inbox \cup {Len(inbox) + 1}
  BY <1>1, SMT
<1> QED
  BY <1>1, <1>2 DEF Queued

LEMMA QueuedTail ==
    ASSUME inbox \in Seq(States), inbox # <<>>, inbox' = Tail(inbox)
    PROVE  /\ Queued = Queued' \cup {Head(inbox)} /\ Head(inbox) \in States
           /\ inbox' \in Seq(States) /\ Len(inbox') = Len(inbox) - 1
           /\ Len(inbox) \in Nat \ {0} /\ Head(inbox) = inbox[1]
           /\ DOMAIN inbox' = 1..Len(inbox) - 1 /\ DOMAIN inbox = 1..Len(inbox)
           /\ \A i \in 1..Len(inbox) - 1 : inbox'[i] = inbox[i + 1]
<1>1. /\ inbox' \in Seq(States) /\ Len(inbox') = Len(inbox) - 1
      /\ Len(inbox) \in Nat \ {0} /\ Head(inbox) = inbox[1] /\ Head(inbox) \in States
      /\ DOMAIN inbox' = 1..Len(inbox) - 1 /\ DOMAIN inbox = 1..Len(inbox)
      /\ \A i \in 1..Len(inbox) - 1 : inbox'[i] = inbox[i + 1]
  BY HeadTailProperties, LenProperties, EmptySeq, SMT
<1>2. \A i \in DOMAIN inbox : i = 1 \/ (i - 1 \in DOMAIN inbox' /\ inbox'[i - 1] = inbox[i])
  BY <1>1, SMT
<1>3. \A i \in DOMAIN inbox' : i + 1 \in DOMAIN inbox /\ inbox'[i] = inbox[i + 1]
  BY <1>1, SMT
<1>4. 1 \in DOMAIN inbox
  BY <1>1, SMT
<1>5. Queued \subseteq Queued' \cup {Head(inbox)}
  <2> SUFFICES ASSUME NEW i \in DOMAIN inbox PROVE inbox[i] \in Queued' \cup {Head(inbox)}
    BY DEF Queued
  <2> QED
    BY <1>1, <1>2 DEF Queued
<1>6. Queued' \subseteq Queued
  <2> SUFFICES ASSUME NEW i \in DOMAIN inbox' PROVE inbox'[i] \in Queued
    BY DEF Queued
  <2> QED
    BY <1>3 DEF Queued
<1>7. Head(inbox) \in Queued
  BY <1>1, <1>4 DEF Queued
<1> QED
  BY <1>1, <1>5, <1>6, <1>7

\* What a notification does, delivered or not.
LEMMA Notified ==
    ASSUME NotifierTypeOK, NEW s \in States, Notify(s)
    PROVE  /\ NotifierTypeOK'
           /\ inbox' = inbox \/ inbox' = Append(inbox, s)
           /\ lost' = lost \/ lost' = lost \cup {s}
           /\ enabled => inbox' = Append(inbox, s) \/ s \in lost'
           /\ enabled' = enabled
<1>1. CASE Delivered(s)
  <2>1. inbox' = Append(inbox, s) /\ lost' = lost /\ enabled' = enabled
    BY <1>1 DEF Delivered
  <2>2. inbox' \in Seq(States) /\ Len(inbox') <= QueueCap
    <3>1. inbox \in Seq(States) /\ Len(inbox) < QueueCap /\ Len(inbox) \in Nat
      BY <1>1, LenProperties DEF Delivered, Room, NotifierTypeOK
    <3> QED
      BY <2>1, <3>1, NotifierAssumption, AppendProperties, SMT DEF NotifierAssumption
  <2> QED
    BY <1>1, <2>1, <2>2 DEF Delivered, NotifierTypeOK
<1>2. CASE Failed(s)
  BY <1>2 DEF Failed, NotifierTypeOK
<1>3. CASE ~enabled /\ Silent
  BY <1>3 DEF Silent, notifierVars, NotifierTypeOK
<1> QED
  BY <1>1, <1>2, <1>3 DEF Notify

\* Appending at the end keeps the order.
LEMMA OrderedAppend ==
    ASSUME inbox \in Seq(States), Ordered, NEW s \in States, inbox' = Append(inbox, s),
           heard' = heard,
           s = "READY" => inbox = <<>> /\ heard = {},
           "STOPPING" \notin Queued \cup heard
    PROVE  Ordered'
<1>1. /\ Len(inbox) \in Nat
      /\ Queued' = Queued \cup {s}
      /\ Len(inbox') = Len(inbox) + 1
      /\ DOMAIN inbox' = 1..Len(inbox) + 1 /\ DOMAIN inbox = 1..Len(inbox)
      /\ inbox'[Len(inbox) + 1] = s
      /\ \A i \in 1..Len(inbox) : inbox'[i] = inbox[i]
  BY QueuedAppend, LenProperties
<1>2. s = "READY" => Len(inbox) = 0
  BY EmptySeq
<1>3. \A i \in DOMAIN inbox : inbox[i] # "STOPPING"
  BY DEF Queued
<1>4. \A i \in DOMAIN inbox' : i \in DOMAIN inbox \/ i = Len(inbox) + 1
  BY <1>1, SMT
<1>5. \A i \in DOMAIN inbox' : inbox'[i] = "READY" => i = 1
  BY <1>1, <1>2, <1>4, SMT DEF Ordered
<1>6. \A i \in DOMAIN inbox' : inbox'[i] = "STOPPING" => i = Len(inbox')
  BY <1>1, <1>3, <1>4
<1> QED
  BY <1>1, <1>5, <1>6 DEF Ordered

(***************************************************************************)
(* The steps of run() that notify nobody.                                  *)
(***************************************************************************)
Wordless ==
    \/ ParseArgs \/ LoadConfig \/ Register \/ Create \/ Start
    \/ OnceNap \/ OnceLeave \/ OnceDone
    \/ Check \/ Tick \/ MaintainFails \/ Failure \/ Wake \/ StopPublisher \/ CloseNotifier
    \/ (Report /\ Silent)

\* Where such a step leads from each place.
LEMMA WordlessMoves ==
    ASSUME LifeCycle, Wordless
    PROVE  /\ UNCHANGED <<enabled, inbox, lost, managerVars, flags, stop>>
           /\ gaveUp' => gaveUp \/ (pc' = "stopping" /\ rc' = 1)
           /\ \/ /\ pc \in Boot /\ started' = started
                 /\ pc' \in Boot \cup {"exited"}
              \/ pc \in Boot /\ started' /\ pc' = "ready"
              \/ /\ pc \in Serving \ {"ready"} /\ started' = started
                 /\ \/ /\ pc' \in {"once", "once_done"} /\ "once" \in flags
                    \/ pc' \in Serving \ {"ready", "once", "nap", "once_done"}
                    \/ pc' = "stopping" /\ (stop \/ rc' # 0 \/ "once" \in flags)
              \/ /\ pc \in {"stop", "close"} /\ started' = started /\ rc' = rc
                 /\ pc' \in {"close", "exited"}
<1> USE DEF Goto, Exit, Return, Silent, Unmoved, notifierVars, mqttVars, managerVars,
            Boot, Serving
<1>1. CASE ParseArgs \/ LoadConfig \/ Register
  BY <1>1, SMT DEF ParseArgs, LoadConfig, Register
<1>2. CASE Create
  BY <1>2, SMT DEF Create, NextOfCreate
<1>3. CASE Start
  <2>1. CASE Exit(1) /\ UNCHANGED mqttVars
    BY <1>3, <2>1 DEF Start
  <2>2. CASE Goto("ready") /\ started' = TRUE
    BY <1>3, <2>2 DEF Start
  <2> QED
    BY <1>3, <2>1, <2>2 DEF Start
<1>4. CASE OnceNap \/ OnceLeave \/ OnceDone
  BY <1>4, SMT DEF LifeCycle, Place, OnceNap, OnceLeave, OnceDone
<1>5. CASE Check
  BY <1>5, SMT DEF Check, LoopStops
<1>6. CASE Tick \/ MaintainFails
  BY <1>6, SMT DEF Tick, MaintainFails
<1>7. CASE Failure
  BY <1>7, SMT DEF Failure, GaveUp
<1>8. CASE Wake
  BY <1>8, SMT DEF Wake, OnWake
<1>9. CASE StopPublisher
  BY <1>9, SMT DEF StopPublisher
<1>10. CASE CloseNotifier
  BY <1>10, SMT DEF CloseNotifier, Close
<1>11. CASE Report /\ Silent
  BY <1>11, SMT DEF Report
<1> QED
  BY <1>1, <1>2, <1>3, <1>4, <1>5, <1>6, <1>7, <1>8, <1>9, <1>10, <1>11 DEF Wordless

LEMMA WordlessKeeps ==
    ASSUME LifeCycle, Wordless
    PROVE  Place' /\ Reason' /\ ToldTruth' /\ Ordered' /\ AnnouncedStop'
<1>1. /\ enabled' = enabled /\ inbox' = inbox /\ lost' = lost /\ heard' = heard
      /\ unit' = unit /\ flags' = flags /\ stop' = stop
      /\ gaveUp' => gaveUp \/ (pc' = "stopping" /\ rc' = 1)
  BY WordlessMoves DEF managerVars
<1>2. Queued' = Queued /\ Said' = Said
  BY <1>1 DEF Queued, Said
<1>3. Ordered'
  BY <1>1, <1>2 DEF LifeCycle, Ordered
<1>4. CASE pc \in Boot /\ started' = started /\ pc' \in Boot \cup {"exited"}
  BY <1>1, <1>2, <1>3, <1>4
     DEF LifeCycle, Place, Reason, ToldTruth, AnnouncedStop, Boot, Serving, Ending, Dead, Alive
<1>5. CASE pc \in Boot /\ started' /\ pc' = "ready"
  BY <1>1, <1>2, <1>3, <1>5
     DEF LifeCycle, Place, Reason, ToldTruth, AnnouncedStop, Boot, Serving, Ending, Dead, Alive
<1>6. CASE /\ pc \in Serving \ {"ready"} /\ started' = started
           /\ \/ /\ pc' \in {"once", "once_done"} /\ "once" \in flags
              \/ pc' \in Serving \ {"ready", "once", "nap", "once_done"}
              \/ pc' = "stopping" /\ (stop \/ rc' # 0 \/ "once" \in flags)
  BY <1>1, <1>2, <1>3, <1>6
     DEF LifeCycle, Place, Reason, ToldTruth, AnnouncedStop, Boot, Serving, Ending, Dead, Alive
<1>7. CASE /\ pc \in {"stop", "close"} /\ started' = started /\ rc' = rc
           /\ pc' \in {"close", "exited"}
  BY <1>1, <1>2, <1>3, <1>7
     DEF LifeCycle, Place, Reason, ToldTruth, AnnouncedStop, Boot, Serving, Ending, Dead, Alive
<1> QED
  BY <1>4, <1>5, <1>6, <1>7, WordlessMoves

(***************************************************************************)
(* The steps of run() that notify.                                         *)
(***************************************************************************)
\* A notification s, sent from a place of run() where it is due.
Speech(s) ==
    /\ Notify(s)
    /\ UNCHANGED <<flags, stop, gaveUp, started, managerVars>>
    /\ \/ s = "READY" /\ pc = "ready" /\ pc' = (IF "once" \in flags THEN "once" ELSE "check")
       \/ s = "WATCHDOG" /\ pc = "once" /\ pc' = "nap"
       \/ s = "WATCHDOG" /\ pc = "pet" /\ pc' = "sleep"
       \/ s = "STATUS" /\ pc = "report" /\ pc' = "pet"
       \/ s = "STATUS" /\ pc = "report" /\ pc' = "stopping" /\ "once" \in flags
       \/ s = "STOPPING" /\ pc = "stopping" /\ pc' = "stop" /\ rc' = rc

LEMMA SpeechKeeps ==
    ASSUME LifeCycle, NEW s \in States, Speech(s)
    PROVE  NotifierTypeOK' /\ Place' /\ Reason' /\ ToldTruth' /\ Ordered' /\ AnnouncedStop'
<1>1. /\ inbox' = inbox \/ inbox' = Append(inbox, s)
      /\ lost' = lost \/ lost' = lost \cup {s}
      /\ enabled => inbox' = Append(inbox, s) \/ s \in lost'
      /\ enabled' = enabled /\ NotifierTypeOK' /\ inbox \in Seq(States)
  BY Notified DEF LifeCycle, TypeOK, NotifierTypeOK, Speech
<1>2. /\ flags' = flags /\ stop' = stop /\ started' = started /\ gaveUp' = gaveUp
      /\ heard' = heard /\ unit' = unit
  BY DEF Speech, managerVars
<1>3. /\ Queued' = Queued \/ Queued' = Queued \cup {s}
      /\ inbox' = Append(inbox, s) => Queued' = Queued \cup {s}
  BY <1>1, QueuedAppend DEF Queued
<1>4. /\ Said' \subseteq Said \cup {s} /\ Said \subseteq Said'
      /\ enabled => s \in Said'
  BY <1>1, <1>2, <1>3 DEF Said
<1>5. /\ pc \in Serving \cup {"stopping"}
      /\ s = "READY" => inbox = <<>> /\ heard = {}
      /\ "STOPPING" \notin Queued \cup heard
  BY DEF LifeCycle, Place, ToldTruth, Said, Speech, Serving, Dead
<1>6. Ordered'
  <2>1. CASE inbox' = inbox
    BY <1>2, <2>1 DEF LifeCycle, Ordered, Queued
  <2>2. CASE inbox' = Append(inbox, s)
    BY <1>1, <1>2, <1>5, <2>2, OrderedAppend DEF LifeCycle
  <2> QED
    BY <1>1, <2>1, <2>2
<1>7. Place'
  BY <1>2 DEF LifeCycle, Place, Speech, Boot, Serving, Ending, Dead
<1>8. Reason'
  BY <1>2 DEF LifeCycle, Place, Reason, Speech, Ending, Serving
<1>9. ToldTruth'
  <2>1. started /\ "STOPPING" \notin Said
    BY <1>5 DEF LifeCycle, Place, ToldTruth, Serving, Ending, Dead
  <2>2. "STOPPING" \in Said' => pc' = "stop"
    BY <1>4, <2>1 DEF Speech
  <2> QED
    BY <1>2, <2>1, <2>2 DEF ToldTruth
<1>10. AnnouncedStop'
  <2>1. pc' \in {"stop", "close", "exited"} => s = "STOPPING"
    BY DEF Speech
  <2> QED
    BY <1>1, <1>4, <2>1 DEF AnnouncedStop
<1> QED
  BY <1>1, <1>6, <1>7, <1>8, <1>9, <1>10

\* Every step of run() is of one kind or the other.
LEMMA ProcessKinds ==
    ASSUME ProcessStep
    PROVE  \/ Wordless
           \/ \E s \in States : Speech(s)
           \/ /\ Silent /\ UNCHANGED <<flags, stop, gaveUp, started, managerVars, rc>>
              /\ (pc = "once" /\ pc' = "nap") \/ (pc = "pet" /\ pc' = "sleep")
<1> USE DEF Goto, Return, Unmoved, mqttVars, States
<1>1. CASE Ready
  <2>1. Speech("READY")
    BY <1>1 DEF Ready, Speech
  <2> QED
    BY <2>1
<1>2. CASE OnceWait \/ Pet
  <2>1. CASE armed
    <3>1. Speech("WATCHDOG")
      BY <1>2, <2>1 DEF OnceWait, Pet, Watchdog, Speech
    <3> QED
      BY <3>1
  <2>2. CASE ~armed
    BY <1>2, <2>2 DEF OnceWait, Pet, Watchdog
  <2> QED
    BY <2>1, <2>2
<1>3. CASE Report
  <2>1. CASE Silent
    BY <1>3, <2>1 DEF Wordless
  <2>2. CASE ~Silent
    <3>1. Speech("STATUS")
      BY <1>3, <2>2 DEF Report, Speech
    <3> QED
      BY <3>1
  <2> QED
    BY <2>1, <2>2
<1>4. CASE Stopping
  <2>1. Speech("STOPPING")
    BY <1>4 DEF Stopping, Farewell, Speech
  <2> QED
    BY <2>1
<1> QED
  BY <1>1, <1>2, <1>3, <1>4 DEF ProcessStep, Wordless

LEMMA ProcessKeeps ==
    ASSUME LifeCycle, ProcessStep
    PROVE  Place' /\ Reason' /\ ToldTruth' /\ Ordered' /\ AnnouncedStop'
<1>1. CASE Silent /\ UNCHANGED <<flags, stop, gaveUp, started, managerVars, rc>>
           /\ ((pc = "once" /\ pc' = "nap") \/ (pc = "pet" /\ pc' = "sleep"))
  <2>1. /\ enabled' = enabled /\ inbox' = inbox /\ lost' = lost /\ heard' = heard
        /\ unit' = unit /\ flags' = flags /\ stop' = stop /\ started' = started
        /\ gaveUp' = gaveUp
    BY <1>1 DEF Silent, notifierVars, managerVars
  <2>2. Queued' = Queued /\ Said' = Said
    BY <2>1 DEF Queued, Said
  <2>3. Ordered'
    BY <2>1, <2>2 DEF LifeCycle, Ordered
  <2> QED
    BY <1>1, <2>1, <2>2, <2>3
       DEF LifeCycle, Place, Reason, ToldTruth, AnnouncedStop, Boot, Serving, Ending, Dead, Alive
<1> QED
  BY <1>1, ProcessKinds, WordlessKeeps, SpeechKeeps

(***************************************************************************)
(* The steps around the process.                                           *)
(***************************************************************************)
\* Neither a signal nor the end of the process says anything to the manager.
LEMMA OutsideKeeps ==
    ASSUME LifeCycle,
           UNCHANGED <<enabled, inbox, lost, heard, flags, gaveUp, started>>,
           unit' = unit \/ unit' = "deactivating" \/ (unit' = "dead" /\ inbox = <<>> /\ ~Alive),
           (pc' = pc /\ rc' = rc) \/ pc' = "killed",
           stop => stop'
    PROVE  Place' /\ Reason' /\ ToldTruth' /\ Ordered' /\ AnnouncedStop'
<1>1. /\ enabled' = enabled /\ inbox' = inbox /\ lost' = lost /\ heard' = heard
      /\ flags' = flags /\ started' = started /\ gaveUp' = gaveUp
  OBVIOUS
<1>2. Queued' = Queued /\ Said' = Said
  BY <1>1 DEF Queued, Said
<1>3. Ordered'
  BY <1>1, <1>2 DEF LifeCycle, Ordered
<1> QED
  BY <1>1, <1>2, <1>3
     DEF LifeCycle, Place, Reason, ToldTruth, AnnouncedStop, Boot, Serving, Ending, Dead, Alive

LEMMA DeliverKeeps ==
    ASSUME LifeCycle, NEW signal, Deliver(signal), heard' = heard,
           unit' = unit \/ unit' = "deactivating"
    PROVE  Place' /\ Reason' /\ ToldTruth' /\ Ordered' /\ AnnouncedStop'
<1>1. UNCHANGED <<enabled, inbox, lost, flags, gaveUp, started>>
  BY DEF Deliver, Kill, notifierVars, mqttVars
<1>2. ((pc' = pc /\ rc' = rc) \/ pc' = "killed") /\ (stop => stop')
  BY DEF Deliver, Kill
<1> QED
  BY <1>1, <1>2, OutsideKeeps

\* Reading a datagram moves it from the queue to what was heard.
LEMMA HearKeeps ==
    ASSUME LifeCycle, Hear
    PROVE  Place' /\ Reason' /\ ToldTruth' /\ Ordered' /\ AnnouncedStop'
<1> DEFINE h == Head(inbox)
<1>1. /\ enabled' = enabled /\ lost' = lost /\ flags' = flags /\ started' = started
      /\ stop' = stop /\ pc' = pc /\ rc' = rc /\ gaveUp' = gaveUp
      /\ inbox # <<>> /\ inbox' = Tail(inbox) /\ heard' = heard \cup {h}
      /\ unit' = unit \/ unit' = "deactivating" \/ (h = "READY" /\ unit' = "active")
  BY DEF Hear, processVars, mqttVars
<1>2. /\ Queued = Queued' \cup {h} /\ h \in States
      /\ inbox' \in Seq(States) /\ Len(inbox') = Len(inbox) - 1
      /\ Len(inbox) \in Nat \ {0} /\ h = inbox[1]
      /\ DOMAIN inbox' = 1..Len(inbox) - 1 /\ DOMAIN inbox = 1..Len(inbox)
      /\ \A i \in 1..Len(inbox) - 1 : inbox'[i] = inbox[i + 1]
  BY <1>1, QueuedTail DEF LifeCycle, TypeOK, NotifierTypeOK
<1> HIDE DEF h
<1>3. Said' = Said
  BY <1>1, <1>2 DEF Said
<1>4. \A i \in DOMAIN inbox' : i + 1 \in DOMAIN inbox /\ i + 1 # 1 /\ inbox'[i] = inbox[i + 1]
  BY <1>2, SMT
<1>5. \A i \in DOMAIN inbox' : inbox'[i] # "READY"
  BY <1>4 DEF LifeCycle, Ordered
<1>6. \A i \in DOMAIN inbox' : inbox'[i] = "STOPPING" => i + 1 = Len(inbox)
  BY <1>4 DEF LifeCycle, Ordered
<1>7. Ordered'
  <2>1. \A i \in DOMAIN inbox' : inbox'[i] = "STOPPING" => i = Len(inbox')
    BY <1>2, <1>6, SMT
  <2>2. "READY" \notin Queued'
    BY <1>5 DEF Queued
  <2>3. "STOPPING" \in heard' => inbox' = <<>>
    <3>1. "STOPPING" \notin heard
      BY <1>1 DEF LifeCycle, Ordered
    <3>2. SUFFICES ASSUME h = "STOPPING" PROVE inbox' = <<>>
      BY <1>1, <3>1
    <3>3. 1 \in DOMAIN inbox /\ inbox[1] = "STOPPING"
      BY <1>2, <3>2, SMT
    <3>4. Len(inbox) = 1
      BY <3>3 DEF LifeCycle, Ordered
    <3> QED
      BY <1>2, <3>4, EmptySeq, SMT
  <2> QED
    BY <1>5, <2>1, <2>2, <2>3 DEF Ordered
<1>8. inbox # <<>> /\ pc \notin Boot \cup {"ready"} /\ unit # "dead"
  BY <1>1 DEF LifeCycle, Place
<1>9. Place'
  BY <1>1, <1>8 DEF LifeCycle, Place, Boot, Serving, Ending, Dead
<1>10. ToldTruth'
  <2>1. unit' = "active" => "READY" \in Said'
    BY <1>1 DEF LifeCycle, Place, Said
  <2> QED
    BY <1>1, <1>3, <2>1 DEF LifeCycle, ToldTruth
<1> QED
  BY <1>1, <1>3, <1>7, <1>9, <1>10 DEF LifeCycle, Reason, AnnouncedStop

LEMMA RestartKeeps ==
    ASSUME LifeCycle, Restart
    PROVE  Place' /\ Reason' /\ ToldTruth' /\ Ordered' /\ AnnouncedStop'
<1>1. /\ pc' = "args" /\ rc' = 3 /\ ~started' /\ ~gaveUp' /\ heard' = {} /\ lost' = {}
      /\ unit' = "activating" /\ inbox' = inbox /\ inbox = <<>>
  BY DEF Restart, LifeCycle, Place
<1>2. Queued' = {} /\ Said' = {}
  <2>1. Queued = {}
    BY <1>1, QueuedEmpty
  <2> QED
    BY <1>1, <2>1 DEF Queued, Said
<1>3. DOMAIN inbox' = {}
  BY <1>1, SMT
<1> QED
  BY <1>1, <1>2, <1>3
     DEF Place, Reason, ToldTruth, Ordered, AnnouncedStop, Boot, Serving, Ending, Dead, Alive

\* What the receiving end had not read is lost with it.
LEMMA ReceiverKeeps ==
    ASSUME LifeCycle, ReceiverStep
    PROVE  Place' /\ Reason' /\ ToldTruth' /\ Ordered' /\ AnnouncedStop'
<1>1. /\ pc' = pc /\ rc' = rc /\ flags' = flags /\ stop' = stop /\ started' = started
      /\ unit' = unit /\ heard' = heard /\ enabled' = enabled /\ gaveUp' = gaveUp
  BY DEF ReceiverStep, Vanish, Appear, processVars, mqttVars, managerVars
<1>2. CASE Appear
  BY <1>1, <1>2, OutsideKeeps DEF Appear
<1>3. CASE Vanish
  <2>1. inbox' = <<>> /\ lost' = lost \cup Queued
    BY <1>3 DEF Vanish
  <2>2. DOMAIN inbox' = {} /\ Queued' = {}
    <3>1. DOMAIN inbox' = {}
      BY <2>1, SMT
    <3> QED
      BY <3>1 DEF Queued
  <2>3. Said' = Said
    BY <1>1, <2>1, <2>2 DEF Said
  <2>4. Ordered'
    BY <2>1, <2>2 DEF Ordered
  <2> QED
    BY <1>1, <2>1, <2>3, <2>4
       DEF LifeCycle, Place, Reason, ToldTruth, AnnouncedStop, Boot, Serving, Ending, Dead, Alive
<1> QED
  BY <1>2, <1>3 DEF ReceiverStep

LEMMA LifeCycleKept ==
    ASSUME LifeCycle, [Next]_vars
    PROVE  Place' /\ Reason' /\ ToldTruth' /\ Ordered' /\ AnnouncedStop'
<1>1. CASE Connection \/ UNCHANGED vars
  BY <1>1, OutsideKeeps
     DEF Connection, vars, notifierVars, processVars, mqttVars, managerVars
<1>2. ASSUME NEW signal \in Signals, Interrupt(signal)
      PROVE  Place' /\ Reason' /\ ToldTruth' /\ Ordered' /\ AnnouncedStop'
  BY <1>2, DeliverKeeps DEF Interrupt, managerVars
<1>3. CASE Terminate
  BY <1>3, DeliverKeeps DEF Terminate
<1>4. CASE TimeOut
  BY <1>4, OutsideKeeps DEF TimeOut, Kill
<1>5. CASE Reap
  BY <1>5, OutsideKeeps DEF Reap, notifierVars, processVars, mqttVars
<1> QED
  BY <1>1, <1>2, <1>3, <1>4, <1>5, ProcessKeeps, HearKeeps, RestartKeeps, ReceiverKeeps
     DEF Next, ManagerStep, Finished

(***************************************************************************)
(* Types.                                                                  *)
(***************************************************************************)
Places == Boot \cup Serving \cup Ending \cup Dead

LEMMA SilentTypes == NotifierTypeOK /\ Silent => NotifierTypeOK'
  BY DEF NotifierTypeOK, Silent, notifierVars

\* What is left of the wait never falls below zero.
LEMMA SpentTypes == TypeOK => Spent \in 0..MaxPatience
<1> SUFFICES ASSUME TypeOK PROVE Spent \in 0..MaxPatience
  OBVIOUS
<1>1. patience \in 0..MaxPatience /\ MaxPatience \in Nat
  BY DaemonAssumption DEF TypeOK, DaemonAssumption
<1> QED
  BY <1>1, SMT DEF Spent

\* A step of run() that leaves the publisher alone.
LEMMA RunTypes ==
    ASSUME TypeOK, NotifierTypeOK', UNCHANGED <<flags, stop, mqttVars, managerVars>>,
           pc' \in Places, rc' \in 0..3, handlers' \in SUBSET Signals,
           patience' \in 0..MaxPatience, gaveUp' \in BOOLEAN
    PROVE  TypeOK'
BY DEF TypeOK, Places, mqttVars, managerVars

LEMMA ProcessTypes ==
    ASSUME TypeOK, ProcessStep
    PROVE  TypeOK'
<1> USE DEF Goto, Exit, Return, Unmoved, Places, Boot, Serving, Ending, Dead
<1>1. /\ NotifierTypeOK /\ rc \in 0..3 /\ handlers \in SUBSET Signals
      /\ patience \in 0..MaxPatience /\ Spent \in 0..MaxPatience /\ gaveUp \in BOOLEAN
  BY SpentTypes DEF TypeOK
<1>2. CASE ParseArgs \/ LoadConfig \/ Create
  <2>1. /\ NotifierTypeOK' /\ UNCHANGED <<flags, stop, mqttVars, managerVars>>
        /\ pc' \in Places /\ rc' \in 0..3 /\ handlers' = handlers /\ patience' = patience
        /\ gaveUp' = gaveUp
    BY <1>1, <1>2, SilentTypes, SMT DEF ParseArgs, LoadConfig, Create, NextOfCreate
  <2> QED
    BY <1>1, <2>1, RunTypes
<1>3. CASE Register
  <2>1. /\ NotifierTypeOK' /\ UNCHANGED <<flags, stop, mqttVars, managerVars>>
        /\ pc' \in Places /\ rc' \in 0..3 /\ patience' = patience /\ gaveUp' = gaveUp
    BY <1>1, <1>3, SilentTypes, SMT DEF Register
  <2>2. handlers' \in SUBSET Signals
    BY <1>1, <1>3 DEF Register, Signals
  <2> QED
    BY <1>1, <2>1, <2>2, RunTypes
<1>4. CASE Start
  <2>1. CASE Exit(1) /\ UNCHANGED mqttVars
    <3>1. NotifierTypeOK' /\ pc' \in Places /\ rc' \in 0..3
      BY <1>1, <1>4, <2>1, SilentTypes, SMT DEF Start
    <3> QED
      BY <1>1, <1>4, <2>1, <3>1, RunTypes DEF Start
  <2>2. CASE Goto("ready") /\ worker' = TRUE /\ started' = TRUE /\ UNCHANGED connected
    <3>1. worker' \in BOOLEAN /\ started' \in BOOLEAN
      BY <2>2
    <3>2. NotifierTypeOK' /\ pc' = "ready" /\ rc' = rc /\ connected' = connected
      BY <1>1, <1>4, <2>2, SilentTypes DEF Start
    <3> QED
      BY <1>4, <3>1, <3>2 DEF Start, TypeOK, managerVars
  <2> QED
    BY <1>4, <2>1, <2>2 DEF Start
<1>5. CASE OnceNap \/ OnceLeave \/ OnceDone
  <2>1. /\ NotifierTypeOK' /\ UNCHANGED <<flags, stop, mqttVars, managerVars>>
        /\ pc' \in Places /\ rc' \in 0..3 /\ handlers' = handlers
        /\ patience' \in {patience, Spent} /\ gaveUp' = gaveUp
    BY <1>1, <1>5, SilentTypes, SMT DEF OnceNap, OnceLeave, OnceDone
  <2> QED
    BY <1>1, <2>1, RunTypes
<1>6. CASE Check \/ Tick \/ Wake
  <2>1. /\ NotifierTypeOK' /\ UNCHANGED <<flags, stop, mqttVars, managerVars>>
        /\ pc' \in Places /\ rc' \in 0..3 /\ handlers' = handlers /\ patience' = patience
        /\ gaveUp' = gaveUp
    BY <1>1, <1>6, SilentTypes, SMT DEF Check, Tick, Wake, OnWake
  <2> QED
    BY <1>1, <2>1, RunTypes
<1>7. CASE MaintainFails
  <2>1. worker' \in BOOLEAN
    BY <1>7 DEF MaintainFails
  <2>2. NotifierTypeOK' /\ pc' \in Places /\ rc' = rc
    BY <1>1, <1>7, SilentTypes DEF MaintainFails
  <2> QED
    BY <1>7, <2>1, <2>2 DEF MaintainFails, TypeOK, managerVars
<1>8. CASE StopPublisher
  <2>1. worker' \in BOOLEAN /\ connected' \in BOOLEAN
    BY <1>8 DEF StopPublisher
  <2>2. NotifierTypeOK' /\ pc' \in Places /\ rc' = rc
    BY <1>1, <1>8, SilentTypes DEF StopPublisher
  <2> QED
    BY <1>8, <2>1, <2>2 DEF StopPublisher, TypeOK, managerVars
<1>9. CASE CloseNotifier
  <2>1. NotifierTypeOK'
    BY <1>1, <1>9 DEF CloseNotifier, Close, NotifierTypeOK
  <2> QED
    BY <1>1, <1>9, <2>1, RunTypes DEF CloseNotifier
<1>10. CASE Ready \/ Stopping
  <2>1. NotifierTypeOK'
    <3>1. \E s \in States : Notify(s)
      BY <1>10 DEF Ready, Stopping, Farewell, States
    <3> QED
      BY <1>1, <3>1, Notified
  <2>2. /\ UNCHANGED <<flags, stop, mqttVars, managerVars>>
        /\ pc' \in Places /\ rc' = rc /\ handlers' = handlers /\ patience' = patience
        /\ gaveUp' = gaveUp
    BY <1>10 DEF Ready, Stopping
  <2> QED
    BY <1>1, <2>1, <2>2, RunTypes
<1>11. CASE OnceWait \/ Pet
  <2>1. NotifierTypeOK'
    <3>1. (\E s \in States : Notify(s)) \/ Silent
      BY <1>11 DEF OnceWait, Pet, Watchdog, States
    <3> QED
      BY <1>1, <3>1, Notified, SilentTypes
  <2>2. /\ UNCHANGED <<flags, stop, mqttVars, managerVars>>
        /\ pc' \in Places /\ rc' = rc /\ handlers' = handlers
        /\ patience' \in {patience, Spent} /\ gaveUp' = gaveUp
    BY <1>11 DEF OnceWait, Pet
  <2> QED
    BY <1>1, <2>1, <2>2, RunTypes
<1>12. CASE Report
  <2>1. NotifierTypeOK'
    <3>1. (\E s \in States : Notify(s)) \/ Silent
      BY <1>12 DEF Report, States
    <3> QED
      BY <1>1, <3>1, Notified, SilentTypes
  <2>2. /\ UNCHANGED <<flags, stop, mqttVars, managerVars>>
        /\ handlers' = handlers /\ patience' = patience /\ gaveUp' = gaveUp
    BY <1>12 DEF Report
  <2>3. pc' \in Places /\ rc' \in 0..3
    BY <1>1, <1>12, SMT DEF Report
  <2> QED
    BY <1>1, <2>1, <2>2, <2>3, RunTypes
<1>13. CASE Failure
  <2>1. NotifierTypeOK'
    BY <1>1, <1>13, SilentTypes DEF Failure
  <2>2. gaveUp' \in BOOLEAN
    BY <1>1, <1>13 DEF Failure
  <2>3. pc' \in Places /\ rc' \in 0..3
    BY <1>1, <1>13, SMT DEF Failure, GaveUp
  <2> QED
    BY <1>1, <1>13, <2>1, <2>2, <2>3, RunTypes DEF Failure
<1> QED
  BY <1>2, <1>3, <1>4, <1>5, <1>6, <1>7, <1>8, <1>9, <1>10, <1>11, <1>12, <1>13
     DEF ProcessStep

LEMMA KillTypes ==
    ASSUME NotifierTypeOK, Kill
    PROVE  NotifierTypeOK' /\ pc' \in Places /\ worker' \in BOOLEAN /\ connected' \in BOOLEAN
<1>1. NotifierTypeOK'
  BY DEF Kill, NotifierTypeOK
<1>2. worker' \in BOOLEAN /\ connected' \in BOOLEAN
  BY DEF Kill
<1> QED
  BY <1>1, <1>2 DEF Kill, Places, Dead

LEMMA DeliverTypes ==
    ASSUME TypeOK, NEW signal, Deliver(signal),
           unit' = unit \/ unit' = "deactivating",
           heard' = heard, asked' \in BOOLEAN, starts' = starts
    PROVE  TypeOK'
<1>1. CASE signal \in handlers
  <2>1. stop' \in BOOLEAN
    BY <1>1 DEF Deliver
  <2>2. NotifierTypeOK'
    BY <1>1, SilentTypes DEF Deliver, TypeOK, Silent
  <2> QED
    BY <1>1, <2>1, <2>2 DEF Deliver, TypeOK, mqttVars
<1>2. CASE Kill
  BY <1>2, KillTypes DEF Kill, TypeOK, Places
<1> QED
  BY <1>1, <1>2 DEF Deliver

LEMMA ManagerTypes ==
    ASSUME TypeOK, ManagerStep
    PROVE  TypeOK'
<1>1. CASE Hear
  <2>1. inbox' \in Seq(States) /\ Len(inbox') <= QueueCap /\ Head(inbox) \in States
    <3>1. /\ inbox \in Seq(States) /\ inbox # <<>> /\ inbox' = Tail(inbox)
          /\ Len(inbox) <= QueueCap
      BY <1>1 DEF Hear, TypeOK, NotifierTypeOK
    <3>2. /\ inbox' \in Seq(States) /\ Head(inbox) \in States
          /\ Len(inbox') = Len(inbox) - 1 /\ Len(inbox) \in Nat \ {0}
      BY <3>1, QueuedTail
    <3> QED
      BY <3>1, <3>2, NotifierAssumption, SMT DEF NotifierAssumption
  <2>2. NotifierTypeOK'
    BY <1>1, <2>1 DEF Hear, TypeOK, NotifierTypeOK
  <2>3. heard' \in SUBSET States
    BY <1>1, <2>1 DEF Hear, TypeOK
  <2> QED
    BY <1>1, <2>2, <2>3 DEF Hear, TypeOK, processVars, mqttVars
<1>2. CASE Terminate
  <2>1. asked' \in BOOLEAN
    BY <1>2 DEF Terminate, TypeOK
  <2> QED
    BY <1>2, <2>1, DeliverTypes DEF Terminate
<1>3. CASE TimeOut
  BY <1>3, KillTypes DEF TimeOut, Kill, TypeOK, Places
<1>4. CASE Reap
  <2>1. NotifierTypeOK'
    BY <1>4, SilentTypes DEF Reap, TypeOK, Silent
  <2> QED
    BY <1>4, <2>1 DEF Reap, TypeOK, processVars, mqttVars
<1>5. CASE Restart
  <2>1. NotifierTypeOK'
    BY <1>5 DEF Restart, TypeOK, NotifierTypeOK
  <2>2. /\ stop' \in BOOLEAN /\ worker' \in BOOLEAN /\ connected' \in BOOLEAN
        /\ started' \in BOOLEAN /\ gaveUp' \in BOOLEAN
    BY <1>5 DEF Restart
  <2>3. starts' \in 1..MaxStarts /\ rc' \in 0..3 /\ patience' \in 0..MaxPatience
    BY <1>5, DaemonAssumption, SMT DEF Restart, TypeOK, DaemonAssumption
  <2> QED
    BY <1>5, <2>1, <2>2, <2>3 DEF Restart, TypeOK, Boot
<1> QED
  BY <1>1, <1>2, <1>3, <1>4, <1>5 DEF ManagerStep

LEMMA ReceiverTypes ==
    ASSUME TypeOK, ReceiverStep
    PROVE  TypeOK'
<1>1. NotifierTypeOK'
  <2>1. CASE Vanish
    <3>1. inbox' = <<>> /\ listening' \in BOOLEAN
      BY <2>1 DEF Vanish
    <3>2. inbox' \in Seq(States) /\ Len(inbox') <= QueueCap
      BY <3>1, EmptySeq, NotifierAssumption, SMT DEF NotifierAssumption
    <3>3. lost' \in SUBSET States
      <4>1. Queued \subseteq States
        BY DEF Queued, TypeOK, NotifierTypeOK
      <4> QED
        BY <2>1, <4>1 DEF Vanish, TypeOK, NotifierTypeOK
    <3>4. outages' \in 0..MaxOutages
      BY <2>1, NotifierAssumption, SMT DEF Vanish, TypeOK, NotifierTypeOK, NotifierAssumption
    <3> QED
      BY <2>1, <3>1, <3>2, <3>3, <3>4 DEF Vanish, TypeOK, NotifierTypeOK
  <2>2. CASE Appear
    <3>1. listening' \in BOOLEAN
      BY <2>2 DEF Appear
    <3> QED
      BY <2>2, <3>1 DEF Appear, TypeOK, NotifierTypeOK
  <2> QED
    BY <2>1, <2>2 DEF ReceiverStep
<1> QED
  BY <1>1 DEF ReceiverStep, TypeOK, processVars, mqttVars, managerVars

LEMMA TypesKept ==
    ASSUME TypeOK, [Next]_vars
    PROVE  TypeOK'
<1>1. CASE UNCHANGED vars
  <2>1. NotifierTypeOK'
    BY <1>1, SilentTypes DEF vars, TypeOK, Silent
  <2> QED
    BY <1>1, <2>1 DEF vars, TypeOK, processVars, mqttVars, managerVars
<1>2. CASE Connection
  <2>1. NotifierTypeOK'
    BY <1>2, SilentTypes DEF Connection, TypeOK, Silent
  <2>2. connected' \in BOOLEAN
    BY <1>2 DEF Connection
  <2> QED
    BY <1>2, <2>1, <2>2 DEF Connection, TypeOK, processVars, managerVars
<1>3. ASSUME NEW signal \in Signals, Interrupt(signal) PROVE TypeOK'
  BY <1>3, DeliverTypes DEF Interrupt, managerVars, TypeOK
<1> QED
  BY <1>1, <1>2, <1>3, ProcessTypes, ManagerTypes, ReceiverTypes DEF Next, Finished

(***************************************************************************)
(* The invariant and what follows from it.                                 *)
(***************************************************************************)
LEMMA Beginning == Init => LifeCycle
<1> SUFFICES ASSUME Init PROVE LifeCycle
  OBVIOUS
<1>1. inbox = <<>> /\ lost = {} /\ heard = {} /\ pc = "args" /\ ~started /\ ~gaveUp
  BY DEF Init, NotifierInit
<1>2. DOMAIN inbox = {} /\ Queued = {} /\ Said = {}
  <2>1. DOMAIN inbox = {}
    BY <1>1, SMT
  <2> QED
    BY <1>1, <2>1 DEF Queued, Said
<1>3. NotifierTypeOK
  <2>1. enabled \in BOOLEAN /\ armed \in BOOLEAN
    BY DEF Init, NotifierInit, Enabled, Armed
  <2>2. inbox \in Seq(States) /\ Len(inbox) <= QueueCap /\ outages \in 0..MaxOutages
    <3>1. outages = 0
      BY DEF Init, NotifierInit
    <3> QED
      BY <1>1, <3>1, EmptySeq, NotifierAssumption, SMT DEF NotifierAssumption
  <2> QED
    BY <1>1, <2>1, <2>2 DEF Init, NotifierInit, NotifierTypeOK
<1>4. TypeOK
  <2>1. /\ stop \in BOOLEAN /\ worker \in BOOLEAN /\ connected \in BOOLEAN
        /\ started \in BOOLEAN /\ asked \in BOOLEAN /\ gaveUp \in BOOLEAN
    BY DEF Init
  <2>2. rc \in 0..3 /\ patience \in 0..MaxPatience /\ starts \in 1..MaxStarts
    BY DaemonAssumption, SMT DEF Init, DaemonAssumption
  <2> QED
    BY <1>3, <2>1, <2>2 DEF Init, TypeOK, Boot
<1>5. unit \in {"activating", "none"}
  BY DEF Init
<1> QED
  BY <1>1, <1>2, <1>4, <1>5
     DEF LifeCycle, Place, Reason, ToldTruth, Ordered, AnnouncedStop, Boot, Serving, Ending, Dead

LEMMA Invariance == Spec => []LifeCycle
<1>1. LifeCycle /\ [Next]_vars => LifeCycle'
  BY LifeCycleKept, TypesKept DEF LifeCycle
<1> QED
  BY <1>1, Beginning, PTL DEF Spec

\* Every variable keeps its type; among them the queue of the manager, which never
\* holds more than it can, and what is left of the wait of --once, which never
\* falls below zero (connect_wait.saturating_sub, main.rs).
THEOREM TypeCorrect == Spec => []TypeOK
<1>1. LifeCycle => TypeOK
  BY DEF LifeCycle
<1> QED
  BY <1>1, Invariance, PTL

\* The manager is never told READY by a process whose publisher was not started, nor
\* STOPPING by one that still serves, whatever datagrams are lost and however often
\* the service is restarted (main.rs: ready() after start(), stopping() before stop()).
THEOREM ManagerToldTruth == Spec => []ToldTruth
<1>1. LifeCycle => ToldTruth
  BY DEF LifeCycle
<1> QED
  BY <1>1, Invariance, PTL

\* READY is read first and STOPPING last of what a process sends (sdnotify.rs,
\* notify, called from main.rs and from Reporter::run).
THEOREM DatagramsOrdered == Spec => []Ordered
<1>1. LifeCycle => Ordered
  BY DEF LifeCycle
<1> QED
  BY <1>1, Invariance, PTL

\* The publisher is stopped only after STOPPING was sent or could not be (main.rs).
THEOREM StopAnnounced == Spec => []AnnouncedStop
<1>1. LifeCycle => AnnouncedStop
  BY DEF LifeCycle
<1> QED
  BY <1>1, Invariance, PTL

\* A daemon that served and exits with 0 was told to stop, and one whose loop gave up
\* exits with 1, whatever signals come meanwhile (main.rs, Reporter::run).
THEOREM ExitHonest == Spec => []ExitTruth
<1>1. LifeCycle => ExitTruth
  BY DEF LifeCycle, Reason, ExitTruth
<1> QED
  BY <1>1, Invariance, PTL
=============================================================================
