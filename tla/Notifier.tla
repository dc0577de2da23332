------------------------------- MODULE Notifier -------------------------------
(***************************************************************************)
(* The systemd notifier of src/src/sdnotify.rs: best-effort datagrams to   *)
(* $NOTIFY_SOCKET through a socket opened at the first send and dropped    *)
(* after a failed one.  The receiving end belongs to the service manager:  *)
(* it may be gone for a while, and its queue is bounded, so that a send    *)
(* blocks while it is full.                                                *)
(***************************************************************************)
EXTENDS Naturals, Sequences

CONSTANTS
    QueueCap,    \* datagrams the receiving socket holds (net.unix.max_dgram_qlen)
    MaxOutages   \* bound: how often the receiving end goes away

ASSUME NotifierAssumption == QueueCap \in Nat \ {0} /\ MaxOutages \in Nat

States == {"READY", "STATUS", "WATCHDOG", "STOPPING"}

VARIABLES
    enabled,    \* Notifier.address is Some
    armed,      \* Notifier.watchdog_usec is Some
    socket,     \* Notifier.socket: "none" or "open"
    listening,  \* the receiving end exists
    inbox,      \* datagrams it has not read
    lost,       \* history: what this process sent in vain
    outages     \* how often the receiving end went away

notifierVars == <<enabled, armed, socket, listening, inbox, lost, outages>>

NotifierTypeOK ==
    /\ enabled \in BOOLEAN /\ armed \in BOOLEAN /\ listening \in BOOLEAN
    /\ socket \in {"none", "open"}
    /\ inbox \in Seq(States) /\ Len(inbox) <= QueueCap
    /\ lost \in SUBSET States
    /\ outages \in 0..MaxOutages

\* from_env: what the three environment variables can say.
Address == {"absent", "empty", "name"}
Pid == {"absent", "empty", "own", "other", "garbled"}
Usec == {"absent", "garbled", "zero", "positive"}

Enabled(address) == address = "name"
Armed(pid, usec) == pid \in {"absent", "empty", "own"} /\ usec = "positive"

NotifierInit ==
    /\ \E address \in Address : enabled = Enabled(address)
    /\ \E pid \in Pid, usec \in Usec : armed = Armed(pid, usec)
    /\ socket = "none" /\ listening \in BOOLEAN /\ inbox = <<>> /\ lost = {}
    /\ outages = 0

\* The queue of the receiving end.
Room == Len(inbox) < QueueCap

Delivered(state) ==
    /\ enabled /\ listening /\ Room
    /\ socket' = "open" /\ inbox' = Append(inbox, state)
    /\ UNCHANGED <<enabled, armed, listening, lost, outages>>

\* Nobody listens, or no socket can be opened: the error is logged, the socket
\* closed, and the datagram is not sent again.
Failed(state) ==
    /\ enabled /\ (~listening \/ socket = "none")
    /\ socket' = "none" /\ lost' = lost \cup {state}
    /\ UNCHANGED <<enabled, armed, listening, inbox, outages>>

Silent == UNCHANGED notifierVars

Notify(state) == Delivered(state) \/ Failed(state) \/ (~enabled /\ Silent)

Watchdog == IF armed THEN Notify("WATCHDOG") ELSE Silent

Close == socket' = "none" /\ UNCHANGED <<enabled, armed, listening, inbox, lost, outages>>

Queued == {inbox[i] : i \in DOMAIN inbox}

\* The receiving end goes away with what it has not read, and comes back.
Vanish ==
    /\ listening /\ outages < MaxOutages
    /\ listening' = FALSE /\ inbox' = <<>> /\ lost' = lost \cup Queued
    /\ outages' = outages + 1
    /\ UNCHANGED <<enabled, armed, socket>>

Appear ==
    /\ ~listening
    /\ listening' = TRUE
    /\ UNCHANGED <<enabled, armed, socket, inbox, lost, outages>>
=============================================================================
