------------------------------ MODULE Reporter ------------------------------
(***************************************************************************)
(* The reporting loop of src/src/reporter.rs: Reporter::run with tick,     *)
(* cycle, report_once and sleep_secs, on an explicit monotonic clock.      *)
(* The publisher is its interface (trait Publish): maintain may fail,      *)
(* connected() reads a flag another thread flips, each publish takes up to *)
(* Timeout.  The clock counts whole units from 0 and stops at Horizon.     *)
(* report_once cannot return Err: its topic template was validated when    *)
(* the configuration was loaded.                                           *)
(***************************************************************************)
EXTENDS Naturals

CONSTANTS
    Interval,       \* report.interval_secs
    ReportOnStart,  \* report.report_on_start
    TickMax,        \* LOOP_TICK_MAX_SECS
    Retry,          \* PENDING_RETRY_SECS
    MaxFailures,    \* MAX_CONSECUTIVE_CYCLE_FAILURES
    Half,           \* watchdog_interval_secs(), 0 without a watchdog
    Messages,       \* most messages in one report
    Timeout,        \* mqtt.publish_timeout_secs: most time one publish takes
    MaintainMax,    \* most time one maintain takes (a rebuild joins the worker)
    Late,           \* most time a wait overshoots (scheduling, 50 ms steps)
    Horizon         \* bound on the clock

ASSUME ReporterAssumption ==
    /\ Interval \in Nat \ {0} /\ TickMax \in Nat \ {0} /\ Retry \in Nat \ {0}
    /\ MaxFailures \in Nat \ {0}
    /\ ReportOnStart \in BOOLEAN
    /\ Half \in Nat /\ Messages \in Nat /\ Timeout \in Nat
    /\ MaintainMax \in Nat /\ Late \in Nat /\ Horizon \in Nat

VARIABLES
    pc,            \* where the loop is
    now,           \* the monotonic clock
    next,          \* Reporter.next
    first_pending, \* Reporter.first_pending
    failures,      \* Reporter.failures
    left,          \* messages of the current report still to publish
    wake,          \* when the current wait is over
    up,            \* what publisher.connected() returns
    stop,          \* the flag the signal handlers set
    rc,            \* the result of run(), "none" while it runs
    pet,           \* history: when the watchdog was last notified
    settled,       \* history: when the last report ended or slot was skipped
    upSince,       \* history: when `up` last became TRUE
    stopAt         \* history: when the stop flag was set

vars == <<pc, now, next, first_pending, failures, left, wake, up, stop, rc,
          pet, settled, upSince, stopAt>>

TypeOK ==
    /\ pc \in {"check", "maintain", "due", "publish", "pet", "sleep", "exited"}
    /\ now \in 0..Horizon /\ next \in Nat /\ wake \in Nat
    /\ first_pending \in BOOLEAN /\ up \in BOOLEAN /\ stop \in BOOLEAN
    /\ failures \in 0..MaxFailures
    /\ left \in 0..Messages
    /\ rc \in {"none", "ok", "failed"}
    /\ pet \in 0..now /\ settled \in 0..now /\ upSince \in 0..now /\ stopAt \in 0..now

Init ==
    /\ pc = "check" /\ now = 0
    /\ first_pending = ReportOnStart
    /\ next = IF ReportOnStart THEN 0 ELSE Interval
    /\ failures = 0 /\ left = 0 /\ wake = 0
    /\ up = FALSE /\ stop = FALSE /\ rc = "none"
    /\ pet = 0 /\ settled = 0 /\ upSince = 0 /\ stopAt = 0

Lesser(a, b) == IF a <= b THEN a ELSE b

\* seconds_until_due: saturating at zero.
UntilDue == IF next > now THEN next - now ELSE 0

\* Mutant of SleepSecs: the tick is not cut short by the due time.
FullTick == IF UntilDue = 0 THEN Retry ELSE TickMax

\* sleep_secs: never zero, never past the due time, the tick or half the watchdog.
SleepSecs ==
    LET wait == IF UntilDue = 0 THEN Retry ELSE Lesser(UntilDue, TickMax)
    IN  IF Half = 0 THEN wait ELSE Lesser(wait, Half)

\* The clock moves by at most d while the loop does something.
Elapse(d) == \E t \in now..(now + d) : t <= Horizon /\ now' = t

(***************************************************************************)
(* The loop.                                                               *)
(***************************************************************************)
Stopped ==
    /\ pc = "check" /\ stop
    /\ pc' = "exited" /\ rc' = "ok"
    /\ UNCHANGED <<now, next, first_pending, failures, left, wake, up, stop,
                   pet, settled, upSince, stopAt>>

Tick ==
    /\ pc = "check" /\ ~stop
    /\ pc' = "maintain"
    /\ UNCHANGED <<now, next, first_pending, failures, left, wake, up, stop, rc,
                   pet, settled, upSince, stopAt>>

MaintainOk ==
    /\ pc = "maintain"
    /\ Elapse(MaintainMax)
    /\ pc' = "due"
    /\ UNCHANGED <<next, first_pending, failures, left, wake, up, stop, rc,
                   pet, settled, upSince, stopAt>>

\* The loop goes on after a failure; mutant: one failure too many.
OneMoreFailure == failures < MaxFailures
Tolerated == failures + 1 < MaxFailures

\* maintain()? fails the cycle; the last tolerated failure ends run() with 1.
MaintainFail ==
    /\ pc = "maintain"
    /\ Elapse(MaintainMax)
    /\ failures' = failures + 1
    /\ IF Tolerated
       THEN pc' = "pet" /\ rc' = rc
       ELSE pc' = "exited" /\ rc' = "failed"
    /\ UNCHANGED <<next, first_pending, left, wake, up, stop, pet, settled, upSince,
                   stopAt>>

\* The cycle succeeded without a report.
CycleDone == pc' = "pet" /\ failures' = 0

NotDue ==
    /\ pc = "due" /\ UntilDue # 0
    /\ CycleDone
    /\ UNCHANGED <<now, next, first_pending, left, wake, up, stop, rc,
                   pet, settled, upSince, stopAt>>

\* The schedule restarts from now; mutant: it counts from the last slot.
FromLastSlot == next + Interval
FromNow == now + Interval

\* Not connected: the slot is skipped ...
SkipSlot ==
    /\ pc = "due" /\ UntilDue = 0 /\ ~up /\ ~first_pending
    /\ next' = FromNow /\ settled' = now
    /\ CycleDone
    /\ UNCHANGED <<now, first_pending, left, wake, up, stop, rc, pet, upSince, stopAt>>

\* Mutant of AwaitFirst: the first report waits for the next slot too.
SkipsFirst ==
    /\ pc = "due" /\ UntilDue = 0 /\ ~up /\ first_pending
    /\ next' = FromNow
    /\ CycleDone
    /\ UNCHANGED <<now, first_pending, left, wake, up, stop, rc,
                   pet, settled, upSince, stopAt>>

\* ... but the first report stays due until there is a connection.
AwaitFirst ==
    /\ pc = "due" /\ UntilDue = 0 /\ ~up /\ first_pending
    /\ CycleDone
    /\ UNCHANGED <<now, next, first_pending, left, wake, up, stop, rc,
                   pet, settled, upSince, stopAt>>

\* report_once: collect, then one publish per message.
StartReport ==
    /\ pc = "due" /\ UntilDue = 0 /\ up
    /\ pc' = "publish"
    /\ left' \in 0..Messages
    /\ UNCHANGED <<now, next, first_pending, failures, wake, up, stop, rc,
                   pet, settled, upSince, stopAt>>

PublishOne ==
    /\ pc = "publish" /\ left > 0
    /\ left' = left - 1
    /\ Elapse(Timeout)
    /\ UNCHANGED <<pc, next, first_pending, failures, wake, up, stop, rc,
                   pet, settled, upSince, stopAt>>

\* The next slot is counted from the end of the report.
EndReport ==
    /\ pc = "publish" /\ left = 0
    /\ first_pending' = FALSE
    /\ next' = FromNow /\ settled' = now
    /\ CycleDone
    /\ UNCHANGED <<now, left, wake, up, stop, rc, pet, upSince, stopAt>>

\* The watchdog is notified; mutant: only while connected.
NotifyConnected == IF up THEN now ELSE pet
Notify == now

Pet ==
    /\ pc = "pet"
    /\ pet' = Notify
    /\ wake' = now + SleepSecs
    /\ pc' = "sleep"
    /\ UNCHANGED <<now, next, first_pending, failures, left, up, stop, rc,
                   settled, upSince, stopAt>>

\* Mutant of Doze: the sleep does not look at the stop flag.
SleepsOn ==
    /\ pc = "sleep" /\ now < wake /\ now < Horizon
    /\ now' = now + 1
    /\ UNCHANGED <<pc, next, first_pending, failures, left, wake, up, stop, rc,
                   pet, settled, upSince, stopAt>>

\* wait sleeps in short steps until the time is over or the stop flag is set.
Doze ==
    /\ pc = "sleep" /\ now < wake /\ ~stop /\ now < Horizon
    /\ now' = now + 1
    /\ UNCHANGED <<pc, next, first_pending, failures, left, wake, up, stop, rc,
                   pet, settled, upSince, stopAt>>

Wake ==
    /\ pc = "sleep" /\ (now >= wake \/ stop)
    /\ Elapse(Late)
    /\ pc' = "check"
    /\ UNCHANGED <<next, first_pending, failures, left, wake, up, stop, rc,
                   pet, settled, upSince, stopAt>>

(***************************************************************************)
(* Around the loop: the network thread and the signals.                    *)
(***************************************************************************)
Connect ==
    /\ ~up
    /\ up' = TRUE /\ upSince' = now
    /\ UNCHANGED <<pc, now, next, first_pending, failures, left, wake, stop, rc,
                   pet, settled, stopAt>>

Disconnect ==
    /\ up
    /\ up' = FALSE
    /\ UNCHANGED <<pc, now, next, first_pending, failures, left, wake, stop, rc,
                   pet, settled, upSince, stopAt>>

Signal ==
    /\ ~stop /\ stop' = TRUE /\ stopAt' = now
    /\ UNCHANGED <<pc, now, next, first_pending, failures, left, wake, up, rc,
                   pet, settled, upSince>>

\* run() has returned, or the clock is at its bound.
Finished == (pc = "exited" \/ now = Horizon) /\ UNCHANGED vars

Next ==
    \/ Stopped \/ Tick \/ MaintainOk \/ MaintainFail
    \/ NotDue \/ SkipSlot \/ AwaitFirst \/ StartReport \/ PublishOne \/ EndReport
    \/ Pet \/ Doze \/ Wake
    \/ Connect \/ Disconnect \/ Signal
    \/ Finished

Spec == Init /\ [][Next]_vars

(***************************************************************************)
(* Properties.                                                             *)
(***************************************************************************)
\* Time a failed cycle can add: maintain, the retry wait and its overshoot.
Setback == MaintainMax + Retry + Late

\* No catch-up bursts: however late a report or a wake-up is, the next report
\* starts no earlier than one interval after the last one ended or was skipped.
NoBurst ==
    [][ (pc # "publish" /\ pc' = "publish" /\ ~first_pending)
            => now >= settled + Interval ]_vars

\* No drift into silence: once the first report is out of the way, the loop
\* never passes a due time by more than the overshoot of one wait and of the
\* maintain before it, plus what consecutive failed cycles cost.
Punctual ==
    (pc = "due" /\ ~first_pending)
        => now <= next + Late + MaintainMax + failures * Setback

\* The report owed since start goes out promptly after the first connection:
\* the loop polls for it every Retry, not every Interval.
FirstReportPrompt ==
    (pc = "due" /\ first_pending /\ up)
        => now <= upSince + Setback + failures * Setback

\* The gap between two watchdog notifications is bounded by one wait, one
\* maintain and one report in which every publish runs into its timeout.
\* Connected or not makes no difference.  The bound is in the constants: nothing
\* in the code makes WatchdogSec exceed it.
LongestWait == IF TickMax < Retry THEN Retry ELSE TickMax
LongestGap == LongestWait + Late + MaintainMax + Messages * Timeout

PetGap == pc # "exited" => now <= pet + LongestGap

\* A signal is honoured within one wait overshoot, one maintain and one report
\* in full: report_once does not look at the stop flag.  The bound is in the
\* constants: nothing in the code keeps it below TimeoutStopSec.
StopPrompt ==
    (stop /\ pc # "exited") => now <= stopAt + Late + MaintainMax + Messages * Timeout
=============================================================================
