--------------------------- MODULE ReporterProofs ---------------------------
(***************************************************************************)
(* Proofs about the reporting loop, for every interval, timeout, number of *)
(* messages, failure limit and clock bound.  Schedule, Owed, Petting and   *)
(* Stopping strengthen Punctual, FirstReportPrompt, PetGap and StopPrompt  *)
(* to every point of the loop, so that each follows from the one before.   *)
(***************************************************************************)
EXTENDS Reporter, TLAPS

\* Every slot is counted from the end of the last report or skip.
Counted == ~first_pending => next = settled + Interval

\* Where the clock may be, against the due time, at each point of the loop.
Schedule ==
    ~first_pending =>
        /\ pc \in {"check", "maintain"} => now <= next + Late + failures * Setback
        /\ pc = "due" => now <= next + Late + MaintainMax + failures * Setback
        /\ pc = "pet" => now < next \/ now + Retry <= next + failures * Setback
        /\ pc = "sleep" => now <= wake /\ wake <= next + failures * Setback

\* While the first report is owed it is due at once, and a connection is seen
\* by the next cycle.
Owed ==
    first_pending =>
        /\ next = 0
        /\ pc = "sleep" => now <= wake /\ wake <= now + Retry
        /\ up =>
             /\ pc \in {"check", "maintain"} =>
                    now <= upSince + Retry + Late + failures * Setback
             /\ pc = "due" => now <= upSince + Setback + failures * Setback
             /\ pc = "pet" => now <= upSince + failures * Setback
             /\ pc = "sleep" => wake <= upSince + Retry + failures * Setback

\* How far the clock may be from the last notification.
Petting ==
    /\ pc = "sleep" => now <= wake /\ wake <= pet + LongestWait
    /\ pc \in {"check", "maintain"} => now <= pet + LongestWait + Late
    /\ pc = "due" => now <= pet + LongestWait + Late + MaintainMax
    /\ pc = "publish" => now + left * Timeout <= pet + LongestGap
    /\ pc = "pet" => now <= pet + LongestGap

\* How far the clock may be from the signal.
Stopping ==
    stop =>
        /\ pc = "maintain" => now <= stopAt
        /\ pc = "due" => now <= stopAt + MaintainMax
        /\ pc = "publish" => now + left * Timeout <= stopAt + MaintainMax + Messages * Timeout
        /\ pc \in {"pet", "sleep"} => now <= stopAt + MaintainMax + Messages * Timeout
        /\ pc = "check" => now <= stopAt + MaintainMax + Messages * Timeout + Late

\* The cost of what is left of a report, and of one failure more.
LEMMA OneLess ==
    ASSUME NEW n \in Nat, NEW t \in Nat, n > 0
    PROVE  (n - 1) * t + t = n * t
<1>1. PICK k \in Nat : n = k + 1
  BY SMT
<1> QED BY <1>1, SMT

LEMMA OneMore ==
    ASSUME NEW n \in Nat, NEW t \in Nat
    PROVE  (n + 1) * t = n * t + t
BY SMT

LEMMA Monotone ==
    ASSUME NEW n \in Nat, NEW m \in Nat, NEW t \in Nat, n <= m
    PROVE  n * t <= m * t
<1>1. PICK k \in Nat : m = n + k
  BY SMT
<1>2. m * t = n * t + k * t /\ k * t >= 0
  BY <1>1, SMT
<1>3. n * t \in Nat /\ k * t \in Nat
  OBVIOUS
<1> QED BY <1>2, <1>3, SMT

LEMMA SetbackFacts ==
    ASSUME NEW n \in Nat
    PROVE  /\ Setback = MaintainMax + Retry + Late /\ Setback \in Nat
           /\ n * Setback \in Nat /\ 0 * Setback = 0
           /\ (n + 1) * Setback = n * Setback + Setback
BY ReporterAssumption, OneMore, SMT DEF Setback, ReporterAssumption

LEMMA Share ==
    ASSUME NEW n \in 0..Messages
    PROVE  /\ n * Timeout \in Nat /\ Messages * Timeout \in Nat
           /\ n * Timeout <= Messages * Timeout
<1>1. n \in Nat /\ Messages \in Nat /\ Timeout \in Nat /\ n <= Messages
  BY ReporterAssumption, SMT DEF ReporterAssumption
<1> QED
  BY <1>1, Monotone, SMT

LEMMA WaitNat == LongestWait \in Nat
BY ReporterAssumption, SMT DEF LongestWait, ReporterAssumption

\* The wait after a cycle is positive, and never passes the due time, the tick
\* or the retry delay.
LEMMA WaitBounds ==
    ASSUME now \in Nat, next \in Nat
    PROVE  /\ SleepSecs \in Nat
           /\ SleepSecs > 0
           /\ SleepSecs <= LongestWait
           /\ next > now => now + SleepSecs <= next
           /\ next <= now => SleepSecs <= Retry
BY ReporterAssumption, SMT DEF SleepSecs, UntilDue, Lesser, LongestWait, ReporterAssumption

\* Until run() gives up there is a failure left to tolerate.
Allowance == pc # "exited" => failures < MaxFailures

Typed == TypeOK /\ Allowance

LEMMA TypedInit == Init => Typed
<1> SUFFICES ASSUME Init PROVE Typed
  OBVIOUS
<1>1. first_pending \in BOOLEAN /\ up \in BOOLEAN /\ stop \in BOOLEAN
  BY ReporterAssumption DEF Init, ReporterAssumption
<1> QED
  BY <1>1, ReporterAssumption, SMT DEF Init, Typed, TypeOK, Allowance, ReporterAssumption

LEMMA TypedStep ==
    ASSUME Typed, [Next]_vars
    PROVE  Typed'
<1> USE ReporterAssumption DEF Typed, ReporterAssumption
<1>1. CASE Stopped
  BY <1>1, SMTT(30) DEF Stopped, TypeOK, Allowance
<1>2. CASE Tick
  BY <1>2, SMTT(30) DEF Tick, TypeOK, Allowance
<1>3. CASE MaintainOk
  BY <1>3, SMTT(30) DEF MaintainOk, Elapse, TypeOK, Allowance
<1>4. CASE MaintainFail
  BY <1>4, SMTT(30) DEF MaintainFail, Tolerated, Elapse, TypeOK, Allowance
<1>5. CASE NotDue
  BY <1>5, SMTT(30) DEF NotDue, CycleDone, TypeOK, Allowance
<1>6. CASE SkipSlot
  BY <1>6, SMTT(30) DEF SkipSlot, FromNow, CycleDone, TypeOK, Allowance
<1>7. CASE AwaitFirst
  BY <1>7, SMTT(30) DEF AwaitFirst, CycleDone, TypeOK, Allowance
<1>8. CASE StartReport
  BY <1>8, SMTT(30) DEF StartReport, TypeOK, Allowance
<1>9. CASE PublishOne
  BY <1>9, SMTT(30) DEF PublishOne, Elapse, TypeOK, Allowance
<1>10. CASE EndReport
  <2>1. first_pending' \in BOOLEAN
    BY <1>10 DEF EndReport
  <2> QED
    BY <1>10, <2>1, SMT DEF EndReport, FromNow, CycleDone, TypeOK, Allowance
<1>11. CASE Pet
  <2>1. SleepSecs \in Nat
    BY WaitBounds DEF TypeOK
  <2> QED
    BY <1>11, <2>1, SMT DEF Pet, Notify, TypeOK, Allowance
<1>12. CASE Doze
  BY <1>12, SMTT(30) DEF Doze, TypeOK, Allowance
<1>13. CASE Wake
  BY <1>13, SMTT(30) DEF Wake, Elapse, TypeOK, Allowance
<1>14. CASE Connect
  BY <1>14, SMTT(30) DEF Connect, TypeOK, Allowance
<1>15. CASE Disconnect
  <2>1. up' \in BOOLEAN
    BY <1>15 DEF Disconnect
  <2> QED
    BY <1>15, <2>1, SMT DEF Disconnect, TypeOK, Allowance
<1>16. CASE Signal
  BY <1>16, SMTT(30) DEF Signal, TypeOK, Allowance
<1>17. CASE Finished
  BY <1>17, SMTT(30) DEF Finished, vars, TypeOK, Allowance
<1>18. CASE UNCHANGED vars
  BY <1>18 DEF vars, TypeOK, Allowance
<1> QED
  BY <1>1, <1>2, <1>3, <1>4, <1>5, <1>6, <1>7, <1>8, <1>9, <1>10, <1>11, <1>12, <1>13, <1>14, <1>15, <1>16, <1>17, <1>18 DEF Next

\* The loop's variables keep their types: in particular the failure counter
\* stops at its limit and no history time is in the future.
THEOREM TypeCorrect == Spec => []TypeOK
<1>1. Typed => TypeOK
  BY DEF Typed
<1> QED
  BY <1>1, TypedInit, TypedStep, PTL DEF Spec

LEMMA AlwaysTyped == Spec => []Typed
BY TypedInit, TypedStep, PTL DEF Spec

LEMMA CountedStep ==
    ASSUME Typed, Counted, [Next]_vars
    PROVE  Counted'
<1> USE ReporterAssumption, WaitNat DEF Typed, TypeOK, ReporterAssumption
<1>1. CASE Stopped
  BY <1>1, SMTT(30) DEF Stopped, Counted
<1>2. CASE Tick
  BY <1>2, SMTT(30) DEF Tick, Counted
<1>3. CASE MaintainOk
  BY <1>3, SMTT(30) DEF MaintainOk, Elapse, Counted
<1>4. CASE MaintainFail
  BY <1>4, SMTT(30) DEF MaintainFail, Tolerated, Elapse, Counted
<1>5. CASE NotDue
  BY <1>5, SMTT(30) DEF NotDue, CycleDone, UntilDue, Counted
<1>6. CASE SkipSlot
  BY <1>6, SMTT(30) DEF SkipSlot, FromNow, CycleDone, Counted
<1>7. CASE AwaitFirst
  BY <1>7, SMTT(30) DEF AwaitFirst, CycleDone, Counted
<1>8. CASE StartReport
  BY <1>8, SMTT(30) DEF StartReport, Counted
<1>9. CASE PublishOne
  BY <1>9, SMTT(30) DEF PublishOne, Elapse, Counted
<1>10. CASE EndReport
  BY <1>10, SMTT(30) DEF EndReport, FromNow, CycleDone, Counted
<1>11. CASE Pet
  BY <1>11, SMTT(30) DEF Pet, Notify, Counted
<1>12. CASE Doze
  BY <1>12, SMTT(30) DEF Doze, Counted
<1>13. CASE Wake
  BY <1>13, SMTT(30) DEF Wake, Elapse, Counted
<1>14. CASE Connect
  BY <1>14, SMTT(30) DEF Connect, Counted
<1>15. CASE Disconnect
  BY <1>15, SMTT(30) DEF Disconnect, Counted
<1>16. CASE Signal
  BY <1>16, SMTT(30) DEF Signal, Counted
<1>17. CASE Finished
  BY <1>17, SMTT(30) DEF Finished, vars, Counted
<1>18. CASE UNCHANGED vars
  BY <1>18 DEF vars, Counted
<1> QED
  BY <1>1, <1>2, <1>3, <1>4, <1>5, <1>6, <1>7, <1>8, <1>9, <1>10, <1>11, <1>12, <1>13, <1>14, <1>15, <1>16, <1>17, <1>18 DEF Next

LEMMA ScheduleStep ==
    ASSUME Typed, Counted, Schedule, [Next]_vars
    PROVE  Schedule'
<1> USE ReporterAssumption, WaitNat DEF Typed, TypeOK, ReporterAssumption
<1>0. /\ Setback = MaintainMax + Retry + Late /\ Setback \in Nat
      /\ failures * Setback \in Nat /\ 0 * Setback = 0
      /\ (failures + 1) * Setback = failures * Setback + Setback
  BY SetbackFacts, SMT
<1> USE <1>0
<1>1. CASE Stopped
  BY <1>1, SMTT(30) DEF Stopped, Schedule, Counted
<1>2. CASE Tick
  BY <1>2, SMTT(30) DEF Tick, Schedule, Counted
<1>3. CASE MaintainOk
  BY <1>3, SMTT(30) DEF MaintainOk, Elapse, Schedule, Counted
<1>4. CASE MaintainFail
  BY <1>4, SMTT(30) DEF MaintainFail, Tolerated, Elapse, Schedule, Counted
<1>5. CASE NotDue
  BY <1>5, SMTT(30) DEF NotDue, CycleDone, UntilDue, Schedule, Counted
<1>6. CASE SkipSlot
  BY <1>6, SMTT(30) DEF SkipSlot, FromNow, CycleDone, Schedule, Counted
<1>7. CASE AwaitFirst
  BY <1>7, SMTT(30) DEF AwaitFirst, CycleDone, Schedule, Counted
<1>8. CASE StartReport
  BY <1>8, SMTT(30) DEF StartReport, Schedule, Counted
<1>9. CASE PublishOne
  BY <1>9, SMTT(30) DEF PublishOne, Elapse, Schedule, Counted
<1>10. CASE EndReport
  BY <1>10, SMTT(30) DEF EndReport, FromNow, CycleDone, Schedule, Counted
<1>11. CASE Pet
  <2>1. /\ SleepSecs \in Nat /\ SleepSecs <= LongestWait
        /\ next > now => now + SleepSecs <= next
        /\ next <= now => SleepSecs <= Retry
    BY WaitBounds
  <2> QED
    BY <1>11, <2>1, SMT DEF Pet, Notify, Schedule
<1>12. CASE Doze
  BY <1>12, SMTT(30) DEF Doze, Schedule, Counted
<1>13. CASE Wake
  BY <1>13, SMTT(30) DEF Wake, Elapse, Schedule, Counted
<1>14. CASE Connect
  BY <1>14, SMTT(30) DEF Connect, Schedule, Counted
<1>15. CASE Disconnect
  BY <1>15, SMTT(30) DEF Disconnect, Schedule, Counted
<1>16. CASE Signal
  BY <1>16, SMTT(30) DEF Signal, Schedule, Counted
<1>17. CASE Finished
  BY <1>17, SMTT(30) DEF Finished, vars, Schedule, Counted
<1>18. CASE UNCHANGED vars
  BY <1>18 DEF vars, Schedule, Counted
<1> QED
  BY <1>1, <1>2, <1>3, <1>4, <1>5, <1>6, <1>7, <1>8, <1>9, <1>10, <1>11, <1>12, <1>13, <1>14, <1>15, <1>16, <1>17, <1>18 DEF Next

LEMMA OwedStep ==
    ASSUME Typed, Owed, [Next]_vars
    PROVE  Owed'
<1> USE ReporterAssumption, WaitNat DEF Typed, TypeOK, ReporterAssumption
<1>0. /\ Setback = MaintainMax + Retry + Late /\ Setback \in Nat
      /\ failures * Setback \in Nat /\ 0 * Setback = 0
      /\ (failures + 1) * Setback = failures * Setback + Setback
  BY SetbackFacts, SMT
<1> USE <1>0
<1>1. CASE Stopped
  BY <1>1, SMTT(30) DEF Stopped, Owed
<1>2. CASE Tick
  BY <1>2, SMTT(30) DEF Tick, Owed
<1>3. CASE MaintainOk
  BY <1>3, SMTT(30) DEF MaintainOk, Elapse, Owed
<1>4. CASE MaintainFail
  BY <1>4, SMTT(30) DEF MaintainFail, Tolerated, Elapse, Owed
<1>5. CASE NotDue
  BY <1>5, SMTT(30) DEF NotDue, CycleDone, UntilDue, Owed
<1>6. CASE SkipSlot
  BY <1>6, SMTT(30) DEF SkipSlot, FromNow, CycleDone, Owed
<1>7. CASE AwaitFirst
  BY <1>7, SMTT(30) DEF AwaitFirst, CycleDone, Owed
<1>8. CASE StartReport
  BY <1>8, SMTT(30) DEF StartReport, Owed
<1>9. CASE PublishOne
  BY <1>9, SMTT(30) DEF PublishOne, Elapse, Owed
<1>10. CASE EndReport
  BY <1>10, SMTT(30) DEF EndReport, FromNow, CycleDone, Owed
<1>11. CASE Pet
  <2>1. /\ SleepSecs \in Nat /\ SleepSecs <= LongestWait
        /\ next > now => now + SleepSecs <= next
        /\ next <= now => SleepSecs <= Retry
    BY WaitBounds
  <2> QED
    BY <1>11, <2>1, SMT DEF Pet, Notify, Owed
<1>12. CASE Doze
  BY <1>12, SMTT(30) DEF Doze, Owed
<1>13. CASE Wake
  BY <1>13, SMTT(30) DEF Wake, Elapse, Owed
<1>14. CASE Connect
  BY <1>14, SMTT(30) DEF Connect, Owed
<1>15. CASE Disconnect
  BY <1>15, SMTT(30) DEF Disconnect, Owed
<1>16. CASE Signal
  BY <1>16, SMTT(30) DEF Signal, Owed
<1>17. CASE Finished
  BY <1>17, SMTT(30) DEF Finished, vars, Owed
<1>18. CASE UNCHANGED vars
  BY <1>18 DEF vars, Owed
<1> QED
  BY <1>1, <1>2, <1>3, <1>4, <1>5, <1>6, <1>7, <1>8, <1>9, <1>10, <1>11, <1>12, <1>13, <1>14, <1>15, <1>16, <1>17, <1>18 DEF Next

LEMMA PettingStep ==
    ASSUME Typed, Petting, [Next]_vars
    PROVE  Petting'
<1> USE ReporterAssumption, WaitNat DEF Typed, TypeOK, ReporterAssumption
<1>1. CASE Stopped
  BY <1>1, SMTT(30) DEF Stopped, Petting, LongestGap
<1>2. CASE Tick
  BY <1>2, SMTT(30) DEF Tick, Petting, LongestGap
<1>3. CASE MaintainOk
  BY <1>3, SMTT(30) DEF MaintainOk, Elapse, Petting, LongestGap
<1>4. CASE MaintainFail
  BY <1>4, SMTT(30) DEF MaintainFail, Tolerated, Elapse, Petting, LongestGap
<1>5. CASE NotDue
  BY <1>5, SMTT(30) DEF NotDue, CycleDone, UntilDue, Petting, LongestGap
<1>6. CASE SkipSlot
  BY <1>6, SMTT(30) DEF SkipSlot, FromNow, CycleDone, Petting, LongestGap
<1>7. CASE AwaitFirst
  BY <1>7, SMTT(30) DEF AwaitFirst, CycleDone, Petting, LongestGap
<1>8. CASE StartReport
  <2>1. left' \in 0..Messages
    BY <1>8 DEF StartReport
  <2>2. PICK cost \in Nat, full \in Nat :
            cost = left' * Timeout /\ full = Messages * Timeout /\ cost <= full
    BY <2>1, Share
  <2>3. pc = "due" /\ pc' = "publish" /\ UNCHANGED <<now, stop, pet, stopAt>>
    BY <1>8 DEF StartReport
  <2>4. now + cost <= pet + LongestWait + Late + MaintainMax + full
    BY <2>2, <2>3, SMT DEF Petting
  <2> QED
    BY <2>2, <2>3, <2>4, SMT DEF LongestGap, Petting
<1>9. CASE PublishOne
  <2>1. (left - 1) * Timeout + Timeout = left * Timeout
    BY <1>9, OneLess, SMT DEF PublishOne
  <2>2. left * Timeout \in Nat /\ (left - 1) * Timeout \in Nat
    BY <1>9, SMT DEF PublishOne
  <2> QED
    BY <1>9, <2>1, <2>2, SMT DEF PublishOne, Elapse, LongestGap, Petting
<1>10. CASE EndReport
  BY <1>10, SMTT(30) DEF EndReport, FromNow, CycleDone, Petting, LongestGap
<1>11. CASE Pet
  <2>1. /\ SleepSecs \in Nat /\ SleepSecs <= LongestWait
        /\ next > now => now + SleepSecs <= next
        /\ next <= now => SleepSecs <= Retry
    BY WaitBounds
  <2> QED
    BY <1>11, <2>1, SMT DEF Pet, Notify, Petting
<1>12. CASE Doze
  BY <1>12, SMTT(30) DEF Doze, Petting, LongestGap
<1>13. CASE Wake
  BY <1>13, SMTT(30) DEF Wake, Elapse, Petting, LongestGap
<1>14. CASE Connect
  BY <1>14, SMTT(30) DEF Connect, Petting, LongestGap
<1>15. CASE Disconnect
  BY <1>15, SMTT(30) DEF Disconnect, Petting, LongestGap
<1>16. CASE Signal
  BY <1>16, SMTT(30) DEF Signal, Petting, LongestGap
<1>17. CASE Finished
  BY <1>17, SMTT(30) DEF Finished, vars, Petting, LongestGap
<1>18. CASE UNCHANGED vars
  BY <1>18 DEF vars, Petting, LongestGap
<1> QED
  BY <1>1, <1>2, <1>3, <1>4, <1>5, <1>6, <1>7, <1>8, <1>9, <1>10, <1>11, <1>12, <1>13, <1>14, <1>15, <1>16, <1>17, <1>18 DEF Next

LEMMA StoppingStep ==
    ASSUME Typed, Stopping, [Next]_vars
    PROVE  Stopping'
<1> USE ReporterAssumption, WaitNat DEF Typed, TypeOK, ReporterAssumption
<1>1. CASE Stopped
  BY <1>1, SMTT(30) DEF Stopped, Stopping
<1>2. CASE Tick
  BY <1>2, SMTT(30) DEF Tick, Stopping
<1>3. CASE MaintainOk
  BY <1>3, SMTT(30) DEF MaintainOk, Elapse, Stopping
<1>4. CASE MaintainFail
  BY <1>4, SMTT(30) DEF MaintainFail, Tolerated, Elapse, Stopping
<1>5. CASE NotDue
  BY <1>5, SMTT(30) DEF NotDue, CycleDone, UntilDue, Stopping
<1>6. CASE SkipSlot
  BY <1>6, SMTT(30) DEF SkipSlot, FromNow, CycleDone, Stopping
<1>7. CASE AwaitFirst
  BY <1>7, SMTT(30) DEF AwaitFirst, CycleDone, Stopping
<1>8. CASE StartReport
  <2>1. left' \in 0..Messages
    BY <1>8 DEF StartReport
  <2>2. PICK cost \in Nat, full \in Nat :
            cost = left' * Timeout /\ full = Messages * Timeout /\ cost <= full
    BY <2>1, Share
  <2>3. pc = "due" /\ pc' = "publish" /\ UNCHANGED <<now, stop, pet, stopAt>>
    BY <1>8 DEF StartReport
  <2>4. stop => now + cost <= stopAt + MaintainMax + full
    BY <2>2, <2>3, SMT DEF Stopping
  <2> QED
    BY <2>2, <2>3, <2>4, SMT DEF LongestGap, Stopping
<1>9. CASE PublishOne
  <2>1. (left - 1) * Timeout + Timeout = left * Timeout
    BY <1>9, OneLess, SMT DEF PublishOne
  <2>2. left * Timeout \in Nat /\ (left - 1) * Timeout \in Nat
    BY <1>9, SMT DEF PublishOne
  <2> QED
    BY <1>9, <2>1, <2>2, SMT DEF PublishOne, Elapse, LongestGap, Stopping
<1>10. CASE EndReport
  BY <1>10, SMTT(30) DEF EndReport, FromNow, CycleDone, Stopping
<1>11. CASE Pet
  BY <1>11, SMTT(30) DEF Pet, Notify, Stopping
<1>12. CASE Doze
  BY <1>12, SMTT(30) DEF Doze, Stopping
<1>13. CASE Wake
  BY <1>13, SMTT(30) DEF Wake, Elapse, Stopping
<1>14. CASE Connect
  BY <1>14, SMTT(30) DEF Connect, Stopping
<1>15. CASE Disconnect
  BY <1>15, SMTT(30) DEF Disconnect, Stopping
<1>16. CASE Signal
  <2>1. left * Timeout <= Messages * Timeout
    BY Monotone, SMT
  <2>2. left * Timeout \in Nat /\ Messages * Timeout \in Nat
    BY SMT
  <2> QED
    BY <1>16, <2>1, <2>2, SMT DEF Signal, Stopping
<1>17. CASE Finished
  BY <1>17, SMTT(30) DEF Finished, vars, Stopping
<1>18. CASE UNCHANGED vars
  BY <1>18 DEF vars, Stopping
<1> QED
  BY <1>1, <1>2, <1>3, <1>4, <1>5, <1>6, <1>7, <1>8, <1>9, <1>10, <1>11, <1>12, <1>13, <1>14, <1>15, <1>16, <1>17, <1>18 DEF Next

\* The inductive invariant: the three clocks of the loop, at every point of it.
Inv == Typed /\ Counted /\ Schedule /\ Owed /\ Petting /\ Stopping

LEMMA InvInit == Init => Inv
<1> SUFFICES ASSUME Init PROVE Inv
  OBVIOUS
<1> USE ReporterAssumption, WaitNat DEF Init, ReporterAssumption
<1>1. Typed
  BY TypedInit
<1>2. Counted
  BY DEF Counted
<1>3. Schedule
  BY SetbackFacts, SMT DEF Schedule
<1>4. Owed
  BY DEF Owed
<1>5. Petting
  BY SMT DEF Petting
<1>6. Stopping
  BY DEF Stopping
<1> QED
  BY <1>1, <1>2, <1>3, <1>4, <1>5, <1>6 DEF Inv

LEMMA InvStep == Inv /\ [Next]_vars => Inv'
BY TypedStep, CountedStep, ScheduleStep, OwedStep, PettingStep, StoppingStep DEF Inv

LEMMA Invariance == Spec => []Inv
BY InvInit, InvStep, PTL DEF Spec

\* Connected and past the first report, the loop never lets a due time go by
\* by more than the stated slack, whatever the intervals and timeouts are.
THEOREM LoopPunctual == Spec => []Punctual
<1>1. Inv => Punctual
  BY DEF Inv, Schedule, Punctual
<1> QED
  BY <1>1, Invariance, PTL

\* The report owed since start goes out within a retry of the connection.
THEOREM FirstReportSeen == Spec => []FirstReportPrompt
<1>1. Inv => FirstReportPrompt
  BY DEF Inv, Owed, FirstReportPrompt
<1> QED
  BY <1>1, Invariance, PTL

\* Two watchdog notifications are never further apart than LongestGap, so a
\* WatchdogSec above it cannot restart a loop that runs.
THEOREM WatchdogPetted == Spec => []PetGap
<1>1. ASSUME Inv, pc # "exited" PROVE now <= pet + LongestGap
  <2> USE ReporterAssumption, WaitNat DEF ReporterAssumption
  <2>1. /\ now \in Nat /\ pet \in Nat
        /\ pc \in {"check", "maintain", "due", "publish", "pet", "sleep"}
    BY <1>1, SMT DEF Inv, Typed, TypeOK
  <2>2. PICK full \in Nat : full = Messages * Timeout
    BY SMT
  <2>3. CASE pc = "publish"
    <3>1. left \in 0..Messages
      BY <1>1 DEF Inv, Typed, TypeOK
    <3>2. PICK cost \in Nat : cost = left * Timeout
      BY <3>1, Share
    <3>3. now + cost <= pet + LongestGap
      BY <1>1, <2>3, <3>2 DEF Inv, Petting
    <3>4. LongestGap \in Nat
      BY <2>2, SMT DEF LongestGap
    <3> QED
      BY <2>1, <3>2, <3>3, <3>4, SMT
  <2>4. CASE pc = "sleep"
    <3>1. now <= wake /\ wake <= pet + LongestWait /\ wake \in Nat
      BY <1>1, <2>4 DEF Inv, Petting, Typed, TypeOK
    <3> QED
      BY <2>1, <2>2, <3>1, SMT DEF LongestGap
  <2>5. CASE pc = "pet"
    BY <1>1, <2>5 DEF Inv, Petting
  <2>6. CASE pc \in {"check", "maintain", "due"}
    <3>1. now <= pet + LongestWait + Late + MaintainMax
      BY <1>1, <2>1, <2>6, SMT DEF Inv, Petting
    <3> QED
      BY <2>1, <2>2, <3>1, SMT DEF LongestGap
  <2> QED
    BY <2>1, <2>3, <2>4, <2>5, <2>6
<1>2. Inv => PetGap
  BY <1>1 DEF PetGap
<1> QED
  BY <1>2, Invariance, PTL

\* No catch-up bursts: a report starts at least one interval after the last
\* one ended or was skipped, however long anything took.
THEOREM NoCatchUp == Spec => NoBurst
<1>1. ASSUME Inv, [Next]_vars, pc # "publish", pc' = "publish", ~first_pending
      PROVE  now >= settled + Interval
  <2>1. StartReport
    BY <1>1 DEF Next, vars, Stopped, Tick, MaintainOk, MaintainFail, NotDue,
       SkipSlot, AwaitFirst, PublishOne, EndReport, FromNow, CycleDone, Pet, Doze, Wake,
       Connect, Disconnect, Signal, Finished
  <2>2. now \in Nat /\ next \in Nat /\ next = settled + Interval
    BY <1>1 DEF Inv, Typed, TypeOK, Counted
  <2> QED
    BY <2>1, <2>2, SMT DEF StartReport, UntilDue
<1>2. Inv /\ [Next]_vars =>
          [(pc # "publish" /\ pc' = "publish" /\ ~first_pending)
               => now >= settled + Interval]_vars
  BY <1>1
<1> QED
  BY <1>2, Invariance, PTL DEF Spec, NoBurst

\* A signal ends the loop within one overshoot, one maintain and one report.
THEOREM StopHonoured == Spec => []StopPrompt
<1>1. ASSUME Inv, stop, pc # "exited"
      PROVE  now <= stopAt + Late + MaintainMax + Messages * Timeout
  <2> USE ReporterAssumption, WaitNat DEF ReporterAssumption
  <2>1. /\ now \in Nat /\ stopAt \in Nat
        /\ pc \in {"check", "maintain", "due", "publish", "pet", "sleep"}
    BY <1>1, SMT DEF Inv, Typed, TypeOK
  <2>2. PICK full \in Nat : full = Messages * Timeout
    BY SMT
  <2>3. CASE pc = "publish"
    <3>1. left \in 0..Messages
      BY <1>1 DEF Inv, Typed, TypeOK
    <3>2. PICK cost \in Nat : cost = left * Timeout
      BY <3>1, Share
    <3>3. now + cost <= stopAt + MaintainMax + full
      BY <1>1, <2>2, <2>3, <3>2 DEF Inv, Stopping
    <3> QED
      BY <2>1, <2>2, <3>2, <3>3, SMT
  <2>4. CASE pc # "publish"
    <3>1. now <= stopAt + MaintainMax + full + Late
      BY <1>1, <2>1, <2>2, <2>4, SMT DEF Inv, Stopping
    <3> QED
      BY <2>1, <2>2, <3>1, SMT
  <2> QED
    BY <2>3, <2>4
<1>2. Inv => StopPrompt
  BY <1>1 DEF StopPrompt
<1> QED
  BY <1>2, Invariance, PTL
=============================================================================
