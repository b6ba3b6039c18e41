-------------------------- MODULE SupervisionProofs --------------------------
(***************************************************************************)
(* Proofs about Supervision, for every watchdog period, restart delay and  *)
(* start limit of the assumptions and any number of faults.                *)
(***************************************************************************)
EXTENDS Supervision, Integers, TLAPS

USE DEF unitVars, filesVars, Quick

(* Types: the flags are left to Zenon, the ranges and the arithmetic to    *)
(* SMT.  While the unit has not failed, the window holds Burst starts.     *)

FlagsOK ==
  /\ nut \in BOOLEAN
  /\ closed \in BOOLEAN
  /\ tornTelemetry \in BOOLEAN
  /\ tornHistory \in BOOLEAN
  /\ driver \in BOOLEAN

RangesOK ==
  /\ unit \in {"building", "waiting", "ready", "dead", "failed"}
  /\ silent \in 0 .. WatchdogSec
  /\ backoff \in 0 .. RestartSec
  /\ window \in 0 .. Interval + 1
  /\ starts \in 1 .. Burst + 1
  /\ unit # "failed" => starts <= Burst
  /\ faults \in 0 .. MaxFaults
  /\ quick \in 0 .. Burst
  /\ cause \in Quick \cup {"none", "watchdog"}

StartsInv == FlagsOK /\ RangesOK

LEMMA TypeSplit == StartsInv => TypeOK
BY Zenon DEF StartsInv, FlagsOK, RangesOK, TypeOK

LEMMA InitStarts == Init => StartsInv
<1> SUFFICES ASSUME Init PROVE StartsInv
  OBVIOUS
<1>1. FlagsOK
  BY Zenon DEF Init, FlagsOK
<1>2. RangesOK
  BY SMT, SupervisionAssumption DEF Init, RangesOK
<1> QED
  BY <1>1, <1>2 DEF StartsInv

LEMMA FlagsStep == FlagsOK /\ [Next]_vars => FlagsOK'
<1> SUFFICES ASSUME FlagsOK, [Next]_vars PROVE FlagsOK'
  OBVIOUS
<1>1. CASE Built
  BY Zenon, <1>1 DEF FlagsOK, Built
<1>2. CASE HistoryRefuses
  BY Zenon, <1>2 DEF FlagsOK, HistoryRefuses, Die
<1>3. CASE StartupFails
  BY Zenon, <1>3 DEF FlagsOK, StartupFails, Fault, Die
<1>4. CASE FirstPublication
  BY Zenon, <1>4 DEF FlagsOK, FirstPublication
<1>5. CASE Ping
  BY Zenon, <1>5 DEF FlagsOK, Ping
<1>6. CASE EpisodeCloses
  BY Zenon, <1>6 DEF FlagsOK, EpisodeCloses, Fault
<1>7. CASE PublicationFails
  BY Zenon, <1>7 DEF FlagsOK, PublicationFails, Fault, Die
<1>8. CASE Crash
  BY Zenon, <1>8 DEF FlagsOK, Crash, Fault, Die, Torn
<1>9. CASE WatchdogKill
  BY Zenon, <1>9 DEF FlagsOK, WatchdogKill, KillAfter, Fault, Die, Torn
<1>10. CASE Restart
  BY Zenon, <1>10 DEF FlagsOK, Restart, RestartIf
<1>11. CASE DriverStarts
  BY Zenon, <1>11 DEF FlagsOK, DriverStarts
<1>12. CASE NutChanges
  BY Zenon, <1>12 DEF FlagsOK, NutChanges
<1>13. CASE Tick
  BY Zenon, <1>13 DEF FlagsOK, Tick
<1>14. CASE UNCHANGED vars
  BY Zenon, <1>14 DEF FlagsOK, vars
<1> QED
  BY <1>1, <1>2, <1>3, <1>4, <1>5, <1>6, <1>7, <1>8, <1>9, <1>10, <1>11, <1>12, <1>13, <1>14
  DEF Next

LEMMA RangesStep == RangesOK /\ [Next]_vars => RangesOK'
<1> SUFFICES ASSUME RangesOK, [Next]_vars PROVE RangesOK'
  OBVIOUS
<1>1. CASE Built
  BY SMT, <1>1, SupervisionAssumption DEF RangesOK, Built
<1>2. CASE HistoryRefuses
  BY SMT, <1>2, SupervisionAssumption DEF RangesOK, HistoryRefuses, Die
<1>3. CASE StartupFails
  BY SMT, <1>3, SupervisionAssumption DEF RangesOK, StartupFails, Fault, Die
<1>4. CASE FirstPublication
  BY SMT, <1>4, SupervisionAssumption DEF RangesOK, FirstPublication
<1>5. CASE Ping
  BY SMT, <1>5, SupervisionAssumption DEF RangesOK, Ping
<1>6. CASE EpisodeCloses
  BY SMT, <1>6, SupervisionAssumption DEF RangesOK, EpisodeCloses, Fault
<1>7. CASE PublicationFails
  BY SMT, <1>7, SupervisionAssumption DEF RangesOK, PublicationFails, Fault, Die
<1>8. CASE Crash
  BY SMT, <1>8, SupervisionAssumption DEF RangesOK, Crash, Fault, Die, Torn
<1>9. CASE WatchdogKill
  BY SMT, <1>9, SupervisionAssumption DEF RangesOK, WatchdogKill, KillAfter, Fault, Die, Torn
<1>10. CASE Restart
  BY SMT, <1>10, SupervisionAssumption DEF RangesOK, Restart, RestartIf
<1>11. CASE DriverStarts
  BY SMT, <1>11, SupervisionAssumption DEF RangesOK, DriverStarts
<1>12. CASE NutChanges
  BY SMT, <1>12, SupervisionAssumption DEF RangesOK, NutChanges
<1>13. CASE Tick
  BY SMT, <1>13, SupervisionAssumption DEF RangesOK, Tick
<1>14. CASE UNCHANGED vars
  BY SMT, <1>14, SupervisionAssumption DEF RangesOK, vars
<1> QED
  BY <1>1, <1>2, <1>3, <1>4, <1>5, <1>6, <1>7, <1>8, <1>9, <1>10, <1>11, <1>12, <1>13, <1>14
  DEF Next

LEMMA StartsStep == StartsInv /\ [Next]_vars => StartsInv'
BY FlagsStep, RangesStep DEF StartsInv

LEMMA StartsBounded == Spec => []StartsInv
BY InitStarts, StartsStep, PTL DEF Spec

(* The clocks of systemd, its counters and the files stay in their ranges. *)
THEOREM TypeCorrect == Spec => []TypeOK
BY TypeSplit, StartsBounded, PTL

-----------------------------------------------------------------------------
(* A slow death takes the watchdog's period after READY, and the start     *)
(* after it RestartSec more: with slow deaths only, the window is as old   *)
(* as its starts but the first, and what has passed since the last.        *)

Cycle == WatchdogSec + RestartSec

SinceStart ==
  IF unit = "ready" THEN silent ELSE IF unit = "dead" THEN WatchdogSec + backoff ELSE 0

SlowInv ==
  quick = 0 =>
    /\ unit # "failed"
    /\ window > Interval \/ window >= (starts - 1) * Cycle + SinceStart

(* One more start, one more cycle.                                         *)
LEMMA AnotherCycle ==
  ASSUME NEW n \in Nat, NEW c \in Nat
  PROVE  /\ (n - 1) * c \in Int
         /\ (n - 1) * c + c = n * c
OBVIOUS

(* The restart that closes a cycle: at the limit the window is over.       *)
LEMMA SlowRestart == StartsInv /\ SlowInv /\ Restart => SlowInv'
<1> SUFFICES ASSUME StartsInv, SlowInv, Restart, quick' = 0 PROVE SlowInv'
  BY DEF SlowInv
<1> USE SupervisionAssumption DEF StartsInv, RangesOK
<1>1. unit = "dead" /\ backoff = RestartSec /\ starts \in Nat /\ Cycle \in Nat
  BY DEF Restart, RestartIf, Cycle
<1>2. CASE window > Interval
  <2>1. window' = 0 /\ starts' = 1 /\ unit' = "building"
    BY <1>2 DEF Restart, RestartIf
  <2>2. (starts' - 1) * Cycle + SinceStart' = 0
    BY <1>1, <2>1 DEF SinceStart
  <2> QED
    BY <2>1, <2>2 DEF SlowInv
<1>3. CASE ~(window > Interval)
  <2>1. quick = 0 /\ window' = window /\ starts' = starts + 1
    BY <1>3 DEF Restart, RestartIf
  <2>2. window >= (starts - 1) * Cycle + Cycle
    BY <1>1, <1>3, <2>1 DEF SlowInv, SinceStart, Cycle
  <2>3. window >= starts * Cycle
    BY <1>1, <2>2, AnotherCycle
  <2>4. starts # Burst
    <3>1. SUFFICES ASSUME starts = Burst PROVE FALSE
      OBVIOUS
    <3>2. window >= Burst * (WatchdogSec + RestartSec)
      BY <2>3, <3>1 DEF Cycle
    <3>3. Burst * (WatchdogSec + RestartSec) \in Nat
      OBVIOUS
    <3> QED
      BY <1>3, <3>2, <3>3, SlowDeathsAssumption
  <2>5. starts < Burst
    BY <1>1, <2>4
  <2>6. unit' = "building"
    BY <1>3, <2>5 DEF Restart, RestartIf
  <2>7. (starts' - 1) * Cycle + SinceStart' = starts * Cycle
    <3>1. starts' - 1 = starts /\ SinceStart' = 0
      BY <1>1, <2>1, <2>6 DEF SinceStart
    <3>2. starts * Cycle \in Nat
      BY <1>1
    <3> QED
      BY <3>1, <3>2
  <2> QED
    BY <2>1, <2>3, <2>6, <2>7 DEF SlowInv
<1> QED
  BY <1>2, <1>3

(* A quick death counts.                                                   *)
LEMMA QuickDeath ==
  ASSUME StartsInv, NEW why \in Quick, Die(why)
  PROVE  SlowInv'
BY SupervisionAssumption DEF Die, StartsInv, RangesOK, SlowInv

LEMMA SlowStep == StartsInv /\ SlowInv /\ [Next]_vars => SlowInv'
<1> SUFFICES ASSUME StartsInv, SlowInv, [Next]_vars PROVE SlowInv'
  OBVIOUS
<1> DEFINE earlier == (starts - 1) * Cycle
<1>1. /\ earlier \in Int /\ window \in Nat /\ silent \in Nat /\ backoff \in Nat
      /\ starts \in Nat /\ Cycle \in Nat
  BY SupervisionAssumption DEF StartsInv, RangesOK, Cycle
<1>2. CASE StartupFails \/ PublicationFails \/ Crash \/ HistoryRefuses
  BY <1>2, QuickDeath DEF StartupFails, PublicationFails, Crash, HistoryRefuses
<1>3. CASE Restart
  BY <1>3, SlowRestart
<1>4. CASE Built \/ FirstPublication \/ Ping \/ EpisodeCloses \/ WatchdogKill
             \/ DriverStarts \/ NutChanges \/ Tick \/ UNCHANGED vars
  <2>1. earlier' = earlier /\ quick' = quick
    BY <1>4 DEF Built, FirstPublication, Ping, EpisodeCloses, WatchdogKill, KillAfter, Die,
         DriverStarts, NutChanges, Tick, vars, Cycle
  <2> HIDE DEF earlier
  <2>2. quick = 0 => unit' # "failed" /\ (window' > Interval \/ window' >= earlier + SinceStart')
    <3> SUFFICES ASSUME quick = 0
                 PROVE  unit' # "failed" /\ (window' > Interval \/ window' >= earlier + SinceStart')
      OBVIOUS
    <3>1. unit # "failed" /\ (window > Interval \/ window >= earlier + SinceStart)
      BY DEF SlowInv, earlier
    <3> USE <1>1, <3>1, SupervisionAssumption DEF SinceStart, StartsInv, RangesOK
    <3>2. CASE Built
      BY <3>2 DEF Built
    <3>3. CASE FirstPublication
      BY <3>3 DEF FirstPublication
    <3>4. CASE Ping
      BY <3>4 DEF Ping
    <3>5. CASE EpisodeCloses
      BY <3>5 DEF EpisodeCloses
    <3>6. CASE WatchdogKill
      BY <3>6 DEF WatchdogKill, KillAfter, Die
    <3>7. CASE DriverStarts
      BY <3>7 DEF DriverStarts
    <3>8. CASE NutChanges
      BY <3>8 DEF NutChanges
    <3>9. CASE Tick
      BY <3>9 DEF Tick
    <3>10. CASE UNCHANGED vars
      BY <3>10 DEF vars
    <3> QED
      BY <1>4, <3>2, <3>3, <3>4, <3>5, <3>6, <3>7, <3>8, <3>9, <3>10
  <2> QED
    BY <2>1, <2>2 DEF SlowInv, earlier
<1> QED
  BY <1>2, <1>3, <1>4 DEF Next

(* Deaths by the watchdog alone never exhaust the start limit, however     *)
(* often and for how long telemetry is lost or an iteration hangs.         *)
THEOREM SlowDeathsAllowed == Spec => []SlowDeathsStayBelowTheLimit
<1>1. Init => SlowInv
  BY SupervisionAssumption DEF Init, SlowInv, SinceStart, Cycle
<1>2. StartsInv /\ SlowInv => SlowDeathsStayBelowTheLimit
  BY SupervisionAssumption DEF StartsInv, RangesOK, SlowInv, SlowDeathsStayBelowTheLimit
<1> QED
  BY <1>1, <1>2, SlowStep, StartsBounded, PTL DEF Spec

-----------------------------------------------------------------------------
(* A quick death has a fault behind it, its own or the one that tore the   *)
(* history.                                                                *)

FaultInv == quick > 0 \/ tornHistory => faults < MaxFaults

LEMMA FaultStep == StartsInv /\ FaultInv /\ [Next]_vars => FaultInv'
<1> SUFFICES ASSUME StartsInv, FaultInv, [Next]_vars PROVE FaultInv'
  OBVIOUS
<1> USE SupervisionAssumption DEF StartsInv, RangesOK, FaultInv
<1>1. CASE Built \/ FirstPublication \/ Ping \/ DriverStarts \/ NutChanges \/ Tick
             \/ UNCHANGED vars
  BY <1>1 DEF Built, FirstPublication, Ping, DriverStarts, NutChanges, Tick, vars
<1>2. CASE HistoryRefuses
  BY <1>2 DEF HistoryRefuses, HistoryFailsStart, Die
<1>3. CASE StartupFails \/ PublicationFails \/ Crash
  BY <1>3 DEF StartupFails, PublicationFails, Crash, Fault
<1>4. CASE EpisodeCloses
  BY <1>4 DEF EpisodeCloses, Fault
<1>5. CASE WatchdogKill
  BY <1>5 DEF WatchdogKill, KillAfter, Die, Fault
<1>6. CASE Restart
  BY <1>6 DEF Restart, RestartIf
<1> QED
  BY <1>1, <1>2, <1>3, <1>4, <1>5, <1>6 DEF Next

(* Without a crash, a failing publication or start, or a short write, the  *)
(* unit is never left failed, whatever NUT does.                           *)
THEOREM LimitNeedsAFault == Spec => [](unit = "failed" => faults < MaxFaults)
<1>1. Init => FaultInv
  BY DEF Init, FaultInv
<1>2. FaultInv /\ SlowDeathsStayBelowTheLimit => (unit = "failed" => faults < MaxFaults)
  BY DEF FaultInv, SlowDeathsStayBelowTheLimit
<1> QED
  BY <1>1, <1>2, FaultStep, SlowDeathsAllowed, StartsBounded, PTL DEF Spec
=============================================================================
