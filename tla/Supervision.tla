----------------------------- MODULE Supervision -----------------------------
(***************************************************************************)
(* The monitor as systemd sees it: the start of the process (build_daemon),*)
(* READY and watchdog pings, deaths, restarts and the start limit, and the *)
(* dummy driver bound to the unit.  A process dies slowly, by the watchdog *)
(* after telemetry was lost or an iteration hung, or quickly, by a crash,  *)
(* a fatal publication failure or a start that fails.  What it leaves on   *)
(* disk decides whether the next start can succeed: the history has no     *)
(* torn-line repair, and the start reads it.  Time is counted in ticks of  *)
(* RestartSec or a fraction of it.                                         *)
(***************************************************************************)
EXTENDS Naturals

CONSTANTS
  RestartSec,   \* RestartSec, in ticks
  WatchdogSec,  \* WatchdogSec, in ticks
  Interval,     \* StartLimitIntervalSec, in ticks
  Burst,        \* StartLimitBurst
  MaxFaults     \* crashes, failing publications and starts, short writes

ASSUME SupervisionAssumption ==
  /\ RestartSec \in Nat \ {0}
  /\ WatchdogSec \in Nat \ {0}
  /\ Interval \in Nat \ {0}
  /\ Burst \in Nat \ {0}
  /\ MaxFaults \in Nat

(* The unit's numbers: WatchdogSec and RestartSec, Burst times over, are   *)
(* longer than the interval of the start limit (3 * 130 s, and 300 s).     *)
ASSUME SlowDeathsAssumption == Interval < Burst * (WatchdogSec + RestartSec)

VARIABLES
  unit,         \* the service: its process builds, waits to publish, serves, or is dead
  silent,       \* ticks since READY or the last watchdog ping
  backoff,      \* ticks since the death
  window,       \* ticks since the start that opened the start-limit window
  starts,       \* starts counted in that window
  nut,          \* NUT answers
  closed,       \* telemetry.jsonl holds a closed episode
  tornTelemetry,  \* telemetry.jsonl ends in, or holds, a torn line
  tornHistory,    \* history.jsonl does
  driver,       \* the dummy driver runs
  faults,       \* faults left
  quick,        \* quick deaths since the window opened
  cause         \* what the last process died of

unitVars  == <<unit, silent, backoff, window, starts>>
filesVars == <<closed, tornTelemetry, tornHistory>>
vars      == <<unitVars, nut, filesVars, driver, faults, quick, cause>>

Quick == {"crash", "publication", "history", "startup"}

TypeOK ==
  /\ unit \in {"building", "waiting", "ready", "dead", "failed"}
  /\ silent \in 0 .. WatchdogSec
  /\ backoff \in 0 .. RestartSec
  /\ window \in 0 .. Interval + 1
  /\ starts \in 1 .. Burst + 1
  /\ nut \in BOOLEAN
  /\ closed \in BOOLEAN /\ tornTelemetry \in BOOLEAN /\ tornHistory \in BOOLEAN
  /\ driver \in BOOLEAN
  /\ faults \in 0 .. MaxFaults
  /\ quick \in 0 .. Burst
  /\ cause \in Quick \cup {"none", "watchdog"}

(* The first start of a fresh installation.                                *)
Init ==
  /\ unit = "building" /\ silent = 0 /\ backoff = 0
  /\ window = 0 /\ starts = 1
  /\ nut \in BOOLEAN
  /\ closed = FALSE /\ tornTelemetry = FALSE /\ tornHistory = FALSE
  /\ driver = FALSE
  /\ faults = MaxFaults
  /\ quick = 0 /\ cause = "none"

-----------------------------------------------------------------------------
(* The process has died; a driver bound to the unit stops with it.         *)
Die(why) ==
  /\ unit' = "dead"
  /\ backoff' = 0
  /\ silent' = 0
  /\ driver' = FALSE
  /\ cause' = why
  /\ quick' = IF why \in Quick /\ quick < Burst THEN quick + 1 ELSE quick
  /\ UNCHANGED <<window, starts, nut>>

Fault == faults > 0 /\ faults' = faults - 1

(* _reconcile_closed_episodes reads the history for the last closed        *)
(* episode; a stream that cannot be read has none.                         *)
HistoryFailsStart == closed /\ ~tornTelemetry /\ tornHistory

(* build_daemon returns and the first poll begins.                         *)
Built ==
  /\ unit = "building"
  /\ ~HistoryFailsStart
  /\ unit' = "waiting"
  /\ UNCHANGED <<silent, backoff, window, starts, nut, filesVars, driver, faults, quick, cause>>

(* event_kinds raises ValueError; main exits with 1.                       *)
HistoryRefuses ==
  /\ unit = "building"
  /\ HistoryFailsStart
  /\ Die("history")
  /\ UNCHANGED <<filesVars, faults>>

(* Another start that fails: the lock, the directory, the model file.      *)
StartupFails ==
  /\ unit = "building"
  /\ Fault
  /\ Die("startup")
  /\ UNCHANGED filesVars

(* The first publication: READY=1.  Nothing limits the wait for it.        *)
FirstPublication ==
  /\ unit = "waiting" /\ nut
  /\ unit' = "ready"
  /\ silent' = 0
  /\ UNCHANGED <<backoff, window, starts, nut, filesVars, driver, faults, quick, cause>>

(* An iteration that published: WATCHDOG=1.                                *)
Ping ==
  /\ unit = "ready" /\ nut
  /\ silent > 0 /\ silent < WatchdogSec
  /\ silent' = 0
  /\ UNCHANGED <<unit, backoff, window, starts, nut, filesVars, driver, faults, quick, cause>>

(* An outage ends: its rows are in the stream, its summary is appended to  *)
(* the history by one os.write that may be short.                          *)
EpisodeCloses ==
  /\ unit \in {"waiting", "ready"} /\ nut
  /\ closed' = TRUE
  /\ \/ UNCHANGED <<tornHistory, faults>>
     \/ tornHistory' = TRUE /\ Fault
  /\ UNCHANGED <<unitVars, nut, tornTelemetry, driver, quick, cause>>

(* _handle_publication_failure: run raises the error.                      *)
PublicationFails ==
  /\ unit \in {"waiting", "ready"}
  /\ Fault
  /\ Die("publication")
  /\ UNCHANGED filesVars

(* A death anywhere, in the middle of an append or not.                    *)
Torn ==
  \/ UNCHANGED filesVars
  \/ tornHistory' = TRUE /\ UNCHANGED <<closed, tornTelemetry>>
  \/ tornTelemetry' = TRUE /\ UNCHANGED <<closed, tornHistory>>

Crash ==
  /\ unit \in {"building", "waiting", "ready"}
  /\ Fault
  /\ Die("crash")
  /\ Torn

KillAfter(ticks) ==
  /\ unit = "ready"
  /\ silent >= ticks
  /\ Die("watchdog")
  /\ \/ UNCHANGED <<filesVars, faults>>
     \/ Fault /\ Torn

(* Mutant: half the period, the interval at which a service should ping.   *)
MutantWatchdogKill == KillAfter(WatchdogSec \div 2)

(* The watchdog: telemetry is lost, or an iteration hangs, in an append    *)
(* perhaps.                                                                *)
WatchdogKill == KillAfter(WatchdogSec)

-----------------------------------------------------------------------------
(* The start limit of systemd: a window opens with a start after more than *)
(* Interval, and holds Burst starts.                                       *)
RestartIf(condition, limit) ==
  /\ unit = "dead"
  /\ backoff = RestartSec
  /\ condition
  /\ LET opens == window > Interval IN
       /\ window' = IF opens THEN 0 ELSE window
       /\ starts' = IF opens THEN 1 ELSE starts + 1
       /\ quick' = IF opens THEN 0 ELSE quick
       /\ unit' = IF ~opens /\ starts >= limit THEN "failed" ELSE "building"
  /\ backoff' = 0
  /\ UNCHANGED <<silent, nut, filesVars, driver, faults, cause>>

(* Mutants: Restart=on-abort, or one start too many.                       *)
MutantOnAbort == RestartIf(cause # "watchdog", Burst)
MutantBurst   == RestartIf(TRUE, Burst + 1)

Restart == RestartIf(TRUE, Burst)

(* BindsTo, After and Wants: the driver follows the unit's READY.          *)
DriverStarts ==
  /\ unit = "ready" /\ ~driver
  /\ driver' = TRUE
  /\ UNCHANGED <<unitVars, nut, filesVars, faults, quick, cause>>

NutChanges ==
  /\ nut' = ~nut
  /\ UNCHANGED <<unitVars, filesVars, driver, faults, quick, cause>>

NutReturns == ~nut /\ NutChanges

(* systemd acts when a time is up; build_daemon takes less than a tick.    *)
Tick ==
  /\ unit # "building"
  /\ unit = "ready" => silent < WatchdogSec
  /\ unit = "dead" => backoff < RestartSec
  /\ unit # "failed"
  /\ silent' = IF unit = "ready" THEN silent + 1 ELSE silent
  /\ backoff' = IF unit = "dead" THEN backoff + 1 ELSE backoff
  /\ window' = IF window <= Interval THEN window + 1 ELSE window
  /\ UNCHANGED <<unit, starts, nut, filesVars, driver, faults, quick, cause>>

Next ==
  \/ Built \/ HistoryRefuses \/ StartupFails \/ FirstPublication \/ Ping
  \/ EpisodeCloses \/ PublicationFails \/ Crash \/ WatchdogKill
  \/ Restart \/ DriverStarts \/ NutChanges \/ Tick

Spec == Init /\ [][Next]_vars

(* The process and systemd go on, and NUT answers again and again, each    *)
(* time for a poll and for the start of the driver.                        *)
FairSpec ==
  /\ Spec
  /\ WF_vars(Built) /\ WF_vars(HistoryRefuses) /\ WF_vars(WatchdogKill)
  /\ WF_vars(Restart) /\ WF_vars(Tick) /\ WF_vars(NutReturns)
  /\ SF_vars(FirstPublication) /\ SF_vars(DriverStarts)

-----------------------------------------------------------------------------
(* However often telemetry is lost and the watchdog restarts the monitor,  *)
(* that alone does not exhaust the start limit: three slow deaths take     *)
(* longer than its window.                                                 *)
SlowDeathsStayBelowTheLimit ==
  unit = "failed" => quick > 0

(* Unless the start limit is reached the virtual UPS is served again and   *)
(* again, through every outage of NUT, crash, hang and torn line.          *)
ServesAgain ==
  [](unit # "failed") => []<>driver

(* "publishes the safety state before optional storage, history, and       *)
(* feedback work": the history does not keep the monitor from publishing.  *)
HistoryIsOptional ==
  unit = "failed" => cause # "history"
=============================================================================
