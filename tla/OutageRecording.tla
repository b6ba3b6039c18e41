--------------------------- MODULE OutageRecording ---------------------------
(***************************************************************************)
(* The telemetry writer in its daemon: each second's reading is classified *)
(* (_classify_physical_observation attributes an episode to the daemon's   *)
(* own self-test or not), written (_write_telemetry), and then decides the *)
(* daily self-test (_maybe_run_quick_self_test).  Appends fail before or   *)
(* after they reached the file, and the process dies between any two       *)
(* durable steps; the monotonic and the wall clock advance together.       *)
(***************************************************************************)
EXTENDS TelemetryWriter

CONSTANTS
  Readings,           \* what ups.status and battery.charge may say
  AttributionWindow,  \* QUICK_SELF_TEST_ATTRIBUTION_WINDOW_S
  Cooldown,           \* QUICK_SELF_TEST_COOLDOWN
  DayLength,
  Horizon,            \* ema_window_sec
  TestLength,         \* how long a self-test keeps the UPS on battery
  MaxTime,            \* bound: seconds of one behaviour
  MaxFaults           \* bound: failing appends and deaths of one behaviour

ASSUME RecordingAssumption ==
  /\ Readings \subseteq Reading
  /\ {AttributionWindow, Cooldown, Horizon, TestLength, MaxFaults} \subseteq Nat
  /\ {DayLength, MaxTime} \subseteq Nat \ {0}

VARIABLES
  now,          \* the second of this poll, or of the next one
  pc,           \* "idle" between polls, the step of a poll, "down"
  reading,      \* the observation being processed
  episodeKind,  \* MonitorDaemon._episode_kind
  pendingUntil, \* _pending_self_test_until
  checkedDay,   \* _last_self_test_check_date
  firstValid,   \* _first_valid_observation_monotonic_ns
  faults,
  late,         \* history: appends that raised after reaching the file
  commands,     \* history: when self-test commands were accepted
  attributed    \* history: the battery readings the daemon called "TEST"

daemonVars == <<episodeKind, pendingUntil, checkedDay, firstValid>>
witnessVars == <<late, commands, attributed>>
vars == <<writerVars, now, pc, reading, daemonVars, faults, witnessVars>>

TypeOK ==
  /\ WriterTypeOK
  /\ now \in 1 .. MaxTime
  /\ pc \in {"idle", "write", "summarize", "check", "down"}
  /\ reading \in Reading
  /\ episodeKind \in {"NONE", "REAL", "TEST"}
  /\ pendingUntil \in Nat
  /\ checkedDay \in Nat
  /\ firstValid \in Nat
  /\ faults \in 0 .. MaxFaults
  /\ late \in 0 .. faults
  /\ commands \in Seq(Nat)
  /\ attributed \subseteq 1 .. now

Row == [at |-> now, status |-> reading]
Day == now \div DayLength + 1

Init ==
  /\ WriterInit
  /\ now = 1
  /\ pc = "idle"
  /\ reading = "UNKNOWN"
  /\ episodeKind = "NONE"
  /\ pendingUntil = None
  /\ checkedDay = None
  /\ firstValid = None
  /\ faults = 0
  /\ late = 0
  /\ commands = <<>>
  /\ attributed = {}

Fault(landed) ==
  /\ faults < MaxFaults
  /\ faults' = faults + 1
  /\ late' = IF landed THEN late + 1 ELSE late

-----------------------------------------------------------------------------
(* _classify_physical_observation: the kind an episode starts with stays   *)
(* until an OL, whether or not the rest of that reading is usable.         *)
InWindow == pendingUntil # None /\ now <= pendingUntil

(* Mutant: the pending self-test outlives the episode it explained. *)
MutantClassify(s) ==
  /\ episodeKind' =
       CASE s = "OB" /\ episodeKind = "NONE" -> (IF InWindow THEN "TEST" ELSE "REAL")
         [] s \in OnlineKind                 -> "NONE"
         [] OTHER                            -> episodeKind
  /\ pendingUntil' = IF InWindow THEN pendingUntil ELSE None
  /\ attributed' = IF s = "OB" /\ episodeKind' = "TEST" THEN attributed \cup {now}
                   ELSE attributed

Classify(s) ==
  /\ episodeKind' =
       CASE s = "OB" /\ episodeKind = "NONE" -> (IF InWindow THEN "TEST" ELSE "REAL")
         [] s \in OnlineKind                 -> "NONE"
         [] OTHER                            -> episodeKind
  /\ pendingUntil' =
       IF IF s = "OB" THEN episodeKind # "NONE" ELSE InWindow THEN pendingUntil ELSE None
  /\ attributed' = IF s = "OB" /\ episodeKind' = "TEST" THEN attributed \cup {now}
                   ELSE attributed

(* A self-test that was accepted keeps the UPS on battery. *)
Shows(s) ==
  commands # <<>> /\ now <= commands[Len(commands)] + TestLength => s = "OB"

Observe(s) ==
  /\ pc = "idle"
  /\ now < MaxTime
  /\ Shows(s)
  /\ Classify(s)
  /\ reading' = s
  /\ firstValid' = IF firstValid = None THEN now ELSE firstValid
  /\ pc' = IF s = "UNKNOWN" THEN "check" ELSE "write"
  /\ UNCHANGED <<writerVars, now, checkedDay, faults, late, commands>>

(* Voltage or load is not usable: the poll fails after the classification. *)
ObserveInvalid(s) ==
  /\ pc = "idle"
  /\ now < MaxTime
  /\ Shows(s)
  /\ Classify(s)
  /\ now' = now + 1
  /\ UNCHANGED <<writerVars, pc, reading, checkedDay, firstValid, faults, late, commands>>

(* A second without a reading. *)
Elapse ==
  /\ pc \in {"idle", "down"}
  /\ now < MaxTime
  /\ now' = now + 1
  /\ UNCHANGED <<writerVars, pc, reading, daemonVars, faults, witnessVars>>

-----------------------------------------------------------------------------
(* _write_telemetry.                                                       *)

KindOfReading == IF episodeKind = "TEST" THEN "TEST" ELSE "REAL"

Flush ==
  /\ pc = "write"
  /\ FlushSilent(Row)
  /\ UNCHANGED <<now, pc, reading, daemonVars, faults, witnessVars>>

Write ==
  /\ pc = "write"
  /\ \/ RecordBattery(Row)
     \/ BeginEpisode(Row, KindOfReading)
     \/ Recharge(Row)
     \/ Relapse(Row)
     \/ RecordTail(Row)
     \/ StaySilent(Row)
  /\ pc' = "check"
  /\ UNCHANGED <<now, reading, daemonVars, faults, witnessVars>>

Close ==
  /\ pc = "write"
  /\ EndEpisode(Row)
  /\ pc' = "summarize"
  /\ UNCHANGED <<now, reading, daemonVars, faults, witnessVars>>

SummarizeEpisode ==
  /\ pc = "summarize"
  /\ Summarize(now)
  /\ pc' = "check"
  /\ UNCHANGED <<now, reading, daemonVars, faults, witnessVars>>

(* An OSError is a warning, and the poll goes on. *)
AppendFails(landed) ==
  /\ Fault(landed)
  /\ \/ pc = "write" /\ AppendRaises(Row, landed)
     \/ pc = "summarize" /\ SummaryRaises(now, landed)
  /\ pc' = "check"
  /\ UNCHANGED <<now, reading, daemonVars, commands, attributed>>

-----------------------------------------------------------------------------
(* _maybe_run_quick_self_test: one check a day, at the first reading after *)
(* the horizon, whatever that reading is.                                  *)

CheckDue == now - firstValid >= Horizon /\ checkedDay # Day

Eligible ==
  /\ reading = "FULL"
  /\ ~\E i \in DOMAIN stream : stream[i].status = "OB" /\ stream[i].at >= now - Cooldown

EndOfPoll ==
  /\ pc' = "idle"
  /\ now' = now + 1
  /\ reading' = "UNKNOWN"

NoSelfTest ==
  /\ pc = "check"
  /\ ~(CheckDue /\ Eligible)
  /\ checkedDay' = IF CheckDue THEN Day ELSE checkedDay
  /\ EndOfPoll
  /\ UNCHANGED <<writerVars, episodeKind, pendingUntil, firstValid, faults, witnessVars>>

(* upscmd may refuse; without an error it started the test. *)
SelfTest(accepted) ==
  /\ pc = "check"
  /\ CheckDue /\ Eligible
  /\ checkedDay' = Day
  /\ IF accepted
       THEN pendingUntil' = now + AttributionWindow /\ commands' = Append(commands, now)
       ELSE UNCHANGED <<pendingUntil, commands>>
  /\ EndOfPoll
  /\ UNCHANGED <<writerVars, episodeKind, firstValid, faults, late, attributed>>

-----------------------------------------------------------------------------
(* The process ends: between polls when it is stopped, or anywhere.        *)
Stop ==
  /\ pc # "down"
  /\ IF pc = "idle" THEN UNCHANGED <<faults, late>> ELSE Fault(FALSE)
  /\ now' = IF pc = "idle" THEN now ELSE now + 1
  /\ pc' = "down"
  /\ reading' = "UNKNOWN"
  /\ episodeKind' = "NONE"
  /\ pendingUntil' = None
  /\ checkedDay' = None
  /\ firstValid' = None
  /\ active' = FALSE
  /\ episode' = NoEpisode
  /\ recharging' = FALSE
  /\ postFullUntil' = None
  /\ silent' = {}
  /\ UNCHANGED <<stream, history, commands, attributed>>

(* A new process reads the stream back and reconciles the history; when    *)
(* that append fails, build_daemon does.                                   *)
Restart(shadowed) ==
  /\ pc = "down"
  /\ Restored
  /\ history' = Reconciled(shadowed)
  /\ pc' = "idle"
  /\ UNCHANGED <<stream, now, reading, daemonVars, faults, witnessVars>>

RestartFails(shadowed, landed) ==
  /\ pc = "down"
  /\ Fault(landed)
  /\ Reconciled(shadowed) # history
  /\ history' = IF landed THEN Reconciled(shadowed) ELSE history
  /\ UNCHANGED <<stream, active, episode, recharging, postFullUntil, silent,
                 now, pc, reading, daemonVars, commands, attributed>>

Next ==
  \/ \E s \in Readings : Observe(s) \/ ObserveInvalid(s)
  \/ Elapse
  \/ Flush
  \/ Write
  \/ Close
  \/ SummarizeEpisode
  \/ \E landed \in BOOLEAN : AppendFails(landed)
  \/ NoSelfTest
  \/ \E accepted \in BOOLEAN : SelfTest(accepted)
  \/ Stop
  \/ \E shadowed \in BOOLEAN : Restart(shadowed)
  \/ \E shadowed, landed \in BOOLEAN : RestartFails(shadowed, landed)

Spec == Init /\ [][Next]_vars

-----------------------------------------------------------------------------
(* The stream is a record in order of time, whatever was buffered, retried *)
(* or restarted; only an append that raised after it reached the file can  *)
(* leave a second row of the same second.                                  *)
StreamInOrder ==
  \A i, j \in DOMAIN stream : i < j =>
    /\ stream[i].at <= stream[j].at
    /\ stream[i].at = stream[j].at => late > 0

(* A history row never spans two outages or claims battery time that the   *)
(* stream does not show: it lies in one battery run and ends with it.      *)
RowsLieInOneOutage ==
  late = 0 =>
    \A i \in DOMAIN history : \E run \in ClosedRuns :
      /\ Start(run) <= history[i].at
      /\ history[i].at <= stream[run[2]].at
      /\ history[i].until = End(run)

(* An outage the stream closed can lack its history row only at the price  *)
(* of a fault, one for each.                                               *)
Unsummarized == {run \in ClosedRuns : \A i \in DOMAIN history : history[i].at # Start(run)}
LostSummariesCostFaults == pc # "summarize" => Cardinality(Unsummarized) <= faults

(* An outage recorded as a self-test began with a reading that the daemon  *)
(* attributed to its own command, across failing appends and restarts ...  *)
SelfTestRow(i) == history[i].kind = "self_test"
SelfTestsWereAttributed ==
  \A i \in DOMAIN history : SelfTestRow(i) => history[i].at \in attributed

(* ... and one command accounts for at most one of them: it never taints a *)
(* later outage.                                                           *)
OneOutagePerCommand ==
  Cardinality({i \in DOMAIN history : SelfTestRow(i)}) <= Len(commands)

(* History rows are "facts derived from one closed battery episode": each  *)
(* is the row of an outage, from its first battery row to its end.         *)
RowsAreOutages ==
  late = 0 =>
    \A i \in DOMAIN history : \E run \in ClosedRuns :
      history[i].at = Start(run) /\ history[i].until = End(run)

(* The self-test "may run when ... no blackout, calibration, or self-test  *)
(* has occurred for 14 days".                                              *)
SelfTestsKeepCooldown ==
  \A i, j \in DOMAIN commands : i < j => commands[j] > commands[i] + Cooldown
=============================================================================
