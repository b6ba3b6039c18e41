---------------------------- MODULE MonitorDaemon ----------------------------
(***************************************************************************)
(* The poll loop of MonitorDaemon over the exporter, under the systemd     *)
(* unit that starts it, watches it and removes its device file.            *)
(*                                                                         *)
(* One iteration reads NUT (pc "poll"), publishes ("publish"), does the    *)
(* telemetry, feedback and self-test work ("side"), reports to systemd     *)
(* ("notify") and sleeps; a failed poll goes through "failed" and a failed *)
(* publication through "fatal" to "exit".  Time passes in every one of     *)
(* these places, the process may die in every one, and the unit may be     *)
(* started again from "down".                                              *)
(*                                                                         *)
(* Bounds.  IterationBound is the longest an iteration takes when nothing  *)
(* hangs (NUT timeouts, publication deadline, fsync, the self-test command *)
(* and the sleep); WatchdogTicks is WatchdogSec; MaxFaults caps the        *)
(* crashes and the failing file operations of one behaviour.               *)
(***************************************************************************)
EXTENDS VirtualUpsExporter

CONSTANTS IterationBound, WatchdogTicks, MaxFaults,
          Runtimes      \* the runtime forecasts, in minutes, a poll may compute

ASSUME DaemonAssumption ==
  /\ IterationBound \in Nat \ {0}
  /\ WatchdogTicks \in Nat \ {0}
  /\ MaxFaults \in Nat
  /\ Runtimes \subseteq Nat
  /\ AgeCap > MaxAge + 3 * IterationBound
  /\ AgeCap > WatchdogTicks + IterationBound

VARIABLES
  pc,           \* where the process is, or "exit" / "down" without one
  running,      \* MonitorDaemon._running
  latch,        \* MonitorDaemon._latch
  nextLatch,    \* calculation.next_latch of the poll being published
  episodeKind,  \* MonitorDaemon._episode_kind; "NONE" outside an episode
  published,    \* what _run_poll_iteration returned: this poll was published
  ready,        \* READY=1 was sent
  watchdog,     \* seconds since systemd last heard WATCHDOG=1 (or READY=1)
  busy,         \* seconds since this iteration began
  nut,          \* the NUT endpoint: "any", lost for good, or low for good
  faults,       \* faults so far
  announced,    \* history: this process put LB in the file, and no OL since
  own,          \* history: this process replaced the file
  outlived      \* history: the failed unlinks of the unit the file outlived

history    == <<announced, own, outlived>>
daemonVars == <<pc, running, latch, nextLatch, episodeKind, published, ready,
                watchdog, busy, nut, faults, announced, own, outlived>>
vars == <<exporterVars, daemonVars>>

InProcess == {"poll", "publish", "side", "failed", "notify", "sleep", "fatal"}
Alive     == pc \in InProcess

DaemonTypeOK ==
  /\ pc \in InProcess \cup {"exit", "down"}
  /\ running \in BOOLEAN
  /\ latch \in Source
  /\ nextLatch \in Source
  /\ episodeKind \in {"NONE", "REAL", "TEST"}
  /\ published \in BOOLEAN
  /\ ready \in BOOLEAN
  /\ watchdog \in 0 .. WatchdogTicks
  /\ busy \in 0 .. IterationBound
  /\ nut \in {"any", "lost", "low"}
  /\ faults \in 0 .. MaxFaults
  /\ announced \in BOOLEAN
  /\ own \in BOOLEAN
  /\ outlived \in 0 .. faults

TypeOK == ExporterTypeOK /\ DaemonTypeOK

-----------------------------------------------------------------------------
(* The environment's faults: costs n of them. *)
Faulty(n) ==
  /\ faults + n <= MaxFaults
  /\ faults' = faults + n

(* A removal that may fail, at the price of a fault. *)
Removing(removed) == Faulty(IF removed THEN 0 ELSE 1)

(* History: the process wrote the file (when landed), or the unit's unlink *)
(* removed it or failed.                                                   *)
Wrote(landed) ==
  /\ own' = (own \/ landed)
  /\ outlived' = IF landed THEN 0 ELSE outlived

Outlived(removed) ==
  outlived' = IF output' = Absent THEN 0 ELSE outlived + (IF removed THEN 0 ELSE 1)

(* The service: nothing runs, the device file is absent. *)
Init ==
  /\ output = Absent
  /\ outputAge = 0
  /\ pc = "down"
  /\ nut = "any"
  /\ faults = 0
  /\ freshness = "temporarily_unavailable"
  /\ hasPrior = FALSE
  /\ age = 0
  /\ failSafe = FALSE
  /\ staged = Unstaged
  /\ call = "idle"
  /\ running = FALSE
  /\ latch = "NONE"
  /\ nextLatch = "NONE"
  /\ episodeKind = "NONE"
  /\ published = FALSE
  /\ ready = FALSE
  /\ watchdog = 0
  /\ busy = 0
  /\ announced = FALSE
  /\ own = FALSE
  /\ outlived = 0

(* No process any more: what its memory held is gone. *)
ForgetProcess ==
  /\ freshness' = "temporarily_unavailable"
  /\ hasPrior' = FALSE
  /\ age' = 0
  /\ failSafe' = FALSE
  /\ staged' = Unstaged
  /\ call' = "idle"
  /\ running' = FALSE
  /\ latch' = "NONE"
  /\ nextLatch' = "NONE"
  /\ episodeKind' = "NONE"
  /\ published' = FALSE
  /\ ready' = FALSE
  /\ watchdog' = 0
  /\ busy' = 0
  /\ announced' = FALSE
  /\ own' = FALSE

(* ExecStartPre unlinks the file, unless that fails; then __init__ and     *)
(* start.  A file still there has the age its mtime and the wall clock,    *)
(* which may have been stepped, say.                                       *)
Start ==
  /\ pc = "down"
  /\ \E removed \in BOOLEAN, fileAge \in Age :
       /\ removed => fileAge = 0
       /\ ~removed => output # Absent
       /\ Removing(removed)
       /\ Invalidate(removed)
       /\ Outlived(removed)
       /\ Construct(output', fileAge)
  /\ pc' = "poll"
  /\ running' = TRUE
  /\ UNCHANGED <<latch, nextLatch, episodeKind, published, ready, watchdog, busy,
                 nut, announced, own>>

-----------------------------------------------------------------------------
(* Mutant: an ambiguous status is kept as the kind of the episode. *)
MutantEpisodeKinds(flags) ==
  CASE OnBattery(flags) /\ episodeKind = "NONE" -> {"REAL", "TEST"}
    [] ~OnBattery(flags) /\ "OL" \in flags -> {"NONE"}
    [] OTHER -> {"UNKNOWN"}

(* _classify_physical_observation: one causal kind per battery episode.    *)
(* Whether a self-test is pending when the episode begins depends on the   *)
(* attribution window, which is not modelled here: either may be.          *)
EpisodeKinds(flags) ==
  CASE OnBattery(flags) /\ episodeKind = "NONE" -> {"REAL", "TEST"}
    [] ~OnBattery(flags) /\ "OL" \in flags -> {"NONE"}
    [] OTHER -> {episodeKind}

(* telemetry.read raises. *)
ReadFails ==
  /\ pc = "poll"
  /\ nut # "low"
  /\ pc' = "failed"
  /\ UNCHANGED <<exporterVars, running, latch, nextLatch, episodeKind, published,
                 ready, watchdog, busy, nut, faults, history>>

(* The voltage or the load is unusable: the episode kind has moved anyway. *)
ReadInvalid(flags) ==
  /\ pc = "poll"
  /\ nut = "any"
  /\ episodeKind' \in EpisodeKinds(flags)
  /\ pc' = "failed"
  /\ UNCHANGED <<exporterVars, running, latch, nextLatch, published, ready,
                 watchdog, busy, nut, faults, history>>

(* A usable observation: classify, calculate and stage. *)
ReadValid(flags, runtime) ==
  /\ pc = "poll"
  /\ nut # "lost"
  /\ nut = "low" => OnBattery(flags) /\ HardFloorLb(runtime)
  /\ \E attributed \in EpisodeKinds(flags) :
       LET kind == ConservativeSafetyKind(Classify(flags, attributed))
       IN  /\ episodeKind' = attributed
           /\ Stage(DecidedStatus(kind, runtime, latch))
           /\ nextLatch' = NextLatch(kind, runtime, latch)
  /\ pc' = "publish"
  /\ UNCHANGED <<running, latch, published, ready, watchdog, busy, nut, faults, history>>

(* The file is replaced: what the dummy driver may now serve. *)
Land ==
  /\ pc = "publish"
  /\ PublishLands
  /\ announced' = (output' = "LB" \/ (announced /\ output' # "OL"))
  /\ Wrote(TRUE)
  /\ UNCHANGED <<pc, running, latch, nextLatch, episodeKind, published, ready,
                 watchdog, busy, nut, faults>>

(* publish returned, and only then the latch moves. *)
Published ==
  /\ pc = "publish"
  /\ PublishReturns
  /\ latch' = nextLatch
  /\ pc' = "side"
  /\ UNCHANGED <<running, nextLatch, episodeKind, published, ready, watchdog, busy,
                 nut, faults, history>>

(* publish raised SafetyPublicationError. *)
PublicationRaises(removed) ==
  /\ pc = "publish"
  /\ Faulty(IF removed THEN 1 ELSE 2)
  /\ PublishRaises(removed)
  /\ pc' = "fatal"
  /\ UNCHANGED <<running, latch, nextLatch, episodeKind, published, ready,
                 watchdog, busy, nut, history>>

-----------------------------------------------------------------------------
(* Telemetry, feedback and self-test work ended; its own failures, storage *)
(* errors among them, are health only.                                     *)
SideWorkEnds ==
  /\ pc = "side"
  /\ pc' = "notify"
  /\ published' = TRUE
  /\ UNCHANGED <<exporterVars, running, latch, nextLatch, episodeKind, ready,
                 watchdog, busy, nut, faults, history>>

(* Mutant: the error path starts over with a clear latch. *)
MutantSideWorkRaises ==
  /\ pc = "side"
  /\ Faulty(1)
  /\ pc' = "failed"
  /\ latch' = "NONE"
  /\ UNCHANGED <<exporterVars, running, nextLatch, episodeKind, published, ready,
                 watchdog, busy, nut, history>>

(* ... or a ValueError (an undecodable history line) left poll_once, which *)
(* makes the published poll a failed one.                                  *)
SideWorkRaises ==
  /\ pc = "side"
  /\ Faulty(1)
  /\ pc' = "failed"
  /\ UNCHANGED <<exporterVars, running, latch, nextLatch, episodeKind, published,
                 ready, watchdog, busy, nut, history>>

(* _handle_poll_failure, whose exporter call does not raise. *)
PollFailureHandled ==
  /\ pc = "failed"
  /\ \/ (PollFailureTolerated \/ PollFailureUnpublished) /\ Wrote(FALSE)
     \/ PollFailureFailSafe /\ Wrote(TRUE)
  /\ pc' = "notify"
  /\ published' = FALSE
  /\ UNCHANGED <<running, latch, nextLatch, episodeKind, ready, watchdog, busy,
                 nut, faults, announced>>

(* The fail-safe write raised. *)
FailSafeRaises(landed, removed) ==
  /\ pc = "failed"
  /\ Faulty(IF removed THEN 1 ELSE 2)
  /\ PollFailureRaises(landed, removed)
  /\ Wrote(landed)
  /\ pc' = "fatal"
  /\ UNCHANGED <<running, latch, nextLatch, episodeKind, published, ready,
                 watchdog, busy, nut, announced>>

(* _handle_publication_failure: stop, and try once more to remove the file. *)
FatalStop(removed) ==
  /\ pc = "fatal"
  /\ Removing(removed)
  /\ InvalidateOutput(removed)
  /\ running' = FALSE
  /\ pc' = "exit"
  /\ UNCHANGED <<latch, nextLatch, episodeKind, published, ready, watchdog, busy,
                 nut, history>>

(* Mutants: the watchdog is served by every iteration but a failed-safe    *)
(* one, or by every iteration.                                             *)
MutantPingsWatchdog == running /\ freshness # "stale_failed"
MutantPingsAlways   == running

(* _notify_iteration: READY=1 after the first published iteration, and     *)
(* WATCHDOG=1 only while running and fresh.                                *)
PingsWatchdog == running /\ freshness = "fresh"

(* Mutant: READY=1 at the end of the first iteration, published or not. *)
MutantNotify ==
  /\ pc = "notify"
  /\ ready' = TRUE
  /\ watchdog' = IF PingsWatchdog \/ ~ready THEN 0 ELSE watchdog
  /\ pc' = "sleep"
  /\ UNCHANGED <<exporterVars, running, latch, nextLatch, episodeKind, published,
                 busy, nut, faults, history>>

Notify ==
  /\ pc = "notify"
  /\ ready' = (ready \/ published)
  /\ watchdog' = IF PingsWatchdog \/ (published /\ ~ready) THEN 0 ELSE watchdog
  /\ pc' = "sleep"
  /\ UNCHANGED <<exporterVars, running, latch, nextLatch, episodeKind, published,
                 busy, nut, faults, history>>

(* _wait_for_next_poll, and the loop's test of _running. *)
NextIteration ==
  /\ pc = "sleep"
  /\ pc' = IF running THEN "poll" ELSE "exit"
  /\ published' = FALSE
  /\ nextLatch' = "NONE"
  /\ busy' = 0
  /\ UNCHANGED <<exporterVars, running, latch, episodeKind, ready, watchdog, nut,
                 faults, history>>

-----------------------------------------------------------------------------
(* SIGTERM or SIGINT. *)
RequestStop ==
  /\ Alive
  /\ running
  /\ running' = FALSE
  /\ UNCHANGED <<exporterVars, pc, latch, nextLatch, episodeKind, published, ready,
                 watchdog, busy, nut, faults, history>>

(* The process dies: killed, out of memory, or by an error run lets out. *)
Crash ==
  /\ Alive
  /\ Faulty(1)
  /\ pc' = "exit"
  /\ UNCHANGED <<exporterVars, running, latch, nextLatch, episodeKind, published,
                 ready, watchdog, busy, nut, history>>

(* systemd kills a ready service it has not heard from for WatchdogSec. *)
WatchdogKill ==
  /\ Alive
  /\ ready
  /\ watchdog = WatchdogTicks
  /\ pc' = "exit"
  /\ UNCHANGED <<exporterVars, running, latch, nextLatch, episodeKind, published,
                 ready, watchdog, busy, nut, faults, history>>

(* Mutant: the unit has no ExecStopPost. *)
MutantStopPost(removed) ==
  /\ pc = "exit"
  /\ Removing(removed)
  /\ UNCHANGED <<output, outputAge>>
  /\ pc' = "down"
  /\ Outlived(removed)
  /\ ForgetProcess
  /\ UNCHANGED nut

(* ExecStopPost unlinks the file, unless that fails. *)
StopPost(removed) ==
  /\ pc = "exit"
  /\ Removing(removed)
  /\ Invalidate(removed)
  /\ pc' = "down"
  /\ Outlived(removed)
  /\ ForgetProcess
  /\ UNCHANGED nut

(* One second.  An iteration takes no longer than its bound, and systemd   *)
(* does not let a ready service outlive its watchdog.                      *)
Tick ==
  /\ Alive => busy < IterationBound
  /\ Alive /\ ready => watchdog < WatchdogTicks
  /\ IF Alive THEN Elapse ELSE outputAge' = ContentOlder /\ UNCHANGED age
  /\ busy' = IF Alive THEN busy + 1 ELSE busy
  /\ watchdog' = IF Alive /\ ready THEN watchdog + 1 ELSE watchdog
  /\ UNCHANGED <<output, freshness, hasPrior, failSafe, staged, call, pc, running,
                 latch, nextLatch, episodeKind, published, ready, nut, faults, history>>

(* NUT goes away for good, or the battery is low for good. *)
NutSettles(mode) ==
  /\ nut = "any"
  /\ nut' = mode
  /\ UNCHANGED <<exporterVars, pc, running, latch, nextLatch, episodeKind, published,
                 ready, watchdog, busy, faults, history>>

-----------------------------------------------------------------------------
ReadPoll ==
  \/ ReadFails
  \/ \E flags \in SUBSET Flag : ReadInvalid(flags)
  \/ \E flags \in SUBSET Flag, runtime \in Runtimes : ReadValid(flags, runtime)

(* What the process and systemd do of their own accord. *)
Progress ==
  \/ ReadPoll
  \/ Land
  \/ Published
  \/ SideWorkEnds
  \/ PollFailureHandled
  \/ \E removed \in BOOLEAN : FatalStop(removed)
  \/ Notify
  \/ NextIteration
  \/ WatchdogKill
  \/ \E removed \in BOOLEAN : StopPost(removed)

Next ==
  \/ Start
  \/ Progress
  \/ \E removed \in BOOLEAN : PublicationRaises(removed)
  \/ SideWorkRaises
  \/ \E landed, removed \in BOOLEAN : FailSafeRaises(landed, removed)
  \/ RequestStop
  \/ Crash
  \/ Tick
  \/ \E mode \in {"lost", "low"} : NutSettles(mode)

Spec == Init /\ [][Next]_vars

(* The process and systemd do not stall, and time passes. *)
FairSpec ==
  Spec /\ WF_vars(Progress) /\ WF_vars(WatchdogKill) /\ WF_vars(Tick)

-----------------------------------------------------------------------------
Physical == output \in Status

(* The dummy driver is bound to the active unit: it serves the file from   *)
(* READY=1 on, until the process ends.                                     *)
Serving == Alive /\ ready

(* A reading is never served for longer than the grace, the iteration that *)
(* published it, the one that still tolerated the loss, and the one that   *)
(* no longer does; however the failures fall.                              *)
BoundedStaleness ==
  Serving /\ Physical => outputAge <= MaxAge + 3 * IterationBound

(* Whatever the tracker tolerates, a served reading is no older than the   *)
(* last watchdog ping allows: at most WatchdogTicks and one iteration.     *)
WatchdogBoundsStaleness ==
  Serving /\ Physical => outputAge <= watchdog + IterationBound

(* SafetyLatch: "OL is the only clearing transition".  Once a process has  *)
(* put LB in the file, it does not go back to plain OB before OL, whatever *)
(* failed polls, fail-safe output or side-work errors come between.        *)
LbStandsUntilOl == Alive /\ announced => output # "OB"

(* Between iterations the tracker tells the truth about the file: fresh is *)
(* a reading of this iteration, stale is the fail-safe or no file at all.  *)
TrackerMatchesFile ==
  pc \in {"notify", "sleep"} =>
    /\ freshness = "fresh" => Physical /\ outputAge <= busy
    /\ freshness = "stale_failed" => output = (IF hasPrior THEN FailSafe ELSE Absent)

(* A process that found no file and never published writes no synthetic    *)
(* low battery: an unreachable NUT at boot shuts nothing down.             *)
NoSyntheticLbUnpublished == Alive /\ output = FailSafe => hasPrior

(* WATCHDOG=1 is sent only by an iteration whose own reading is in place:  *)
(* a daemon that only tolerates or substitutes does not look healthy.      *)
PingNeedsPublication ==
  [][Alive /\ watchdog' < watchdog /\ pc' # "down" => Physical /\ outputAge <= busy]_vars

(* ExecStopPost and ExecStartPre: "A stopped monitor must not leave        *)
(* dummy-ups serving its last OL snapshot".  Whatever ended the process (a *)
(* stop, a crash, the watchdog, a failed write whose own removals failed   *)
(* too), its file survives only a failed ExecStopPost, and meets a later   *)
(* process only if the ExecStartPre before that one failed as well.        *)
LeftoverNeedsFailedUnlinks ==
  output # Absent /\ ~own => outlived >= (IF pc = "down" THEN 1 ELSE 2)

(* A file that outlived even those is in the tracker a prior publication,  *)
(* which may be young, tolerated or replaced by the fail-safe; it is never *)
(* served: READY=1 waits for a publication of the process itself.          *)
LeftoverNeverServed == Serving /\ output # Absent => own

(* The promises above, as the abstract machine upsmon relies on.           *)
Contract == INSTANCE VirtualUpsContract WITH
  Fresh    <- IterationBound,
  Limit    <- MaxAge + 3 * IterationBound,
  served   <- IF Serving THEN output ELSE Absent,
  evidence <- IF Serving /\ Physical THEN outputAge ELSE 0,
  alarm    <- Serving /\ output # Absent /\ announced

ImplementsContract == Contract!Spec

(* When NUT is gone for good, no reading stays in a live process's file.   *)
LostTelemetryIsNotServed ==
  <>[](nut = "lost") => <>[](Alive => ~Physical)

(* When the battery is low for good and the process lives, LB is served.   *)
LowBatteryIsServed ==
  <>[](nut = "low" /\ Alive) => <>[](ready /\ output = "LB")
=============================================================================
