# UPS Battery Monitor: verification project

TLA+ models of the daemon under `src/src/` and of the systemd units around it, the
TLC configurations that check them on small instances, and TLAPS proofs of the
properties that matter most for every value of the constants.  Paths below are
relative to the repository root.

## 1. The system

```
 physical UPS - NUT - telemetry.read - MonitorDaemon.poll_once - VirtualUpsExporter
                                          |          |                  | rename
                                          |          |            ups-virtual.dev (device file)
                                          |          |                  | read by dummy-ups driver
                              TelemetryJsonlWriter   |                upsmon
                              (telemetry, history)   |
                                               ModelOwner (model.json)
 systemd: Type=notify, WatchdogSec=120, ExecStartPre/ExecStopPost unlink the device file
```

One single-threaded process polls the physical UPS once per second.  A poll reads NUT,
classifies the observation, forecasts the runtime, decides the virtual status and
atomically replaces the device file; only then come the raw telemetry, the model
feedback and the self-test.  `upsmon` shuts the host down when it reads LB, so the two
errors that count are a device file that says something stale or too good, and one
that says LB without cause.

### Components

| component | state it keeps | operations | what is hard | status |
|---|---|---|---|---|
| Status policy (`domain/safety_policy.py`, `domain/lifecycle.py`, `application/safety.py`) | the low-battery latch value | classify, decide, latch | boundary values, unknown status, LB that flickers | modelled: `SafetyPolicy` |
| Virtual UPS exporter and freshness tracker (`virtual_ups_exporter/__init__.py`, `application/publication_freshness.py`) | device file, tracker state, time of last success, staged context, error channels | stage, publish, handle_poll_failure, invalidate_output, watchdog_healthy | failure before or after the rename, grace checked only at failures, a file found at start | partly: `VirtualUpsExporter` (error texts and the metrics of a payload are left out) |
| Poll loop (`monitor.py`) | running flag, latch, episode kind, READY sent, fatal error | poll_once, failure handlers, notify, wait, stop | ordering of publish, latch and side work; what each exception path leaves behind | modelled: `MonitorDaemon` |
| systemd unit and bound dummy driver (`systemd/`) | unit state, watchdog clock, starts counted, device file across processes | start, READY, kill, stop-post, restart, start limit, start of the driver | crash between any two steps, failing unlink, deaths that add up to the limit | modelled: the device file's side in `MonitorDaemon`, restarts and the driver in `Supervision` |
| What upsmon relies on | content served, its age, whether LB stands | serve, give up, withdraw | | modelled: `VirtualUpsContract` (abstract) |
| Model feedback (`monitor.py` feedback part, `domain/model_feedback.py`) | replayed flag, episodes to visit | replay, record, propose, apply, recover | three stores, no transaction, retries; thresholds, cadences and gaps in the extraction | modelled: `ModelFeedback`, and `LoadStep` for the extraction of an observation |
| Model owner and its persistence (`adapters/model_owner.py`, `adapters/model_state_persistence.py`) | model.json, the same in memory, writer lock | apply_feedback, last_feedback | rename that succeeds in a write that fails | partly: in `ModelFeedback`; a start that fails for the lock or an invalid file is an outcome in `Supervision` (the schema's checks of each field are left out) |
| Maintenance history (`adapters/battery_history.py`) | history.jsonl rows | episode, ir_observation, upsert_model_update, event_kinds, ir_observations | last row wins, append that fails after writing | partly: in `ModelFeedback` and `TelemetryWriter`, torn lines in `Supervision` (the figures of a row are left out) |
| Telemetry writer (`adapters/telemetry_jsonl.py`, `adapters/minimal_event_file.py`) | active episode, recharge, silent buffer, telemetry.jsonl | write, reconcile, restore | partial flush, restart in an episode | partly: `TelemetryWriter` in `OutageRecording`, and what feedback needs of it in `ModelFeedback`; torn lines in `Supervision` (the figures of a history row and the recharge start handed to the exporter are left out) |
| Self-test scheduling and attribution (`monitor.py`) | date of last check, pending window, episode kind | check, run, attribute | window against battery flags, restart forgets the date | modelled: `OutageRecording` (in `MonitorDaemon` attribution is a free choice) |
| Deadline guard (`_run_with_deadline`, `atomic_publication_cleanup.py`) | SIGALRM handler, mask, interval timer and the caller's, temporary file | guarded write, guarded invalidations, cleanup | alarm between any two calls, nested one-shot or periodic timer, an operation that hangs | modelled: `DeadlineGuard`; elsewhere a publication may raise at any point |
| Forecast (`ema_filter.py`, `battery_math/`), recharge ETA | filter values | add sample, soc, runtime | numeric edges | not modelled: the runtime is an input of `SafetyPolicy` |
| NUT client and telemetry adapter (`nut_client.py`, `adapters/nut_telemetry.py`) | a socket per request | request, parse | pure I/O | not modelled: its outcomes are those of a read |
| Configuration, model schema, constants | immutable | validate | | not modelled |
| Installer, blackout-history CLI, MOTD, repository checks (`scripts/`) | files of the host | install, print | the installer's transaction | not modelled |

### Interactions and hard behaviours

* The poll thread calls everything; the only concurrency is with time, signals,
  systemd and the readers of the device file.  The steps at which those can observe or
  interrupt the process are the actions of the models.
* `publish` may fail before the rename, or after it (directory fsync, deadline alarm).
  The latch moves after `publish` returned (`monitor.py:239`).
* `handle_poll_failure` consults the age of the last publication only when a poll
  fails, so a reading's real age exceeds the grace by what iterations last.
* After READY, a NUT outage longer than `WatchdogSec` ends in a watchdog kill: the
  fail-safe LB is removed by `ExecStopPost`, and the restarted process, which finds no
  file, keeps the output absent until NUT answers.  The model shows this as the
  withdrawal of the service; nothing in the repository promises otherwise.
* The writer and the daemon each keep an episode kind, and only the daemon's knows about
  the self-test; a failing append leaves the two out of step until the next second.
* A failed append is a warning: the poll goes on, and the next observation meets a buffer
  half flushed, an episode still open, or a stream that is a row behind the memory.
* SIGALRM may arrive between any two bytecodes of a publication.  Python runs the handler
  then; `signal.signal` runs a pending one before it acts, `pthread_sigmask` and `os.kill`
  after.  The guard must give the caller its handler and timer back on every path.
* A death is quick (a crash, a fatal publication, a start that raises) or slow (the
  watchdog).  systemd counts starts in a window; a start reads what the last process wrote,
  torn or not.
* The raw stream, the history and the model file are written one after the other;
  a new process reconciles them (`_reconcile_closed_episodes`, `_recover_model_update`).

## 2. Modules

| module | models | variables and actions in the code |
|---|---|---|
| `SafetyPolicy` | classification, threshold, floor, latch | operators, one per function; runtimes in whole minutes |
| `VirtualUpsExporter` | device file, tracker, exporter calls | `output` is the file's content, `freshness`/`hasPrior`/`age` the tracker, `staged` the context, `call` how far a call got; one action per way a call can go |
| `MonitorDaemon` | the loop, the unit, time and faults over the exporter | `pc` names the place in an iteration; one action per handler; `Tick` is a second; `announced`, `own` (this process wrote the file) and `outlived` (the unit's failed unlinks the file is past) are history variables |
| `VirtualUpsContract` | what upsmon may rely on | abstract; implemented by `MonitorDaemon` |
| `ModelFeedback` | the three stores and the feedback's steps | `raw`, `history`, `model` are the files, `memory` the model in the process, `pc` the place between two durable writes; `ledger` is a history variable |
| `AuditedCorrections` | what the history promises about the coefficient | abstract; implemented by `ModelFeedback` up to a second fault; `log` gives each correction by its place among the rows of the history |
| `TelemetryWriter` | which observation becomes a row, and when an episode becomes a history row | `stream` and `history` are the files, `active`, `recharging`, `postFullUntil`, `silent` the writer's fields, `episode` the kind and first battery row of the open episode; an action is one append and what the writer remembers after it |
| `OutageRecording` | the writer under its daemon: classification, the calls of `write`, the self-test, failing appends, crash and restart | `pc` is the place in a poll or "down"; one action per step of a poll, and `Stop`, `Restart`, `RestartFails`; `late`, `commands`, `attributed` are history variables |
| `DeadlineGuard` | `_run_with_deadline`, the atomic write and the invalidations under it, `cleanup_atomic_publication` | `pc` is a place between two calls; `handler`, `masked`, `sig`, `timer` are the state of SIGALRM; the other variables are the function's locals under their names; one action per call, `Handle` runs the handler, `Tick` is time; `outer`, `owed`, `seen`, `troubles` are history variables |
| `GuardedPublication` | what a publication promises | abstract; implemented by `DeadlineGuard` |
| `Supervision` | the unit, the start limit, the start of the process and the driver | `unit`, `silent`, `backoff`, `window`, `starts` are systemd's, `tornTelemetry` and `tornHistory` say what the files hold; one action per start, ping, death and restart |
| `LoadStep` | `extract_ir_observation` | pure: `signal` is an outage, `Rows` what the polls saw of it, by place, `ExtractIrObservation` the code's function |
| `NumberLemmas`, `MonitorDaemonProofs`, `OutageRecordingProofs`, `DeadlineGuardProofs`, `SupervisionProofs`, `ModelFeedbackProofs`, `FeedbackEvidenceProofs`, `LoadStepProofs` | lemmas and theorems, section 4 | |
| `MCMonitorDaemon`, `MCModelFeedback`, `MCOutageRecording`, `MCDeadlineGuard`, `MCSupervision`, `MCLoadStep` | instances for TLC | |

A publication in the code is one call; in the model it is `Stage`, `PublishLands` (the
rename) and `PublishReturns` (`record_success`), because a crash, an alarm or a failing
fsync can separate them.  An iteration of `MonitorDaemon` takes at most `IterationBound`: a
hanging one is not in it, but in `Supervision` (the slow death) and, for the calls under the
deadline, in `DeadlineGuard`.  A failing file operation, a raising history read and a death
of the process cost one fault each; `MaxFaults` bounds them, all other choices are free.

In `ModelFeedback` and in `TelemetryWriter` reconciling at start is nondeterministic where
the other half of the system decides: `ModelFeedback` lets it write the row of an earlier
episode or of no episode, because the rows before the last outage may hold an earlier one,
or no row, because an outage is in progress, and `TelemetryWriter!Reconciled(shadowed)` may
find the last outage without a row although it has one, because the feedback's rows for the
same outage come behind it in the file (`event_kinds` keeps the last kind of a time).
`OutageRecording!Shows` is external: the UPS stays on battery for `TestLength` after it
accepted a self-test.

In `DeadlineGuard` an alarm that finds Python running has "arrived": the code may make one
more call before its handler is due, which is what lets it fall into the next line.
`publish`'s except branch and the daemon's `_handle_publication_failure` are the operations
"mark" and "fatal" of the same guard.

`LoadStep` states its reference on the signal, not on the rows: which plateaus the polls
show, and what the true step is.  A window is the set of the places of its rows; a median is
the values of its two middle ranks, a sum a recursive function on the places.  A signal's
samples are in the range that `_raw_sample` accepts.  Sums are exact in the model.  Where a comparison of
voltages is exactly on its bound the code's floating-point rounding decides (a drop of
exactly 0.2 V from 12.0 V is accepted at a cadence of 2 s and rejected at 11 s); `tight`
takes both outcomes, and the properties exempt signals on a bound.

Operators named `Mutant...` are deliberate mistakes, each a plausible bug of the
definition it stands beside.  They are part of no specification; substituting one shows
that the property it is listed with in `PROJECT.json` notices it.

## 3. Runs

| run | shows | bounds |
|---|---|---|
| `daemon` | types, staleness bound, latch, tracker against file, no synthetic LB before a first publication, a leftover file is past a failed unlink of the unit for each that was due and is never served, refinement of the contract | grace 2 s, iteration 1 s, watchdog 5 s, five faults, runtimes 1/3/6 min |
| `daemon_watchdog` | the watchdog alone bounds staleness, and only own publications feed it; lost telemetry is eventually not served, a lasting low battery eventually is served as LB | grace 6 s beyond a watchdog of 3 s, iteration 2 s, one fault, runtimes 1/6 |
| `feedback` | types, memory against file, evidence used once without faults, replay completeness, refinement of the audit log up to a second fault, a receipt reaches the history | two faults; 6 natural outages, or 4 with a self-test or an outage without a load step among them |
| `feedback_log` | with a second fault a correction is missing from the history for good (expected violation) | 6 natural outages, two faults, a restart reconciles the last outage only |
| `recording` | types, order of the stream, history rows within one outage, lost summaries, attribution | 7 s, one fault, silent window 2 s, two context rows, attribution window 3 s, day of 3 s, cooldown 2 s |
| `recording_rows` | without a fault a history row can describe no outage at all (expected violation) | 8 s, no fault |
| `recording_cooldown` | two self-test commands within the cooldown (expected violation) | 8 s, no fault |
| `deadline` | types, handler and timer given back, the alarm never kills, temporaries explained, refinement of the publication, a hanging call ends | deadline of 2 ticks, two publications, no outer timer, one-shots before and after the deadline, a periodic one |
| `deadline_mask` | SIGALRM stays blocked after a cleanup (expected violation) | the same without an outer timer |
| `supervision` | types, slow deaths stay below the start limit, the virtual UPS is served again | watchdog 12, restart 1, interval 30 ticks of ten seconds, burst 3, two faults |
| `supervision_torn` | a torn history line keeps the monitor from starting (expected violation) | the same, one fault |
| `load_step` | exactly the steps the polls show are found, at every cadence; the estimate is a quantum off at most | 3,786 outages: the bounds of every threshold, cadences of 1 to 16 s, a lost, void, LB or CAL row, drooping and lagging voltage |

Why the bounds are enough.  The daemon compares ages only with the grace and, in the
properties, with sums of grace, iterations and watchdog period; `AgeCap` lies above all of
them, so saturation is invisible.  A grace of two iterations lets a loss be tolerated,
tolerated again and given up, and both staleness bounds are reached with equality.  Runtimes
1, 3 and 6 lie below the floor, between the thresholds and above both.  Five faults cover
the worst combination: a publication that fails, its own removal of the file, the daemon's,
`ExecStopPost` and `ExecStartPre`, after which a new process meets the file of the old one;
with a crash in the first place three are enough.  A leftover is attributed by counting the
unit's failed unlinks alone: crashes, failing writes and failing removals of the process do
not excuse it.  In `daemon_watchdog` the grace is longer than the watchdog's period, the
only order in which the watchdog is what bounds a reading's age; runtimes below and above
both thresholds are enough for its liveness properties.

In the feedback runs one estimate is enough, because the coefficient needs five bounded
steps to reach it.  Six outages let two cohorts of three be corrected one after the other,
or one cohort be corrected and its observations be used again, with a failing write or a
death at two places and with any number of clean restarts.  A failing recovery of a receipt
and a failing start need an earlier fault, so two are the least that reach every action.
`ImplementsAudit` and `MemoryLagsByOneUnlogged` say nothing of what follows a second fault,
and `EvidenceUsedOnceWithoutFaults` nothing of what follows the first; that is a statement
about the code, not about the instance: `feedback_log` shows what two faults do to the history.
The other properties hold for any number of faults, of which section 4 proves all but
`ReceiptIsRecorded`.

Seven seconds let an outage end, its tail or recharge run out, the buffer fill beyond its
window and a second outage begin; or a self-test be checked, accepted, recorded and followed
by an outage inside and outside its attribution window; or an outage, a stop or crash in or after
it, a second outage and a restart that reconciles with both in the context rows.  A window
of two seconds is the least in which a buffer of several rows is flushed in steps.  One
fault is enough for each hazard of a single failing append, and the theorems of section 4
hold for any number.  The readings on battery, full, charging and unknown take every branch
of the writer; "below full" without a charging flag differs from charging only at a restart,
"no percentage" from full only in the post-full window, and the proofs cover both.

A deadline of two ticks has a moment before, at and after every call.  The outer timers are
due before the deadline, after it, and several times within a long operation; elapsed time
saturates once it is beyond every timer, at a multiple of the period.  A second publication
meets what the first one left behind (mask, handler, timer).

One tick of `Supervision` is ten seconds: `RestartSec` 10, `WatchdogSec` 120 and
`StartLimitIntervalSec` 300 of the unit are 1, 12 and 30.  The burst is the unit's.  Two
faults are what fits beside one slow death in a window of three starts.

`load_step` takes each constant of the extraction at its value in the code and each input
just below, on and just above the place where a comparison turns.  Three relations between the
constants are assumptions, and TLC evaluates them at the code's values: a gap is shorter than
a plateau (`WindowsAreFilled`, 15 s and 20 s), so a window that counts has two samples; one
sample of the other load makes the longest window unsteady (`StepsAreUnsteady`,
15 * 15 * 20 > 2 * 2 * 21 * 21), so a window never runs across a step; and a voltage that falls
by one quantum is no step, nor do lines within the slope bound (0.002 V/s, a quantum in 50 s)
drift by one over a plateau and a half and a gap (`DriftsAreSmall`, 2 > 1 and
3 * 20 + 2 * 15 <= 2 * 50), so what a window mixes of two voltages stays below the guards or
within a quantum of the truth.

Deadlock is checked in every run but three: in `LoadStep` the extraction is one step, and in
`Supervision` a unit that reached its start limit stays failed.  In `OutageRecording` the
clock stops at `MaxTime`, and the process can still be stopped and restarted there.

Fairness.  `MonitorDaemon!FairSpec` assumes that the process and systemd take their
next step (`Progress`: the loop has no other waiting than its bounded calls and its
sleep; systemd runs `ExecStopPost`), that a due watchdog kill happens, and that time
passes.  Reading, restarting, failing and stopping are not forced: `Start` carries no
fairness, since the unit may have hit its start limit.  `ModelFeedback!FairSpec`
assumes only that a running process goes on polling.  `DeadlineGuard!FairSpec` assumes that
time passes, that handlers run, and that the guard's and the cleanup's own calls return;
the guarded operation's calls carry no fairness, because they are what may hang.
`Supervision!FairSpec` assumes that the process and systemd take their next step, that a due
kill and restart happen, and that time passes; NUT comes back again and again (the premise
of `ServesAgain`), and strongly fair are the first publication and the driver's start, which
need it to stay for a poll.

### What was found

`feedback_log`: `ir_observations` returns the observations after the last update's event,
and the update is keyed by the episode being visited, not by the newest of its cohort.  If
the pass that recorded the third observation does not get to apply it (a crash, a failing
append or model write), the next process replays all episodes from the oldest, applies the
correction under an early event, and the other observations stay "newer than the last IR
model update" and are used again.  A second correction may then get the key of an event that
has its update row: `upsert_model_update` appends nothing, and the coefficient has moved
without a row.  In the counterexample it falls from 0.015 to 0.00575, and the step from
0.009 to 0.007 is in no row.  The same sequence run on the code gives the same file.

`recording_rows`: the reconciliation at start passes the 31 rows before the last closed
episode along as context, and the summary starts at the first battery row of what it is
given.  When an earlier outage ended among those rows, the history gets a row that starts in
the middle of the earlier outage, and the last outage gets none.  No fault is needed: the
feedback's observation row hides the blackout row from `event_kinds`, so a plain restart
reconciles an outage that has its row.

`recording_cooldown`: the cooldown looks for battery rows in the stream, not at the commands
given.  A self-test whose seconds left no row (invalid readings, a missed poll, a failing
append) is forgotten by the next day's check.

`deadline_mask`: `cleanup_atomic_publication` blocks SIGALRM with `pthread_sigmask`, which
runs a handler that is already pending after it changed the mask and before it returns.  The
`TimeoutError` leaves the function above its `try`: SIGALRM stays blocked, the temporary stays,
and the invalidations that follow run without a deadline.  The process then ends, so the mask
does not outlive it; `StuckCallEnds` holds for calls that begin unmasked.

`supervision_torn`: a history row that `os.write` wrote in part, or a death in it, makes
`event_kinds` raise at the next start, before the first publication, and at every start after
it.  (`ups-battery-monitor.service:7` speaks of "three bounded restart attempts";
`StartLimitBurst=3` counts the first start too, so two restarts are attempted.)

Seen while modelling, without a run of its own: the silent buffer is trimmed when an online
observation enters it, not when it is flushed (`telemetry_jsonl.py:246`); after readings that
are missing or invalid, its rows are older than the window and still go to the stream as
context of the outage.

## 4. Proofs

`MonitorDaemonProofs` proves, for every grace, iteration bound, watchdog period, fault
budget and set of runtimes that satisfy `AgeAssumption`, `DaemonAssumption` and
`ShutdownAboveFloor`:

| theorem | statement |
|---|---|
| `TypeCorrect` | `Spec => []TypeOK` |
| `LowBatteryStands` | `Spec => []LbStandsUntilOl` |
| `StalenessBounded` | `Spec => []BoundedStaleness` |
| `TrackerTellsTheFile` | `Spec => []TrackerMatchesFile` |
| `NoFalseShutdown` | `Spec => []NoSyntheticLbUnpublished` |
| `LeftoversExplained` | `Spec => []LeftoverNeedsFailedUnlinks` |
| `OwnFileServed` | `Spec => []LeftoverNeverServed` |
| `WatchdogBounds` | `Spec => []WatchdogBoundsStaleness` |
| `PingFollowsPublication` | `Spec => PingNeedsPublication` |
| `ContractImplemented` | `Spec => ImplementsContract` |

None of these properties is inductive.  The invariant `IInv` adds to the types:

* `CallInv`: outside a publication no exporter call is under way, and while publishing a
  status is staged.
* `LatchInv`: where the low battery is remembered while the file already shows it and
  the latch does not yet: in `nextLatch` between rename and return, in `latch` else.
  Without it, a latch that lags the file by a step would look like a lost one.
* `AgeInv`: for a file this process published, the content is at most one iteration
  older than the tracker's clock, and the clock was checked since the last failure, so
  it exceeds the grace by this iteration and the one before the check.  A reading the
  tracker gave up is only ever seen at "fatal".  Adding the three slacks gives the
  bound of three iterations.
* `ServeInv`: the content of such a file agrees with `announced`, and it is there
  whenever the service is about to start.

`FileInv` extends it by the relation of tracker, watchdog and file, and by whose the file is:
a process that ended owns none, and from its first landed publication on a process owns what
is in place.  The refinement is
proved action by action: each step that changes what is served is one action of the
contract, and every other step stutters.

`OutageRecordingProofs` proves, from `WindowAssumption` and `RecordingAssumption` (times are
naturals, a behaviour and a day are not empty) and for any number of faults:

| theorem | statement |
|---|---|
| `TypeCorrect` | `Spec => []TypeOK` |
| `RecordInOrder` | `Spec => []StreamInOrder` |
| `RowsInOneOutage` | `Spec => []RowsLieInOneOutage` |
| `SelfTestsAttributed` | `Spec => []SelfTestsWereAttributed` |

The invariants behind them:

* `PollInv`: a poll under way ends before `MaxTime`, and the row being written is one that
  can be written.
* `OrderInv`: what is buffered was seen after everything in the stream, in distinct seconds,
  and the second being processed is in neither before it is written.  Buffered rows exist
  only while the writer would stay silent (no episode, recharge or tail), so an append of
  the current second never overtakes them.  A buffered row whose append raised may be in the
  file already; this is where `late` comes in.
* `RowsInv`: the open episode began in the run that is open in the stream, and when its
  summary is due that run has just ended.  It rests on lemmas about runs: every battery row
  lies in one (by the least and greatest number of a bounded set), an append leaves the
  closed ones alone, a battery row extends the open one, any other row closes it, and
  reconciling picks its row from a closed one.
* `AttributionInv`: the kind of the open episode and of the reading being written were
  attributed; a restart makes the episode a blackout.

The second half of the module proves, from the same assumptions and for any number of faults:

| theorem | statement |
|---|---|
| `OneRowPerCommand` | `Spec => []OneOutagePerCommand` |
| `LossesBounded` | `Spec => []LostSummariesCostFaults` |

* `ClaimInv` counts what an accepted command entitles the history to: a pending window, a kind
  of the daemon without an open episode, an episode of that kind, or a row.  No step makes two
  claims of one.  The daemon's kind is no claim while an episode is open, because the online
  reading that ends the episode ends the kind before it is written (`KindInv`).
* `LossInv` counts what a fault can have spoilt: a closed outage without a row, an open outage
  that no episode will summarize (`Orphaned`), an episode whose own outage is neither open nor
  without a row (`Astray`).  An append that raised after it landed turns one of these into
  another without a further fault, and their sum never exceeds the faults.  Each battery row
  has a second of its own (`BatterySeconds`), so at most one outage waits for the row that is
  due.

`DeadlineGuardProofs` proves, from `GuardAssumption`, for every deadline, set of outer timers
and number of publications:

| theorem | statement |
|---|---|
| `TypeCorrect` | `Spec => []TypeOK` |
| `HandlerComesBack` | `Spec => []HandlersRestored` |
| `NeverKilled` | `Spec => []DeadlineNeverKills` |
| `TempIsRemoved` | `Spec => []LeftTempIsExplained` |
| `Invariance` | the inductive invariant holds |
| `PublicationImplemented` | `Spec => ImplementsPublication` |
| `OuterAlarmComesBack` | `Spec => []OuterAlarmKept` |

The invariant says which handler is installed at each place, in terms of `saved` and
`installed`; that without an outer timer nothing is left armed when the caller's handler is
back, and that an alarm under way then meets a handler of the guard; and what `temp`, `known`
and `troubles` say of the temporary at each place of the write.  A pending alarm is the hard
part: `sig` may be "arrived" at every place, so each place's facts must also hold where
`Landing` leads from it.

The caller's own timer needs an invariant of its own, `OuterInv`, which says at each place
where what is owed of that timer is to be found: in the timer while it runs (`Runs`), in
`previous_timer` from the moment the inner timer replaces it (`Noted`), and while the
operation runs in the difference between `previous_timer` and the time measured (`Passes`).
For a periodic timer that difference may have gone through zero any number of times: some
number of whole periods lies between the time that passed and what is owed, and the code's
"next expiry after the missed ones" is that remainder (`Remainder` in `NumberLemmas`, from
the uniqueness of a small multiple).  `Planned` then says that the code's decision (rearm,
deliver, nothing) is the owed one.  `ControlInv` is the control flow it rests on: where
nothing was raised, the guard takes its steps in order and the mask does not outlast the
cleanup.

`SupervisionProofs` proves, from `SupervisionAssumption` and `SlowDeathsAssumption` (the
interval of the start limit is shorter than `Burst` watchdog periods with their restart
delays, as 300 s is than 3 * 130 s in the unit):

| theorem | statement |
|---|---|
| `TypeCorrect` | `Spec => []TypeOK` |
| `SlowDeathsAllowed` | `Spec => []SlowDeathsStayBelowTheLimit` |
| `LimitNeedsAFault` | a unit that reached its start limit has seen a fault |

`SlowInv` is the inductive part.  As long as no death in the window was quick, each start but
the last took a watchdog period and a restart delay of it, and the time since the last start
(`SinceStart`) comes on top; so the window is over before `Burst` starts fit into it.  The
assumption on the interval is needed: with a longer one the watchdog alone takes the unit
down.

`ModelFeedbackProofs` and `FeedbackEvidenceProofs` prove, from `FeedbackAssumption`, for every
number of outages, set of load steps and initial coefficient:

| theorem | statement | faults |
|---|---|---|
| `TypeCorrect` | `Spec => []TypeOK` | any |
| `ReplayComplete` | `Spec => ReplayLeavesNothing` | any |
| `UsedOnce` | `Spec => []EvidenceUsedOnceWithoutFaults` | none so far |
| `LagsByOne` | `Spec => []MemoryLagsByOneUnlogged` | one at most so far |
| `CorrectionsAudited` | `Spec => ImplementsAudit` | one at most so far |

* `FeedbackInv` (`HistoryInv`, `ModelInv`, `PlaceInv`): rows belong to closed outages, an
  observation to one with a load step, and the place says which of the side work's variables
  are in use.  That a correction stays in the coefficient's range rests on the median lying
  between the estimates, by the least and greatest number of a bounded set.
* `UpdatesObserved`: a correction is keyed by an outage that has its observation.  With
  `VisitInv` (until a replay succeeded, an outage that is not recorded is still in the list)
  it makes the empty list of a finished replay mean that nothing is left.
* `FaultlessInv`: while nothing has failed the rows of an outage come in the order episode,
  observation, update (`RowsRanked`), so `event_kinds` tells the furthest one; every outage but
  the last has what it needs (`SettledInv`); the last update is what the model carries, and an
  open cohort yields a correction only while the last outage is visited (`CohortInv`).  Each
  correction is then keyed by the newest observation, and the filter by last update separates
  the cohorts (`LedgerInv`).  None of the three survives a fault, which is what `feedback_log`
  lives on.
* `LagInv`: the first fault may leave the file one correction ahead, under a key that neither
  the history nor the receipt in memory has, so nothing the process writes afterwards claims it.

* `KeysInv`, for the refinement of the audit log: one fault leaves one of two things intact.
  Either no outage misses a row and the rows of each are in order (`InOrder`), so reconciling
  adds nothing and an outage with its update is passed over; or an outage lost its row, but
  file and memory agree, the updates have increasing keys, and a correction is proposed only
  at an outage after the last of them (`Advancing`).  Both keep a correction from getting a
  key that has its row; a second fault can break both, and `feedback_log` is such a run.
* `AccountInv`: the log accounts for the coefficient in the file, but for its receipt while
  that is not logged; a memory that lags is what the log accounts for.  A step that writes the
  model file is then `Correct`, one that appends an update row is `Log`, and an observation or
  an outage's row changes no place of the log.  `WorkInv` is what holds whatever failed: the
  side work visits the last outages in order, and what a proposal starts from is logged.

`LoadStepProofs` proves, from `LoadStepAssumption`, `WindowsAreFilled`, `StepsAreUnsteady`,
`SignalsAssumption` and, for the last theorem, `DriftsAreSmall`, for every set of outages, cadence and phase, and for every value of the
extraction's constants in the order assumed:

| theorem | statement |
|---|---|
| `StepIsFound` | `Spec => []FindsTheStepShown` |
| `EveryCadenceFinds` | `Spec => []CadencesAgree` |
| `EstimateIsClose` | `Spec => []EstimateWithinOneQuantum` |

The invariant is short (`IInv`: what was found is the extraction of the signal's rows); the
argument is about the operators.

* Sums.  No induction theorem takes an operator here, so `Induction` is stated for sets of
  numbers, by the least number outside, and each fact about sums names the set of the places
  up to which it holds.  A recursive function means something only if its equation has a
  solution: `SumIsRecursive` and `GcdIsEuclid` show one (the greatest common divisor itself
  for `Gcd`) before the equation is used.  Then sums are linear (`SumLinear`), monotone
  (`SumMonotone`) and count (`CountIsSum`).
* Windows.  `n` samples, `h` of them at a load higher by `t`, have n * square - sum * sum =
  t * t * h * (n - h) (`VarianceOfTwoLoads`).  Unless `h` is 0 or `n` that is at least
  t * t * (n - 1), and a window has 21 samples at most (`WindowSizes`), so a steady window has
  one load (`MixtureIsUnsteady`).
* Measures.  A median lies among the samples (`MedianOfSamples`).  The regression's denominator
  times `n` is a sum of squares, not all of them 0 (`DenominatorIsPositive`), and a window of
  one voltage has that voltage as its line, whatever the times (`LineOfOneVoltage`).
* The extraction against the reference.  The rows that are used are the polls that count
  (`EventIsUsed`).  Windows that pass the guards lie in the two plateaus that the polls show
  (`StepIsSeen`, `WindowsShow`), and where polls show them the extraction's windows are those
  plateaus and give the true estimate (`ShownInWindows`, `StepAtPlateaus`).  At most one poll
  can be the transition, so the code's first is the reference's (`Extraction`).
* Cadences.  `CadenceShows` finds, from the phase and the cadence alone, a poll in each of the
  three intervals that `Shown` asks for.
* A voltage that lags and droops.  What the samples of a window lie above its fitted line
  balances in sum and in moment (`LineIsFitted`), so it changes its sign at least twice, or is
  zero (`OneCrossing`).  The voltage in a window never rises, so the line does not either
  (`FallingLine`); the line before ends at most at 13.0 V and the one after begins at least a
  quantum below the full drop (`SagAtMost`).  That is the upper bound.  For the lower one, an
  estimate that is more than a quantum short puts the line after the transition below every
  sample until the drop is displayed, because the sag is above a quantum at least; and, because
  a line that flat cannot sink enough by the window's end, above every sample since
  (`SagAtLeast`).  One change of sign: no fitted line does that (`NoCrossing`).  When the droop
  lies within the window before, that line ends the higher the more samples precede the droop,
  but its own slope is bounded too; the sum of the distances of `n` samples, one of which may be
  missing, and `n` times the length of the window after are within `n + 1` times the seconds
  that a quantum takes (`PollsAround`, `DriftIsSmall`), and that is where `DriftsAreSmall` is
  needed.

Only model-checked: the liveness properties (`LostTelemetryIsNotServed`, `LowBatteryIsServed`,
`ReceiptIsRecorded`, `StuckCallEnds`, `ServesAgain`), whose fairness conditions need ENABLED.
Every invariant and every action property that a passing run checks, and all three
refinements, are theorems.

## 5. Not modelled, and why

* The forecast (`ema_filter.py`, `battery_math/`) and the recharge ETA: floating-point formulas
  with no state but a filter; the runtime is an input of `SafetyPolicy`, and no decision
  reads the ETA.
* The NUT client and the telemetry adapter: one socket per request, no state between them;
  their outcomes are those of a read.
* Configuration, value types, ports: immutable; they appear as constants and outcomes.
* The payload's metrics, formatting and logging; the figures of a history row (voltages,
  durations, sag), which the writer's recent rows serve; the start of a recharge that the
  exporter's estimate uses.
* Schema validation of `model.json`, field by field: a start that fails for it is an outcome of
  `Supervision!StartupFails`.
* The branch of the cleanup for a thread that is not the main thread: `_run_with_deadline` is
  only called on it.
* Steps of the wall clock backwards while episodes close; the age of a file found at
  start is arbitrary, which covers steps between processes.
* The dummy driver's cache of the file: the driver is taken to serve the file's current
  content while it runs.
* The installer, a shell transaction on the host's files that runs beside no daemon; the
  operator tools, which only read; the repository's checks, which are developer tools.
