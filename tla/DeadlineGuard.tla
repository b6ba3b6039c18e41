---------------------------- MODULE DeadlineGuard ----------------------------
(***************************************************************************)
(* _run_with_deadline: one filesystem operation of the exporter under one  *)
(* SIGALRM deadline, on the main thread.  The operations are the atomic    *)
(* write of a publication with its cleanup and, when it raised, the two    *)
(* invalidations of the way down to the stop of the daemon.                *)
(*                                                                         *)
(* A place (pc) lies between two calls of the code at which CPython may    *)
(* run a signal handler.  An alarm that comes while a handler can run has  *)
(* "arrived": the code may make one more call, then the handler is "due".  *)
(* signal.signal runs pending handlers before it changes anything;         *)
(* pthread_sigmask and os.kill run them after.  A masked alarm is held     *)
(* back ("blocked").  Operations may hang; time is counted in ticks.       *)
(***************************************************************************)
EXTENDS Integers

CONSTANTS
  Deadline,     \* publication_deadline_s, in ticks
  OuterTimers,  \* timers of the caller: ticks left (0: none), and the period of
                \* a periodic one (0: one-shot)
  MaxOuter,     \* bound on left plus period: where elapsed time saturates
  MaxCalls      \* publications followed

ASSUME GuardAssumption ==
  /\ Deadline \in Nat \ {0}
  /\ MaxOuter \in Nat
  /\ OuterTimers \subseteq (0 .. MaxOuter) \X (0 .. MaxOuter)
  /\ \A t \in OuterTimers : t[1] + t[2] <= MaxOuter /\ (t[2] > 0 => t[1] > 0)
  /\ MaxCalls \in Nat \ {0}

VARIABLES
  pc,           \* the place the thread is at
  op,           \* "write" (publish), "mark" (its except branch), "fatal" (the daemon's)
  err,          \* the exception under way
  handler,      \* of SIGALRM: the caller's, timeout_handler or defer_alarm
  masked,       \* SIGALRM is blocked in the thread
  sig,          \* the alarm under way
  timer,        \* ITIMER_REAL, 0: off
  reload,       \* its interval
  saved,        \* previous_handler
  installed,    \* handler_installed
  prev,         \* previous_timer; NoTimer before it is assigned
  prevEvery,    \* ... and its interval
  elapsed,      \* since previous_timer_started_at
  plan,         \* restore_timer, "deliver", or nothing to restore
  completed,    \* operation_completed
  temp,         \* the temporary file exists
  known,        \* temporary_identity
  fired,        \* alarm_fired
  unclean,      \* cleanup_errors
  file,         \* the publication in the device file
  calls,        \* publications begun
  outer,        \* the caller's timer when the publication began
  every,        \* ... and its interval
  owed,         \* what is left of it by the time the guard can know of
  seen,         \* alarms the caller's handler saw
  troubles      \* failed calls of this publication, counted to two

alarmVars == <<handler, masked, sig, timer, reload>>
guardVars == <<saved, installed, prev, prevEvery, elapsed, plan, completed>>
writeVars == <<temp, known, fired, unclean>>
callVars  == <<file, calls, outer, every, owed, seen, troubles>>
locals    == <<guardVars, writeVars, callVars>>
vars      == <<pc, op, err, alarmVars, locals>>

Absent  == 0                    \* generation of a file that is not there
NoTimer == -1

SetUp      == {"install", "noting", "arming"}
Writing    == {"run", "opened", "owned", "filled", "replaced"}
CleaningUp == {"cleanup", "masked", "collect", "unmask", "unwind", "finish"}
Removing   == {"run", "removed"}
TakeDown   == {"finally", "disarm", "plan", "restore", "rearm", "return"}
Place      == SetUp \cup Writing \cup CleaningUp \cup Removing \cup TakeDown
                \cup {"opdone", "idle", "stopped", "killed"}

TypeOK ==
  /\ pc \in Place
  /\ op \in {"write", "mark", "fatal"}
  /\ err \in {"none", "io", "deadline"}
  /\ handler \in {"outer", "timeout", "defer"}
  /\ masked \in BOOLEAN
  /\ sig \in {"none", "arrived", "due", "blocked"}
  /\ timer \in Nat /\ prev \in Nat \cup {NoTimer}
  /\ reload \in Nat /\ prevEvery \in Nat
  /\ saved \in {"outer", "timeout"}
  /\ installed \in BOOLEAN /\ completed \in BOOLEAN
  /\ elapsed \in 0 .. MaxOuter
  /\ plan \in {"none", "deliver", "rearm"}
  /\ temp \in BOOLEAN /\ known \in BOOLEAN
  /\ fired \in BOOLEAN /\ unclean \in BOOLEAN
  /\ file \in 0 .. MaxCalls /\ calls \in 0 .. MaxCalls
  /\ outer \in 0 .. MaxOuter /\ every \in 0 .. MaxOuter /\ owed \in 0 .. MaxOuter
  /\ seen \in 0 .. 2 /\ troubles \in 0 .. 2

Init ==
  /\ pc = "idle" /\ op = "write" /\ err = "none"
  /\ handler = "outer" /\ masked = FALSE /\ sig = "none" /\ timer = 0 /\ reload = 0
  /\ saved = "outer" /\ installed = FALSE /\ prev = NoTimer /\ prevEvery = 0
  /\ elapsed = 0 /\ plan = "none" /\ completed = FALSE
  /\ temp = FALSE /\ known = FALSE /\ fired = FALSE /\ unclean = FALSE
  /\ file = Absent /\ calls = 0 /\ outer = 0 /\ every = 0 /\ owed = 0 /\ seen = 0 /\ troubles = 0

-----------------------------------------------------------------------------
(* The next call of the code: not before a due handler.                    *)
At(place)     == pc = place /\ sig # "due"
Ripe          == IF sig = "arrived" THEN "due" ELSE sig
Step(from, to) ==
  /\ At(from)
  /\ pc' = to
  /\ sig' = Ripe
(* signal.signal: pending handlers run first.                              *)
SetHandler(from, to, new) ==
  /\ pc = from
  /\ sig \in {"none", "blocked"}
  /\ pc' = to
  /\ handler' = new
  /\ UNCHANGED <<sig, masked, timer, reload>>

Trouble(n) == IF troubles + n > 2 THEN 2 ELSE troubles + n

FreshLocals ==
  /\ err' = "none" /\ installed' = FALSE /\ completed' = FALSE
  /\ prev' = NoTimer /\ prevEvery' = 0 /\ elapsed' = 0 /\ plan' = "none"

(* publish begins; the caller may have a timer of its own.                 *)
Publish ==
  /\ pc = "idle" /\ sig = "none" /\ (timer = 0 \/ reload > 0)
  /\ calls < MaxCalls
  /\ \E t \in OuterTimers :
       /\ outer' = t[1] /\ owed' = t[1] /\ timer' = t[1]
       /\ every' = t[2] /\ reload' = t[2]
  /\ calls' = calls + 1
  /\ seen' = 0 /\ troubles' = 0
  /\ pc' = "install" /\ op' = "write"
  /\ FreshLocals
  /\ temp' = FALSE /\ known' = FALSE /\ fired' = FALSE /\ unclean' = FALSE
  /\ UNCHANGED <<handler, masked, sig, saved, file>>

Install ==
  /\ SetHandler("install", "noting", "timeout")
  /\ saved' = handler
  /\ UNCHANGED <<op, err, installed, prev, prevEvery, elapsed, plan, completed, writeVars, callVars>>

(* handler_installed = True, then setitimer.  What setitimer returns is in *)
(* previous_timer from the next step on: Raise at "arming" forgets it.     *)
ArmFor(ticks) ==
  /\ Step("noting", "arming")
  /\ installed' = TRUE
  /\ prev' = timer /\ prevEvery' = reload
  /\ timer' = ticks /\ reload' = 0
  /\ UNCHANGED <<op, err, handler, masked, saved, elapsed, plan, completed, writeVars, callVars>>

(* Mutant: an invalidation runs without a deadline.                        *)
MutantArm == ArmFor(IF op = "write" THEN Deadline ELSE timer)

Arm == ArmFor(Deadline)

Begin ==
  /\ Step("arming", "run")
  /\ UNCHANGED <<op, err, handler, masked, timer, reload, locals>>

-----------------------------------------------------------------------------
(* The operation.  A call of it takes it on, or raises OSError.            *)
OpStep(from, to) ==
  /\ Step(from, to)
  /\ UNCHANGED <<op, err, handler, masked, timer, reload, guardVars, calls, outer, every, owed, seen>>

OpFails(from, to) ==
  /\ At(from)
  /\ pc' = to
  /\ sig' = Ripe
  /\ err' = "io"
  /\ UNCHANGED <<op, handler, masked, timer, reload, guardVars, file, calls, outer, every, owed, seen>>

(* What precedes the try (size limit, mkdir, symlink) fails past the       *)
(* cleanup, os.open into it.                                               *)
OpenTemp ==
  /\ op = "write"
  /\ \/ OpStep("run", "opened") /\ temp' = TRUE /\ UNCHANGED troubles
     \/ /\ \E to \in {"cleanup", "finally"} : OpFails("run", to)
        /\ temp' = FALSE
        /\ troubles' = Trouble(1)
  /\ UNCHANGED <<known, fired, unclean, file>>

(* Mutant: the identity is kept only when both views of the file agree.    *)
MutantInspectTemp ==
  /\ \/ OpStep("opened", "owned") /\ known' = TRUE /\ UNCHANGED troubles
     \/ OpFails("opened", "cleanup") /\ known' = FALSE /\ troubles' = Trouble(1)
  /\ UNCHANGED <<temp, fired, unclean, file>>

(* One of the two views may fail and leave the identity to the other.      *)
InspectTemp ==
  /\ \/ OpStep("opened", "owned") /\ known' = TRUE /\ UNCHANGED troubles
     \/ OpFails("opened", "cleanup") /\ known' = TRUE /\ troubles' = Trouble(1)
     \/ OpFails("opened", "cleanup") /\ known' = FALSE /\ troubles' = Trouble(2)
  /\ UNCHANGED <<temp, fired, unclean, file>>

(* fchmod, write, fdatasync and close.                                     *)
FillTemp ==
  /\ \/ OpStep("owned", "filled") /\ UNCHANGED troubles
     \/ OpFails("owned", "cleanup") /\ troubles' = Trouble(1)
  /\ UNCHANGED <<writeVars, file>>

Replace ==
  /\ \/ /\ OpStep("filled", "replaced")
        /\ temp' = FALSE /\ file' = calls
        /\ UNCHANGED troubles
     \/ OpFails("filled", "cleanup") /\ troubles' = Trouble(1) /\ UNCHANGED <<temp, file>>
  /\ UNCHANGED <<known, fired, unclean>>

SyncDirectory ==
  /\ \/ OpStep("replaced", "cleanup") /\ UNCHANGED troubles
     \/ OpFails("replaced", "cleanup") /\ troubles' = Trouble(1)
  /\ UNCHANGED <<writeVars, file>>

(* _invalidate_output_locked, without the cleanup of a write.              *)
RemoveOutput ==
  /\ op # "write"
  /\ \/ OpStep("run", IF file = Absent THEN "opdone" ELSE "removed") /\ file' = Absent
     \/ OpFails("run", "finally")
  /\ UNCHANGED <<writeVars, troubles>>

SyncRemoval ==
  /\ OpStep("removed", "opdone") \/ OpFails("removed", "finally")
  /\ UNCHANGED <<writeVars, file, troubles>>

-----------------------------------------------------------------------------
(* cleanup_atomic_publication.  The mask is set first; an alarm that had   *)
(* arrived raises out of pthread_sigmask and leaves the mask behind.       *)
BlockAlarms ==
  /\ At("cleanup")
  /\ masked' = TRUE
  /\ IF sig = "arrived"
       THEN pc' = "finally" /\ err' = "deadline" /\ sig' = "none"
       ELSE pc' = "masked" /\ UNCHANGED <<err, sig>>
  /\ UNCHANGED <<op, handler, timer, reload, guardVars, temp, known, fired, unclean, callVars>>

DeferAlarms ==
  /\ SetHandler("masked", "collect", "defer")
  /\ UNCHANGED <<op, err, locals>>

(* _collect_cleanup_errors: close, then unlink by identity.                *)
CollectErrors ==
  /\ Step("collect", "unmask")
  /\ \E faults \in 0 .. 2, removed \in BOOLEAN :
       /\ temp /\ known /\ ~removed => faults > 0
       /\ temp' = (temp /\ ~(known /\ removed))
       /\ unclean' = (faults > 0)
       /\ troubles' = Trouble(faults)
  /\ UNCHANGED <<op, err, handler, masked, timer, reload, guardVars, known, fired,
                 file, calls, outer, every, owed, seen>>

(* sigpending, then previous_mask: not blocked, for a write that left the  *)
(* mask behind was the last one.  A blocked alarm meets defer_alarm.       *)
UnblockAlarms ==
  /\ pc = "unmask"
  /\ pc' = "unwind"
  /\ fired' = (fired \/ sig = "blocked")
  /\ masked' = FALSE
  /\ sig' = "none"
  /\ UNCHANGED <<op, err, handler, timer, reload, guardVars, temp, known, unclean, callVars>>

RestoreTimeoutHandler ==
  /\ SetHandler("unwind", "finish", "timeout")
  /\ UNCHANGED <<op, err, locals>>

(* Mutant: the cleanup's return swallows the write's own error.            *)
MutantFinishCleanup ==
  /\ Step("finish", "opdone")
  /\ err' = "none"
  /\ UNCHANGED <<op, handler, masked, timer, reload, locals>>

(* _finish_cleanup: the write's own error wins over a cleanup error, and   *)
(* both over a deferred alarm, which os.kill raises again.                 *)
FinishCleanup ==
  /\ At("finish")
  /\ IF err # "none"
       THEN pc' = "finally" /\ sig' = Ripe /\ UNCHANGED err
       ELSE IF unclean
       THEN pc' = "finally" /\ sig' = Ripe /\ err' = "io"
       ELSE IF fired
       THEN pc' = "finally" /\ sig' = "none" /\ err' = "deadline"
       ELSE pc' = "opdone" /\ sig' = Ripe /\ UNCHANGED err
  /\ UNCHANGED <<op, handler, masked, timer, reload, locals>>

-----------------------------------------------------------------------------
(* operation_completed = True.                                             *)
Complete ==
  /\ Step("opdone", "finally")
  /\ completed' = TRUE
  /\ UNCHANGED <<op, err, handler, masked, timer, reload, saved, installed, prev, prevEvery, elapsed, plan,
                 writeVars, callVars>>

(* Mutant: a periodic timer due at this very moment is taken for expired.  *)
MutantAdjustedTimer(left, period, passed) ==
  IF left = 0 THEN [left |-> 0, every |-> 0, missed |-> FALSE]
  ELSE IF passed < left THEN [left |-> left - passed, every |-> period, missed |-> FALSE]
  ELSE IF period = 0 THEN [left |-> 0, every |-> 0, missed |-> TRUE]
  ELSE [left |-> (period - ((passed - left) % period)) % period, every |-> period, missed |-> FALSE]

(* _adjust_previous_timer: what passed may be several periods.             *)
AdjustedTimer(left, period, passed) ==
  IF left = 0 THEN [left |-> 0, every |-> 0, missed |-> FALSE]
  ELSE IF passed < left THEN [left |-> left - passed, every |-> period, missed |-> FALSE]
  ELSE IF period = 0 THEN [left |-> 0, every |-> 0, missed |-> TRUE]
  ELSE [left |-> period - ((passed - left) % period), every |-> period, missed |-> FALSE]

MeasureAs(adjusted) ==
  /\ Step("finally", IF prev = NoTimer THEN "restore" ELSE "disarm")
  /\ IF prev = NoTimer
       THEN UNCHANGED <<plan, prev, prevEvery>>
       ELSE /\ plan' = IF adjusted.missed THEN (IF completed THEN "deliver" ELSE "none")
                       ELSE IF adjusted.left # 0 THEN "rearm" ELSE "none"
            /\ prev' = adjusted.left /\ prevEvery' = adjusted.every
  /\ elapsed' = 0
  /\ UNCHANGED <<op, err, handler, masked, timer, reload, saved, installed, completed,
                 writeVars, callVars>>

(* Mutant: what is left is not compared with what has elapsed.             *)
MutantMeasure ==
  MeasureAs([left |-> prev - elapsed, every |-> prevEvery, missed |-> FALSE])

(* elapsed_s, and what it leaves of the caller's timer.                    *)
Measure == MeasureAs(AdjustedTimer(prev, prevEvery, elapsed))

(* Mutant: the inner timer is left running.                                *)
MutantDisarm ==
  /\ Step("disarm", "restore")
  /\ UNCHANGED <<op, err, handler, masked, timer, reload, locals>>

(* setitimer(0); an alarm of its last moment is handled at "plan".         *)
Disarm ==
  /\ Step("disarm", "plan")
  /\ timer' = 0 /\ reload' = 0
  /\ UNCHANGED <<op, err, handler, masked, locals>>

RestoreHandlerIf(condition) ==
  /\ \E from \in {"plan", "restore"} :
       IF condition
         THEN SetHandler(from, "rearm", saved)
         ELSE Step(from, "rearm") /\ UNCHANGED <<handler, masked, timer, reload>>
  /\ UNCHANGED <<op, err, locals>>

(* Mutant: the handler goes back only after an operation that completed.   *)
MutantRestoreHandler == RestoreHandlerIf(installed /\ completed)

RestoreHandler == RestoreHandlerIf(installed)

(* setitimer, or os.kill for an alarm the caller missed.                   *)
Rearm ==
  /\ At("rearm")
  /\ pc' = "return"
  /\ IF plan = "rearm"
       THEN timer' = prev /\ reload' = prevEvery
       ELSE UNCHANGED <<timer, reload>>
  /\ sig' = IF plan # "deliver" THEN Ripe ELSE IF masked THEN "blocked" ELSE "due"
  /\ UNCHANGED <<op, err, handler, masked, locals>>

(* publish returns, or marks the failure and raises to the daemon, which   *)
(* invalidates once more and stops; errors of the invalidations are noted. *)
Return ==
  /\ At("return")
  /\ IF op = "write" /\ err = "none"
       THEN pc' = "idle" /\ UNCHANGED op
       ELSE /\ pc' = IF op = "fatal" THEN "stopped" ELSE "install"
            /\ op' = IF op = "write" THEN "mark" ELSE "fatal"
  /\ FreshLocals
  /\ sig' = Ripe
  /\ UNCHANGED <<handler, masked, timer, reload, saved, writeVars, callVars>>

-----------------------------------------------------------------------------
(* Where an exception of timeout_handler may lead: at "run" a write is     *)
(* before its try or in it.                                                *)
Landing ==
  IF pc \in SetUp \cup {"cleanup", "finish", "opdone"} THEN {"finally"}
  ELSE IF pc \in Writing \cup Removing
    THEN {to \in {"cleanup", "finally"} :
            (to = "cleanup" => op = "write") /\ (to = "finally" => op # "write" \/ pc = "run")}
  ELSE IF pc \in {"finally", "disarm", "plan"} THEN {"restore"}
  ELSE {"return"}

Raise ==
  /\ handler = "timeout" /\ ~completed
  /\ pc \notin {"idle", "stopped"}
  /\ pc' \in Landing
  /\ err' = "deadline"
  /\ prev' = IF pc = "arming" THEN NoTimer ELSE prev
  /\ plan' = "none"
  /\ UNCHANGED <<prevEvery, fired, seen>>

Ignore ==
  /\ handler = "timeout" /\ completed
  /\ UNCHANGED <<pc, err, prev, prevEvery, plan, fired, seen>>

Defer ==
  /\ handler = "defer"
  /\ fired' = TRUE
  /\ UNCHANGED <<pc, err, prev, prevEvery, plan, seen>>

(* The caller's handler; without one, SIGALRM ends the process.            *)
Deliver ==
  /\ handler = "outer"
  /\ IF outer = 0
       THEN pc' = "killed" /\ UNCHANGED seen
       ELSE seen' = (IF seen < 2 THEN seen + 1 ELSE seen) /\ UNCHANGED pc
  /\ UNCHANGED <<err, prev, prevEvery, plan, fired>>

Handle ==
  /\ sig \in {"arrived", "due"}
  /\ sig' = "none"
  /\ Raise \/ Ignore \/ Defer \/ Deliver
  /\ UNCHANGED <<op, handler, masked, timer, reload, saved, installed, elapsed, completed,
                 temp, known, unclean, file, calls, outer, every, owed, troubles>>

(* previous_timer_started_at is set and elapsed_s not yet computed.        *)
Measuring ==
  /\ prev > 0
  /\ pc \in Writing \cup CleaningUp \cup Removing \cup {"opdone", "finally"}

Later(e) ==
  IF e < MaxOuter THEN e + 1 ELSE IF prevEvery > 0 THEN e + 1 - prevEvery ELSE e

CallerCounts == Measuring \/ pc \in {"idle", "install", "noting", "return"}

Tick ==
  /\ timer > 0 \/ (Measuring /\ Later(elapsed) # elapsed)
  /\ timer' = IF timer > 1 THEN timer - 1 ELSE reload
  /\ sig' = IF timer = 1 /\ sig = "none" THEN IF masked THEN "blocked" ELSE "arrived" ELSE sig
  /\ elapsed' = IF Measuring THEN Later(elapsed) ELSE elapsed
  /\ owed' = IF ~CallerCounts THEN owed
             ELSE IF owed > 1 THEN owed - 1 ELSE every
  /\ UNCHANGED <<pc, op, err, handler, masked, reload, saved, installed, prev, prevEvery,
                 plan, completed, writeVars, file, calls, outer, every, seen, troubles>>

(* The rest of the program.                                                *)
Ended ==
  /\ \/ pc \in {"stopped", "killed"}
     \/ pc = "idle" /\ calls = MaxCalls /\ sig = "none" /\ timer = 0
  /\ UNCHANGED vars

-----------------------------------------------------------------------------
OperationStep ==
  \/ OpenTemp \/ InspectTemp \/ FillTemp \/ Replace \/ SyncDirectory
  \/ RemoveOutput \/ SyncRemoval

CleanupStep ==
  \/ BlockAlarms \/ DeferAlarms \/ CollectErrors \/ UnblockAlarms
  \/ RestoreTimeoutHandler \/ FinishCleanup

GuardStep ==
  \/ Install \/ Arm \/ Begin \/ Complete \/ Measure \/ Disarm
  \/ RestoreHandler \/ Rearm \/ Return

Next ==
  Publish \/ GuardStep \/ OperationStep \/ CleanupStep \/ Handle \/ Tick \/ Ended

Spec == Init /\ [][Next]_vars

(* Time passes, handlers run, and the thread runs; a system call of the    *)
(* operation itself may never return, those of the cleanup do.             *)
FairSpec ==
  Spec /\ WF_vars(Tick) /\ WF_vars(Handle) /\ WF_vars(GuardStep) /\ WF_vars(CleanupStep)

-----------------------------------------------------------------------------
InGuard == pc \notin {"idle", "stopped", "killed"}

(* Without a timer of its own the caller finds its handler back, however   *)
(* the guarded call ended and wherever the alarm came.                     *)
HandlersRestored ==
  outer = 0 /\ pc \in {"return", "idle", "stopped"} => handler = "outer"

(* The deadline never meets the default action of SIGALRM: an inner timer  *)
(* that outlived its handler would kill the daemon.                        *)
DeadlineNeverKills == pc # "killed"

(* When a publication returned, the caller's own alarm is as if it had     *)
(* never been disturbed, but for the time the guard cannot measure: a      *)
(* one-shot was seen once and not early, is about to be seen, or runs with *)
(* what is left of it; a periodic one runs in its old phase.               *)
OuterAlarmKept ==
  pc = "idle" /\ outer > 0 =>
    IF every > 0 THEN timer = owed /\ reload = every
    ELSE \/ timer > 0 /\ timer = owed /\ seen = 0 /\ sig = "none"
         \/ timer = 0 /\ owed = 0 /\ seen = (IF sig = "none" THEN 1 ELSE 0)

(* The write leaves its temporary behind only when the deadline raised or  *)
(* two calls failed: no single failing call litters the directory.         *)
LeftTempIsExplained ==
  op = "write" /\ pc = "return" /\ temp => err = "deadline" \/ troubles = 2

(* "SIGALRM is deferred only across this bounded close/lstat/unlink        *)
(* sequence": outside it the alarm is not blocked.                         *)
AlarmsUnblocked ==
  masked => pc \in {"masked", "collect", "unmask"}

(* A guarded call ends even when its operation never returns.              *)
StuckCallEnds ==
  \A o \in {"write", "mark", "fatal"} :
    pc = "run" /\ op = o /\ ~masked ~> (op # o \/ ~InGuard)

(* What the exporter promises of a publication.                            *)
Stage ==
  CASE pc = "idle" -> "idle"
    [] pc = "stopped" -> "stopped"
    [] pc = "killed" -> "killed"
    [] OTHER -> IF op = "write" THEN "busy" ELSE "failed"

Publication == INSTANCE GuardedPublication WITH stage <- Stage

ImplementsPublication == Publication!Spec
=============================================================================
