------------------------- MODULE VirtualUpsExporter -------------------------
(***************************************************************************)
(* The device file the dummy NUT driver reads, its freshness tracker and   *)
(* the exporter calls that change them.  A publication is a write to a     *)
(* temporary, a rename over the device file and a directory fsync under    *)
(* one alarm deadline: it can fail before the rename or after it, so the   *)
(* rename (PublishLands) is a step of its own, and only a later step tells *)
(* the tracker.  Time is the number of seconds since an event, saturating  *)
(* at AgeCap, the bound beyond which no comparison tells two ages apart.   *)
(* The error channels (texts shown in the fail-safe payload) are left out. *)
(***************************************************************************)
EXTENDS SafetyPolicy

CONSTANTS
  MaxAge,       \* telemetry_loss_grace_s: how long lost telemetry is tolerated
  AgeCap        \* where the age counters saturate

ASSUME AgeAssumption ==
  /\ MaxAge \in Nat \ {0}
  /\ AgeCap \in Nat
  /\ AgeCap > MaxAge

VARIABLES
  output,       \* content of the device file
  outputAge,    \* seconds since the rename that produced that content
  freshness,    \* PublicationFreshnessTracker._state
  hasPrior,     \* _has_prior_publication: a success, or a file found at start
  age,          \* what _age measures; before any publication, time since start
  failSafe,     \* _fail_safe_active
  staged,       \* status of the staged publication
  call          \* progress of the exporter call under way

exporterVars == <<output, outputAge, freshness, hasPrior, age, failSafe, staged, call>>

Absent    == "ABSENT"
FailSafe  == "FAILSAFE"         \* the explicit LB payload of _fail_safe_payload
Output    == Status \cup {Absent, FailSafe}
Unstaged  == "UNSTAGED"
Age       == 0 .. AgeCap
Freshness == {"fresh", "temporarily_unavailable", "stale_failed"}

ExporterTypeOK ==
  /\ output \in Output
  /\ outputAge \in Age
  /\ freshness \in Freshness
  /\ hasPrior \in BOOLEAN
  /\ age \in Age
  /\ failSafe \in BOOLEAN
  /\ staged \in Status \cup {Unstaged}
  /\ call \in {"idle", "landed", "raised"}

-----------------------------------------------------------------------------
Older(a) == IF a < AgeCap THEN a + 1 ELSE a

ContentOlder == IF output = Absent THEN 0 ELSE Older(outputAge)

(* The clock of a live process: both ages advance together. *)
Elapse ==
  /\ age' = Older(age)
  /\ outputAge' = ContentOlder

(* The tracker a new process builds: fileAge is the age of the file found. *)
Construct(file, fileAge) ==
  /\ hasPrior' = (file # Absent)
  /\ age' = IF file = Absent THEN 0 ELSE fileAge
  /\ freshness' = IF file # Absent /\ fileAge > MaxAge
                    THEN "stale_failed" ELSE "temporarily_unavailable"
  /\ failSafe' = FALSE
  /\ staged' = Unstaged
  /\ call' = "idle"

Stage(status) ==
  /\ call = "idle"
  /\ staged' = status
  /\ UNCHANGED <<output, outputAge, freshness, hasPrior, age, failSafe, call>>

(* os.replace put the staged status in place. *)
PublishLands ==
  /\ call = "idle"
  /\ staged # Unstaged
  /\ output' = staged
  /\ outputAge' = 0
  /\ call' = "landed"
  /\ UNCHANGED <<freshness, hasPrior, age, failSafe, staged>>

(* publish returns: record_success. *)
PublishReturns ==
  /\ call = "landed"
  /\ freshness' = "fresh"
  /\ hasPrior' = TRUE
  /\ age' = 0
  /\ failSafe' = FALSE
  /\ staged' = Unstaged
  /\ call' = "idle"
  /\ UNCHANGED <<output, outputAge>>

(* _invalidate_output_locked removes the file or fails and leaves it. *)
Invalidate(removed) ==
  /\ output' = IF removed THEN Absent ELSE output
  /\ outputAge' = IF removed THEN 0 ELSE outputAge

(* _mark_publication_failed, then SafetyPublicationError to the caller. *)
MarkPublicationFailed(removed) ==
  /\ freshness' = "stale_failed"
  /\ failSafe' = FALSE
  /\ staged' = Unstaged
  /\ call' = "raised"
  /\ Invalidate(removed)
  /\ UNCHANGED <<hasPrior, age>>

(* publish raises: before its rename, or after it (directory fsync, alarm). *)
PublishRaises(removed) ==
  /\ staged # Unstaged
  /\ call \in {"idle", "landed"}
  /\ MarkPublicationFailed(removed)

-----------------------------------------------------------------------------
(* Mutant: a publication never grows too old. *)
MutantEvaluated ==
  IF freshness # "stale_failed" /\ ~hasPrior /\ age >= MaxAge
    THEN "stale_failed" ELSE freshness

(* PublicationFreshnessTracker.evaluate.  _last_publication is set exactly *)
(* when record_success sets _has_prior_publication, so "no prior and no    *)
(* current publication" is ~hasPrior.                                      *)
Evaluated ==
  CASE freshness = "stale_failed" -> "stale_failed"
    [] freshness # "stale_failed" /\ ~hasPrior ->
         IF age < MaxAge THEN freshness ELSE "stale_failed"
    [] OTHER -> IF age <= MaxAge THEN freshness ELSE "stale_failed"

(* Mutant: a tolerated failure leaves the tracker as it was. *)
MutantPollFailureTolerated ==
  /\ call = "idle"
  /\ Evaluated # "stale_failed"
  /\ UNCHANGED exporterVars

(* handle_poll_failure within the grace: the old content stays. *)
PollFailureTolerated ==
  /\ call = "idle"
  /\ Evaluated # "stale_failed"
  /\ freshness' = "temporarily_unavailable"
  /\ UNCHANGED <<output, outputAge, hasPrior, age, failSafe, staged, call>>

(* handle_poll_failure after it, with nothing ever published: no file. *)
PollFailureUnpublished ==
  /\ call = "idle"
  /\ Evaluated = "stale_failed"
  /\ ~hasPrior
  /\ freshness' = "stale_failed"
  /\ failSafe' = FALSE
  /\ staged' = Unstaged
  /\ UNCHANGED <<output, outputAge, hasPrior, age, call>>

(* Mutant: the fail-safe also replaces a file that never was. *)
MutantPollFailureFailSafe ==
  /\ call = "idle"
  /\ Evaluated = "stale_failed"
  /\ output' = FailSafe
  /\ outputAge' = 0
  /\ freshness' = "stale_failed"
  /\ failSafe' = TRUE
  /\ staged' = Unstaged
  /\ UNCHANGED <<hasPrior, age, call>>

(* handle_poll_failure after it: explicit low battery replaces the file. *)
PollFailureFailSafe ==
  /\ call = "idle"
  /\ Evaluated = "stale_failed"
  /\ hasPrior
  /\ output' = FailSafe
  /\ outputAge' = 0
  /\ freshness' = "stale_failed"
  /\ failSafe' = TRUE
  /\ staged' = Unstaged
  /\ UNCHANGED <<hasPrior, age, call>>

(* ... or its write raises, with the payload in place (landed) or not. *)
PollFailureRaises(landed, removed) ==
  /\ call = "idle"
  /\ Evaluated = "stale_failed"
  /\ hasPrior
  /\ freshness' = "stale_failed"
  /\ failSafe' = FALSE
  /\ staged' = Unstaged
  /\ call' = "raised"
  /\ output' = IF removed THEN Absent ELSE IF landed THEN FailSafe ELSE output
  /\ outputAge' = IF removed \/ landed THEN 0 ELSE outputAge
  /\ UNCHANGED <<hasPrior, age>>

(* invalidate_output. *)
InvalidateOutput(removed) ==
  /\ Invalidate(removed)
  /\ UNCHANGED <<freshness, hasPrior, age, failSafe, staged, call>>
=============================================================================
