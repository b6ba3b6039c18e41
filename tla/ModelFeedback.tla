---------------------------- MODULE ModelFeedback ----------------------------
(***************************************************************************)
(* Learning the IR coefficient from closed outages: the raw telemetry, the *)
(* maintenance history and the model file are three durable stores without *)
(* a common transaction, written one after the other by the poll's side    *)
(* work (_write_telemetry, _run_model_feedback) and put back in step by a  *)
(* new process.  Every append and every model write may fail, before or    *)
(* after it reached its file, and the process may die between any two.     *)
(*                                                                         *)
(* Events are numbered in the order of their start times, which are their  *)
(* keys in the history.  The coefficient and the estimates count units of  *)
(* 0.00025 V per percentage point, of which the code's thresholds and      *)
(* estimates are even multiples here, so a median is a whole number.       *)
(* Timestamps of evidence, uncertainties (never above the limit, as a load *)
(* step is at least 15 points), reasons and torn lines are left out.       *)
(***************************************************************************)
EXTENDS Integers, Sequences, FiniteSets

CONSTANTS
  MaxEvents,    \* bound: outages of one behaviour
  Outages,      \* what an outage may be: a self-test or not, and the estimate
                \* its load step yields
  InitialK,     \* coefficient of the fresh model
  MaxFaults     \* bound: failing writes and deaths of one behaviour

NoStep == 0                     \* the outage has no usable load step
MinK   == 20
MaxK   == 160

ASSUME FeedbackAssumption ==
  /\ MaxEvents \in Nat
  /\ Outages \subseteq [test : BOOLEAN, estimate : {NoStep} \cup MinK .. MaxK]
  /\ InitialK \in MinK .. MaxK
  /\ MaxFaults \in Nat

VARIABLES
  raw,          \* telemetry.jsonl: the closed episodes, oldest first
  history,      \* history.jsonl: its rows, oldest first
  model,        \* model.json: coefficient and last feedback receipt
  memory,       \* ModelOwner._state: the same, in the process
  pc,           \* where the poll's side work is; "down" without a process
  completed,    \* _completed_episode: at most one event
  todo,         \* the episodes _apply_feedback still has to visit
  replayed,     \* MonitorDaemon._feedback_replayed
  faults,
  ledger        \* history variable: the corrections the model file went
                \* through, each with the events it was computed from

vars == <<raw, history, model, memory, pc, completed, todo, replayed, faults, ledger>>

MaxStep              == 8
MinProposalDecrement == 4
MaxCohortSpread      == 6
MinCohort            == 3

Event  == 1 .. MaxEvents
NoReceipt == [at |-> 0, from |-> 0, to |-> 0]

EpisodeRow(e, kind) == [kind |-> kind, at |-> e]        \* "blackout", "self_test"
IrRow(e)            == [kind |-> "ir_observation", at |-> e]
UpdateRow(receipt)  == [kind |-> "model_update", at |-> receipt.at,
                        from |-> receipt.from, to |-> receipt.to]

TypeOK ==
  /\ raw \in Seq(Outages)
  /\ Len(raw) <= MaxEvents
  /\ \A i \in DOMAIN history :
       /\ history[i].kind \in {"blackout", "self_test", "ir_observation", "model_update"}
       /\ history[i].at \in 1 .. Len(raw)
  /\ \A m \in {model, memory} :
       /\ m.k \in MinK .. InitialK
       /\ m.receipt = NoReceipt \/ m.receipt.at \in 1 .. Len(raw)
  /\ pc \in {"poll", "summarize", "recover", "select", "event", "propose", "receipt",
             "start", "down"}
  /\ completed \in Seq(Event) /\ Len(completed) <= 1
  /\ todo \in Seq(Event)
  /\ replayed \in BOOLEAN
  /\ faults \in 0 .. MaxFaults

-----------------------------------------------------------------------------
(* BatteryHistory, read as the code reads it: row by row, later rows win.  *)

HasRow(kind, e) == \E i \in DOMAIN history : history[i].kind = kind /\ history[i].at = e

(* event_kinds()[e].  _apply_feedback reads it once, and then keeps its    *)
(* own copy in step with the rows it appends.                              *)
EventKind(e) ==
  LET rows == {i \in DOMAIN history : history[i].at = e}
  IN  IF rows = {} THEN "NONE"
      ELSE history[CHOOSE i \in rows : \A j \in rows : j <= i].kind

(* The key of the last model_update row, which need not be the largest.    *)
LastUpdate ==
  LET updates == {i \in DOMAIN history : history[i].kind = "model_update"}
  IN  IF updates = {} THEN 0
      ELSE history[CHOOSE i \in updates : \A j \in updates : j <= i].at

(* ir_observations(): the events whose observation is "not yet consumed".  *)
Cohort == {e \in 1 .. Len(raw) : HasRow("ir_observation", e) /\ e > LastUpdate}

(* Mutant: a receipt is appended whenever it is recovered. *)
MutantWithReceipt(receipt) ==
  IF receipt = NoReceipt THEN history ELSE Append(history, UpdateRow(receipt))

(* upsert_model_update. *)
WithReceipt(receipt) ==
  IF receipt = NoReceipt \/ HasRow("model_update", receipt.at)
    THEN history ELSE Append(history, UpdateRow(receipt))

(* BatteryHistory.episode. *)
WithEpisode(e, kind) ==
  IF HasRow("blackout", e) \/ HasRow("self_test", e)
    THEN history ELSE Append(history, EpisodeRow(e, kind))

-----------------------------------------------------------------------------
(* propose_ir_cohort_feedback, of the estimates of a cohort.               *)

Evidence == [e \in Cohort |-> raw[e].estimate]

(* The kth smallest estimate. *)
Ranked(estimate, k) ==
  CHOOSE v \in {estimate[e] : e \in DOMAIN estimate} :
    /\ Cardinality({e \in DOMAIN estimate : estimate[e] < v}) < k
    /\ Cardinality({e \in DOMAIN estimate : estimate[e] <= v}) >= k

Median(estimate) ==
  LET size == Cardinality(DOMAIN estimate)
  IN  (Ranked(estimate, (size + 1) \div 2) + Ranked(estimate, size \div 2 + 1)) \div 2

Agrees(estimate) ==
  \A d, e \in DOMAIN estimate : estimate[d] - estimate[e] <= MaxCohortSpread

Proposes(estimate, k) ==
  /\ Cardinality(DOMAIN estimate) >= MinCohort
  /\ Agrees(estimate)
  /\ k - Median(estimate) >= MinProposalDecrement

ToValue(estimate, k) ==
  IF Median(estimate) < k - MaxStep THEN k - MaxStep ELSE Median(estimate)

-----------------------------------------------------------------------------
Init ==
  /\ raw = <<>>
  /\ history = <<>>
  /\ model = [k |-> InitialK, receipt |-> NoReceipt]
  /\ memory = [k |-> InitialK, receipt |-> NoReceipt]
  /\ pc = "down"
  /\ completed = <<>>
  /\ todo = <<>>
  /\ replayed = FALSE
  /\ faults = 0
  /\ ledger = <<>>

Fault == faults < MaxFaults /\ faults' = faults + 1

(* A failing append: an fsync that raises leaves the row in the file. *)
AppendFails(appended) ==
  /\ Fault
  /\ appended # history
  /\ history' \in {history, appended}

(* _run_model_feedback gives up until the next poll. *)
Abandon ==
  /\ todo' = <<>>
  /\ completed' = <<>>
  /\ pc' = "poll"

(* A poll that closes no episode. *)
Poll ==
  /\ pc = "poll"
  /\ pc' = "recover"
  /\ UNCHANGED <<raw, history, model, memory, completed, todo, replayed, faults, ledger>>

(* _write_online appends the OL sample that closes an episode ... *)
CloseEpisode(outage) ==
  /\ pc = "poll"
  /\ Len(raw) < MaxEvents
  /\ raw' = Append(raw, outage)
  /\ pc' = "summarize"
  /\ UNCHANGED <<history, model, memory, completed, todo, replayed, faults, ledger>>

(* ... then its history row, and only then hands it to the feedback.       *)
Summarize ==
  /\ pc = "summarize"
  /\ LET e == Len(raw)
     IN  /\ history' = WithEpisode(e, IF raw[e].test THEN "self_test" ELSE "blackout")
         /\ completed' = <<e>>
  /\ pc' = "recover"
  /\ UNCHANGED <<raw, model, memory, todo, replayed, faults, ledger>>

(* The row fails: the poll goes on without a completed episode. *)
SummarizeFails ==
  /\ pc = "summarize"
  /\ LET e == Len(raw)
     IN  AppendFails(WithEpisode(e, IF raw[e].test THEN "self_test" ELSE "blackout"))
  /\ pc' = "recover"
  /\ UNCHANGED <<raw, model, memory, completed, todo, replayed, ledger>>

-----------------------------------------------------------------------------
(* Mutant: nothing recovers a receipt while the process lives. *)
MutantRecover ==
  /\ pc = "recover"
  /\ pc' = "select"
  /\ UNCHANGED <<raw, history, model, memory, completed, todo, replayed, faults, ledger>>

(* _run_model_feedback: first the receipt the model in memory carries.     *)
Recover ==
  /\ pc = "recover"
  /\ history' = WithReceipt(memory.receipt)
  /\ pc' = "select"
  /\ UNCHANGED <<raw, model, memory, completed, todo, replayed, faults, ledger>>

RecoverFails ==
  /\ pc = "recover"
  /\ AppendFails(WithReceipt(memory.receipt))
  /\ Abandon
  /\ UNCHANGED <<raw, model, memory, replayed, ledger>>

(* All closed episodes until one replay succeeded, then the completed one. *)
Select ==
  /\ pc = "select"
  /\ todo' = IF replayed THEN completed ELSE [i \in 1 .. Len(raw) |-> i]
  /\ completed' = <<>>
  /\ pc' = "event"
  /\ UNCHANGED <<raw, history, model, memory, replayed, faults, ledger>>

(* Mutant: a replay that could not read its input counts as done. *)
MutantSelectFails ==
  /\ pc = "select"
  /\ Fault
  /\ Abandon
  /\ replayed' = TRUE
  /\ UNCHANGED <<raw, history, model, memory, ledger>>

(* Reading the telemetry for the replay, or the history, raises. *)
SelectFails ==
  /\ pc = "select"
  /\ Fault
  /\ Abandon
  /\ UNCHANGED <<raw, history, model, memory, replayed, ledger>>

FeedbackEnds ==
  /\ pc = "event"
  /\ todo = <<>>
  /\ replayed' = TRUE
  /\ pc' = "poll"
  /\ UNCHANGED <<raw, history, model, memory, completed, todo, faults, ledger>>

(* A self-test, an event that already has its update, or no load step. *)
Skipped(e) ==
  \/ EventKind(e) \in {"self_test", "model_update"}
  \/ EventKind(e) # "ir_observation" /\ raw[e].estimate = NoStep

Skip ==
  /\ pc = "event"
  /\ todo # <<>>
  /\ Skipped(Head(todo))
  /\ todo' = Tail(todo)
  /\ UNCHANGED <<raw, history, model, memory, pc, completed, replayed, faults, ledger>>

(* record_ir_observation, unless the event has its row. *)
WithObservation(e) ==
  IF HasRow("ir_observation", e) THEN history ELSE Append(history, IrRow(e))

Observe ==
  /\ pc = "event"
  /\ todo # <<>>
  /\ ~Skipped(Head(todo))
  /\ history' = WithObservation(Head(todo))
  /\ pc' = "propose"
  /\ UNCHANGED <<raw, model, memory, completed, todo, replayed, faults, ledger>>

ObserveFails ==
  /\ pc = "event"
  /\ todo # <<>>
  /\ ~Skipped(Head(todo))
  /\ AppendFails(WithObservation(Head(todo)))
  /\ Abandon
  /\ UNCHANGED <<raw, model, memory, replayed, ledger>>

(* There is a proposal, and ModelOwner.apply_feedback does not already     *)
(* carry a receipt under this event.                                       *)
Applies(e) == Proposes(Evidence, memory.k) /\ memory.receipt.at # e

(* Mutant: the correction is keyed by the oldest event of its cohort. *)
MutantCorrected(e) ==
  LET to     == ToValue(Evidence, memory.k)
      oldest == CHOOSE c \in Cohort : \A d \in Cohort : c <= d
  IN  [k |-> to, receipt |-> [at |-> oldest, from |-> memory.k, to |-> to]]

Corrected(e) ==
  LET to == ToValue(Evidence, memory.k)
  IN  [k |-> to, receipt |-> [at |-> e, from |-> memory.k, to |-> to]]

NoProposal ==
  /\ pc = "propose"
  /\ ~Applies(Head(todo))
  /\ todo' = Tail(todo)
  /\ pc' = "event"
  /\ UNCHANGED <<raw, history, model, memory, completed, replayed, faults, ledger>>

(* The rename of atomic_write_model.  A model that was not in memory is    *)
(* overwritten: its correction never took part in anything.                *)
Rename(e) ==
  /\ model' = Corrected(e)
  /\ LET kept == IF memory = model THEN ledger ELSE SubSeq(ledger, 1, Len(ledger) - 1)
     IN  ledger' = Append(kept, [at |-> e, cohort |-> Cohort])

Apply ==
  /\ pc = "propose"
  /\ Applies(Head(todo))
  /\ Rename(Head(todo))
  /\ memory' = model'
  /\ pc' = "receipt"
  /\ UNCHANGED <<raw, history, completed, todo, replayed, faults>>

(* Mutant: the model in memory changes before the file does. *)
MutantApplyFails(renamed) ==
  /\ pc = "propose"
  /\ Applies(Head(todo))
  /\ Fault
  /\ IF renamed THEN Rename(Head(todo)) ELSE UNCHANGED <<model, ledger>>
  /\ memory' = Corrected(Head(todo))
  /\ Abandon
  /\ UNCHANGED <<raw, history, replayed>>

(* The model write raises, before its rename or after it. *)
ApplyFails(renamed) ==
  /\ pc = "propose"
  /\ Applies(Head(todo))
  /\ Fault
  /\ IF renamed THEN Rename(Head(todo)) ELSE UNCHANGED <<model, ledger>>
  /\ Abandon
  /\ UNCHANGED <<raw, history, memory, replayed>>

RecordReceipt ==
  /\ pc = "receipt"
  /\ history' = WithReceipt(memory.receipt)
  /\ todo' = Tail(todo)
  /\ pc' = "event"
  /\ UNCHANGED <<raw, model, memory, completed, replayed, faults, ledger>>

RecordReceiptFails ==
  /\ pc = "receipt"
  /\ AppendFails(WithReceipt(memory.receipt))
  /\ Abandon
  /\ UNCHANGED <<raw, model, memory, replayed, ledger>>

-----------------------------------------------------------------------------
(* The process ends: between polls when it is stopped, or anywhere.        *)
End ==
  /\ pc # "down"
  /\ IF pc = "poll" THEN UNCHANGED faults ELSE Fault
  /\ pc' = "down"
  /\ memory' = model
  /\ completed' = <<>>
  /\ todo' = <<>>
  /\ replayed' = FALSE
  /\ UNCHANGED <<raw, history, model, ledger>>

(* Mutant: a stream without a closed episode is reconciled like any other. *)
MutantReconciled ==
  IF EventKind(Len(raw)) \in {"blackout", "self_test"} THEN {history}
  ELSE {history, WithEpisode(Len(raw), "blackout")}

(* _reconcile_closed_episodes: unless its kind shows that the latest       *)
(* closed episode has its row, one is derived from the episode and the     *)
(* rows before it, as a blackout: that of an earlier episode, or one under *)
(* no event's key, when an earlier episode ended among these.  None is     *)
(* while an outage is in progress.                                         *)
Reconciled ==
  IF raw # <<>> /\ EventKind(Len(raw)) \notin {"blackout", "self_test"}
    THEN {history} \cup {WithEpisode(e, "blackout") : e \in 1 .. Len(raw)}
    ELSE {history}

(* A new process: the model is loaded and the history reconciled ... *)
Restart ==
  /\ pc = "down"
  /\ history' \in Reconciled
  /\ pc' = "start"
  /\ UNCHANGED <<raw, model, memory, completed, todo, replayed, faults, ledger>>

(* ... or the append raises, and with it build_daemon. *)
RestartFails ==
  /\ pc = "down"
  /\ \E reconciled \in Reconciled : AppendFails(reconciled)
  /\ UNCHANGED <<raw, model, memory, pc, completed, todo, replayed, ledger>>

(* start recovers the receipt; its failure is a warning. *)
RecoverAtStart ==
  /\ pc = "start"
  /\ pc' = "poll"
  /\ \/ history' = WithReceipt(memory.receipt) /\ UNCHANGED faults
     \/ AppendFails(WithReceipt(memory.receipt))
  /\ UNCHANGED <<raw, model, memory, completed, todo, replayed, ledger>>

Progress ==
  \/ Poll
  \/ Summarize
  \/ Recover
  \/ Select
  \/ FeedbackEnds
  \/ Skip
  \/ Observe
  \/ NoProposal
  \/ Apply
  \/ RecordReceipt
  \/ RecoverAtStart

Next ==
  \/ Progress
  \/ \E outage \in Outages : CloseEpisode(outage)
  \/ SummarizeFails
  \/ RecoverFails
  \/ SelectFails
  \/ ObserveFails
  \/ \E renamed \in BOOLEAN : ApplyFails(renamed)
  \/ RecordReceiptFails
  \/ End
  \/ Restart
  \/ RestartFails

Spec == Init /\ [][Next]_vars

(* A running process goes on polling. *)
FairSpec == Spec /\ WF_vars(Progress)

-----------------------------------------------------------------------------
(* Up to a second failing write or death the history accounts for the      *)
(* coefficient: its corrections form a chain from the fresh model to the   *)
(* model file, with at most the file's own receipt still to be written; a  *)
(* correction is never lost once a later one exists, recorded twice, or    *)
(* recorded without having been applied.                                   *)
UpdateRows == {i \in DOMAIN history : history[i].kind = "model_update"}
Logged == [i \in UpdateRows |->
             [at |-> history[i].at, from |-> history[i].from, to |-> history[i].to]]

Audit == INSTANCE AuditedCorrections WITH
  InitialValue <- InitialK,
  LargestStep  <- MaxStep,
  Keys         <- Event,
  value        <- model.k,
  log          <- Logged,
  pending      <- IF model.receipt = NoReceipt \/ HasRow("model_update", model.receipt.at)
                    THEN <<>> ELSE <<model.receipt>>

ImplementsAudit ==
  Audit!Init /\ [][faults' <= 1 => Audit!Next]_(Audit!correctionVars)

(* "Three consistent observations can produce one bounded automatic IR     *)
(* update": an observation takes part in one correction only.              *)
EvidenceUsedOnce ==
  \A i, j \in DOMAIN ledger : i # j => ledger[i].cohort \cap ledger[j].cohort = {}

(* While nothing has failed, over any clean restarts, it does: the replay  *)
(* visits the events in order, and its filter by last update then keeps    *)
(* what a correction has used away from the next one.                      *)
EvidenceUsedOnceWithoutFaults ==
  faults = 0 => EvidenceUsedOnce

(* "The applied change, its size, source event, and reason are appended":  *)
(* where the receipt in memory has been recovered, the history has a row   *)
(* for every correction the model file went through.                       *)
AppliedChangesAreAppended ==
  pc = "event" /\ memory = model =>
    Cardinality({i \in DOMAIN history : history[i].kind = "model_update"}) = Len(ledger)

(* After one failing write or death at most: the model in memory differs   *)
(* from the file only by the one correction whose write failed after its   *)
(* rename, and the history does not claim it.                              *)
MemoryLagsByOneUnlogged ==
  faults <= 1 /\ memory # model =>
    /\ model.receipt.from = memory.k
    /\ ~HasRow("model_update", model.receipt.at)

(* A replay that counts as done has left no natural outage unrecorded.     *)
ReplayLeavesNothing ==
  [][~replayed /\ replayed' =>
       \A e \in DOMAIN raw :
         raw[e].estimate # NoStep /\ ~HasRow("self_test", e) => HasRow("ir_observation", e)]_vars

(* The receipt of the model in a process that lives on reaches the history,*)
(* again and again, whatever failed between the file and the history.      *)
ReceiptIsRecorded ==
  []<>(\/ memory.receipt = NoReceipt
       \/ HasRow("model_update", memory.receipt.at)
       \/ pc = "down")
=============================================================================
