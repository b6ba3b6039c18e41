------------------------ MODULE FeedbackEvidenceProofs ------------------------
(***************************************************************************)
(* While nothing fails, an observation takes part in one correction only;  *)
(* one fault leaves at most one correction out of memory and history, and  *)
(* the history still accounts for the coefficient (AuditedCorrections):    *)
(* proofs for every number of outages and every set of load steps.         *)
(***************************************************************************)
EXTENDS ModelFeedbackProofs

(* What holds while nothing has failed, whatever restarts come between.    *)
(* Every closed outage has its history row and, but for the last one, what *)
(* it needs of an observation.                                             *)
Episode(e) == HasRow("blackout", e) \/ HasRow("self_test", e)

(* The one outage whose observation is still to come.                      *)
Coming(e) ==
  /\ e = Len(raw)
  /\ \/ pc = "summarize"
     \/ pc \in {"recover", "select"} /\ completed = <<e>>
     \/ pc \in {"event", "propose", "receipt"} /\ Left(e)

(* The files agree with each other and with the memory.                    *)
SettledInv ==
  /\ memory = model
  /\ RowsRanked
  /\ \A e \in 1 .. Len(raw) : Episode(e) \/ (pc = "summarize" /\ e = Len(raw))
  /\ pc = "summarize" => \A kind : ~HasRow(kind, Len(raw))
  /\ \A e \in 1 .. Len(raw) : Recorded(e) \/ Coming(e)

(* The open cohort yields a correction ...                                 *)
Proposing == Proposes(Evidence, memory.k)

(* ... only while the outage that completed it, the last one, is visited;  *)
(* and the last update is what the model carries.                          *)
CohortInv ==
  /\ pc \notin {"propose", "receipt"} => ~Proposing
  /\ pc = "propose" => /\ ~HasRow("model_update", Head(todo))
                       /\ ~Proposing \/ Head(todo) = Len(raw)
  /\ pc = "receipt" => /\ ~HasRow("model_update", Len(raw))
                       /\ memory.receipt.at = Len(raw) /\ Head(todo) = Len(raw)
  /\ pc # "receipt" => /\ LastUpdate = memory.receipt.at
                       /\ memory.receipt = NoReceipt \/ HasRow("model_update", memory.receipt.at)

(* Each correction used observations up to the outage that keys it, so the *)
(* next cohort, filtered by the last update, shares none of them.          *)
Correction == [at : Nat, cohort : SUBSET Nat]

LedgerInv ==
  /\ ledger \in Seq(Correction)
  /\ \A i \in DOMAIN ledger : \A e \in ledger[i].cohort : e <= memory.receipt.at
  /\ EvidenceUsedOnce

Faultless == SettledInv /\ CohortInv /\ LedgerInv

FaultlessInv == faults = 0 => Faultless

-----------------------------------------------------------------------------
(* Faults are counted one by one.                                          *)
LEMMA FaultsGrow ==
  ASSUME FeedbackInv, [Next]_vars
  PROVE  faults \in Nat /\ faults' \in Nat /\ (faults' = faults \/ (Fault /\ faults' = faults + 1))
<1>1. faults \in Nat
  BY FeedbackAssumption DEF FeedbackInv, PlaceInv
<1>2. faults' = faults \/ Fault
  BY DEF Next, Progress, Poll, CloseEpisode, Summarize, SummarizeFails, Recover, RecoverFails,
     Select, SelectFails, FeedbackEnds, Skip, Observe, ObserveFails, NoProposal, Apply, ApplyFails,
     RecordReceipt, RecordReceiptFails, End, Restart, RestartFails, RecoverAtStart, AppendFails, vars
<1> QED
  BY <1>1, <1>2 DEF Fault

(* A proposal depends on the evidence and the coefficient only ...         *)
LEMMA ProposingKept ==
  ASSUME Evidence' = Evidence, memory' = memory
  PROVE  Proposing' <=> Proposing
BY DEF Proposing, Proposes, Agrees, Median, Ranked

(* ... and the evidence on the observations after the last update.         *)
LEMMA EvidenceKept ==
  ASSUME LastUpdate' = LastUpdate,
         Len(raw) \in Nat, Len(raw') \in Nat, Len(raw') >= Len(raw),
         \A e \in 1 .. Len(raw) : raw'[e] = raw[e],
         \A e : HasRow("ir_observation", e)' <=> HasRow("ir_observation", e),
         \A e : HasRow("ir_observation", e) => e \in 1 .. Len(raw)
  PROVE  Evidence' = Evidence
<1>1. Cohort' = Cohort
  BY DEF Cohort
<1>2. \A e \in Cohort : raw'[e] = raw[e]
  BY DEF Cohort
<1> QED
  BY <1>1, <1>2 DEF Evidence

(* With the same telemetry, history and model they stay what they are.     *)
LEMMA SameHistory ==
  ASSUME FeedbackInv, raw' = raw, history' = history, memory' = memory
  PROVE  /\ \A kind, e : HasRow(kind, e)' <=> HasRow(kind, e)
         /\ LastUpdate' = LastUpdate
         /\ Proposing' <=> Proposing
<1>1. \A kind, e : HasRow(kind, e)' <=> HasRow(kind, e)
  BY DEF HasRow
<1>2. LastUpdate' = LastUpdate
  BY DEF LastUpdate
<1>3. Evidence' = Evidence
  <2>1. Len(raw) \in Nat /\ \A e : HasRow("ir_observation", e) => e \in 1 .. Len(raw)
    BY DEF FeedbackInv, HistoryInv, PlaceInv
  <2> QED
    BY <1>1, <1>2, <2>1, EvidenceKept
<1> QED
  BY <1>1, <1>2, <1>3, ProposingKept

(* A step that leaves the files and the model alone.                       *)
LEMMA QuietStep ==
  ASSUME FeedbackInv, SettledInv, CohortInv, LedgerInv,
         UNCHANGED <<raw, history, model, memory, ledger>>,
         pc' \notin {"summarize", "propose", "receipt"},
         pc \notin {"summarize", "receipt"},
         pc = "propose" => ~Proposing,
         \A e \in 1 .. Len(raw) : Coming(e) => Recorded(e) \/ Coming(e)'
  PROVE  FaultlessInv'
<1>1. /\ \A kind, e : HasRow(kind, e)' <=> HasRow(kind, e)
      /\ LastUpdate' = LastUpdate
      /\ Proposing' <=> Proposing
  BY SameHistory
<1>2. SettledInv'
  <2>1. memory' = model' /\ RowsRanked'
    BY DEF SettledInv, RowsRanked
  <2>2. \A e \in 1 .. Len(raw)' : Episode(e)'
    BY <1>1 DEF SettledInv, Episode
  <2>3. \A e \in 1 .. Len(raw)' : Recorded(e)' \/ Coming(e)'
    <3>1. \A e : Recorded(e) => Recorded(e)'
      BY <1>1 DEF Recorded
    <3> QED
      BY <3>1 DEF SettledInv
  <2> QED
    BY <2>1, <2>2, <2>3 DEF SettledInv
<1>3. CohortInv'
  BY <1>1 DEF CohortInv
<1>4. LedgerInv'
  BY DEF LedgerInv, EvidenceUsedOnce
<1> QED
  BY <1>2, <1>3, <1>4 DEF FaultlessInv, Faultless

-----------------------------------------------------------------------------
(* The next outage to visit is a closed one.                               *)
LEMMA HeadIsEvent ==
  ASSUME FeedbackInv, todo # <<>>
  PROVE  Head(todo) \in 1 .. Len(raw) /\ Len(raw) \in Nat
BY DEF FeedbackInv, PlaceInv

(* The receipt in memory is in the history, so recovering it adds nothing. *)
LEMMA NothingToRecover ==
  ASSUME CohortInv, pc # "receipt"
  PROVE  WithReceipt(memory.receipt) = history
BY DEF CohortInv, WithReceipt

(* Every outage has its row, so reconciling adds nothing.                  *)
LEMMA NothingToReconcile ==
  ASSUME FeedbackInv, SettledInv, pc # "summarize", NEW log \in Reconciled
  PROVE  log = history
<1>1. \A e \in 1 .. Len(raw) : WithEpisode(e, "blackout") = history
  BY DEF SettledInv, Episode, WithEpisode
<1> QED
  BY <1>1 DEF Reconciled

(* A row that ranks above the other rows of its outage keeps the ranks.    *)
LEMMA RanksAppended ==
  ASSUME history \in Seq(Row), RowsRanked, NEW row \in Row, history' = Append(history, row),
         \A i \in DOMAIN history :
           history[i].at = row.at => Rank(history[i].kind) < Rank(row.kind)
  PROVE  RowsRanked'
<1> SUFFICES ASSUME NEW i \in DOMAIN history', NEW j \in DOMAIN history',
                    i < j, history'[i].at = history'[j].at
             PROVE  Rank(history'[i].kind) < Rank(history'[j].kind)
  BY DEF RowsRanked
<1>1. i \in DOMAIN history /\ history'[i] = history[i]
  OBVIOUS
<1>2. CASE j \in DOMAIN history
  <2>1. history'[j] = history[j]
    BY <1>2
  <2> QED
    BY <1>1, <1>2, <2>1 DEF RowsRanked
<1>3. CASE j \notin DOMAIN history
  <2>1. history'[j] = row
    BY <1>3
  <2> QED
    BY <1>1, <2>1
<1> QED
  BY <1>2, <1>3

-----------------------------------------------------------------------------
(* Steps of the side work that write nothing.                              *)
LEMMA FaultlessProgress ==
  ASSUME FeedbackInv, UpdatesObserved, Faultless,
         Poll \/ Recover \/ Select \/ FeedbackEnds \/ Skip \/ NoProposal
  PROVE  FaultlessInv'
<1> USE DEF Faultless
<1>1. CASE Poll
  <2>1. \A e \in 1 .. Len(raw) : ~Coming(e)
    BY <1>1 DEF Poll, Coming
  <2> QED
    BY <1>1, <2>1, QuietStep DEF Poll
<1>2. CASE Recover
  <2>1. history' = history
    BY <1>2, NothingToRecover DEF Recover
  <2>2. \A e \in 1 .. Len(raw) : Coming(e) => Coming(e)'
    BY <1>2 DEF Recover, Coming
  <2> QED
    BY <1>2, <2>1, <2>2, QuietStep DEF Recover
<1>3. CASE Select
  <2>1. ASSUME NEW e \in 1 .. Len(raw), Coming(e) PROVE Coming(e)'
    <3>1. completed = <<e>> /\ e = Len(raw) /\ Len(raw) \in Nat
      BY <1>3, <2>1 DEF Select, Coming, FeedbackInv, PlaceInv
    <3>2. todo' = completed \/ todo' = [i \in 1 .. Len(raw) |-> i]
      BY <1>3 DEF Select
    <3>3. 1 \in DOMAIN completed /\ completed[1] = e
      BY <3>1
    <3>4. Left(e)'
      BY <3>1, <3>2, <3>3 DEF Left
    <3> QED
      BY <1>3, <3>1, <3>4 DEF Select, Coming
  <2> QED
    BY <1>3, <2>1, QuietStep DEF Select
<1>4. CASE FeedbackEnds
  <2>1. \A e \in 1 .. Len(raw) : ~Coming(e)
    BY <1>4 DEF FeedbackEnds, Coming, Left
  <2> QED
    BY <1>4, <2>1, QuietStep DEF FeedbackEnds
<1>5. CASE Skip
  <2>1. ASSUME NEW e \in 1 .. Len(raw), Coming(e) PROVE Recorded(e) \/ Coming(e)'
    <3>1. e = Len(raw) /\ Left(e)
      BY <1>5, <2>1 DEF Skip, Coming
    <3>2. e = Head(todo) \/ Left(e)'
      BY <1>5, <3>1, HeadOrTail DEF Skip
    <3>3. e = Head(todo) => Recorded(e)
      BY <1>5, SkippedRecorded DEF Skip
    <3> QED
      BY <1>5, <3>1, <3>2, <3>3 DEF Skip, Coming
  <2> QED
    BY <1>5, <2>1, QuietStep DEF Skip
<1>6. CASE NoProposal
  <2>1. todo # <<>> /\ Head(todo) \in 1 .. Len(raw) /\ pc = "propose"
    BY <1>6, HeadIsEvent DEF NoProposal, FeedbackInv, PlaceInv
  <2>2. ~Proposing
    <3>1. ~Proposing \/ memory.receipt.at = Head(todo)
      BY <1>6 DEF NoProposal, Applies, Proposing
    <3>2. memory.receipt = NoReceipt => memory.receipt.at = 0
      BY DEF NoReceipt
    <3>3. memory.receipt = NoReceipt \/ HasRow("model_update", memory.receipt.at)
      BY <2>1 DEF CohortInv
    <3>4. ~HasRow("model_update", Head(todo))
      BY <2>1 DEF CohortInv
    <3> QED
      BY <2>1, <3>1, <3>2, <3>3, <3>4
  <2>3. ASSUME NEW e \in 1 .. Len(raw), Coming(e) PROVE Recorded(e) \/ Coming(e)'
    <3>1. e = Len(raw) /\ Left(e)
      BY <2>1, <2>3 DEF Coming
    <3>2. e = Head(todo) \/ Left(e)'
      BY <1>6, <2>1, <3>1, HeadOrTail DEF NoProposal
    <3>3. Recorded(Head(todo))
      BY <2>1 DEF UpdatesObserved, Recorded
    <3> QED
      BY <1>6, <3>1, <3>2, <3>3 DEF NoProposal, Coming
  <2> QED
    BY <1>6, <2>2, <2>3, QuietStep DEF NoProposal
<1> QED
  BY <1>1, <1>2, <1>3, <1>4, <1>5, <1>6

(* A stop between polls and the start of the next process.                 *)
LEMMA FaultlessRestart ==
  ASSUME FeedbackInv, Faultless, faults = 0, faults' = 0, End \/ Restart \/ RecoverAtStart
  PROVE  FaultlessInv'
<1> USE DEF Faultless
<1>1. \A e \in 1 .. Len(raw) : pc \in {"poll", "down", "start"} => ~Coming(e)
  BY DEF Coming
<1>2. CASE End
  <2>1. pc = "poll" /\ memory' = memory
    BY <1>2 DEF End, Fault, SettledInv
  <2> QED
    BY <1>1, <1>2, <2>1, QuietStep DEF End
<1>3. CASE Restart
  <2>1. history' = history /\ pc = "down"
    BY <1>3, NothingToReconcile DEF Restart
  <2> QED
    BY <1>1, <1>3, <2>1, QuietStep DEF Restart
<1>4. CASE RecoverAtStart
  <2>1. history' = history /\ pc = "start"
    BY <1>4, NothingToRecover DEF RecoverAtStart, AppendFails, Fault
  <2> QED
    BY <1>1, <1>4, <2>1, QuietStep DEF RecoverAtStart
<1> QED
  BY <1>2, <1>3, <1>4

(* A step that changes nothing.                                            *)
LEMMA FaultlessStutter ==
  ASSUME FeedbackInv, Faultless, UNCHANGED vars
  PROVE  FaultlessInv'
<1> USE DEF vars, Faultless
<1>1. /\ \A kind, e : HasRow(kind, e)' <=> HasRow(kind, e)
      /\ LastUpdate' = LastUpdate
      /\ Proposing' <=> Proposing
  BY SameHistory
<1>2. SettledInv'
  <2>1. memory' = model' /\ RowsRanked'
    BY DEF SettledInv, RowsRanked
  <2>2. \A e : (Episode(e) <=> Episode(e)') /\ (Recorded(e) <=> Recorded(e)')
               /\ (Coming(e) <=> Coming(e)')
    BY <1>1 DEF Episode, Recorded, Coming, Left
  <2> QED
    BY <1>1, <2>1, <2>2 DEF SettledInv
<1>3. CohortInv'
  BY <1>1 DEF CohortInv
<1>4. LedgerInv'
  BY DEF LedgerInv, EvidenceUsedOnce
<1> QED
  BY <1>2, <1>3, <1>4 DEF FaultlessInv, Faultless

(* An outage closes: only its history row is missing.                      *)
LEMMA FaultlessClose ==
  ASSUME FeedbackInv, Faultless, NEW outage \in Outages, CloseEpisode(outage)
  PROVE  FaultlessInv'
<1> USE DEF Faultless
<1>1. /\ raw' = Append(raw, outage) /\ raw \in Seq(Outages) /\ pc = "poll" /\ pc' = "summarize"
      /\ UNCHANGED <<history, model, memory, ledger>>
  BY DEF CloseEpisode, FeedbackInv, PlaceInv
<1>2. Len(raw') = Len(raw) + 1 /\ Len(raw) \in Nat /\ \A e \in 1 .. Len(raw) : raw'[e] = raw[e]
  BY <1>1
<1>3. \A kind, e : /\ HasRow(kind, e)' <=> HasRow(kind, e)
                   /\ HasRow(kind, e) => e \in 1 .. Len(raw)
  BY <1>1 DEF HasRow, FeedbackInv, HistoryInv
<1>4. LastUpdate' = LastUpdate
  BY <1>1 DEF LastUpdate
<1>5. Proposing' <=> Proposing
  <2>1. Evidence' = Evidence
    <3>1. Len(raw') \in Nat /\ Len(raw') >= Len(raw)
      BY <1>2
    <3> QED
      BY <1>2, <1>3, <1>4, <3>1, EvidenceKept
  <2> QED
    BY <1>1, <2>1, ProposingKept
<1>6. SettledInv'
  <2>1. memory' = model' /\ RowsRanked'
    BY <1>1 DEF SettledInv, RowsRanked
  <2>2. \A e \in 1 .. Len(raw) : Episode(e)' /\ Recorded(e)'
    BY <1>1, <1>2, <1>3 DEF SettledInv, Episode, Recorded, Coming
  <2>3. (\A kind : ~HasRow(kind, Len(raw)))'
    <3>1. \A kind : ~HasRow(kind, Len(raw) + 1)
      BY <1>2, <1>3
    <3> QED
      BY <1>1, <1>2, <3>1 DEF HasRow
  <2>4. \A e \in 1 .. Len(raw') : e \in 1 .. Len(raw) \/ e = Len(raw')
    BY <1>2
  <2>5. Coming(Len(raw))'
    BY <1>1 DEF Coming
  <2>6. (\A e \in 1 .. Len(raw) : Episode(e) \/ (pc = "summarize" /\ e = Len(raw)))'
    BY <1>1, <2>2, <2>4
  <2>7. (\A e \in 1 .. Len(raw) : Recorded(e) \/ Coming(e))'
    BY <2>2, <2>4, <2>5
  <2> QED
    BY <2>1, <2>3, <2>6, <2>7 DEF SettledInv
<1>7. CohortInv'
  BY <1>1, <1>3, <1>4, <1>5 DEF CohortInv
<1>8. LedgerInv'
  BY <1>1 DEF LedgerInv, EvidenceUsedOnce
<1> QED
  BY <1>6, <1>7, <1>8 DEF FaultlessInv, Faultless

-----------------------------------------------------------------------------
(* A row of an outage that is not a correction leaves the last update, and *)
(* the cohort but for an observation.                                      *)
LEMMA EpisodeRowQuiet ==
  ASSUME FeedbackInv, UNCHANGED <<raw, memory>>, NEW row \in Row, history' = Append(history, row),
         row.kind \in {"blackout", "self_test"}
  PROVE  /\ \A kind, e : HasRow(kind, e)' <=> HasRow(kind, e) \/ (row.kind = kind /\ row.at = e)
         /\ LastUpdate' = LastUpdate
         /\ Proposing' <=> Proposing
<1>1. history \in Seq(Row) /\ Len(raw) \in Nat
      /\ \A e : HasRow("ir_observation", e) => e \in 1 .. Len(raw)
  BY DEF FeedbackInv, HistoryInv, PlaceInv
<1>2. \A kind, e : HasRow(kind, e)' <=> HasRow(kind, e) \/ (row.kind = kind /\ row.at = e)
  BY <1>1, RowAppended
<1>3. LastUpdate' = LastUpdate
  BY <1>1, LastUpdateKept
<1>4. \A e : HasRow("ir_observation", e)' <=> HasRow("ir_observation", e)
  BY <1>2
<1>5. Evidence' = Evidence
  BY <1>1, <1>3, <1>4, EvidenceKept
<1> QED
  BY <1>2, <1>3, <1>5, ProposingKept

(* Its history row is written.                                             *)
LEMMA FaultlessSummarize ==
  ASSUME FeedbackInv, Faultless, Summarize
  PROVE  FaultlessInv'
<1> USE DEF Faultless
<1> DEFINE new == Len(raw)
           kind0 == IF raw[new].test THEN "self_test" ELSE "blackout"
           row == EpisodeRow(new, kind0)
<1>1. /\ pc = "summarize" /\ pc' = "recover" /\ completed' = <<new>>
      /\ UNCHANGED <<raw, model, memory, ledger>>
      /\ history' = WithEpisode(new, kind0)
  BY DEF Summarize
<1>2. \A kind : ~HasRow(kind, new)
  BY <1>1 DEF SettledInv
<1>3. history' = Append(history, row) /\ row \in Row /\ row.at = new
      /\ row.kind \in {"blackout", "self_test"} /\ new \in Nat /\ history \in Seq(Row)
  BY <1>1, <1>2 DEF WithEpisode, EpisodeRow, Row, FeedbackInv, HistoryInv, PlaceInv
<1> HIDE DEF row, kind0
<1>4. /\ \A kind, e : HasRow(kind, e)' <=> HasRow(kind, e) \/ (row.kind = kind /\ row.at = e)
      /\ LastUpdate' = LastUpdate
      /\ Proposing' <=> Proposing
  BY <1>1, <1>3, EpisodeRowQuiet
<1>5. SettledInv'
  <2>1. RowsRanked'
    <3>1. \A i \in DOMAIN history : history[i].at # row.at
      BY <1>2, <1>3 DEF HasRow
    <3>2. RowsRanked
      BY DEF SettledInv
    <3> QED
      BY <1>3, <3>1, <3>2, RanksAppended
  <2>2. ASSUME NEW e \in 1 .. Len(raw) PROVE Episode(e)' /\ (Recorded(e)' \/ Coming(e)')
    <3>1. CASE e = new
      BY <1>1, <1>3, <1>4, <3>1 DEF Episode, Coming
    <3>2. CASE e # new
      <4>1. Episode(e) /\ Recorded(e)
        BY <3>2 DEF SettledInv, Coming
      <4> QED
        BY <1>1, <1>4, <4>1 DEF Episode, Recorded
    <3> QED
      BY <3>1, <3>2
  <2> QED
    BY <1>1, <2>1, <2>2 DEF SettledInv
<1>6. CohortInv'
  BY <1>1, <1>3, <1>4 DEF CohortInv
<1>7. LedgerInv'
  BY <1>1 DEF LedgerInv, EvidenceUsedOnce
<1> QED
  BY <1>5, <1>6, <1>7 DEF FaultlessInv, Faultless

(* An observation that is new is of the last outage.                       *)
LEMMA NewObservation ==
  ASSUME FeedbackInv, Faultless, pc = "event", todo # <<>>, ~Skipped(Head(todo))
  PROVE  /\ ~HasRow("model_update", Head(todo))
         /\ ~HasRow("ir_observation", Head(todo)) => Head(todo) = Len(raw)
<1> DEFINE e == Head(todo)
<1>1. history \in Seq(Row) /\ RowsRanked /\ e \in 1 .. Len(raw)
  BY HeadIsEvent DEF FeedbackInv, HistoryInv, Faultless, SettledInv
<1>2. \A i \in DOMAIN history :
        history[i].kind \in {"blackout", "self_test", "ir_observation", "model_update"}
  BY <1>1 DEF Row
<1>3. EventKind(e) # "self_test" /\ EventKind(e) # "model_update"
  BY DEF Skipped
<1>4. \A kind : HasRow(kind, e) => EventKind(e) \in {"blackout", "ir_observation"}
  <2>1. ASSUME NEW kind, HasRow(kind, e) PROVE HasRow(EventKind(e), e)
    BY <1>1, <2>1, EventKindRanks
  <2> QED
    BY <1>2, <1>3, <2>1 DEF HasRow
<1>5. ~HasRow("model_update", e)
  <2> SUFFICES ASSUME HasRow("model_update", e) PROVE FALSE
    OBVIOUS
  <2>1. Rank("model_update") <= Rank(EventKind(e))
    BY <1>1, EventKindRanks
  <2>2. EventKind(e) \in {"blackout", "ir_observation"}
    BY <1>4
  <2> QED
    BY <2>1, <2>2 DEF Rank
<1>6. ASSUME ~HasRow("ir_observation", e) PROVE e = Len(raw)
  <2>1. EventKind(e) # "ir_observation"
    BY <1>1, <1>6, EventKindIsRow
  <2>2. ~HasRow("self_test", e)
    <3> SUFFICES ASSUME HasRow("self_test", e) PROVE FALSE
      OBVIOUS
    <3>1. EventKind(e) = "blackout"
      BY <1>4, <2>1
    <3>2. Rank("self_test") = Rank(EventKind(e)) => "self_test" = EventKind(e)
      BY <1>1, EventKindRanks
    <3> QED
      BY <3>1, <3>2 DEF Rank
  <2>3. raw[e].estimate # NoStep
    BY <2>1 DEF Skipped
  <2>4. ~Recorded(e)
    BY <1>6, <2>2, <2>3 DEF Recorded
  <2> QED
    BY <1>1, <2>4 DEF Faultless, SettledInv, Coming
<1> QED
  BY <1>5, <1>6

(* An observation is recorded, for the last outage if it is new.           *)
LEMMA FaultlessObserve ==
  ASSUME FeedbackInv, Faultless, Observe
  PROVE  FaultlessInv'
<1> DEFINE e == Head(todo)
<1>1. /\ pc = "event" /\ pc' = "propose" /\ todo # <<>> /\ ~Skipped(e)
      /\ history' = WithObservation(e)
      /\ UNCHANGED <<raw, model, memory, completed, todo, replayed, faults, ledger>>
  BY DEF Observe
<1>2. e \in 1 .. Len(raw) /\ history \in Seq(Row) /\ Len(raw) \in Nat
  BY <1>1, HeadIsEvent DEF FeedbackInv, HistoryInv
<1>3. ~HasRow("model_update", e) /\ (~HasRow("ir_observation", e) => e = Len(raw))
  BY <1>1, NewObservation
<1>4. LedgerInv'
  BY <1>1 DEF Faultless, LedgerInv, EvidenceUsedOnce
<1>5. CASE HasRow("ir_observation", e)
  <2>1. history' = history
    BY <1>1, <1>5 DEF WithObservation
  <2>2. /\ \A kind, f : HasRow(kind, f)' <=> HasRow(kind, f)
        /\ LastUpdate' = LastUpdate
        /\ Proposing' <=> Proposing
    BY <1>1, <2>1, SameHistory
  <2>3. SettledInv'
    <3>1. memory' = model' /\ RowsRanked'
      BY <1>1, <2>1 DEF Faultless, SettledInv, RowsRanked
    <3>2. \A f \in 1 .. Len(raw) : Episode(f)' /\ (Recorded(f)' \/ Coming(f)')
      BY <1>1, <2>2 DEF Faultless, SettledInv, Episode, Recorded, Coming, Left
    <3> QED
      BY <1>1, <3>1, <3>2 DEF SettledInv
  <2>4. CohortInv'
    BY <1>1, <1>3, <2>2 DEF Faultless, CohortInv
  <2> QED
    BY <1>4, <2>3, <2>4 DEF FaultlessInv, Faultless
<1>6. CASE ~HasRow("ir_observation", e)
  <2> DEFINE row == IrRow(e)
  <2>1. /\ history' = Append(history, row) /\ row \in Row
        /\ row.kind = "ir_observation" /\ row.at = e /\ e = Len(raw)
    BY <1>1, <1>2, <1>3, <1>6 DEF WithObservation, IrRow, Row
  <2> HIDE DEF row
  <2>2. \A kind, f : HasRow(kind, f)' <=> HasRow(kind, f) \/ (row.kind = kind /\ row.at = f)
    BY <1>2, <2>1, RowAppended
  <2>3. LastUpdate' = LastUpdate
    BY <1>2, <2>1, LastUpdateKept
  <2>4. SettledInv'
    <3>1. RowsRanked'
      <4>1. ASSUME NEW i \in DOMAIN history, history[i].at = row.at
            PROVE  Rank(history[i].kind) < Rank(row.kind)
        <5>1. HasRow(history[i].kind, e)
          BY <2>1, <4>1 DEF HasRow
        <5>2. history[i].kind \in {"blackout", "self_test"}
          BY <1>2, <1>3, <1>6, <5>1 DEF Row
        <5> QED
          BY <2>1, <5>2 DEF Rank
      <4>2. RowsRanked
        BY DEF Faultless, SettledInv
      <4> QED
        BY <1>2, <2>1, <4>1, <4>2, RanksAppended
    <3>2. memory' = model'
      BY <1>1 DEF Faultless, SettledInv
    <3>3. \A f \in 1 .. Len(raw) : Episode(f)' /\ (Recorded(f)' \/ Coming(f)')
      BY <1>1, <2>2 DEF Faultless, SettledInv, Episode, Recorded, Coming, Left
    <3> QED
      BY <1>1, <3>1, <3>2, <3>3 DEF SettledInv
  <2>5. CohortInv'
    <3>1. ~HasRow("model_update", e)'
      BY <1>1, <1>3, <2>1, <2>2
    <3>2. \A f : HasRow("model_update", f)' <=> HasRow("model_update", f)
      BY <2>1, <2>2
    <3> QED
      BY <1>1, <2>1, <2>3, <3>1, <3>2 DEF Faultless, CohortInv
  <2> QED
    BY <1>4, <2>4, <2>5 DEF FaultlessInv, Faultless
<1> QED
  BY <1>5, <1>6

(* A correction uses the open cohort, all after the last one's key.        *)
LEMMA FaultlessApply ==
  ASSUME FeedbackInv, Faultless, Apply
  PROVE  FaultlessInv'
<1> DEFINE e == Head(todo)
           entry == [at |-> e, cohort |-> Cohort]
<1>1. /\ pc = "propose" /\ pc' = "receipt" /\ Applies(e)
      /\ UNCHANGED <<raw, history, completed, todo, replayed, faults>>
      /\ model' = Corrected(e) /\ memory' = Corrected(e)
  BY DEF Apply, Rename
<1>2. ledger' = Append(ledger, entry)
  BY DEF Apply, Rename, Faultless, SettledInv
<1>3. e \in 1 .. Len(raw) /\ Len(raw) \in Nat /\ e = Len(raw)
  <2>1. Proposing
    BY <1>1 DEF Applies, Proposing
  <2> QED
    BY <1>1, <2>1, HeadIsEvent DEF Faultless, CohortInv, FeedbackInv, PlaceInv
<1>4. memory'.receipt.at = Len(raw) /\ memory' = model'
  BY <1>1, <1>3, CorrectedRange
<1>5. \A kind, f : HasRow(kind, f)' <=> HasRow(kind, f)
  BY <1>1 DEF HasRow
<1>6. SettledInv'
  <2>1. RowsRanked'
    BY <1>1 DEF Faultless, SettledInv, RowsRanked
  <2>2. \A f \in 1 .. Len(raw) : Episode(f)' /\ (Recorded(f)' \/ Coming(f)')
    BY <1>1, <1>5 DEF Faultless, SettledInv, Episode, Recorded, Coming, Left
  <2> QED
    BY <1>1, <1>4, <2>1, <2>2 DEF SettledInv
<1>7. CohortInv'
  <2>1. ~HasRow("model_update", Len(raw))'
    BY <1>1, <1>3, <1>5 DEF Faultless, CohortInv
  <2> QED
    BY <1>1, <1>3, <1>4, <2>1 DEF CohortInv
<1>8. LedgerInv'
  <2>1. memory.receipt.at \in Nat /\ memory.receipt.at <= Len(raw)
    BY <1>3 DEF FeedbackInv, ModelInv, NoReceipt
  <2>2. LastUpdate = memory.receipt.at
    BY <1>1 DEF Faultless, CohortInv
  <2>3. entry \in Correction /\ entry.cohort = Cohort
    BY <1>3 DEF Correction, Cohort
  <2>4. \A f \in Cohort : f \in 1 .. Len(raw) /\ f > memory.receipt.at
    BY <2>2 DEF Cohort
  <2>5. ledger \in Seq(Correction)
    BY DEF Faultless, LedgerInv
  <2> HIDE DEF entry
  <2>6. ledger' \in Seq(Correction) /\ DOMAIN ledger' = 1 .. Len(ledger) + 1
    BY <1>2, <2>3, <2>5
  <2>7. /\ \A i \in DOMAIN ledger : ledger'[i] = ledger[i]
        /\ ledger'[Len(ledger) + 1] = entry
        /\ \A i \in DOMAIN ledger' : i \in DOMAIN ledger \/ i = Len(ledger) + 1
    BY <1>2, <2>3, <2>5
  <2>8. \A i \in DOMAIN ledger : \A f \in ledger[i].cohort : f \in Nat /\ f <= memory.receipt.at
    <3>1. \A i \in DOMAIN ledger : ledger[i].cohort \in SUBSET Nat
      <4>1. \A i \in DOMAIN ledger : ledger[i] \in Correction
        BY <2>5
      <4> QED
        BY <4>1 DEF Correction
    <3>2. \A i \in DOMAIN ledger : \A f \in ledger[i].cohort : f <= memory.receipt.at
      BY Zenon DEF Faultless, LedgerInv
    <3> QED
      BY <3>1, <3>2, Zenon
  <2>9. \A i \in DOMAIN ledger' : \A f \in ledger'[i].cohort : f <= Len(raw)
    <3>1. \A i \in DOMAIN ledger : \A f \in ledger[i].cohort : f <= Len(raw)
      BY <1>3, <2>1, <2>8
    <3> QED
      BY <2>3, <2>4, <2>7, <3>1
  <2>10. EvidenceUsedOnce'
    <3>1. \A i \in DOMAIN ledger : ledger[i].cohort \cap Cohort = {}
      BY <2>1, <2>4, <2>8
    <3>2. \A i, j \in DOMAIN ledger : i # j => ledger[i].cohort \cap ledger[j].cohort = {}
      BY DEF Faultless, LedgerInv, EvidenceUsedOnce
    <3> QED
      BY <2>3, <2>7, <3>1, <3>2, Zenon DEF EvidenceUsedOnce
  <2> QED
    BY <1>4, <2>6, <2>9, <2>10 DEF LedgerInv
<1> QED
  BY <1>6, <1>7, <1>8 DEF FaultlessInv, Faultless

(* Its row closes the cohort.                                              *)
LEMMA FaultlessReceipt ==
  ASSUME FeedbackInv, UpdatesObserved, Faultless, RecordReceipt
  PROVE  FaultlessInv'
<1> DEFINE last == Len(raw)
           row  == UpdateRow(memory.receipt)
<1>1. /\ pc = "receipt" /\ pc' = "event" /\ todo' = Tail(todo) /\ todo # <<>>
      /\ UNCHANGED <<raw, model, memory, completed, replayed, faults, ledger>>
      /\ history' = WithReceipt(memory.receipt)
  BY DEF RecordReceipt, FeedbackInv, PlaceInv
<1>2. /\ last \in 1 .. last /\ last \in Nat /\ Head(todo) = last
      /\ memory.receipt.at = last /\ ~HasRow("model_update", last)
  BY <1>1, HeadIsEvent DEF Faultless, CohortInv
<1>3. memory.receipt # NoReceipt /\ memory.receipt \in Receipt
  BY <1>2 DEF NoReceipt, FeedbackInv, ModelInv, State
<1>4. /\ history' = Append(history, row) /\ row \in Row /\ history \in Seq(Row)
      /\ row.kind = "model_update" /\ row.at = last
  BY <1>1, <1>2, <1>3 DEF WithReceipt, UpdateRow, Receipt, Row, FeedbackInv, HistoryInv
<1> HIDE DEF row
<1>5. \A kind, e : HasRow(kind, e)' <=> HasRow(kind, e) \/ (row.kind = kind /\ row.at = e)
  BY <1>4, RowAppended
<1>6. LastUpdate' = last
  BY <1>4, LastUpdateAppended
<1>7. ~Proposing'
  <2>1. Cohort' = {}
    BY <1>1, <1>2, <1>6 DEF Cohort
  <2>2. (DOMAIN Evidence)' = {}
    BY <2>1 DEF Evidence
  <2>3. Cardinality({}) = 0
    BY FS_EmptySet
  <2> QED
    BY <2>2, <2>3 DEF Proposing, Proposes, MinCohort
<1>8. SettledInv'
  <2>1. RowsRanked'
    <3>1. ASSUME NEW i \in DOMAIN history, history[i].at = row.at
          PROVE  Rank(history[i].kind) < Rank(row.kind)
      <4>1. HasRow(history[i].kind, last)
        BY <1>4, <3>1 DEF HasRow
      <4>2. history[i].kind \in {"blackout", "self_test", "ir_observation"}
        BY <1>2, <1>4, <4>1 DEF Row
      <4> QED
        BY <1>4, <4>2 DEF Rank
    <3>2. RowsRanked
      BY DEF Faultless, SettledInv
    <3> QED
      BY <1>4, <3>1, <3>2, RanksAppended
  <2>2. memory' = model'
    BY <1>1 DEF Faultless, SettledInv
  <2>3. ASSUME NEW e \in 1 .. Len(raw) PROVE Episode(e)' /\ Recorded(e)'
    <3>1. Episode(e)
      BY <1>1 DEF Faultless, SettledInv
    <3>2. Recorded(last)
      BY <1>1, <1>2 DEF UpdatesObserved, Recorded
    <3>3. Recorded(e)
      BY <1>1, <3>2 DEF Faultless, SettledInv, Coming
    <3> QED
      BY <1>1, <1>5, <3>1, <3>3 DEF Episode, Recorded
  <2> QED
    BY <1>1, <2>1, <2>2, <2>3 DEF SettledInv
<1>9. CohortInv'
  <2>1. HasRow("model_update", memory.receipt.at)'
    BY <1>1, <1>2, <1>4, <1>5
  <2> QED
    BY <1>1, <1>2, <1>6, <1>7, <2>1 DEF CohortInv
<1>10. LedgerInv'
  BY <1>1 DEF Faultless, LedgerInv, EvidenceUsedOnce
<1> QED
  BY <1>8, <1>9, <1>10 DEF FaultlessInv, Faultless

(* A fresh installation.                                                   *)
LEMMA FaultlessInit == Init => FaultlessInv
<1> SUFFICES ASSUME Init PROVE FaultlessInv
  OBVIOUS
<1> USE DEF Init
<1>1. Len(raw) = 0 /\ \A kind, e : ~HasRow(kind, e)
  BY DEF HasRow
<1>2. SettledInv
  BY <1>1 DEF SettledInv, RowsRanked
<1>3. ~Proposing
  <2>1. Cohort = {}
    BY <1>1 DEF Cohort
  <2>2. DOMAIN Evidence = {} /\ Cardinality({}) = 0
    BY <2>1, FS_EmptySet DEF Evidence
  <2> QED
    BY <2>2 DEF Proposing, Proposes, MinCohort
<1>4. CohortInv
  <2>1. LastUpdate = 0
    BY DEF LastUpdate
  <2> QED
    BY <1>3, <2>1 DEF CohortInv, NoReceipt
<1>5. LedgerInv
  BY ShortSequence DEF LedgerInv, EvidenceUsedOnce
<1> QED
  BY <1>2, <1>4, <1>5 DEF FaultlessInv, Faultless

(* Every step that is not a fault keeps it.                                *)
LEMMA FaultlessKept ==
  ASSUME FeedbackInv, UpdatesObserved, FaultlessInv, [Next]_vars
  PROVE  FaultlessInv'
<1>1. CASE faults' # 0
  BY <1>1 DEF FaultlessInv, Faultless
<1>2. CASE faults' = 0
  <2>1. ~Fault /\ faults = 0
    BY <1>2, FaultsGrow DEF Fault
  <2>2. Faultless
    BY <2>1 DEF FaultlessInv, Faultless
  <2>3. CASE Poll \/ Recover \/ Select \/ FeedbackEnds \/ Skip \/ NoProposal
    BY <2>2, <2>3, FaultlessProgress
  <2>4. CASE End \/ Restart \/ RecoverAtStart
    BY <1>2, <2>1, <2>2, <2>4, FaultlessRestart
  <2>5. CASE \E outage \in Outages : CloseEpisode(outage)
    BY <2>2, <2>5, FaultlessClose
  <2>6. CASE Summarize
    BY <2>2, <2>6, FaultlessSummarize
  <2>7. CASE Observe
    BY <2>2, <2>7, FaultlessObserve
  <2>8. CASE Apply
    BY <2>2, <2>8, FaultlessApply
  <2>9. CASE RecordReceipt
    BY <2>2, <2>9, FaultlessReceipt
  <2>10. CASE UNCHANGED vars
    BY <2>2, <2>10, FaultlessStutter
  <2>11. ~(\/ SummarizeFails \/ RecoverFails \/ SelectFails \/ ObserveFails
           \/ (\E renamed \in BOOLEAN : ApplyFails(renamed)) \/ RecordReceiptFails \/ RestartFails)
    BY <2>1 DEF SummarizeFails, RecoverFails, SelectFails, ObserveFails, ApplyFails,
         RecordReceiptFails, RestartFails, AppendFails
  <2> QED
    BY <2>3, <2>4, <2>5, <2>6, <2>7, <2>8, <2>9, <2>10, <2>11 DEF Next, Progress
<1> QED
  BY <1>1, <1>2

(* "Three consistent observations can produce one bounded automatic IR     *)
(* update": while no write failed and no process died in a poll, over any  *)
(* number of outages and of clean restarts, no observation takes part in   *)
(* two corrections.                                                        *)
THEOREM UsedOnce == Spec => []EvidenceUsedOnceWithoutFaults
<1>1. FeedbackInv /\ UpdatesObserved /\ FaultlessInv /\ [Next]_vars => FaultlessInv'
  BY FaultlessKept
<1>2. FaultlessInv => EvidenceUsedOnceWithoutFaults
  BY DEF FaultlessInv, Faultless, LedgerInv, EvidenceUsedOnceWithoutFaults
<1> QED
  BY <1>1, <1>2, FaultlessInit, TypesHold, ObservedHold, PTL DEF Spec

-----------------------------------------------------------------------------
(* One fault can leave the file ahead of the memory, when it strikes after *)
(* the rename.  That correction has a key which neither the history nor    *)
(* the receipt in memory has, so what the process goes on to recover is    *)
(* not its row, until a new process loads it or a later one replaces it.   *)
LagInv ==
  faults <= 1 /\ memory # model =>
    /\ model.receipt.from = memory.k
    /\ model.receipt.at # memory.receipt.at
    /\ ~HasRow("model_update", model.receipt.at)

(* A model write that fails after its rename, as the first fault.          *)
LEMMA LagBegins ==
  ASSUME FeedbackInv, FaultlessInv, ApplyFails(TRUE), faults' <= 1
  PROVE  LagInv'
<1> DEFINE e == Head(todo)
<1>1. faults = 0
  BY FeedbackAssumption DEF ApplyFails, Fault, FeedbackInv, PlaceInv
<1>2. pc = "propose" /\ Applies(e) /\ model' = Corrected(e) /\ UNCHANGED <<memory, history>>
  BY DEF ApplyFails, Rename
<1>3. ~HasRow("model_update", e)
  BY <1>1, <1>2 DEF FaultlessInv, Faultless, CohortInv
<1>4. e \in 1 .. Len(raw)
  BY <1>2, HeadIsEvent DEF FeedbackInv, PlaceInv
<1>5. model'.receipt.at = e /\ model'.receipt.from = memory.k
  BY <1>2 DEF Corrected
<1>6. memory.receipt.at # e
  BY <1>2 DEF Applies
<1> QED
  BY <1>2, <1>3, <1>5, <1>6 DEF LagInv, HasRow

(* Every other step leaves a lag as it is, or ends it.                     *)
LEMMA LagKept ==
  ASSUME FeedbackInv, FaultlessInv, LagInv, [Next]_vars
  PROVE  LagInv'
<1> SUFFICES ASSUME faults' <= 1, memory' # model' PROVE LagInv'
  BY DEF LagInv
<1>1. CASE ApplyFails(TRUE)
  BY <1>1, LagBegins
<1>2. CASE ~ApplyFails(TRUE)
  <2>1. UNCHANGED <<model, memory>>
    BY <1>2 DEF Next, Progress, Poll, CloseEpisode, Summarize, SummarizeFails, Recover,
         RecoverFails, Select, SelectFails, FeedbackEnds, Skip, Observe, ObserveFails,
         NoProposal, Apply, ApplyFails, RecordReceipt, RecordReceiptFails, End, Restart,
         RestartFails, RecoverAtStart, vars
  <2>2. faults <= 1
    BY FaultsGrow
  <2>3. \A e : HasRow("model_update", e)' =>
          HasRow("model_update", e) \/ (memory.receipt # NoReceipt /\ e = memory.receipt.at)
    BY StepAdds, RowsAfter
  <2>4. /\ model.receipt.from = memory.k /\ model.receipt.at # memory.receipt.at
        /\ ~HasRow("model_update", model.receipt.at)
    BY <2>1, <2>2 DEF LagInv
  <2>5. ~HasRow("model_update", model.receipt.at)'
    BY <2>1, <2>3, <2>4
  <2> QED
    BY <2>1, <2>4, <2>5 DEF LagInv
<1> QED
  BY <1>1, <1>2

(* Up to one failing write or death, over any number of outages: the file  *)
(* is at most one correction ahead of the memory, computed from what the   *)
(* memory holds, and the history does not claim it.                        *)
THEOREM LagsByOne == Spec => []MemoryLagsByOneUnlogged
<1>1. Init => LagInv
  BY DEF Init, LagInv
<1>2. FeedbackInv /\ UpdatesObserved /\ FaultlessInv /\ [Next]_vars => FaultlessInv'
  BY FaultlessKept
<1>3. FeedbackInv /\ FaultlessInv /\ LagInv /\ [Next]_vars => LagInv'
  BY LagKept
<1>4. LagInv => MemoryLagsByOneUnlogged
  BY DEF LagInv, MemoryLagsByOneUnlogged
<1> QED
  BY <1>1, <1>2, <1>3, <1>4, FaultlessInit, TypesHold, ObservedHold, PTL DEF Spec
-----------------------------------------------------------------------------
(* What the side work can rely on, whatever failed.  It visits the last    *)
(* outages in order; an outage it summarizes has no row yet; one with a    *)
(* self-test row has no other; and what a proposal starts from is logged.  *)
Settled(receipt) == receipt = NoReceipt \/ HasRow("model_update", receipt.at)

WorkInv ==
  /\ completed # <<>> => completed = <<Len(raw)>>
  /\ \A i \in DOMAIN todo : todo[i] = Len(raw) - Len(todo) + i
  /\ pc = "summarize" => \A kind : ~HasRow(kind, Len(raw))
  /\ \A kind, e : HasRow("self_test", e) /\ HasRow(kind, e) => kind = "self_test"
  /\ pc \in {"select", "event", "propose"} => Settled(memory.receipt)

(* A fault leaves one of two things intact.  Either the rows of every      *)
(* outage are in order and none is missing, so that reconciling adds       *)
(* nothing and an outage with an update is passed over.                    *)
InOrder ==
  /\ RowsRanked
  /\ \A e \in 1 .. Len(raw) : Episode(e) \/ (pc = "summarize" /\ e = Len(raw))
  /\ pc = "propose" => ~HasRow("model_update", Head(todo))

(* Or, where an outage lost its row, file and memory agree, the updates    *)
(* have increasing keys, and a correction is only proposed at an outage    *)
(* after the last of them.                                                 *)
Advancing ==
  /\ memory = model
  /\ \A e : HasRow("model_update", e) => e <= LastUpdate
  /\ IF pc = "receipt" THEN memory.receipt.at = Head(todo) /\ LastUpdate < Head(todo)
                       ELSE LastUpdate = memory.receipt.at /\ Settled(memory.receipt)
  /\ Proposing =>
       \/ pc = "receipt"
       \/ pc = "propose" /\ LastUpdate < Head(todo)
       \/ pc = "event" /\ todo # <<>> /\ LastUpdate < Head(todo)
            /\ \A e \in Cohort : Head(todo) <= e

KeysInv ==
  /\ faults = 0 => Advancing
  /\ faults = 1 => InOrder \/ Advancing

(* The log accounts for the file, but for its receipt while that is not    *)
(* logged, and for a memory that lags.                                     *)
AccountInv ==
  faults <= 1 =>
    /\ model.receipt = NoReceipt \/ model.k = model.receipt.to
    /\ Audit!Accounted = (IF Settled(model.receipt) THEN model.k ELSE model.receipt.from)
    /\ memory # model => Audit!Accounted = memory.k /\ Settled(memory.receipt)

(* What a step may add to the history, and when: an outage has one row of  *)
(* each kind at most.                                                      *)
Fits(row) ==
  /\ Addable(row)
  /\ ~HasRow(row.kind, row.at)
  /\ row.kind \in {"blackout", "self_test"} => ~Episode(row.at) /\ pc \in {"summarize", "down"}
  /\ row.kind \in {"blackout", "self_test"} /\ pc = "summarize" => row.at = Len(raw)
  /\ row.kind = "self_test" => pc = "summarize"
  /\ row.kind = "ir_observation" =>
       pc = "event" /\ todo # <<>> /\ row.at = Head(todo) /\ ~Skipped(row.at)
  /\ row.kind = "model_update" =>
       /\ pc \in {"recover", "receipt", "start"}
       /\ memory.receipt # NoReceipt /\ row = UpdateRow(memory.receipt)

Writes(log) == log = history \/ \E row : Fits(row) /\ log = Append(history, row)

(* The receipt in memory is written where it is missing.                   *)
LEMMA ReceiptWrites ==
  ASSUME FeedbackInv, pc \in {"recover", "receipt", "start"}
  PROVE  Writes(WithReceipt(memory.receipt))
<1> DEFINE row == UpdateRow(memory.receipt)
<1>1. CASE Settled(memory.receipt)
  BY <1>1 DEF Settled, WithReceipt, Writes
<1>2. CASE ~Settled(memory.receipt)
  <2>1. memory.receipt \in Receipt /\ memory.receipt.at \in 1 .. Len(raw)
    BY <1>2 DEF Settled, FeedbackInv, ModelInv, State
  <2>2. row.kind = "model_update" /\ row.at = memory.receipt.at /\ row \in Row
    BY <2>1 DEF UpdateRow, Row, Receipt
  <2>3. Fits(row)
    BY <1>2, <2>1, <2>2 DEF Settled, Fits, Addable
  <2> QED
    BY <1>2, <2>3 DEF Settled, WithReceipt, Writes
<1> QED
  BY <1>1, <1>2

(* The episode's row, where it has none.                                   *)
LEMMA EpisodeWrites ==
  ASSUME FeedbackInv, NEW e \in 1 .. Len(raw), NEW kind \in {"blackout", "self_test"},
         (pc = "summarize" /\ e = Len(raw)) \/ (pc = "down" /\ kind = "blackout")
  PROVE  Writes(WithEpisode(e, kind))
<1> DEFINE row == EpisodeRow(e, kind)
<1>1. row.kind = kind /\ row.at = e /\ row \in Row
  BY DEF EpisodeRow, Row, FeedbackInv, PlaceInv
<1>2. CASE Episode(e)
  BY <1>2 DEF Episode, WithEpisode, Writes
<1>3. CASE ~Episode(e)
  <2>1. Fits(row)
    BY <1>1, <1>3 DEF Fits, Addable, Episode
  <2> QED
    BY <1>3, <2>1 DEF Episode, WithEpisode, Writes
<1> QED
  BY <1>2, <1>3

(* And the observation of the outage that is visited.                      *)
LEMMA ObservationWrites ==
  ASSUME FeedbackInv, pc = "event", todo # <<>>, ~Skipped(Head(todo))
  PROVE  Writes(WithObservation(Head(todo)))
<1> DEFINE e == Head(todo)
           row == IrRow(e)
<1>1. row.kind = "ir_observation" /\ row.at = e
  BY DEF IrRow
<1>2. CASE HasRow("ir_observation", e)
  BY <1>2 DEF WithObservation, Writes
<1>3. CASE ~HasRow("ir_observation", e)
  <2>1. e \in 1 .. Len(raw)
    BY HeadIsEvent
  <2>2. EventKind(e) # "ir_observation"
    BY <1>3, EventKindIsRow DEF FeedbackInv, HistoryInv
  <2>3. Fits(row)
    BY <1>1, <1>3, <2>1, <2>2 DEF Fits, Addable, Skipped, IrRow, Row
  <2> QED
    BY <1>3, <2>3 DEF WithObservation, Writes
<1> QED
  BY <1>2, <1>3

(* A new process adds an episode's row at most.                            *)
LEMMA ReconciledWrites ==
  ASSUME FeedbackInv, pc = "down", NEW log \in Reconciled
  PROVE  Writes(log)
<1>1. log = history \/ \E e \in 1 .. Len(raw) : log = WithEpisode(e, "blackout")
  BY DEF Reconciled
<1> QED
  BY <1>1, EpisodeWrites DEF Writes

(* So every step writes one such row, or none.                             *)
LEMMA StepWrites ==
  ASSUME FeedbackInv, [Next]_vars
  PROVE  Writes(history')
<1>1. CASE Summarize \/ SummarizeFails
  <2> DEFINE kind == IF raw[Len(raw)].test THEN "self_test" ELSE "blackout"
  <2>1. Len(raw) \in 1 .. Len(raw) /\ pc = "summarize"
    BY <1>1 DEF FeedbackInv, PlaceInv, Summarize, SummarizeFails
  <2>2. \A k \in {"blackout", "self_test"} : Writes(WithEpisode(Len(raw), k))
    BY <2>1, EpisodeWrites
  <2>3. history' \in {history, WithEpisode(Len(raw), kind)}
    BY <1>1 DEF Summarize, SummarizeFails, AppendFails
  <2>4. kind \in {"blackout", "self_test"}
    OBVIOUS
  <2> HIDE DEF kind
  <2>5. Writes(WithEpisode(Len(raw), kind))
    BY <2>2, <2>4, Zenon
  <2> QED
    BY <2>3, <2>5 DEF Writes
<1>2. CASE Recover \/ RecoverFails \/ RecordReceipt \/ RecordReceiptFails \/ RecoverAtStart
  <2>1. pc \in {"recover", "receipt", "start"}
        /\ history' \in {history, WithReceipt(memory.receipt)}
    BY <1>2 DEF Recover, RecoverFails, RecordReceipt, RecordReceiptFails, RecoverAtStart, AppendFails
  <2> QED
    BY <2>1, ReceiptWrites DEF Writes
<1>3. CASE Observe \/ ObserveFails
  <2>1. pc = "event" /\ todo # <<>> /\ ~Skipped(Head(todo))
        /\ history' \in {history, WithObservation(Head(todo))}
    BY <1>3 DEF Observe, ObserveFails, AppendFails
  <2> QED
    BY <2>1, ObservationWrites DEF Writes
<1>4. CASE Restart \/ RestartFails
  <2>1. pc = "down" /\ (history' = history \/ history' \in Reconciled)
    BY <1>4 DEF Restart, RestartFails, AppendFails
  <2> QED
    BY <2>1, ReconciledWrites DEF Writes
<1>5. CASE ~(\/ Summarize \/ SummarizeFails \/ Recover \/ RecoverFails \/ RecordReceipt
             \/ RecordReceiptFails \/ RecoverAtStart \/ Observe \/ ObserveFails
             \/ Restart \/ RestartFails)
  <2>1. history' = history
    BY <1>5 DEF Next, Progress, Poll, CloseEpisode, Select, SelectFails, FeedbackEnds, Skip,
         NoProposal, Apply, ApplyFails, End, vars
  <2> QED
    BY <2>1 DEF Writes
<1> QED
  BY <1>1, <1>2, <1>3, <1>4, <1>5

(* What such a row changes.                                                *)
LEMMA FitsAdds ==
  ASSUME FeedbackInv, NEW row, Fits(row), history' = Append(history, row)
  PROVE  /\ history \in Seq(Row) /\ row \in Row /\ row.at \in 1 .. Len(raw)
         /\ \A kind, e : HasRow(kind, e)' <=> HasRow(kind, e) \/ (row.kind = kind /\ row.at = e)
<1>1. history \in Seq(Row) /\ row \in Row
  BY DEF FeedbackInv, HistoryInv, Fits, Addable
<1> QED
  BY <1>1, RowAppended DEF Fits, Addable

(* The kind of an outage that has a row is that of a row it has.           *)
LEMMA EventHasKind ==
  ASSUME FeedbackInv, NEW kind, NEW e, HasRow(kind, e)
  PROVE  HasRow(EventKind(e), e)
<1> DEFINE rows == {i \in DOMAIN history : history[i].at = e}
           last == CHOOSE i \in rows : \A j \in rows : j <= i
<1>1. rows # {} /\ rows \in SUBSET Nat /\ Len(history) \in Nat /\ \A i \in rows : i <= Len(history)
  BY DEF HasRow, FeedbackInv, HistoryInv
<1>2. last \in rows
  BY <1>1, LastOf
<1>3. EventKind(e) = history[last].kind
  BY <1>1 DEF EventKind
<1> QED
  BY <1>2, <1>3 DEF HasRow

(* An outage that is not passed over is no self-test.                      *)
LEMMA NotSkipped ==
  ASSUME FeedbackInv, WorkInv, NEW e, ~Skipped(e)
  PROVE  ~HasRow("self_test", e)
<1> SUFFICES ASSUME HasRow("self_test", e) PROVE FALSE
  OBVIOUS
<1>1. HasRow(EventKind(e), e)
  BY EventHasKind
<1>2. EventKind(e) = "self_test"
  BY <1>1 DEF WorkInv
<1> QED
  BY <1>2 DEF Skipped

(* Self-tests keep to themselves.                                          *)
LEMMA SelfTestsStep ==
  ASSUME FeedbackInv, UpdatesObserved, WorkInv, [Next]_vars,
         NEW kind, NEW e, HasRow("self_test", e)', HasRow(kind, e)'
  PROVE  kind = "self_test"
<1>1. CASE history' = history
  BY <1>1 DEF WorkInv, HasRow
<1>2. CASE history' # history
  <2>1. PICK row : Fits(row) /\ history' = Append(history, row)
    BY <1>2, StepWrites DEF Writes
  <2>2. \A k, f : HasRow(k, f)' <=> HasRow(k, f) \/ (row.kind = k /\ row.at = f)
    BY <2>1, FitsAdds
  <2>3. CASE row.kind = "self_test" /\ row.at = e
    <3>1. \A k : ~HasRow(k, e)
      BY <2>1, <2>3 DEF Fits, WorkInv
    <3> QED
      BY <2>2, <2>3, <3>1
  <2>4. CASE HasRow("self_test", e)
    <3>1. CASE HasRow(kind, e)
      BY <2>4, <3>1 DEF WorkInv
    <3>2. CASE row.kind = kind /\ row.at = e
      <4>1. kind \notin {"blackout", "ir_observation", "model_update"}
        <5>1. kind # "blackout"
          BY <2>1, <2>4, <3>2 DEF Fits, Episode
        <5>2. kind # "ir_observation"
          BY <2>1, <2>4, <3>2, NotSkipped DEF Fits
        <5>3. kind # "model_update"
          <6> SUFFICES ASSUME kind = "model_update" PROVE FALSE
            OBVIOUS
          <6>1. memory.receipt # NoReceipt /\ e = memory.receipt.at
            BY <2>1, <3>2 DEF Fits, UpdateRow
          <6>2. HasRow("ir_observation", e)
            BY <6>1 DEF UpdatesObserved
          <6> QED
            BY <2>4, <6>2 DEF WorkInv
        <5> QED
          BY <5>1, <5>2, <5>3
      <4> QED
        BY <2>1, <3>2, <4>1, FitsAdds DEF Row
    <3> QED
      BY <2>2, <3>1, <3>2
  <2> QED
    BY <2>2, <2>3, <2>4
<1> QED
  BY <1>1, <1>2

(* Every step keeps what the work relies on.                               *)
LEMMA WorkStep ==
  ASSUME FeedbackInv, UpdatesObserved, WorkInv, [Next]_vars
  PROVE  WorkInv'
<1>1. (completed # <<>> => completed = <<Len(raw)>>)'
  <2>1. CASE Summarize
    BY <2>1 DEF Summarize
  <2>2. CASE ~Summarize
    <3>1. completed' = <<>> \/ (completed' = completed /\ (raw' = raw \/ pc = "poll"))
      BY <2>2 DEF Next, Progress, Poll, CloseEpisode, SummarizeFails, Recover, RecoverFails, Select,
           SelectFails, FeedbackEnds, Skip, Observe, ObserveFails, NoProposal, Apply, ApplyFails,
           RecordReceipt, RecordReceiptFails, Abandon, End, Restart, RestartFails, RecoverAtStart, vars
    <3> QED
      BY <3>1 DEF WorkInv, FeedbackInv, PlaceInv
  <2> QED
    BY <2>1, <2>2
<1>2. (\A i \in DOMAIN todo : todo[i] = Len(raw) - Len(todo) + i)'
  <2>1. CASE Select
    <3>1. raw' = raw /\ todo' = (IF replayed THEN completed ELSE [i \in 1 .. Len(raw) |-> i])
      BY <2>1 DEF Select
    <3>2. Len(raw) \in Nat
      BY DEF FeedbackInv, PlaceInv
    <3>3. CASE ~replayed
      <4>1. Len([i \in 1 .. Len(raw) |-> i]) = Len(raw)
        BY <3>2
      <4> QED
        BY <3>1, <3>2, <3>3, <4>1
    <3>4. CASE replayed /\ completed = <<>>
      BY <3>1, <3>4
    <3>5. CASE replayed /\ completed = <<Len(raw)>>
      BY <3>1, <3>2, <3>5
    <3> QED
      BY <3>3, <3>4, <3>5 DEF WorkInv
  <2>2. CASE ~Select
    <3>1. \/ todo' = <<>>
          \/ todo' = todo /\ raw' = raw
          \/ todo' = Tail(todo) /\ todo # <<>> /\ raw' = raw
      BY <2>2 DEF Next, Progress, Poll, CloseEpisode, Summarize, SummarizeFails, Recover, RecoverFails,
           SelectFails, FeedbackEnds, Skip, Observe, ObserveFails, NoProposal, Apply, ApplyFails,
           RecordReceipt, RecordReceiptFails, Abandon, End, Restart, RestartFails, RecoverAtStart, vars,
           FeedbackInv, PlaceInv
    <3>2. CASE todo' = <<>>
      BY <3>2
    <3>3. CASE todo' = Tail(todo) /\ todo # <<>> /\ raw' = raw
      <4>1. todo \in Seq(1 .. Len(raw)) /\ Len(raw) \in Nat
        BY DEF FeedbackInv, PlaceInv
      <4>2. ASSUME NEW i \in DOMAIN todo'
            PROVE  /\ i + 1 \in DOMAIN todo /\ todo'[i] = todo[i + 1]
                   /\ Len(todo') = Len(todo) - 1 /\ i \in Nat /\ Len(todo) \in Nat
        BY <3>3, <4>1
      <4>3. \A j \in DOMAIN todo : todo[j] = Len(raw) - Len(todo) + j
        BY DEF WorkInv
      <4>4. ASSUME NEW i \in DOMAIN todo'
            PROVE  todo'[i] = Len(raw') - Len(todo') + i
        <5>1. raw' = raw
          BY <3>3
        <5>2. todo'[i] = Len(raw) - Len(todo) + (i + 1)
          BY <4>2, <4>3
        <5> QED
          BY <4>1, <4>2, <5>1, <5>2
      <4> QED
        BY <4>4
    <3> QED
      BY <3>1, <3>2, <3>3 DEF WorkInv
  <2> QED
    BY <2>1, <2>2
<1>3. (pc = "summarize" => \A kind : ~HasRow(kind, Len(raw)))'
  <2> SUFFICES ASSUME pc' = "summarize" PROVE \A kind : ~HasRow(kind, Len(raw))'
    OBVIOUS
  <2>1. CASE UNCHANGED vars
    BY <2>1 DEF vars, HasRow, WorkInv
  <2>2. ASSUME NEW outage \in Outages, CloseEpisode(outage) PROVE \A kind : ~HasRow(kind, Len(raw))'
    <3>1. Len(raw') = Len(raw) + 1 /\ Len(raw) \in Nat /\ history' = history
      BY <2>2 DEF CloseEpisode, FeedbackInv, PlaceInv
    <3>2. \A kind, e : HasRow(kind, e)' => e \in 1 .. Len(raw)
      BY <3>1 DEF HasRow, FeedbackInv, HistoryInv
    <3> QED
      BY <3>1, <3>2
  <2>3. UNCHANGED vars \/ \E outage \in Outages : CloseEpisode(outage)
    BY DEF Next, Progress, Poll, Summarize, SummarizeFails, Recover, RecoverFails, Select,
         SelectFails, FeedbackEnds, Skip, Observe, ObserveFails, NoProposal, Apply, ApplyFails,
         RecordReceipt, RecordReceiptFails, Abandon, End, Restart, RestartFails, RecoverAtStart, vars
  <2> QED
    BY <2>1, <2>2, <2>3
<1>4. \A kind, e : HasRow("self_test", e)' /\ HasRow(kind, e)' => kind = "self_test"
  BY SelfTestsStep
<1>5. (pc \in {"select", "event", "propose"} => Settled(memory.receipt))'
  <2> SUFFICES ASSUME pc' \in {"select", "event", "propose"} PROVE Settled(memory.receipt)'
    OBVIOUS
  <2>1. \A kind, e : HasRow(kind, e) => HasRow(kind, e)'
    BY StepAdds, RowsAfter
  <2>2. CASE Recover \/ RecordReceipt
    <3>1. memory' = memory /\ history' = WithReceipt(memory.receipt) /\ pc \in {"recover", "receipt"}
      BY <2>2 DEF Recover, RecordReceipt
    <3>2. CASE Settled(memory.receipt)
      BY <2>1, <3>1, <3>2 DEF Settled
    <3>3. CASE ~Settled(memory.receipt)
      <4> DEFINE row == UpdateRow(memory.receipt)
      <4>1. history' = Append(history, row) /\ row.kind = "model_update" /\ row.at = memory.receipt.at
        BY <3>1, <3>3 DEF Settled, WithReceipt, UpdateRow
      <4>2. Len(history) + 1 \in DOMAIN history' /\ history'[Len(history) + 1] = row
        BY <4>1 DEF FeedbackInv, HistoryInv
      <4> HIDE DEF row
      <4> QED
        BY <3>1, <4>1, <4>2 DEF Settled, HasRow
    <3> QED
      BY <3>2, <3>3
  <2>3. CASE ~(Recover \/ RecordReceipt)
    <3>1. memory' = memory /\ pc \in {"select", "event", "propose"}
      BY <2>3 DEF Next, Progress, Poll, CloseEpisode, Summarize, SummarizeFails, RecoverFails, Select,
         SelectFails, FeedbackEnds, Skip, Observe, ObserveFails, NoProposal, Apply, ApplyFails,
         RecordReceiptFails, Abandon, End, Restart, RestartFails, RecoverAtStart, vars
    <3> QED
      BY <2>1, <3>1 DEF WorkInv, Settled
  <2> QED
    BY <2>2, <2>3
<1> QED
  BY <1>1, <1>2, <1>3, <1>4, <1>5 DEF WorkInv

(* Every step but the loss of an episode's row keeps the rows in order.    *)
LEMMA InOrderStep ==
  ASSUME FeedbackInv, UpdatesObserved, WorkInv, InOrder, [Next]_vars,
         ~SummarizeFails, End => pc # "summarize"
  PROVE  InOrder'
<1>1. history' = history \/ \E row : Fits(row) /\ history' = Append(history, row)
  BY StepWrites DEF Writes
<1>2. \A kind, e : HasRow(kind, e) => HasRow(kind, e)'
  BY StepAdds, RowsAfter
<1>3. RowsRanked'
  <2>1. CASE history' = history
    BY <2>1 DEF InOrder, RowsRanked
  <2>2. ASSUME NEW row, Fits(row), history' = Append(history, row) PROVE RowsRanked'
    <3>1. history \in Seq(Row) /\ row \in Row /\ row.at \in 1 .. Len(raw)
      BY <2>2, FitsAdds
    <3>2. ASSUME NEW i \in DOMAIN history, history[i].at = row.at
          PROVE  Rank(history[i].kind) < Rank(row.kind)
      <4>1. HasRow(history[i].kind, row.at) /\ history[i].kind # row.kind
        BY <2>2, <3>2 DEF HasRow, Fits
      <4>2. history[i] \in Row
        BY <3>1
      <4>3. CASE row.kind \in {"blackout", "self_test"}
        <5>1. ~Episode(row.at) /\ pc \in {"summarize", "down"}
          BY <2>2, <4>3 DEF Fits
        <5>2. pc = "summarize" => row.at = Len(raw)
          BY <2>2, <4>3 DEF Fits
        <5>3. pc = "summarize"
          BY <3>1, <5>1 DEF InOrder
        <5> QED
          BY <4>1, <5>2, <5>3 DEF WorkInv
      <4>4. CASE row.kind = "ir_observation"
        <5>1. history[i].kind # "model_update"
          BY <2>2, <4>1, <4>4 DEF UpdatesObserved, Fits
        <5> QED
          BY <4>1, <4>2, <4>4, <5>1 DEF Rank, Row
      <4>5. CASE row.kind = "model_update"
        BY <4>1, <4>2, <4>5 DEF Rank, Row
      <4> QED
        BY <3>1, <4>3, <4>4, <4>5 DEF Row
    <3> QED
      BY <2>2, <3>1, <3>2, RanksAppended DEF InOrder
  <2> QED
    BY <1>1, <2>1, <2>2
<1>4. (\A e \in 1 .. Len(raw) : Episode(e) \/ (pc = "summarize" /\ e = Len(raw)))'
  <2>1. ASSUME NEW outage \in Outages, CloseEpisode(outage), NEW e \in 1 .. Len(raw')
        PROVE  Episode(e)' \/ (pc' = "summarize" /\ e = Len(raw'))
    <3>1. pc = "poll" /\ pc' = "summarize" /\ Len(raw') = Len(raw) + 1 /\ Len(raw) \in Nat
      BY <2>1 DEF CloseEpisode, FeedbackInv, PlaceInv
    <3>2. e = Len(raw') \/ e \in 1 .. Len(raw)
      BY <2>1, <3>1
    <3> QED
      BY <1>2, <3>1, <3>2 DEF InOrder, Episode
  <2>2. CASE Summarize
    <3>1. Len(raw) \in 1 .. Len(raw) /\ raw' = raw /\ pc = "summarize"
      BY <2>2 DEF Summarize, FeedbackInv, PlaceInv
    <3>2. \A e : e = Len(raw) => Episode(e)'
      <4>1. PICK kind \in {"blackout", "self_test"} :
              kind = (IF raw[Len(raw)].test THEN "self_test" ELSE "blackout")
        OBVIOUS
      <4>2. /\ history' = Append(history, EpisodeRow(Len(raw), kind))
            /\ EpisodeRow(Len(raw), kind).at = Len(raw) /\ EpisodeRow(Len(raw), kind).kind = kind
        BY <2>2, <3>1, <4>1 DEF Summarize, WithEpisode, WorkInv, EpisodeRow
      <4>3. Len(history) + 1 \in DOMAIN history'
            /\ history'[Len(history) + 1] = EpisodeRow(Len(raw), kind)
        BY <4>2 DEF FeedbackInv, HistoryInv
      <4> QED
        BY <4>2, <4>3 DEF HasRow, Episode
    <3> QED
      BY <1>2, <3>1, <3>2 DEF InOrder, Episode
  <2>3. CASE ~Summarize /\ ~(\E outage \in Outages : CloseEpisode(outage))
    <3>1. raw' = raw /\ (pc = "summarize" => pc' = "summarize")
      BY <2>3 DEF Next, Progress, Poll, SummarizeFails, Recover, RecoverFails, Select, SelectFails,
         FeedbackEnds, Skip, Observe, ObserveFails, NoProposal, Apply, ApplyFails, RecordReceipt,
         RecordReceiptFails, Abandon, End, Restart, RestartFails, RecoverAtStart, vars
    <3> QED
      BY <1>2, <3>1 DEF InOrder, Episode
  <2> QED
    BY <2>1, <2>2, <2>3
<1>5. (pc = "propose" => ~HasRow("model_update", Head(todo)))'
  <2> SUFFICES ASSUME pc' = "propose" PROVE ~HasRow("model_update", Head(todo))'
    OBVIOUS
  <2>1. CASE UNCHANGED vars
    BY <2>1 DEF vars, HasRow, InOrder
  <2>2. CASE Observe
    <3>1. pc = "event" /\ todo' = todo /\ ~Skipped(Head(todo))
      BY <2>2 DEF Observe
    <3>2. HasRow("model_update", Head(todo))' => HasRow("model_update", Head(todo))
      <4>1. ASSUME NEW row, Fits(row), history' = Append(history, row)
            PROVE  HasRow("model_update", Head(todo))' => HasRow("model_update", Head(todo))
        BY <3>1, <4>1, FitsAdds DEF Fits
      <4> QED
        BY <1>1, <3>1, <4>1 DEF HasRow
    <3>3. ~HasRow("model_update", Head(todo))
      <4> SUFFICES ASSUME HasRow("model_update", Head(todo)) PROVE FALSE
        OBVIOUS
      <4>1. /\ HasRow(EventKind(Head(todo)), Head(todo))
            /\ Rank("model_update") <= Rank(EventKind(Head(todo)))
        BY EventKindRanks DEF InOrder, FeedbackInv, HistoryInv
      <4>2. EventKind(Head(todo)) = "model_update"
        <5>1. EventKind(Head(todo)) \in {"blackout", "self_test", "ir_observation", "model_update"}
          BY <4>1 DEF HasRow, FeedbackInv, HistoryInv, Row
        <5> QED
          BY <4>1, <5>1 DEF Rank
      <4> QED
        BY <3>1, <4>2 DEF Skipped
    <3> QED
      BY <3>1, <3>2, <3>3
  <2>3. Observe \/ UNCHANGED vars
    BY DEF Next, Progress, Poll, CloseEpisode, Summarize, SummarizeFails, Recover, RecoverFails, Select,
         SelectFails, FeedbackEnds, Skip, ObserveFails, NoProposal, Apply, ApplyFails,
         RecordReceipt, RecordReceiptFails, Abandon, End, Restart, RestartFails, RecoverAtStart, vars
  <2> QED
    BY <2>1, <2>2, <2>3
<1> QED
  BY <1>3, <1>4, <1>5 DEF InOrder

(* The key of the last update, against the numbers of the outages.         *)
LEMMA LastUpdateRange ==
  ASSUME FeedbackInv
  PROVE  LastUpdate \in Nat
<1> DEFINE Ups == {i \in DOMAIN history : history[i].kind = "model_update"}
           last == CHOOSE i \in Ups : \A j \in Ups : j <= i
<1>1. CASE Ups = {}
  BY <1>1 DEF LastUpdate
<1>2. CASE Ups # {}
  <2>1. Ups \in SUBSET Nat /\ Len(history) \in Nat /\ \A i \in Ups : i <= Len(history)
    BY DEF FeedbackInv, HistoryInv
  <2>2. last \in Ups
    BY <1>2, <2>1, LastOf
  <2>3. LastUpdate = history[last].at
    BY <1>2 DEF LastUpdate
  <2>4. history[last] \in Row
    BY <2>2 DEF FeedbackInv, HistoryInv
  <2> HIDE DEF last
  <2> QED
    BY <2>3, <2>4 DEF Row
<1> QED
  BY <1>1, <1>2

(* There is evidence where there is a proposal.                            *)
LEMMA ProposingCohort == Proposing => Cohort # {}
<1>1. Cardinality({}) = 0
  BY FS_EmptySet
<1> QED
  BY <1>1 DEF Proposing, Proposes, Evidence, MinCohort

(* A step after which there is no proposal.                                *)
LEMMA AdvancingRests ==
  ASSUME Advancing, UNCHANGED <<model, memory>>, LastUpdate' = LastUpdate,
         \A e : HasRow("model_update", e)' <=> HasRow("model_update", e),
         pc # "receipt", pc' # "receipt", ~Proposing'
  PROVE  Advancing'
BY DEF Advancing, Settled

(* Steps that leave model, memory and evidence as they are, while nothing  *)
(* is proposed.                                                            *)
LEMMA AdvancingQuiet ==
  ASSUME FeedbackInv, Advancing, [Next]_vars,
         UNCHANGED <<model, memory>>, pc # "receipt", pc' # "receipt",
         \A row : Fits(row) /\ history' = Append(history, row) => row.kind \in {"blackout", "self_test"},
         ~Proposing
  PROVE  Advancing'
<1>1. CASE history' = history
  <2>1. \A kind, e : HasRow(kind, e)' <=> HasRow(kind, e)
    BY <1>1 DEF HasRow
  <2>2. LastUpdate' = LastUpdate
    BY <1>1 DEF LastUpdate
  <2>3. /\ Len(raw) \in Nat /\ Len(raw') \in Nat /\ Len(raw') >= Len(raw)
        /\ \A e \in 1 .. Len(raw) : raw'[e] = raw[e]
    <3>1. raw \in Seq(Outages)
      BY DEF FeedbackInv, PlaceInv
    <3>2. raw' = raw \/ \E outage \in Outages : raw' = Append(raw, outage)
      BY DEF Next, Progress, Poll, CloseEpisode, Summarize, SummarizeFails, Recover, RecoverFails, Select,
         SelectFails, FeedbackEnds, Skip, Observe, ObserveFails, NoProposal, Apply, ApplyFails,
         RecordReceipt, RecordReceiptFails, End, Restart, RestartFails, RecoverAtStart, vars
    <3> QED
      BY <3>1, <3>2
  <2>4. \A e : HasRow("ir_observation", e) => e \in 1 .. Len(raw)
    BY DEF FeedbackInv, HistoryInv
  <2>5. Evidence' = Evidence
    BY <2>1, <2>2, <2>3, <2>4, EvidenceKept
  <2>6. ~Proposing'
    BY <2>5, ProposingKept
  <2> QED
    BY <2>1, <2>2, <2>6, AdvancingRests
<1>2. CASE history' # history
  <2>1. PICK row : Fits(row) /\ history' = Append(history, row)
    BY <1>2, StepWrites DEF Writes
  <2>2. row \in Row /\ row.kind \in {"blackout", "self_test"}
    BY <2>1 DEF Fits, Addable
  <2>3. raw' = raw
    BY <1>2 DEF Next, Progress, Poll, CloseEpisode, Summarize, SummarizeFails, Recover, RecoverFails, Select,
       SelectFails, FeedbackEnds, Skip, Observe, ObserveFails, NoProposal, Apply, ApplyFails,
       RecordReceipt, RecordReceiptFails, End, Restart, RestartFails, RecoverAtStart, vars
  <2>4. /\ \A kind, e : HasRow(kind, e)' <=> HasRow(kind, e) \/ (row.kind = kind /\ row.at = e)
        /\ LastUpdate' = LastUpdate
        /\ Proposing' <=> Proposing
    BY <2>1, <2>2, <2>3, EpisodeRowQuiet
  <2>5. \A e : HasRow("model_update", e)' <=> HasRow("model_update", e)
    BY <2>2, <2>4
  <2> QED
    BY <2>4, <2>5, AdvancingRests
<1> QED
  BY <1>1, <1>2

(* An outage that is passed over is in no cohort.                          *)
LEMMA SkippedOutside ==
  ASSUME FeedbackInv, UpdatesObserved, WorkInv, Advancing, NEW e, Skipped(e)
  PROVE  e \notin Cohort
<1> SUFFICES ASSUME HasRow("ir_observation", e), e > LastUpdate PROVE FALSE
  BY DEF Cohort
<1>1. HasRow(EventKind(e), e) /\ raw[e].estimate # NoStep
  BY EventHasKind DEF FeedbackInv, HistoryInv
<1>2. EventKind(e) # "self_test"
  BY <1>1 DEF WorkInv
<1>3. EventKind(e) # "model_update"
  <2>1. e \in Nat /\ LastUpdate \in Nat
    BY LastUpdateRange DEF FeedbackInv, HistoryInv
  <2> QED
    BY <1>1, <2>1 DEF Advancing
<1> QED
  BY <1>1, <1>2, <1>3 DEF Skipped

(* What comes after the outage that is visited.                            *)
LEMMA NextOutage ==
  ASSUME FeedbackInv, WorkInv, todo # <<>>, todo' = Tail(todo)
  PROVE  /\ Head(todo) \in Nat /\ Len(raw) \in Nat
         /\ todo' = <<>> => Head(todo) = Len(raw)
         /\ todo' # <<>> => Head(todo') = Head(todo) + 1
<1>1. todo \in Seq(1 .. Len(raw)) /\ Len(raw) \in Nat
  BY DEF FeedbackInv, PlaceInv
<1>2. \A i \in DOMAIN todo : todo[i] = Len(raw) - Len(todo) + i
  BY DEF WorkInv
<1>3. Head(todo) = Len(raw) - Len(todo) + 1 /\ Len(todo) \in Nat
  <2>1. 1 \in DOMAIN todo /\ Head(todo) = todo[1] /\ Len(todo) \in Nat
    BY <1>1
  <2> QED
    BY <1>2, <2>1
<1>4. CASE todo' = <<>>
  <2>1. Len(Tail(todo)) = Len(todo) - 1
    BY <1>1
  <2>2. Len(todo) = 1
    BY <1>3, <1>4, <2>1
  <2> QED
    BY <1>1, <1>3, <1>4, <2>2
<1>5. CASE todo' # <<>>
  <2>1. 2 \in DOMAIN todo /\ Head(todo') = todo[2]
    BY <1>1, <1>5
  <2>2. Head(todo') = Len(raw) - Len(todo) + 2
    BY <1>2, <2>1
  <2> QED
    BY <1>1, <1>3, <1>5, <2>2
<1> QED
  BY <1>4, <1>5

(* The visit of an outage that is passed over ...                          *)
LEMMA AdvancingSkip ==
  ASSUME FeedbackInv, UpdatesObserved, WorkInv, Advancing, Skip
  PROVE  Advancing'
<1> DEFINE e == Head(todo)
<1>1. /\ pc = "event" /\ pc' = "event" /\ todo # <<>> /\ Skipped(e) /\ todo' = Tail(todo)
      /\ UNCHANGED <<raw, history, model, memory>>
  BY DEF Skip
<1>2. /\ \A kind, f : HasRow(kind, f)' <=> HasRow(kind, f)
      /\ LastUpdate' = LastUpdate
      /\ Proposing' <=> Proposing
  BY <1>1, SameHistory
<1>3. CASE ~Proposing
  BY <1>1, <1>2, <1>3, AdvancingRests
<1>4. CASE Proposing
  <2>1. LastUpdate < e /\ \A f \in Cohort : e <= f
    BY <1>1, <1>4 DEF Advancing
  <2>2. PICK f \in Cohort : TRUE
    BY <1>4, ProposingCohort
  <2>3. /\ e \in Nat /\ Len(raw) \in Nat /\ LastUpdate \in Nat
        /\ todo' = <<>> => e = Len(raw)
        /\ todo' # <<>> => Head(todo') = e + 1
    BY <1>1, NextOutage, LastUpdateRange
  <2>4. \A g \in Cohort : g \in 1 .. Len(raw) /\ e + 1 <= g
    BY <1>1, <2>1, <2>3, SkippedOutside DEF Cohort
  <2>5. todo' # <<>>
    BY <2>2, <2>3, <2>4
  <2>6. Cohort' = Cohort
    BY <1>1, <1>2 DEF Cohort
  <2>7. LastUpdate' < Head(todo') /\ \A g \in Cohort' : Head(todo') <= g
    BY <1>2, <2>1, <2>3, <2>4, <2>5, <2>6
  <2> QED
    BY <1>1, <1>2, <2>5, <2>7 DEF Advancing, Settled
<1> QED
  BY <1>3, <1>4

(* ... of one that is recorded ...                                         *)
LEMMA AdvancingObserve ==
  ASSUME FeedbackInv, WorkInv, Advancing, Observe
  PROVE  Advancing'
<1> DEFINE e == Head(todo)
<1>1. /\ pc = "event" /\ pc' = "propose" /\ todo # <<>> /\ todo' = todo
      /\ UNCHANGED <<raw, model, memory>>
      /\ history' = WithObservation(e)
  BY DEF Observe
<1>2. e \in Nat /\ LastUpdate \in Nat
  BY <1>1, HeadIsEvent, LastUpdateRange
<1>3. CASE HasRow("ir_observation", e)
  <2>1. history' = history
    BY <1>1, <1>3 DEF WithObservation
  <2>2. /\ \A kind, f : HasRow(kind, f)' <=> HasRow(kind, f)
        /\ LastUpdate' = LastUpdate
        /\ Proposing' <=> Proposing
    BY <1>1, <2>1, SameHistory
  <2> QED
    BY <1>1, <2>2 DEF Advancing, Settled
<1>4. CASE ~HasRow("ir_observation", e)
  <2> DEFINE row == IrRow(e)
  <2>1. history' = Append(history, row) /\ row \in Row /\ history \in Seq(Row)
        /\ row.kind = "ir_observation" /\ row.at = e
    BY <1>1, <1>2, <1>4 DEF WithObservation, IrRow, Row, FeedbackInv, HistoryInv
  <2> HIDE DEF row
  <2>2. \A kind, f : HasRow(kind, f)' <=> HasRow(kind, f) \/ (row.kind = kind /\ row.at = f)
    BY <2>1, RowAppended
  <2>3. LastUpdate' = LastUpdate
    BY <2>1, LastUpdateKept
  <2>4. \A f : HasRow("model_update", f)' <=> HasRow("model_update", f)
    BY <2>1, <2>2
  <2>5. Proposing' => LastUpdate < e
    <3>1. CASE LastUpdate < e
      BY <3>1
    <3>2. CASE ~(LastUpdate < e)
      <4>1. Cohort' = Cohort
        <5>1. \A f : f > LastUpdate => (HasRow("ir_observation", f)' <=> HasRow("ir_observation", f))
          BY <1>2, <2>1, <2>2, <3>2
        <5> QED
          BY <1>1, <2>3, <5>1 DEF Cohort
      <4>2. Evidence' = Evidence
        BY <1>1, <4>1 DEF Evidence
      <4>3. Proposing' <=> Proposing
        BY <1>1, <4>2, ProposingKept
      <4> QED
        BY <1>1, <3>2, <4>3 DEF Advancing
    <3> QED
      BY <3>1, <3>2
  <2> QED
    BY <1>1, <2>3, <2>4, <2>5 DEF Advancing, Settled
<1> QED
  BY <1>3, <1>4

(* ... that yields a correction ...                                        *)
LEMMA AdvancingApply ==
  ASSUME FeedbackInv, WorkInv, Advancing, Apply
  PROVE  Advancing'
<1>1. /\ pc = "propose" /\ pc' = "receipt" /\ todo' = todo /\ Applies(Head(todo))
      /\ UNCHANGED <<raw, history>>
      /\ model' = Corrected(Head(todo)) /\ memory' = model'
  BY DEF Apply, Rename
<1>2. memory'.receipt.at = Head(todo)
  BY <1>1 DEF Corrected
<1>3. LastUpdate < Head(todo)
  BY <1>1 DEF Advancing, Applies, Proposing
<1>4. LastUpdate' = LastUpdate /\ \A e : HasRow("model_update", e)' <=> HasRow("model_update", e)
  BY <1>1 DEF LastUpdate, HasRow
<1> QED
  BY <1>1, <1>2, <1>3, <1>4 DEF Advancing

(* ... and its row.                                                        *)
LEMMA AdvancingReceipt ==
  ASSUME FeedbackInv, WorkInv, Advancing, RecordReceipt
  PROVE  Advancing'
<1> DEFINE e == Head(todo)
           row == UpdateRow(memory.receipt)
<1>1. /\ pc = "receipt" /\ pc' = "event" /\ todo # <<>> /\ todo' = Tail(todo)
      /\ UNCHANGED <<raw, model, memory>> /\ history' = WithReceipt(memory.receipt)
  BY DEF RecordReceipt, FeedbackInv, PlaceInv
<1>2. /\ e \in 1 .. Len(raw) /\ LastUpdate \in Nat /\ Len(raw) \in Nat
      /\ memory.receipt.at = e /\ LastUpdate < e
  BY <1>1, HeadIsEvent, LastUpdateRange DEF Advancing
<1>3. ~HasRow("model_update", e) /\ memory.receipt # NoReceipt /\ memory.receipt \in Receipt
  BY <1>2 DEF Advancing, NoReceipt, FeedbackInv, ModelInv, State
<1>4. /\ history' = Append(history, row) /\ row \in Row /\ history \in Seq(Row)
      /\ row.kind = "model_update" /\ row.at = e
  BY <1>1, <1>2, <1>3 DEF WithReceipt, UpdateRow, Receipt, Row, FeedbackInv, HistoryInv
<1> HIDE DEF row
<1>5. \A kind, f : HasRow(kind, f)' <=> HasRow(kind, f) \/ (row.kind = kind /\ row.at = f)
  BY <1>4, RowAppended
<1>6. LastUpdate' = e
  BY <1>4, LastUpdateAppended
<1>7. \A f : HasRow("model_update", f)' => f <= LastUpdate'
  <2>1. \A f : HasRow("model_update", f) => f \in Nat /\ f <= LastUpdate
    BY DEF Advancing, FeedbackInv, HistoryInv
  <2> QED
    BY <1>2, <1>4, <1>5, <1>6, <2>1
<1>8. LastUpdate' = memory'.receipt.at /\ Settled(memory.receipt)'
  BY <1>1, <1>2, <1>4, <1>5, <1>6 DEF Settled
<1>9. ASSUME Proposing'
      PROVE  todo' # <<>> /\ LastUpdate' < Head(todo') /\ \A f \in Cohort' : Head(todo') <= f
  <2>1. /\ todo' = <<>> => e = Len(raw)
        /\ todo' # <<>> => Head(todo') = e + 1
    BY <1>1, NextOutage
  <2>2. \A f \in Cohort' : f \in 1 .. Len(raw) /\ f > e
    BY <1>1, <1>6 DEF Cohort
  <2>3. Cohort' # {}
    <3>1. Cohort' = {} => (DOMAIN Evidence)' = {}
      BY DEF Evidence
    <3>2. Cardinality({}) = 0
      BY FS_EmptySet
    <3> QED
      BY <1>9, <3>1, <3>2 DEF Proposing, Proposes, MinCohort
  <2>4. todo' # <<>>
    BY <1>2, <2>1, <2>2, <2>3
  <2> QED
    BY <1>2, <1>6, <2>1, <2>2, <2>4
<1> QED
  BY <1>1, <1>7, <1>8, <1>9 DEF Advancing

(* Every step but another fault keeps the advance.                         *)
LEMMA AdvancingStep ==
  ASSUME FeedbackInv, UpdatesObserved, WorkInv, Advancing, [Next]_vars,
         \/ faults' = faults
         \/ SummarizeFails
         \/ End /\ pc = "summarize"
  PROVE  Advancing'
<1>1. CASE Skip
  BY <1>1, AdvancingSkip
<1>2. CASE Observe
  BY <1>2, AdvancingObserve
<1>3. CASE Apply
  BY <1>3, AdvancingApply
<1>4. CASE RecordReceipt
  BY <1>4, AdvancingReceipt
<1>5. CASE UNCHANGED vars
  <2>1. /\ \A kind, f : HasRow(kind, f)' <=> HasRow(kind, f)
        /\ LastUpdate' = LastUpdate
        /\ Proposing' <=> Proposing
    BY <1>5, SameHistory DEF vars
  <2>2. Cohort' = Cohort
    BY <1>5, <2>1 DEF Cohort, vars
  <2> QED
    BY <1>5, <2>1, <2>2 DEF Advancing, Settled, vars
<1>6. CASE NoProposal
  <2>1. pc = "propose" /\ pc' = "event" /\ ~Applies(Head(todo)) /\ UNCHANGED <<history, model, memory>>
        /\ todo # <<>>
    BY <1>6 DEF NoProposal, FeedbackInv, PlaceInv
  <2>2. ~Proposing
    <3>1. Proposing => LastUpdate < Head(todo) /\ LastUpdate = Head(todo)
      BY <2>1 DEF Advancing, Applies, Proposing
    <3>2. LastUpdate \in Nat
      BY LastUpdateRange
    <3> QED
      BY <3>1, <3>2
  <2>3. \A row : ~(history' = Append(history, row))
    BY <2>1 DEF FeedbackInv, HistoryInv
  <2> QED
    BY <2>1, <2>2, <2>3, AdvancingQuiet
<1>7. CASE FeedbackEnds
  <2>1. pc = "event" /\ todo = <<>> /\ pc' = "poll" /\ UNCHANGED <<history, model, memory>>
    BY <1>7 DEF FeedbackEnds
  <2>2. ~Proposing
    BY <2>1 DEF Advancing
  <2>3. \A row : ~(history' = Append(history, row))
    BY <2>1 DEF FeedbackInv, HistoryInv
  <2> QED
    BY <2>1, <2>2, <2>3, AdvancingQuiet
<1>8. CASE ~(Skip \/ Observe \/ Apply \/ RecordReceipt \/ UNCHANGED vars \/ NoProposal \/ FeedbackEnds)
  <2>1. faults \in Nat
    BY FeedbackAssumption DEF FeedbackInv, PlaceInv
  <2>2. /\ pc \in {"poll", "summarize", "recover", "select", "start", "down"}
        /\ pc' \notin {"receipt", "propose"}
        /\ model' = model /\ memory' \in {memory, model}
    BY <1>8, <2>1 DEF Next, Progress, Poll, CloseEpisode, Summarize, SummarizeFails, Recover, RecoverFails,
       Select, SelectFails, ObserveFails, ApplyFails, RecordReceiptFails, AppendFails, Abandon, Fault,
       End, Restart, RestartFails, RecoverAtStart
  <2>3. ~Proposing /\ UNCHANGED <<model, memory>>
    BY <2>2 DEF Advancing
  <2>4. ASSUME NEW row, Fits(row) PROVE row.kind \in {"blackout", "self_test"}
    <3>1. pc \in {"recover", "start"} => Settled(memory.receipt)
      BY <2>2 DEF Advancing
    <3>2. row.kind # "model_update"
      BY <2>2, <2>4, <3>1 DEF Fits, Settled, UpdateRow
    <3>3. row.kind # "ir_observation"
      BY <2>2, <2>4 DEF Fits
    <3>4. row \in Row
      BY <2>4 DEF Fits, Addable
    <3> QED
      BY <3>2, <3>3, <3>4 DEF Row
  <2> QED
    BY <2>2, <2>3, <2>4, AdvancingQuiet
<1> QED
  BY <1>1, <1>2, <1>3, <1>4, <1>5, <1>6, <1>7, <1>8

(* What a first fault strikes leaves one of the two intact.                *)
LEMMA KeysStep ==
  ASSUME FeedbackInv, UpdatesObserved, WorkInv, FaultlessInv, KeysInv, [Next]_vars
  PROVE  KeysInv'
<1>1. faults \in Nat /\ (faults' = faults \/ Fault)
  BY FaultsGrow
<1>2. faults = 0 => InOrder /\ Advancing
  BY DEF KeysInv, FaultlessInv, Faultless, SettledInv, CohortInv, InOrder
<1>3. SummarizeFails \/ (End /\ pc = "summarize") => faults' = faults + 1
  BY DEF SummarizeFails, AppendFails, End, Fault
<1>4. CASE faults' = 0
  <2>1. faults = 0 /\ faults' = faults
    BY <1>1, <1>4 DEF Fault
  <2> QED
    BY <1>2, <1>4, <2>1, AdvancingStep DEF KeysInv
<1>5. CASE faults' = 1
  <2>1. CASE faults = 0 /\ (SummarizeFails \/ (End /\ pc = "summarize"))
    BY <1>2, <1>5, <2>1, AdvancingStep DEF KeysInv
  <2>2. CASE faults = 0 /\ ~(SummarizeFails \/ (End /\ pc = "summarize"))
    BY <1>2, <1>5, <2>2, InOrderStep DEF KeysInv
  <2>3. CASE faults = 1
    <3>1. faults' = faults /\ ~(SummarizeFails \/ (End /\ pc = "summarize"))
      BY <1>1, <1>3, <1>5, <2>3
    <3>2. CASE InOrder
      BY <1>5, <3>1, <3>2, InOrderStep DEF KeysInv
    <3>3. CASE Advancing
      BY <1>5, <3>1, <3>3, AdvancingStep DEF KeysInv
    <3> QED
      BY <2>3, <3>2, <3>3 DEF KeysInv
  <2> QED
    BY <1>1, <1>5, <2>1, <2>2, <2>3 DEF Fault
<1>6. CASE faults' \notin {0, 1}
  BY <1>6 DEF KeysInv
<1> QED
  BY <1>4, <1>5, <1>6

(* A correction is keyed by an outage that has no update yet.              *)
LEMMA KeyIsFresh ==
  ASSUME FeedbackInv, KeysInv, faults <= 1, pc = "propose", Applies(Head(todo))
  PROVE  ~HasRow("model_update", Head(todo))
<1>1. InOrder \/ Advancing
  <2>1. faults \in Nat
    BY FeedbackAssumption DEF FeedbackInv, PlaceInv
  <2> QED
    BY <2>1 DEF KeysInv
<1>2. CASE InOrder
  BY <1>2 DEF InOrder
<1>3. CASE Advancing
  <2>1. LastUpdate < Head(todo)
    BY <1>3 DEF Advancing, Applies, Proposing
  <2>2. HasRow("model_update", Head(todo)) => Head(todo) <= LastUpdate
    BY <1>3 DEF Advancing
  <2>3. LastUpdate \in Nat /\ Head(todo) \in Nat
    BY LastUpdateRange, HeadIsEvent DEF FeedbackInv, PlaceInv
  <2> QED
    BY <2>1, <2>2, <2>3
<1> QED
  BY <1>1, <1>2, <1>3

-----------------------------------------------------------------------------
(* Other rows leave the log of the corrections as it is ...                *)
LEMMA LogKept ==
  ASSUME history \in Seq(Row), NEW row \in Row, row.kind # "model_update",
         history' \in {history, Append(history, row)}
  PROVE  Logged' = Logged /\ Audit!Accounted' = Audit!Accounted
<1>1. UpdateRows' = UpdateRows /\ \A i \in UpdateRows : history'[i] = history[i]
  BY DEF UpdateRows
<1>2. Logged' = Logged
  BY <1>1 DEF Logged
<1> QED
  BY <1>2 DEF Audit!Accounted, Audit!Latest

(* ... and a correction is added behind the others.                        *)
LEMMA LogAppended ==
  ASSUME history \in Seq(Row), NEW row \in Row, row.kind = "model_update",
         history' = Append(history, row)
  PROVE  LET new == Len(history) + 1
         IN  /\ new \in DOMAIN Logged'
             /\ \A place \in DOMAIN Logged : place < new
             /\ Logged' = [place \in DOMAIN Logged \cup {new} |->
                             IF place = new THEN [at |-> row.at, from |-> row.from, to |-> row.to]
                             ELSE Logged[place]]
             /\ Audit!Accounted' = row.to
<1> DEFINE new == Len(history) + 1
<1>1. /\ UpdateRows' = UpdateRows \cup {new} /\ history'[new] = row
      /\ \A i \in UpdateRows : history'[i] = history[i] /\ i < new
      /\ new \in Nat /\ UpdateRows \in SUBSET Nat
  BY DEF UpdateRows
<1> HIDE DEF new
<1>2. DOMAIN Logged = UpdateRows /\ DOMAIN Logged' = UpdateRows'
  BY DEF Logged
<1>3. \A place \in UpdateRows' : Logged'[place] =
        (IF place = new THEN [at |-> row.at, from |-> row.from, to |-> row.to] ELSE Logged[place])
  BY <1>1 DEF Logged
<1>4. Logged' = [place \in DOMAIN Logged \cup {new} |->
                   IF place = new THEN [at |-> row.at, from |-> row.from, to |-> row.to]
                   ELSE Logged[place]]
  <2>1. Logged' = [place \in UpdateRows' |-> Logged'[place]]
    BY DEF Logged
  <2> QED
    BY <1>1, <1>2, <1>3, <2>1
<1>5. Audit!Accounted' = row.to
  <2> DEFINE last == CHOOSE place \in DOMAIN Logged' : \A earlier \in DOMAIN Logged' : earlier <= place
  <2>1. last = new
    <3>1. /\ new \in DOMAIN Logged'
          /\ \A place \in DOMAIN Logged' : place \in Nat /\ place <= new
      <4>1. \A place \in UpdateRows : place \in Nat /\ place <= new
        BY <1>1
      <4>2. DOMAIN Logged' = UpdateRows \cup {new} /\ new \in Nat
        BY <1>1, <1>2
      <4> HIDE DEF last
      <4> QED
        BY <4>1, <4>2
    <3>2. last \in DOMAIN Logged' /\ \A place \in DOMAIN Logged' : place <= last
      BY <3>1
    <3>3. last \in Nat /\ new \in Nat /\ last <= new /\ new <= last
      BY <3>1, <3>2
    <3> HIDE DEF last
    <3> QED
      BY <3>3
  <2>2. Logged'[new].to = row.to
    BY <1>1, <1>3
  <2> QED
    BY <1>1, <1>2, <2>1, <2>2 DEF Audit!Accounted, Audit!Latest
<1> QED
  BY <1>1, <1>2, <1>4, <1>5 DEF new

(* A correction takes a step down of at most the largest.                  *)
LEMMA CorrectionStep ==
  ASSUME FeedbackInv, NEW e \in 1 .. Len(raw), Applies(e)
  PROVE  /\ Corrected(e).receipt = [at |-> e, from |-> memory.k, to |-> Corrected(e).k]
         /\ \E step \in 1 .. MaxStep : Corrected(e).k = memory.k - step
<1> DEFINE to == ToValue(Evidence, memory.k)
<1>1. Corrected(e).k = to /\ Corrected(e).receipt = [at |-> e, from |-> memory.k, to |-> to]
  BY DEF Corrected
<1>2. to \in Nat /\ memory.k \in Nat /\ to < memory.k
  BY <1>1, CorrectedRange, FeedbackAssumption DEF State, MinK, MaxK, FeedbackInv, ModelInv
<1>3. to >= memory.k - MaxStep
  BY <1>2 DEF ToValue, MaxStep
<1> HIDE DEF to
<1>4. memory.k - to \in 1 .. MaxStep /\ to = memory.k - (memory.k - to)
  BY <1>2, <1>3 DEF MaxStep
<1> QED
  BY <1>1, <1>4

(* The three kinds of steps the account distinguishes: a correction ...    *)
LEMMA AccountCorrects ==
  ASSUME FeedbackInv, WorkInv, KeysInv, AccountInv, faults <= 1,
         Apply \/ ApplyFails(TRUE)
  PROVE  /\ Head(todo) \in 1 .. Len(raw) /\ Applies(Head(todo))
         /\ model' = Corrected(Head(todo)) /\ memory' \in {memory, model'} /\ history' = history
         /\ Audit!Accounted = memory.k /\ Settled(memory.receipt)
         /\ ~HasRow("model_update", Head(todo))
<1>1. /\ pc = "propose" /\ Applies(Head(todo)) /\ model' = Corrected(Head(todo))
      /\ memory' \in {memory, model'} /\ history' = history
  BY DEF Apply, ApplyFails, Rename
<1>2. Head(todo) \in 1 .. Len(raw)
  BY <1>1, HeadIsEvent DEF FeedbackInv, PlaceInv
<1>3. Settled(memory.receipt)
  BY <1>1 DEF WorkInv
<1>4. Audit!Accounted = memory.k
  BY <1>3 DEF AccountInv
<1> QED
  BY <1>1, <1>2, <1>3, <1>4, KeyIsFresh

(* ... its row ...                                                         *)
LEMMA AccountLogs ==
  ASSUME FeedbackInv, AccountInv, faults <= 1, [Next]_vars,
         NEW row, Fits(row), history' = Append(history, row), row.kind = "model_update"
  PROVE  /\ row = UpdateRow(model.receipt) /\ ~Settled(model.receipt)
         /\ UNCHANGED <<model, memory>> /\ memory = model
         /\ HasRow("model_update", model.receipt.at)'
<1>1. row = UpdateRow(memory.receipt) /\ ~Settled(memory.receipt)
      /\ pc \in {"recover", "receipt", "start"}
  BY DEF Fits, Settled, UpdateRow
<1>2. memory = model
  BY <1>1 DEF AccountInv
<1>3. history' # history
  BY DEF FeedbackInv, HistoryInv
<1>4. UNCHANGED <<model, memory>>
  BY <1>1, <1>3 DEF Next, Progress, Poll, CloseEpisode, Summarize, SummarizeFails, Recover, RecoverFails,
     Select, SelectFails, FeedbackEnds, Skip, Observe, ObserveFails, NoProposal, Apply, ApplyFails,
     RecordReceipt, RecordReceiptFails, End, Restart, RestartFails, RecoverAtStart, vars
<1>5. HasRow("model_update", row.at)'
  BY FitsAdds
<1>6. row.at = model.receipt.at
  BY <1>1, <1>2 DEF UpdateRow
<1>7. HasRow("model_update", model.receipt.at)'
  <2>1. \A e : e = row.at => HasRow("model_update", e)'
    BY FitsAdds
  <2> QED
    BY <1>4, <1>6, <2>1
<1> QED
  BY <1>1, <1>2, <1>4, <1>7

(* ... or neither.                                                         *)
LEMMA AccountKept ==
  ASSUME FeedbackInv, [Next]_vars, ~Apply, ~ApplyFails(TRUE),
         \A row : Fits(row) /\ history' = Append(history, row) => row.kind # "model_update"
  PROVE  /\ model' = model /\ memory' \in {memory, model}
         /\ Logged' = Logged /\ Audit!Accounted' = Audit!Accounted
         /\ \A e : HasRow("model_update", e)' <=> HasRow("model_update", e)
<1>1. model' = model /\ memory' \in {memory, model}
  BY DEF Next, Progress, Poll, CloseEpisode, Summarize, SummarizeFails, Recover, RecoverFails,
     Select, SelectFails, FeedbackEnds, Skip, Observe, ObserveFails, NoProposal, ApplyFails,
     RecordReceipt, RecordReceiptFails, End, Restart, RestartFails, RecoverAtStart, vars
<1>2. CASE history' = history
  <2>1. Logged' = Logged
    BY <1>2 DEF Logged, UpdateRows
  <2> QED
    BY <1>1, <1>2, <2>1 DEF HasRow, Audit!Accounted, Audit!Latest
<1>3. CASE history' # history
  <2>1. PICK row : Fits(row) /\ history' = Append(history, row)
    BY <1>3, StepWrites DEF Writes
  <2>2. row.kind # "model_update"
    BY <2>1
  <2>3. history \in Seq(Row) /\ row \in Row
    BY <2>1, FitsAdds
  <2>4. \A e : HasRow("model_update", e)' <=> HasRow("model_update", e)
    BY <2>1, <2>2, FitsAdds
  <2> QED
    BY <1>1, <2>1, <2>2, <2>3, <2>4, LogKept
<1> QED
  BY <1>2, <1>3

(* Every step keeps the account.                                           *)
LEMMA AccountStep ==
  ASSUME FeedbackInv, WorkInv, KeysInv, LagInv, AccountInv, [Next]_vars
  PROVE  AccountInv'
<1> SUFFICES ASSUME faults' <= 1 PROVE AccountInv'
  BY DEF AccountInv
<1>1. faults <= 1
  BY FaultsGrow
<1>2. CASE Apply \/ ApplyFails(TRUE)
  <2> DEFINE e == Head(todo)
  <2>1. /\ e \in 1 .. Len(raw) /\ Applies(e)
        /\ model' = Corrected(e) /\ memory' \in {memory, model'} /\ history' = history
        /\ Audit!Accounted = memory.k /\ Settled(memory.receipt)
        /\ ~HasRow("model_update", e)
    BY <1>1, <1>2, AccountCorrects
  <2>2. model'.receipt = [at |-> e, from |-> memory.k, to |-> model'.k]
    BY <2>1, CorrectionStep
  <2>3. Len(raw) \in Nat
    BY DEF FeedbackInv, PlaceInv
  <2>4. Audit!Accounted' = Audit!Accounted
    BY <2>1 DEF Audit!Accounted, Audit!Latest, Logged, UpdateRows
  <2>5. model'.receipt # NoReceipt /\ model'.receipt.at = e
    BY <2>1, <2>2, <2>3 DEF NoReceipt
  <2>6. ~Settled(model.receipt)' /\ (memory' = memory => Settled(memory.receipt)')
    BY <2>1, <2>5 DEF Settled, HasRow
  <2> HIDE DEF e
  <2> QED
    BY <2>1, <2>2, <2>4, <2>6 DEF AccountInv
<1>3. ASSUME NEW row, Fits(row), history' = Append(history, row), row.kind = "model_update"
      PROVE  AccountInv'
  <2>1. /\ row = UpdateRow(model.receipt) /\ ~Settled(model.receipt)
        /\ UNCHANGED <<model, memory>> /\ memory = model
        /\ HasRow("model_update", model.receipt.at)'
    BY <1>1, <1>3, AccountLogs
  <2>2. Audit!Accounted' = row.to
    BY <1>3, LogAppended, FitsAdds
  <2>3. row.to = model.k
    BY <1>1, <2>1 DEF UpdateRow, AccountInv, Settled
  <2> QED
    BY <1>1, <2>1, <2>2, <2>3 DEF AccountInv, Settled
<1>4. CASE /\ ~Apply /\ ~ApplyFails(TRUE)
           /\ \A row : Fits(row) /\ history' = Append(history, row) => row.kind # "model_update"
  <2>1. /\ model' = model /\ memory' \in {memory, model}
        /\ Audit!Accounted' = Audit!Accounted
        /\ \A e : HasRow("model_update", e)' <=> HasRow("model_update", e)
    BY <1>4, AccountKept
  <2>2. /\ Settled(model.receipt)' <=> Settled(model.receipt)
        /\ memory' = memory => (Settled(memory.receipt)' <=> Settled(memory.receipt))
    BY <2>1 DEF Settled
  <2> QED
    BY <1>1, <2>1, <2>2 DEF AccountInv
<1> QED
  BY <1>2, <1>3, <1>4

(* A step is one of the audit's, or invisible to it.                       *)
LEMMA AuditStep ==
  ASSUME FeedbackInv, WorkInv, KeysInv, AccountInv, [Next]_vars, faults <= 1
  PROVE  Audit!Next \/ UNCHANGED Audit!correctionVars
<1>1. CASE Apply \/ ApplyFails(TRUE)
  <2> DEFINE e == Head(todo)
  <2>1. /\ e \in 1 .. Len(raw) /\ Applies(e)
        /\ model' = Corrected(e) /\ history' = history
        /\ Audit!Accounted = memory.k /\ ~HasRow("model_update", e)
    BY <1>1, AccountCorrects
  <2>2. model'.receipt = [at |-> e, from |-> memory.k, to |-> model'.k]
    BY <2>1, CorrectionStep
  <2>3. PICK step \in 1 .. MaxStep : model'.k = memory.k - step
    BY <2>1, CorrectionStep
  <2>4. e \in Event /\ Len(raw) \in Nat
    BY <2>1, FeedbackAssumption DEF FeedbackInv, PlaceInv, Event
  <2>5. \A place \in DOMAIN Logged : Logged[place].at # e
    BY <2>1 DEF Logged, UpdateRows, HasRow
  <2>6. model'.receipt # NoReceipt /\ ~HasRow("model_update", model.receipt.at)'
    BY <2>1, <2>2, <2>4 DEF NoReceipt, HasRow
  <2>7. Logged' = Logged
    BY <2>1 DEF Logged, UpdateRows
  <2> HIDE DEF e
  <2>8. Audit!Correct
    BY <2>1, <2>2, <2>3, <2>4, <2>5, <2>6, <2>7 DEF Audit!Correct
  <2> QED
    BY <2>8 DEF Audit!Next
<1>2. ASSUME NEW row, Fits(row), history' = Append(history, row), row.kind = "model_update"
      PROVE  Audit!Next
  <2> DEFINE new == Len(history) + 1
  <2>1. /\ row = UpdateRow(model.receipt) /\ ~Settled(model.receipt)
        /\ model' = model /\ HasRow("model_update", model.receipt.at)'
    BY <1>2, AccountLogs
  <2>2. /\ new \in DOMAIN Logged'
        /\ \A place \in DOMAIN Logged : place < new
        /\ Logged' = [place \in DOMAIN Logged \cup {new} |->
                        IF place = new THEN [at |-> row.at, from |-> row.from, to |-> row.to]
                        ELSE Logged[place]]
    BY <1>2, LogAppended, FitsAdds
  <2>3. [at |-> row.at, from |-> row.from, to |-> row.to] = model.receipt
    BY <2>1 DEF UpdateRow, FeedbackInv, ModelInv, State, Receipt
  <2> HIDE DEF new
  <2>4. Audit!Log
    BY <2>1, <2>2, <2>3 DEF Audit!Log, Settled
  <2> QED
    BY <2>4 DEF Audit!Next
<1>3. CASE /\ ~Apply /\ ~ApplyFails(TRUE)
           /\ \A row : Fits(row) /\ history' = Append(history, row) => row.kind # "model_update"
  <2>1. /\ model' = model /\ Logged' = Logged
        /\ \A e : HasRow("model_update", e)' <=> HasRow("model_update", e)
    BY <1>3, AccountKept
  <2> QED
    BY <2>1 DEF Audit!correctionVars
<1> QED
  BY <1>1, <1>2, <1>3

(* Up to one failing write or death, over any number of outages, restarts  *)
(* and corrections: the history accounts for the coefficient in the model  *)
(* file.  Each correction starts from the value the history accounts for,  *)
(* takes a step down, and gets one row, at most one being still to come.   *)
THEOREM CorrectionsAudited == Spec => ImplementsAudit
<1>1. Init => WorkInv /\ KeysInv /\ AccountInv /\ LagInv /\ Audit!Init
  <2> SUFFICES ASSUME Init PROVE WorkInv /\ KeysInv /\ AccountInv /\ LagInv /\ Audit!Init
    OBVIOUS
  <2> USE DEF Init
  <2>1. \A kind, e : ~HasRow(kind, e)
    BY DEF HasRow
  <2>2. UpdateRows = {} /\ DOMAIN Logged = {} /\ Logged = <<>>
    BY DEF UpdateRows, Logged
  <2>3. WorkInv
    BY <2>1 DEF WorkInv
  <2>4. KeysInv
    <3>1. LastUpdate = 0
      BY DEF LastUpdate
    <3>2. Cohort = {}
      BY <2>1 DEF Cohort
    <3>3. ~Proposing
      BY <3>2, ProposingCohort
    <3> QED
      BY <2>1, <3>1, <3>3 DEF KeysInv, Advancing, Settled, NoReceipt
  <2>5. AccountInv
    BY <2>2 DEF AccountInv, Settled, Audit!Accounted
  <2>6. LagInv
    BY DEF LagInv
  <2>7. Audit!Init
    BY <2>2 DEF Audit!Init
  <2> QED
    BY <2>3, <2>4, <2>5, <2>6, <2>7
<1>2. FeedbackInv /\ UpdatesObserved /\ WorkInv /\ FaultlessInv /\ KeysInv /\ LagInv /\ AccountInv
      /\ [Next]_vars => WorkInv' /\ FaultlessInv' /\ KeysInv' /\ LagInv' /\ AccountInv'
  BY WorkStep, FaultlessKept, KeysStep, LagKept, AccountStep
<1>3. FeedbackInv /\ WorkInv /\ KeysInv /\ AccountInv /\ [Next]_vars =>
        [faults' <= 1 => Audit!Next]_(Audit!correctionVars)
  BY FaultsGrow, AuditStep
<1> QED
  BY <1>1, <1>2, <1>3, FaultlessInit, TypesHold, ObservedHold, PTL DEF Spec, ImplementsAudit
=============================================================================
