------------------------- MODULE ModelFeedbackProofs -------------------------
(***************************************************************************)
(* Proofs about ModelFeedback, for every number of outages, set of load    *)
(* steps, initial coefficient and number of faults: its types, and that a  *)
(* replay which counts as done has left nothing out.                       *)
(***************************************************************************)
EXTENDS ModelFeedback, NumberLemmas, FiniteSetTheorems, TLAPS

(* The rows of a history.                                                  *)
Row == [kind : {"blackout", "self_test", "ir_observation"}, at : Nat]
         \cup [kind : {"model_update"}, at : Nat, from : Int, to : Int]

(* The kth smallest estimate exists and is one of the estimates.           *)
LEMMA RankedRange ==
  ASSUME NEW C, IsFiniteSet(C), NEW est \in [C -> MinK .. MaxK],
         NEW k \in 1 .. Cardinality(C)
  PROVE  Ranked(est, k) \in MinK .. MaxK
<1> DEFINE Values == {est[e] : e \in C}
           UpTo(v) == {e \in C : est[e] <= v}
           Below(v) == {e \in C : est[e] < v}
           Enough == {v \in Values : Cardinality(UpTo(v)) >= k}
<1>1. Values \in SUBSET Nat /\ \A v \in Values : v <= 160
  BY DEF MinK, MaxK
<1>2. C # {} /\ Cardinality(C) \in Nat
  BY FS_EmptySet, FS_CardinalityType
<1>3. \A v : /\ IsFiniteSet(UpTo(v)) /\ IsFiniteSet(Below(v))
             /\ Cardinality(UpTo(v)) \in Nat /\ Cardinality(Below(v)) \in Nat
  <2>1. \A v : UpTo(v) \in SUBSET C /\ Below(v) \in SUBSET C
    OBVIOUS
  <2> QED
    BY <2>1, FS_Subset, FS_CardinalityType
<1>4. Enough # {}
  <2>1. Values # {}
    BY <1>2
  <2>2. PICK v \in Values : \A w \in Values : w <= v
    BY <1>1, <2>1, GreatestNumber
  <2>3. UpTo(v) = C
    BY <2>2
  <2> QED
    BY <2>3
<1>5. PICK v \in Enough : \A w \in Enough : v <= w
  <2>1. Enough \in SUBSET Nat
    BY <1>1
  <2> QED
    BY <1>4, <2>1, LeastNumber
<1>6. Cardinality(Below(v)) < k
  <2> SUFFICES ASSUME Cardinality(Below(v)) >= k PROVE FALSE
    BY <1>3
  <2>1. Below(v) # {}
    <3>1. Cardinality(Below(v)) # 0
      BY <1>3
    <3>2. IsFiniteSet(Below(v))
      BY <1>3
    <3> HIDE DEF Below
    <3> QED
      BY <3>1, <3>2, FS_EmptySet
  <2>2. {est[e] : e \in Below(v)} # {} /\ {est[e] : e \in Below(v)} \in SUBSET Values
    BY <2>1
  <2>3. PICK w \in {est[e] : e \in Below(v)} : \A x \in {est[e] : e \in Below(v)} : x <= w
    BY <1>1, <2>2, GreatestNumber
  <2>4. Below(v) \in SUBSET UpTo(w)
    BY <2>3
  <2>5. Cardinality(Below(v)) <= Cardinality(UpTo(w))
    BY <1>3, <2>4, FS_Subset
  <2>6. w \in Enough
    <3>1. w \in Values
      BY <2>2
    <3>2. Cardinality(UpTo(w)) >= k
      <4>1. Cardinality(UpTo(w)) \in Nat
        BY <1>3, Zenon
      <4>2. Cardinality(Below(v)) \in Nat
        BY <1>3, Zenon
      <4>3. k \in Nat
        BY <1>2
      <4> HIDE DEF UpTo, Below
      <4> QED
        BY <2>5, <4>1, <4>2, <4>3
    <3> QED
      BY <3>1, <3>2
  <2>7. w < v
    BY <2>3
  <2> QED
    BY <1>1, <1>5, <2>6, <2>7
<1>7. DOMAIN est = C
  OBVIOUS
<1>8. \E u \in {est[e] : e \in DOMAIN est} :
        /\ Cardinality({e \in DOMAIN est : est[e] < u}) < k
        /\ Cardinality({e \in DOMAIN est : est[e] <= u}) >= k
  BY <1>5, <1>6, <1>7
<1>9. Ranked(est, k) \in {est[e] : e \in DOMAIN est}
  BY <1>8, Zenon DEF Ranked
<1> QED
  BY <1>7, <1>9

(* The median of enough estimates lies in their range.                     *)
LEMMA MedianRange ==
  ASSUME NEW C, IsFiniteSet(C), NEW est \in [C -> MinK .. MaxK], Cardinality(C) >= MinCohort
  PROVE  Median(est) \in MinK .. MaxK
<1>1. Cardinality(C) \in Nat /\ DOMAIN est = C
  BY FS_CardinalityType
<1> DEFINE size == Cardinality(C)
<1>2. (size + 1) \div 2 \in 1 .. size /\ size \div 2 + 1 \in 1 .. size
  BY <1>1 DEF MinCohort
<1>3. /\ Ranked(est, (size + 1) \div 2) \in MinK .. MaxK
      /\ Ranked(est, size \div 2 + 1) \in MinK .. MaxK
  BY <1>2, RankedRange
<1> DEFINE lower == Ranked(est, (size + 1) \div 2)
           upper == Ranked(est, size \div 2 + 1)
<1>4. \A a, b \in MinK .. MaxK : (a + b) \div 2 \in MinK .. MaxK
  BY DEF MinK, MaxK
<1> QED
  BY <1>1, <1>3, <1>4 DEF Median

(* The last row of a key, and the last of a kind.                          *)
LEMMA LastOf ==
  ASSUME NEW S \in SUBSET Nat, S # {}, NEW bound \in Nat, \A i \in S : i <= bound
  PROVE  LET last == CHOOSE i \in S : \A j \in S : j <= i
         IN  last \in S /\ \A j \in S : j <= last
<1>1. \E i \in S : \A j \in S : j <= i
  BY GreatestNumber
<1> QED
  BY <1>1

(* What an appended row adds to what the history has.                      *)
LEMMA RowAppended ==
  ASSUME history \in Seq(Row), NEW row \in Row, history' = Append(history, row)
  PROVE  \A kind, e : HasRow(kind, e)' <=> HasRow(kind, e) \/ (row.kind = kind /\ row.at = e)
BY DEF HasRow

(* Any other row leaves the last update alone ...                          *)
LEMMA LastUpdateKept ==
  ASSUME history \in Seq(Row), NEW row \in Row, history' = Append(history, row),
         row.kind # "model_update"
  PROVE  LastUpdate' = LastUpdate
<1> DEFINE Ups == {i \in DOMAIN history : history[i].kind = "model_update"}
           Ups1 == {i \in DOMAIN history' : history'[i].kind = "model_update"}
<1>1. Ups1 = Ups
  OBVIOUS
<1>2. CASE Ups = {}
  BY <1>1, <1>2 DEF LastUpdate
<1>3. CASE Ups # {}
  <2> DEFINE last == CHOOSE i \in Ups : \A j \in Ups : j <= i
  <2>1. Ups \in SUBSET Nat /\ Len(history) \in Nat /\ \A i \in Ups : i <= Len(history)
    OBVIOUS
  <2>2. last \in Ups
    BY <1>3, <2>1, LastOf
  <2>3. history'[last] = history[last]
    BY <2>2
  <2>4. LastUpdate = history[last].at
    BY <1>3 DEF LastUpdate
  <2>5. LastUpdate' = history'[last].at
    BY <1>1, <1>3 DEF LastUpdate
  <2> QED
    BY <2>3, <2>4, <2>5
<1> QED
  BY <1>2, <1>3

(* ... and an update becomes the last one.                                 *)
LEMMA LastUpdateAppended ==
  ASSUME history \in Seq(Row), NEW row \in Row, history' = Append(history, row),
         row.kind = "model_update"
  PROVE  LastUpdate' = row.at
<1> DEFINE Ups == {i \in DOMAIN history' : history'[i].kind = "model_update"}
           last == CHOOSE i \in Ups : \A j \in Ups : j <= i
<1>1. Len(history) + 1 \in Ups /\ Ups \in SUBSET Nat /\ \A i \in Ups : i <= Len(history) + 1
  OBVIOUS
<1>2. last \in Ups /\ \A j \in Ups : j <= last
  <2>1. Len(history) + 1 \in Nat /\ Ups # {}
    BY <1>1
  <2> QED
    BY <1>1, <2>1, LastOf
<1>3. last = Len(history) + 1
  BY <1>1, <1>2
<1>4. LastUpdate' = history'[last].at
  BY <1>1 DEF LastUpdate
<1> QED
  BY <1>3, <1>4

(* The order in which the rows of one outage are written.                  *)
Rank(kind) ==
  IF kind \in {"blackout", "self_test"} THEN 0 ELSE IF kind = "ir_observation" THEN 1 ELSE 2

(* The rows of an outage are in that order, and no two of a kind.          *)
RowsRanked ==
  \A i, j \in DOMAIN history :
    i < j /\ history[i].at = history[j].at => Rank(history[i].kind) < Rank(history[j].kind)

(* The kind of an event is that of a row it has ...                        *)
LEMMA EventKindIsRow ==
  ASSUME history \in Seq(Row), NEW e, EventKind(e) # "NONE"
  PROVE  HasRow(EventKind(e), e)
<1> DEFINE rows == {i \in DOMAIN history : history[i].at = e}
           last == CHOOSE i \in rows : \A j \in rows : j <= i
<1>1. rows # {}
  BY DEF EventKind
<1>2. rows \in SUBSET Nat /\ Len(history) \in Nat /\ \A i \in rows : i <= Len(history)
  OBVIOUS
<1>3. last \in rows
  BY <1>1, <1>2, LastOf
<1>4. EventKind(e) = history[last].kind
  BY <1>1 DEF EventKind
<1> QED
  BY <1>3, <1>4 DEF HasRow

(* ... and where the rows are ranked, of the highest row it has.           *)
LEMMA EventKindRanks ==
  ASSUME history \in Seq(Row), RowsRanked, NEW e, NEW kind, HasRow(kind, e)
  PROVE  HasRow(EventKind(e), e) /\ Rank(kind) <= Rank(EventKind(e)) 
         /\ (Rank(kind) = Rank(EventKind(e)) => kind = EventKind(e))
<1> DEFINE rows == {i \in DOMAIN history : history[i].at = e}
           last == CHOOSE i \in rows : \A j \in rows : j <= i
<1>1. PICK i \in rows : history[i].kind = kind
  BY DEF HasRow
<1>2. rows \in SUBSET Nat /\ Len(history) \in Nat /\ \A j \in rows : j <= Len(history)
  OBVIOUS
<1>3. last \in rows /\ i <= last
  BY <1>1, <1>2, LastOf
<1>4. EventKind(e) = history[last].kind
  BY <1>1 DEF EventKind
<1>5. i = last \/ Rank(kind) < Rank(history[last].kind)
  BY <1>1, <1>3 DEF RowsRanked
<1>7. \A k : Rank(k) \in Nat
  BY DEF Rank
<1>6. HasRow(EventKind(e), e)
  BY <1>3, <1>4 DEF HasRow
<1>8. history[i].kind = kind
  BY <1>1
<1> HIDE DEF last
<1> QED
  BY <1>4, <1>5, <1>6, <1>7, <1>8

-----------------------------------------------------------------------------
(* Types, with what makes them inductive: the rows belong to closed        *)
(* outages, an observation to one with a load step; the place of the side  *)
(* work says which of its variables are in use.                            *)
Receipt == [at : Nat, from : Nat, to : Nat]
State   == [k : MinK .. InitialK, receipt : Receipt]

HistoryInv ==
  /\ history \in Seq(Row)
  /\ \A kind, e : HasRow(kind, e) => e \in 1 .. Len(raw)
  /\ \A e : HasRow("ir_observation", e) => raw[e].estimate # NoStep

ModelInv ==
  /\ model \in State /\ memory \in State
  /\ model.receipt = NoReceipt \/ model.receipt.at \in 1 .. Len(raw)
  /\ memory.receipt = NoReceipt \/ memory.receipt.at \in 1 .. Len(raw)

PlaceInv ==
  /\ raw \in Seq(Outages) /\ Len(raw) <= MaxEvents
  /\ pc \in {"poll", "summarize", "recover", "select", "event", "propose", "receipt",
             "start", "down"}
  /\ completed = <<>> \/ \E e \in 1 .. Len(raw) : completed = <<e>>
  /\ pc \notin {"recover", "select"} => completed = <<>>
  /\ todo \in Seq(1 .. Len(raw))
  /\ pc \notin {"event", "propose", "receipt"} => todo = <<>>
  /\ pc \in {"propose", "receipt"} => todo # <<>>
  /\ pc = "summarize" => raw # <<>>
  /\ replayed \in BOOLEAN
  /\ faults \in 0 .. MaxFaults

FeedbackInv == HistoryInv /\ ModelInv /\ PlaceInv

(* What a step may add to the history.                                     *)
Addable(row) ==
  /\ row \in Row
  /\ row.at \in 1 .. Len(raw)
  /\ row.kind = "ir_observation" => raw[row.at].estimate # NoStep
  /\ row.kind = "model_update" => memory.receipt # NoReceipt /\ row.at = memory.receipt.at

Adds(log) == log = history \/ \E row : Addable(row) /\ log = Append(history, row)

(* One such row keeps the history well formed.                             *)
LEMMA HistoryGrows ==
  ASSUME HistoryInv, Adds(history'), raw' = raw
  PROVE  HistoryInv'
<1>1. CASE history' = history
  <2>1. \A kind, e : HasRow(kind, e)' <=> HasRow(kind, e)
    BY <1>1 DEF HasRow
  <2> QED
    BY <1>1, <2>1 DEF HistoryInv
<1>2. CASE history' # history
  <2>1. PICK row : Addable(row) /\ history' = Append(history, row)
    BY <1>2 DEF Adds
  <2>2. history \in Seq(Row) /\ row \in Row
    BY <2>1 DEF HistoryInv, Addable
  <2>3. \A kind, e : HasRow(kind, e)' <=> HasRow(kind, e) \/ (row.kind = kind /\ row.at = e)
    BY <2>1, <2>2, RowAppended
  <2>4. history' \in Seq(Row)
    BY <2>1, <2>2
  <2> QED
    BY <2>1, <2>3, <2>4 DEF HistoryInv, Addable
<1> QED
  BY <1>1, <1>2

(* The writers of the history add such rows: an episode's row ...          *)
LEMMA EpisodeAdds ==
  ASSUME FeedbackInv, NEW e \in 1 .. Len(raw), NEW kind \in {"blackout", "self_test"}
  PROVE  Adds(WithEpisode(e, kind))
<1>1. Addable(EpisodeRow(e, kind))
  BY DEF FeedbackInv, PlaceInv, Addable, EpisodeRow, Row
<1> QED
  BY <1>1 DEF WithEpisode, Adds

(* ... that of the receipt in memory ...                                   *)
LEMMA ReceiptAdds ==
  ASSUME FeedbackInv
  PROVE  Adds(WithReceipt(memory.receipt))
<1>1. CASE memory.receipt = NoReceipt
  BY <1>1 DEF Adds, WithReceipt
<1>2. CASE memory.receipt # NoReceipt
  <2>1. memory.receipt \in Receipt /\ memory.receipt.at \in 1 .. Len(raw)
    BY <1>2 DEF FeedbackInv, ModelInv, State
  <2>2. Addable(UpdateRow(memory.receipt))
    BY <1>2, <2>1 DEF Addable, UpdateRow, Row, Receipt
  <2> QED
    BY <1>2, <2>2 DEF Adds, WithReceipt
<1> QED
  BY <1>1, <1>2

(* ... that of an observation ...                                          *)
LEMMA ObservationAdds ==
  ASSUME FeedbackInv, NEW e \in 1 .. Len(raw), ~Skipped(e)
  PROVE  Adds(WithObservation(e))
<1>1. CASE HasRow("ir_observation", e)
  BY <1>1 DEF Adds, WithObservation
<1>2. CASE ~HasRow("ir_observation", e)
  <2>1. EventKind(e) # "ir_observation"
    BY <1>2, EventKindIsRow DEF FeedbackInv, HistoryInv
  <2>2. raw[e].estimate # NoStep
    BY <2>1 DEF Skipped
  <2>3. Addable(IrRow(e))
    BY <2>2 DEF Addable, IrRow, Row
  <2> QED
    BY <1>2, <2>3 DEF Adds, WithObservation
<1> QED
  BY <1>1, <1>2

(* ... and that of a reconciled episode.                                   *)
LEMMA ReconciledAdds ==
  ASSUME FeedbackInv, NEW log \in Reconciled
  PROVE  Adds(log)
<1>1. CASE log = history
  BY <1>1 DEF Adds
<1>2. CASE log # history
  <2>1. PICK e \in 1 .. Len(raw) : log = WithEpisode(e, "blackout")
    BY <1>2 DEF Reconciled
  <2> QED
    BY <2>1, EpisodeAdds
<1> QED
  BY <1>1, <1>2

(* The evidence of a cohort is a finite function into the range of the     *)
(* coefficient, and so is what a correction moves it to.                   *)
LEMMA EvidenceRange ==
  ASSUME FeedbackInv
  PROVE  IsFiniteSet(Cohort) /\ Evidence \in [Cohort -> MinK .. MaxK]
<1>1. IsFiniteSet(1 .. Len(raw))
  BY FS_Interval DEF FeedbackInv, PlaceInv
<1>2. Cohort \in SUBSET (1 .. Len(raw))
  BY DEF Cohort
<1>3. ASSUME NEW e \in Cohort PROVE raw[e].estimate \in MinK .. MaxK
  <2>1. e \in 1 .. Len(raw) /\ HasRow("ir_observation", e)
    BY DEF Cohort
  <2>2. raw[e] \in Outages
    BY <2>1 DEF FeedbackInv, PlaceInv
  <2>3. raw[e].estimate \in {NoStep} \cup MinK .. MaxK
    BY <2>2, FeedbackAssumption
  <2> QED
    BY <2>1, <2>3 DEF FeedbackInv, HistoryInv
<1> QED
  BY <1>1, <1>2, <1>3, FS_Subset DEF Evidence

(* A correction lowers the coefficient and stays in its range.             *)
LEMMA CorrectedRange ==
  ASSUME FeedbackInv, NEW e \in 1 .. Len(raw), Applies(e)
  PROVE  Corrected(e) \in State /\ Corrected(e).receipt.at = e
         /\ Corrected(e).k < memory.k /\ Corrected(e).receipt # NoReceipt
<1>1. IsFiniteSet(Cohort) /\ Evidence \in [Cohort -> MinK .. MaxK] /\ DOMAIN Evidence = Cohort
  BY EvidenceRange DEF Evidence
<1>2. Cardinality(Cohort) >= MinCohort /\ memory.k - Median(Evidence) >= MinProposalDecrement
  BY <1>1 DEF Applies, Proposes
<1>3. Median(Evidence) \in MinK .. MaxK
  BY <1>1, <1>2, MedianRange
<1>4. memory.k \in MinK .. InitialK /\ InitialK \in MinK .. MaxK
  BY FeedbackAssumption DEF FeedbackInv, ModelInv, State
<1>5. ToValue(Evidence, memory.k) \in MinK .. InitialK /\ ToValue(Evidence, memory.k) < memory.k
  <2>1. ASSUME NEW middle \in MinK .. MaxK, NEW k \in MinK .. InitialK,
               k - middle >= MinProposalDecrement
        PROVE  /\ (IF middle < k - MaxStep THEN k - MaxStep ELSE middle) \in MinK .. InitialK
               /\ (IF middle < k - MaxStep THEN k - MaxStep ELSE middle) < k
    BY <1>4, <2>1 DEF MinProposalDecrement, MaxStep, MinK, MaxK
  <2> QED
    BY <1>2, <1>3, <1>4, <2>1 DEF ToValue
<1>6. ToValue(Evidence, memory.k) \in Nat /\ memory.k \in Nat
  BY <1>4, <1>5 DEF MinK, MaxK
<1>7. Len(raw) \in Nat
  BY DEF FeedbackInv, PlaceInv
<1> QED
  BY <1>5, <1>6, <1>7 DEF Corrected, State, Receipt, NoReceipt

-----------------------------------------------------------------------------
(* Sequences of at most one element, for the provers.                      *)
LEMMA ShortSequence ==
  ASSUME NEW S
  PROVE  /\ <<>> \in Seq(S) /\ Len(<<>>) = 0
         /\ \A e \in S : <<e>> \in Seq(S) /\ Len(<<e>>) = 1 /\ <<e>>[1] = e
OBVIOUS

(* A step that leaves the files alone but for a row.                       *)
LEMMA FilesKept ==
  ASSUME FeedbackInv, raw' = raw, Adds(history'), model' = model, memory' \in {memory, model}
  PROVE  HistoryInv' /\ ModelInv'
<1>1. HistoryInv'
  BY HistoryGrows DEF FeedbackInv
<1>2. ModelInv'
  BY DEF FeedbackInv, ModelInv
<1> QED
  BY <1>1, <1>2

(* The fresh files have their types.                                       *)
LEMMA TypeInit == Init => FeedbackInv
<1> SUFFICES ASSUME Init PROVE FeedbackInv
  OBVIOUS
<1> USE DEF Init
<1>1. HistoryInv
  <2>1. \A kind, e : ~HasRow(kind, e)
    BY DEF HasRow
  <2> QED
    BY <2>1 DEF HistoryInv
<1>2. ModelInv
  <2>1. InitialK \in MinK .. InitialK /\ NoReceipt \in Receipt
    BY FeedbackAssumption DEF MinK, MaxK, Receipt, NoReceipt
  <2> QED
    BY <2>1 DEF ModelInv, State
<1>3. PlaceInv
  <2>1. todo \in Seq(1 .. Len(raw)) /\ raw \in Seq(Outages) /\ Len(raw) = 0
    BY ShortSequence
  <2>2. Len(raw) <= MaxEvents /\ faults \in 0 .. MaxFaults
    BY <2>1, FeedbackAssumption
  <2> QED
    BY <2>1, <2>2, Zenon DEF PlaceInv
<1> QED
  BY <1>1, <1>2, <1>3 DEF FeedbackInv

(* Every step leaves the history as it is, or adds one such row.           *)
LEMMA StepAdds ==
  ASSUME FeedbackInv, [Next]_vars
  PROVE  Adds(history')
<1> USE DEF FeedbackInv
<1>1. CASE Poll
  BY <1>1 DEF Adds, Poll
<1>2. CASE Summarize
  <2>1. Len(raw) \in 1 .. Len(raw)
    BY <1>2 DEF PlaceInv, Summarize
  <2>2. Adds(WithEpisode(Len(raw), IF raw[Len(raw)].test THEN "self_test" ELSE "blackout"))
    BY <2>1, EpisodeAdds
  <2> QED
    BY <1>2, <2>2 DEF Summarize
<1>3. CASE SummarizeFails
  <2>1. Len(raw) \in 1 .. Len(raw)
    BY <1>3 DEF PlaceInv, SummarizeFails
  <2>2. Adds(WithEpisode(Len(raw), IF raw[Len(raw)].test THEN "self_test" ELSE "blackout"))
    BY <2>1, EpisodeAdds
  <2> QED
    BY <1>3, <2>2 DEF SummarizeFails, AppendFails, Adds
<1>4. CASE Recover
  <2>1. Adds(WithReceipt(memory.receipt))
    BY ReceiptAdds
  <2> QED
    BY <1>4, <2>1 DEF Recover
<1>5. CASE RecoverFails
  <2>1. Adds(WithReceipt(memory.receipt))
    BY ReceiptAdds
  <2> QED
    BY <1>5, <2>1 DEF RecoverFails, AppendFails, Adds
<1>6. CASE Select
  BY <1>6 DEF Adds, Select
<1>7. CASE SelectFails
  BY <1>7 DEF Adds, SelectFails
<1>8. CASE FeedbackEnds
  BY <1>8 DEF Adds, FeedbackEnds
<1>9. CASE Skip
  BY <1>9 DEF Adds, Skip
<1>10. CASE Observe
  <2>1. Head(todo) \in 1 .. Len(raw) /\ ~Skipped(Head(todo))
    BY <1>10 DEF PlaceInv, Observe
  <2>2. Adds(WithObservation(Head(todo)))
    BY <2>1, ObservationAdds
  <2> QED
    BY <1>10, <2>2 DEF Observe
<1>11. CASE ObserveFails
  <2>1. Head(todo) \in 1 .. Len(raw) /\ ~Skipped(Head(todo))
    BY <1>11 DEF PlaceInv, ObserveFails
  <2>2. Adds(WithObservation(Head(todo)))
    BY <2>1, ObservationAdds
  <2> QED
    BY <1>11, <2>2 DEF ObserveFails, AppendFails, Adds
<1>12. CASE NoProposal
  BY <1>12 DEF Adds, NoProposal
<1>13. CASE RecordReceipt
  <2>1. Adds(WithReceipt(memory.receipt))
    BY ReceiptAdds
  <2> QED
    BY <1>13, <2>1 DEF RecordReceipt
<1>14. CASE RecordReceiptFails
  <2>1. Adds(WithReceipt(memory.receipt))
    BY ReceiptAdds
  <2> QED
    BY <1>14, <2>1 DEF RecordReceiptFails, AppendFails, Adds
<1>15. CASE End
  BY <1>15 DEF Adds, End
<1>16. CASE Restart
  BY <1>16, ReconciledAdds DEF Restart
<1>17. CASE RestartFails
  BY <1>17, ReconciledAdds DEF RestartFails, AppendFails, Adds
<1>18. CASE RecoverAtStart
  <2>1. Adds(WithReceipt(memory.receipt))
    BY ReceiptAdds
  <2> QED
    BY <1>18, <2>1 DEF RecoverAtStart, AppendFails, Adds
<1>19. ASSUME NEW outage \in Outages, CloseEpisode(outage) PROVE Adds(history')
  BY <1>19 DEF CloseEpisode, Adds
<1>20. ASSUME Apply \/ \E renamed \in BOOLEAN : ApplyFails(renamed) PROVE Adds(history')
  BY <1>20 DEF Apply, ApplyFails, Adds
<1>21. CASE UNCHANGED vars
  BY <1>21 DEF vars, Adds
<1> QED
  BY <1>1, <1>2, <1>3, <1>4, <1>5, <1>6, <1>7, <1>8, <1>9, <1>10, <1>11, <1>12, <1>13,
       <1>14, <1>15, <1>16, <1>17, <1>18, <1>19, <1>20, <1>21 DEF Next, Progress

(* The place of the work, for the steps that write neither the telemetry   *)
(* nor the model.                                                          *)
LEMMA PlaceStep ==
  ASSUME FeedbackInv, Poll \/ Summarize \/ SummarizeFails \/ Recover \/ RecoverFails
               \/ Select \/ SelectFails \/ FeedbackEnds \/ Skip \/ Observe
               \/ ObserveFails \/ NoProposal \/ RecordReceipt \/ RecordReceiptFails
               \/ End \/ Restart \/ RestartFails \/ RecoverAtStart
  PROVE  PlaceInv'
<1> USE DEF FeedbackInv
<1>1. CASE Poll
  BY <1>1, FeedbackAssumption DEF PlaceInv, Poll
<1>2. CASE Summarize
  BY <1>2, FeedbackAssumption DEF PlaceInv, Summarize
<1>3. CASE SummarizeFails
  BY <1>3, FeedbackAssumption DEF PlaceInv, SummarizeFails, AppendFails, Fault
<1>4. CASE Recover
  BY <1>4, FeedbackAssumption DEF PlaceInv, Recover
<1>5. CASE RecoverFails
  BY <1>5, FeedbackAssumption DEF PlaceInv, RecoverFails, AppendFails, Fault, Abandon
<1>6. CASE Select
  <2>1. todo' \in Seq(1 .. Len(raw)) /\ raw' = raw
    <3>1. [i \in 1 .. Len(raw) |-> i] \in Seq(1 .. Len(raw))
      BY DEF PlaceInv
    <3>2. completed \in Seq(1 .. Len(raw))
      BY ShortSequence DEF PlaceInv
    <3> QED
      BY <1>6, <3>1, <3>2 DEF Select
  <2> QED
    BY <1>6, <2>1 DEF PlaceInv, Select
<1>7. CASE SelectFails
  BY <1>7, FeedbackAssumption DEF PlaceInv, SelectFails, Fault, Abandon
<1>8. CASE FeedbackEnds
  BY <1>8, FeedbackAssumption DEF PlaceInv, FeedbackEnds
<1>9. CASE Skip
  BY <1>9, FeedbackAssumption DEF PlaceInv, Skip
<1>10. CASE Observe
  BY <1>10, FeedbackAssumption DEF PlaceInv, Observe
<1>11. CASE ObserveFails
  BY <1>11, FeedbackAssumption DEF PlaceInv, ObserveFails, AppendFails, Fault, Abandon
<1>12. CASE NoProposal
  BY <1>12, FeedbackAssumption DEF PlaceInv, NoProposal
<1>13. CASE RecordReceipt
  BY <1>13, FeedbackAssumption DEF PlaceInv, RecordReceipt
<1>14. CASE RecordReceiptFails
  BY <1>14, FeedbackAssumption DEF PlaceInv, RecordReceiptFails, AppendFails, Fault,
       Abandon
<1>15. CASE End
  <2>1. faults' \in 0 .. MaxFaults
    BY <1>15, FeedbackAssumption DEF PlaceInv, End, Fault
  <2>2. todo' \in Seq(1 .. Len(raw')) /\ raw' = raw
    BY <1>15, ShortSequence DEF End
  <2> QED
    BY <1>15, <2>1, <2>2 DEF PlaceInv, End
<1>16. CASE Restart
  BY <1>16, FeedbackAssumption DEF PlaceInv, Restart
<1>17. CASE RestartFails
  BY <1>17, FeedbackAssumption DEF PlaceInv, RestartFails, AppendFails, Fault
<1>18. CASE RecoverAtStart
  BY <1>18, FeedbackAssumption DEF PlaceInv, RecoverAtStart, AppendFails, Fault
<1> QED
  BY <1>1, <1>2, <1>3, <1>4, <1>5, <1>6, <1>7, <1>8, <1>9, <1>10, <1>11, <1>12, <1>13,
       <1>14, <1>15, <1>16, <1>17, <1>18

(* Every step keeps the types.                                             *)
LEMMA TypeStep == FeedbackInv /\ [Next]_vars => FeedbackInv'
<1> SUFFICES ASSUME FeedbackInv, [Next]_vars PROVE FeedbackInv'
  OBVIOUS
<1> USE DEF FeedbackInv
<1>1. ASSUME NEW outage \in Outages, CloseEpisode(outage) PROVE FeedbackInv'
  <2>1. raw' = Append(raw, outage) /\ history' = history /\ raw \in Seq(Outages)
    BY <1>1 DEF CloseEpisode, PlaceInv
  <2>2. HistoryInv'
    <3>1. \A kind, e : HasRow(kind, e)' <=> HasRow(kind, e)
      BY <2>1 DEF HasRow
    <3>2. \A e \in 1 .. Len(raw) : e \in 1 .. Len(raw') /\ raw'[e] = raw[e]
      BY <2>1
    <3> QED
      BY <2>1, <3>1, <3>2 DEF HistoryInv
  <2>3. ModelInv'
    BY <1>1, <2>1 DEF CloseEpisode, ModelInv
  <2>4. PlaceInv'
    BY <1>1, FeedbackAssumption DEF CloseEpisode, PlaceInv
  <2> QED
    BY <2>2, <2>3, <2>4
<1>2. ASSUME Apply \/ \E renamed \in BOOLEAN : ApplyFails(renamed) PROVE FeedbackInv'
  <2>1. pc = "propose" /\ Head(todo) \in 1 .. Len(raw) /\ Applies(Head(todo))
    BY <1>2 DEF Apply, ApplyFails, PlaceInv
  <2>2. model' \in {model, Corrected(Head(todo))} /\ memory' \in {memory, model'}
    BY <1>2 DEF Apply, ApplyFails, Rename
  <2>3. raw' = raw /\ history' = history
    BY <1>2 DEF Apply, ApplyFails
  <2>4. HistoryInv'
    BY <2>3, HistoryGrows DEF Adds
  <2>5. ModelInv'
    BY <2>1, <2>2, <2>3, CorrectedRange DEF ModelInv
  <2>6. PlaceInv'
    <3>1. CASE Apply
      BY <3>1 DEF Apply, PlaceInv
    <3>2. ASSUME NEW renamed \in BOOLEAN, ApplyFails(renamed) PROVE PlaceInv'
      <4>1. faults' \in 0 .. MaxFaults
        BY <3>2, FeedbackAssumption DEF ApplyFails, Fault, PlaceInv
      <4> QED
        BY <3>2, <4>1 DEF ApplyFails, Abandon, PlaceInv
    <3> QED
      BY <1>2, <3>1, <3>2
  <2> QED
    BY <2>4, <2>5, <2>6
<1>3. CASE UNCHANGED vars
  <2>1. HistoryInv' /\ ModelInv'
    BY <1>3, FilesKept DEF vars, Adds
  <2>2. PlaceInv'
    BY <1>3 DEF PlaceInv, vars
  <2> QED
    BY <2>1, <2>2
<1>4. ASSUME Poll \/ Summarize \/ SummarizeFails \/ Recover \/ RecoverFails
             \/ Select \/ SelectFails \/ FeedbackEnds \/ Skip \/ Observe
             \/ ObserveFails \/ NoProposal \/ RecordReceipt \/ RecordReceiptFails
             \/ End \/ Restart \/ RestartFails \/ RecoverAtStart
      PROVE  FeedbackInv'
  <2>1. raw' = raw /\ model' = model /\ memory' \in {memory, model}
    BY <1>4 DEF Poll, Summarize, SummarizeFails, Recover, RecoverFails, Select,
         SelectFails, FeedbackEnds, Skip, Observe, ObserveFails, NoProposal, RecordReceipt,
         RecordReceiptFails, End, Restart, RestartFails, RecoverAtStart
  <2>2. HistoryInv' /\ ModelInv'
    BY <2>1, StepAdds, FilesKept
  <2> QED
    BY <1>4, <2>2, PlaceStep
<1> QED
  BY <1>1, <1>2, <1>3, <1>4 DEF Next, Progress

(* The inductive invariant of the types.                                   *)
LEMMA TypesHold == Spec => []FeedbackInv
  BY TypeInit, TypeStep, PTL DEF Spec

(* Whatever fails and however often, the files, the model in memory and    *)
(* the side work keep their types: rows and receipts are of closed         *)
(* outages, and no coefficient leaves its range or grows.                  *)
THEOREM TypeCorrect == Spec => []TypeOK
<1>1. FeedbackInv => TypeOK
  <2> SUFFICES ASSUME FeedbackInv PROVE TypeOK
    OBVIOUS
  <2> USE DEF FeedbackInv
  <2>1. \A i \in DOMAIN history :
          /\ history[i].kind \in {"blackout", "self_test", "ir_observation", "model_update"}
          /\ history[i].at \in 1 .. Len(raw)
    <3> SUFFICES ASSUME NEW i \in DOMAIN history
                 PROVE  /\ history[i].kind \in {"blackout", "self_test", "ir_observation", "model_update"}
                        /\ history[i].at \in 1 .. Len(raw)
      OBVIOUS
    <3>1. history[i] \in Row /\ HasRow(history[i].kind, history[i].at)
      BY DEF HistoryInv, HasRow
    <3> QED
      BY <3>1 DEF HistoryInv, Row
  <2>2. \A m \in {model, memory} :
          /\ m.k \in MinK .. InitialK
          /\ m.receipt = NoReceipt \/ m.receipt.at \in 1 .. Len(raw)
    BY DEF ModelInv, State
  <2>3. completed \in Seq(Event) /\ Len(completed) <= 1 /\ todo \in Seq(Event)
    <3>1. 1 .. Len(raw) \in SUBSET Event
      BY FeedbackAssumption DEF PlaceInv, Event
    <3>2. todo \in Seq(Event)
      BY <3>1 DEF PlaceInv
    <3>3. completed \in Seq(Event) /\ Len(completed) <= 1
      <4>1. CASE completed = <<>>
        BY <4>1, ShortSequence
      <4>2. CASE completed # <<>>
        <5>1. PICK e \in Event : completed = <<e>>
          BY <3>1, <4>2 DEF PlaceInv
        <5> QED
          BY <5>1, ShortSequence
      <4> QED
        BY <4>1, <4>2
    <3> QED
      BY <3>2, <3>3
  <2> QED
    BY <2>1, <2>2, <2>3 DEF TypeOK, PlaceInv
<1> QED
  BY <1>1, TypesHold, PTL

-----------------------------------------------------------------------------
(* The replay. An outage is recorded when it needs no observation or has   *)
(* one; the replay keeps those that are not in the list it works off.      *)
Recorded(e) ==
  raw[e].estimate = NoStep \/ HasRow("self_test", e) \/ HasRow("ir_observation", e)

Left(e) == \E i \in DOMAIN todo : todo[i] = e

(* A correction is keyed by an outage that has its observation.            *)
UpdatesObserved ==
  /\ \A e : HasRow("model_update", e) => HasRow("ir_observation", e)
  /\ model.receipt # NoReceipt => HasRow("ir_observation", model.receipt.at)
  /\ memory.receipt # NoReceipt => HasRow("ir_observation", memory.receipt.at)
  /\ pc \in {"propose", "receipt"} => HasRow("ir_observation", Head(todo))

(* Until a replay has succeeded, what is not recorded is still to visit.   *)
VisitInv ==
  ~replayed /\ pc \in {"event", "propose", "receipt"} =>
    \A e \in 1 .. Len(raw) : Recorded(e) \/ Left(e)

(* What an added row means for what the history has.                       *)
LEMMA RowsAfter ==
  ASSUME FeedbackInv, Adds(history')
  PROVE  /\ \A kind, e : HasRow(kind, e) => HasRow(kind, e)'
         /\ \A e : HasRow("model_update", e)' =>
              HasRow("model_update", e) \/ (memory.receipt # NoReceipt /\ e = memory.receipt.at)
<1>1. CASE history' = history
  BY <1>1 DEF HasRow
<1>2. CASE history' # history
  <2>1. PICK row : Addable(row) /\ history' = Append(history, row)
    BY <1>2 DEF Adds
  <2>2. \A kind, e : HasRow(kind, e)' <=> HasRow(kind, e) \/ (row.kind = kind /\ row.at = e)
    BY <2>1, RowAppended DEF FeedbackInv, HistoryInv, Addable
  <2> QED
    BY <2>1, <2>2 DEF Addable
<1> QED
  BY <1>1, <1>2

(* An observed outage has its row.                                         *)
LEMMA ObservationRow ==
  ASSUME FeedbackInv, NEW e \in 1 .. Len(raw), history' = WithObservation(e)
  PROVE  HasRow("ir_observation", e)'
<1>1. CASE HasRow("ir_observation", e)
  BY <1>1 DEF WithObservation, HasRow
<1>2. CASE ~HasRow("ir_observation", e)
  <2>1. history' = Append(history, IrRow(e))
    BY <1>2 DEF WithObservation
  <2>2. /\ history \in Seq(Row) /\ IrRow(e) \in Row
        /\ IrRow(e).kind = "ir_observation" /\ IrRow(e).at = e
    BY DEF FeedbackInv, HistoryInv, PlaceInv, IrRow, Row
  <2> QED
    BY <2>1, <2>2, RowAppended
<1> QED
  BY <1>1, <1>2

(* Every step keeps corrections with observed outages.                     *)
LEMMA ObservedStep ==
  ASSUME FeedbackInv, UpdatesObserved, [Next]_vars
  PROVE  UpdatesObserved'
<1>1. /\ \A kind, e : HasRow(kind, e) => HasRow(kind, e)'
      /\ \A e : HasRow("model_update", e)' =>
           HasRow("model_update", e) \/ (memory.receipt # NoReceipt /\ e = memory.receipt.at)
  BY StepAdds, RowsAfter
<1>2. \A e : HasRow("model_update", e)' => HasRow("ir_observation", e)'
  BY <1>1 DEF UpdatesObserved
<1>3. CASE Apply \/ \E renamed \in BOOLEAN : ApplyFails(renamed)
  <2>1. pc = "propose" /\ Head(todo) \in 1 .. Len(raw) /\ Applies(Head(todo))
    BY <1>3 DEF Apply, ApplyFails, FeedbackInv, PlaceInv
  <2>2. Corrected(Head(todo)).receipt.at = Head(todo) /\ HasRow("ir_observation", Head(todo))
    BY <2>1, CorrectedRange DEF UpdatesObserved
  <2>3. model' \in {model, Corrected(Head(todo))} /\ memory' \in {memory, model'}
    BY <1>3 DEF Apply, ApplyFails, Rename
  <2>4. /\ (model.receipt # NoReceipt => HasRow("ir_observation", model.receipt.at))'
        /\ (memory.receipt # NoReceipt => HasRow("ir_observation", memory.receipt.at))'
    BY <1>1, <2>2, <2>3 DEF UpdatesObserved
  <2>5. pc' = "poll" \/ (pc' = "receipt" /\ todo' = todo)
    BY <1>3 DEF Apply, ApplyFails, Abandon
  <2> QED
    BY <1>1, <1>2, <2>2, <2>4, <2>5 DEF UpdatesObserved
<1>4. CASE ~(Apply \/ \E renamed \in BOOLEAN : ApplyFails(renamed))
  <2>1. model' = model /\ memory' \in {memory, model}
    BY <1>4 DEF Next, Progress, Poll, CloseEpisode, Summarize, SummarizeFails, Recover,
         RecoverFails, Select, SelectFails, FeedbackEnds, Skip, Observe, ObserveFails,
         NoProposal, RecordReceipt, RecordReceiptFails, End, Restart, RestartFails,
         RecoverAtStart, vars
  <2>2. pc' \in {"propose", "receipt"} => Observe \/ UNCHANGED vars
    BY <1>4 DEF Next, Progress, Poll, CloseEpisode, Summarize, SummarizeFails, Recover,
         RecoverFails, Select, SelectFails, FeedbackEnds, Skip, ObserveFails, NoProposal,
         RecordReceipt, Abandon, RecordReceiptFails, End, Restart, RestartFails,
         RecoverAtStart, vars
  <2>3. pc' \in {"propose", "receipt"} => HasRow("ir_observation", Head(todo))'
    <3>1. CASE Observe
      <4>1. /\ Head(todo) \in 1 .. Len(raw)
            /\ history' = WithObservation(Head(todo)) /\ todo' = todo
        BY <3>1 DEF Observe, FeedbackInv, PlaceInv
      <4>2. HasRow("ir_observation", Head(todo))'
        BY <4>1, ObservationRow
      <4> QED
        BY <4>1, <4>2
    <3>2. CASE UNCHANGED vars
      BY <1>1, <3>2 DEF UpdatesObserved, vars
    <3> QED
      BY <2>2, <3>1, <3>2
  <2> QED
    BY <1>1, <1>2, <2>1, <2>3 DEF UpdatesObserved
<1> QED
  BY <1>3, <1>4

(* The head of the work list and the rest of it.                           *)
LEMMA HeadOrTail ==
  ASSUME FeedbackInv, todo # <<>>, todo' = Tail(todo), NEW e, Left(e)
  PROVE  e = Head(todo) \/ Left(e)'
<1>1. PICK i \in DOMAIN todo : todo[i] = e
  BY DEF Left
<1>2. todo \in Seq(1 .. Len(raw))
  BY DEF FeedbackInv, PlaceInv
<1>3. CASE i = 1
  BY <1>1, <1>2, <1>3
<1>4. CASE i # 1
  <2>1. i - 1 \in DOMAIN todo' /\ todo'[i - 1] = e
    BY <1>1, <1>2, <1>4
  <2> QED
    BY <2>1 DEF Left
<1> QED
  BY <1>3, <1>4

(* An outage that is passed over needs no observation.                     *)
LEMMA SkippedRecorded ==
  ASSUME FeedbackInv, UpdatesObserved, NEW e, Skipped(e)
  PROVE  Recorded(e)
<1>1. EventKind(e) \in {"self_test", "model_update"} => HasRow(EventKind(e), e)
  BY EventKindIsRow DEF FeedbackInv, HistoryInv
<1>2. EventKind(e) = "ir_observation" => HasRow("ir_observation", e)
  BY EventKindIsRow DEF FeedbackInv, HistoryInv
<1> QED
  BY <1>1, <1>2 DEF Skipped, Recorded, UpdatesObserved

(* Every step keeps the list complete.                                     *)
LEMMA VisitStep ==
  ASSUME FeedbackInv, UpdatesObserved, VisitInv, [Next]_vars
  PROVE  VisitInv'
<1>1. \A kind, e : HasRow(kind, e) => HasRow(kind, e)'
  BY StepAdds, RowsAfter
<1> SUFFICES ASSUME ~replayed', pc' \in {"event", "propose", "receipt"},
                    NEW e \in 1 .. Len(raw')
             PROVE  Recorded(e)' \/ Left(e)'
  BY DEF VisitInv
<1>2. CASE Select
  <2>1. raw' = raw /\ todo' = [i \in 1 .. Len(raw) |-> i]
    BY <1>2 DEF Select
  <2> QED
    BY <2>1 DEF Left
<1>3. CASE ~Select
  <2>1. raw' = raw /\ ~replayed /\ pc \in {"event", "propose", "receipt"}
        /\ \/ todo' = todo
           \/ /\ todo' = Tail(todo) /\ todo # <<>>
              /\ Skipped(Head(todo)) \/ pc \in {"propose", "receipt"}
    BY <1>3 DEF Next, Progress, Poll, CloseEpisode, Summarize, SummarizeFails, Recover,
         RecoverFails, SelectFails, FeedbackEnds, Skip, Observe, ObserveFails, NoProposal,
         RecordReceipt, Abandon, RecordReceiptFails, End, Restart, RestartFails,
         RecoverAtStart, Apply, ApplyFails, vars, FeedbackInv, PlaceInv
  <2>2. Recorded(e) \/ Left(e)
    BY <2>1 DEF VisitInv
  <2>3. Recorded(e) => Recorded(e)'
    BY <1>1, <2>1 DEF Recorded
  <2>4. ASSUME todo' = Tail(todo), todo # <<>>, Left(e),
               Skipped(Head(todo)) \/ pc \in {"propose", "receipt"}
        PROVE  Recorded(e) \/ Left(e)'
    <3>1. e = Head(todo) \/ Left(e)'
      BY <2>4, HeadOrTail
    <3>2. pc \in {"propose", "receipt"} => Recorded(Head(todo))
      BY DEF UpdatesObserved, Recorded
    <3>3. Skipped(Head(todo)) => Recorded(Head(todo))
      BY SkippedRecorded
    <3> QED
      BY <2>4, <3>1, <3>2, <3>3
  <2> QED
    BY <2>1, <2>2, <2>3, <2>4 DEF Left
<1> QED
  BY <1>2, <1>3

(* The invariant of the corrections.                                       *)
LEMMA ObservedHold == Spec => []UpdatesObserved
<1>1. Init => UpdatesObserved
  <2> SUFFICES ASSUME Init PROVE UpdatesObserved
    OBVIOUS
  <2>1. \A kind, e : ~HasRow(kind, e)
    BY DEF Init, HasRow
  <2> QED
    BY <2>1 DEF Init, UpdatesObserved
<1>2. FeedbackInv /\ UpdatesObserved /\ [Next]_vars => UpdatesObserved'
  BY ObservedStep
<1> QED
  BY <1>1, <1>2, TypesHold, PTL DEF Spec

(* _feedback_replayed becomes true only when every natural outage with a   *)
(* load step has its observation, whatever failed before.                  *)
THEOREM ReplayComplete == Spec => ReplayLeavesNothing
<1>1. Init => VisitInv
  BY DEF Init, VisitInv
<1>2. FeedbackInv /\ UpdatesObserved /\ VisitInv /\ [Next]_vars => VisitInv'
  BY VisitStep
<1>3. FeedbackInv /\ UpdatesObserved /\ VisitInv /\ [Next]_vars =>
        [~replayed /\ replayed' =>
           \A e \in DOMAIN raw :
             raw[e].estimate # NoStep /\ ~HasRow("self_test", e) => HasRow("ir_observation", e)]_vars
  <2> SUFFICES ASSUME FeedbackInv, VisitInv, Next, ~replayed, replayed', NEW e \in DOMAIN raw
               PROVE  Recorded(e)
    BY DEF Recorded
  <2>1. pc = "event" /\ todo = <<>>
    BY DEF Next, Progress, Poll, CloseEpisode, Summarize, SummarizeFails, Recover,
         RecoverFails, Select, SelectFails, FeedbackEnds, Skip, Observe, ObserveFails,
         NoProposal, RecordReceipt, Abandon, RecordReceiptFails, End, Restart, RestartFails,
         RecoverAtStart, Apply, ApplyFails
  <2>2. e \in 1 .. Len(raw)
    BY DEF FeedbackInv, PlaceInv
  <2>3. ~Left(e)
    BY <2>1 DEF Left
  <2> QED
    BY <2>1, <2>2, <2>3 DEF VisitInv
<1> QED
  BY <1>1, <1>2, <1>3, TypesHold, ObservedHold, PTL DEF Spec, ReplayLeavesNothing
=============================================================================
