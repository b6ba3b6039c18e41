------------------------- MODULE OutageRecordingProofs -------------------------
(***************************************************************************)
(* Proofs about OutageRecording, for every window, cooldown, horizon, set  *)
(* of readings and number of faults: what the stream and the history hold, *)
(* and at the end how many history rows there are.                         *)
(***************************************************************************)
EXTENDS OutageRecording, NumberLemmas, FiniteSetTheorems, TLAPS

-----------------------------------------------------------------------------
(* The stream read back: every battery row lies in a run.                  *)

(* A definition, to be cited of the next state too.                        *)
EveryBatteryRowLiesInRun ==
  stream \in Seq(Sample) =>
    \A i \in Nat : Battery(i) => \E run \in Runs : run[1] <= i /\ i <= run[2]

LEMMA BatteryRowLiesInRun == EveryBatteryRowLiesInRun
<1> SUFFICES ASSUME stream \in Seq(Sample), NEW i \in Nat, Battery(i)
             PROVE  \E run \in Runs : run[1] <= i /\ i <= run[2]
  BY DEF EveryBatteryRowLiesInRun
<1> DEFINE First == {a \in 1 .. i : \A k \in a .. i : Battery(k)}
           Last  == {b \in i .. Len(stream) : \A k \in i .. b : Battery(k)}
<1>1. i \in 1 .. Len(stream) /\ Len(stream) \in Nat
  BY DEF Battery
<1>2. i \in First /\ i \in Last
  BY <1>1
<1>3. PICK a \in First : \A c \in First : a <= c
  <2>1. \A a \in First : a \in Nat
    BY <1>1
  <2>2. First \in SUBSET Nat /\ First # {}
    BY <1>2, <2>1, Zenon
  <2> QED
    BY <2>2, LeastNumber, Zenon
<1>4. PICK b \in Last : \A c \in Last : c <= b
  <2>1. Last \in SUBSET Nat /\ Last # {} /\ \A c \in Last : c <= Len(stream)
    BY <1>1, <1>2
  <2> QED
    BY <1>1, <2>1, GreatestNumber, Zenon
<1>5. ~Battery(a - 1)
  <2> SUFFICES ASSUME Battery(a - 1) PROVE a - 1 \in First
    BY <1>1, <1>3
  <2> QED
    BY <1>1 DEF Battery
<1>6. ~Battery(b + 1)
  <2> SUFFICES ASSUME Battery(b + 1) PROVE b + 1 \in Last
    BY <1>1, <1>4
  <2> QED
    BY <1>1 DEF Battery
<1>7. <<a, b>> \in (DOMAIN stream) \X (DOMAIN stream)
  BY <1>1
<1>8. a <= b /\ \A k \in a .. b : Battery(k)
  BY <1>1
<1> QED
  BY <1>1, <1>5, <1>6, <1>7, <1>8 DEF Runs

(* A time is that of a row in the run.                                     *)
Within(run, t) == \E i \in run[1] .. run[2] : stream[i].at = t

(* The row that reconciling may add is a blackout, from a battery row of a *)
(* closed run to the end of that run.                                      *)
LEMMA ReconciledAddsRun ==
  ASSUME WriterTypeOK, ContextRows \in Nat, NEW shadowed \in BOOLEAN
  PROVE  \/ Reconciled(shadowed) = history
         \/ \E run \in ClosedRuns, from \in Nat :
              /\ Within(run, from)
              /\ End(run) \in Nat
              /\ Reconciled(shadowed) =
                   Append(history, [kind |-> "blackout", at |-> from, until |-> End(run)])
<1> SUFFICES ASSUME Reconciled(shadowed) # history
             PROVE  \E run \in ClosedRuns, from \in Nat :
                      /\ Within(run, from)
                      /\ End(run) \in Nat
                      /\ Reconciled(shadowed) =
                           Append(history,
                                  [kind |-> "blackout", at |-> from, until |-> End(run)])
  OBVIOUS
<1>0. stream \in Seq(Sample) /\ DOMAIN stream = 1 .. Len(stream) /\ Len(stream) \in Nat
  BY DEF WriterTypeOK
<1>1. OpenRuns = {} /\ ClosedRuns = Runs /\ Runs # {}
  BY DEF Reconciled, ClosedRuns
<1>2. \A run \in Runs : run[1] \in Nat /\ run[1] <= Len(stream) /\ Battery(run[1])
  BY <1>0 DEF Runs
<1> DEFINE last == CHOOSE run \in Runs : \A other \in Runs : other[1] <= run[1]
<1>3. last \in Runs
  <2> DEFINE S == {run[1] : run \in Runs}
  <2>1. PICK n \in S : \A m \in S : m <= n
    <3>1. S \in SUBSET Nat /\ S # {} /\ \A n \in S : n <= Len(stream)
      BY <1>1, <1>2
    <3> QED
      BY <1>0, <3>1, GreatestNumber
  <2>2. \E run \in Runs : \A other \in Runs : other[1] <= run[1]
    BY <2>1
  <2> QED
    BY <2>2
<1>4. Reconciled(shadowed) = SummaryInContext(last)
  BY <1>1 DEF Reconciled
<1> HIDE DEF last
<1> DEFINE rows == {i \in last[1] - ContextRows .. last[1] : Battery(i)}
           first == CHOOSE i \in rows : \A j \in rows : i <= j
           found == CHOOSE r \in ClosedRuns : r[1] <= first /\ first <= r[2]
<1>5. first \in rows
  <2>1. rows \in SUBSET Nat
    BY <1>0 DEF Battery
  <2>2. last[1] \in rows
    BY <1>2, <1>3
  <2>3. \E i \in rows : \A j \in rows : i <= j
    BY <2>1, <2>2, LeastNumber
  <2> QED
    BY <2>3
<1>6. SummaryInContext(last) = WithSummary("REAL", stream[first].at, End(found))
  BY DEF SummaryInContext
<1> HIDE DEF rows, first
<1>7. Battery(first)
  BY <1>5 DEF rows
<1>8. found \in Runs /\ found[1] <= first /\ first <= found[2]
  <2>1. first \in Nat
    BY <1>0, <1>7 DEF Battery
  <2>2. \E r \in ClosedRuns : r[1] <= first /\ first <= r[2]
    BY <1>0, <1>1, <1>7, <2>1, BatteryRowLiesInRun DEF EveryBatteryRowLiesInRun
  <2> QED
    BY <1>1, <2>2
<1> HIDE DEF found
<1>9. stream[first].at \in Nat
  <2>1. stream[first] \in Sample
    BY <1>0, <1>7 DEF Battery
  <2> QED
    BY <2>1 DEF Sample
<1>10. End(found) \in Nat
  <2>1. found[2] \in 1 .. Len(stream) /\ found[2] # Len(stream)
    BY <1>0, <1>1, <1>8 DEF Runs, OpenRuns
  <2>2. stream[found[2] + 1] \in Sample
    BY <1>0, <2>1
  <2> QED
    BY <2>2 DEF End, Sample
<1>11. Within(found, stream[first].at)
  <2>1. first \in found[1] .. found[2]
    BY <1>0, <1>7, <1>8 DEF Battery, Runs
  <2> QED
    BY <2>1 DEF Within
<1>12. Reconciled(shadowed) =
         Append(history, [kind |-> "blackout", at |-> stream[first].at, until |-> End(found)])
  BY <1>4, <1>6, Zenon DEF WithSummary
<1> QED
  BY <1>1, <1>8, <1>9, <1>10, <1>11, <1>12

LEMMA ReconciledAddsBlackout ==
  ASSUME WriterTypeOK, ContextRows \in Nat, NEW shadowed \in BOOLEAN
  PROVE  \/ Reconciled(shadowed) = history
         \/ \E from, to \in Nat :
              Reconciled(shadowed) =
                Append(history, [kind |-> "blackout", at |-> from, until |-> to])
BY ReconciledAddsRun

-----------------------------------------------------------------------------
(* Types.  A poll that has begun ends before MaxTime, and writes only an   *)
(* observation that becomes a row.                                         *)

PollInv ==
  /\ pc \in {"write", "summarize", "check"} => now < MaxTime
  /\ pc = "write" => reading \in Recorded

TInv == TypeOK /\ PollInv

LEMMA DayType ==
  ASSUME now \in Nat
  PROVE  Day \in Nat
<1>1. DayLength \in Nat /\ DayLength > 0
  BY RecordingAssumption
<1>2. now \div DayLength \in Nat
  BY <1>1
<1> QED
  BY <1>2 DEF Day

HistoryRow == [kind : {"blackout", "self_test"}, at : Nat, until : Nat]

LEMMA SummaryType ==
  ASSUME history \in Seq(HistoryRow), NEW kind, NEW from \in Nat, NEW to \in Nat
  PROVE  WithSummary(kind, from, to) \in Seq(HistoryRow)
<1> DEFINE row == [kind  |-> IF kind = "TEST" THEN "self_test" ELSE "blackout",
                   at    |-> from,
                   until |-> to]
<1>1. row \in HistoryRow
  BY DEF HistoryRow
<1> HIDE DEF row
<1>2. Append(history, row) \in Seq(HistoryRow)
  BY <1>1
<1>3. WithSummary(kind, from, to) = history \/ WithSummary(kind, from, to) = Append(history, row)
  BY DEF WithSummary, row
<1> QED
  BY <1>2, <1>3

LEMMA ReconciledType ==
  ASSUME WriterTypeOK, NEW shadowed \in BOOLEAN
  PROVE  Reconciled(shadowed) \in Seq(HistoryRow)
<1>1. history \in Seq(HistoryRow)
  BY DEF WriterTypeOK, HistoryRow
<1>2. \A from, to \in Nat : [kind |-> "blackout", at |-> from, until |-> to] \in HistoryRow
  BY DEF HistoryRow
<1>3. \A row \in HistoryRow : Append(history, row) \in Seq(HistoryRow)
  BY <1>1
<1> QED
  BY <1>1, <1>2, <1>3, WindowAssumption, ReconciledAddsBlackout

LEMMA InitType == Init => TInv
<1> SUFFICES ASSUME Init PROVE TInv
  OBVIOUS
<1>1. WriterTypeOK
  <2>1. <<>> \in Seq(Sample) /\ <<>> \in Seq(HistoryRow)
    BY DEF HistoryRow
  <2>2. NoEpisode \in [kind : {"REAL", "TEST"}, start : Nat]
    BY DEF NoEpisode, None
  <2>3. active = FALSE /\ recharging = FALSE
    BY Zenon DEF Init, WriterInit
  <2> QED
    BY <2>1, <2>2, <2>3 DEF Init, WriterInit, WriterTypeOK, HistoryRow, None
<1>2. 1 \in 1 .. MaxTime /\ 0 \in 0 .. MaxFaults
  BY RecordingAssumption
<1> QED
  BY <1>1, <1>2 DEF Init, TInv, TypeOK, PollInv, Reading, None

(* What the writer does with a row, by its own types.                      *)
LEMMA WriterStepType ==
  ASSUME WriterTypeOK, NEW row \in [at : Nat \ {0}, status : Reading],
         NEW kind \in {"REAL", "TEST"}, NEW landed \in BOOLEAN,
         row.status \in Recorded,
         \/ RecordBattery(row) \/ FlushSilent(row) \/ BeginEpisode(row, kind)
         \/ EndEpisode(row) \/ Recharge(row) \/ Relapse(row) \/ RecordTail(row)
         \/ StaySilent(row) \/ AppendRaises(row, landed)
  PROVE  WriterTypeOK'
<1>1. row \in Sample /\ row.at \in Nat \ {0}
  BY DEF Sample
<1>2. PostFullDeadline(row) \in Nat
      /\ (PostFullDeadline(row) # None => PostFullDeadline(row) > SilentWindow)
  BY <1>1, WindowAssumption DEF PostFullDeadline, None
<1>3. \A due \in Due(row) : due \in Sample
  BY <1>1 DEF Due, NextSilent, WriterTypeOK
<1>4. NextSilent \subseteq Sample
  BY DEF NextSilent, WriterTypeOK
<1>5. \A sample \in Sample : Append(stream, sample) \in Seq(Sample)
  BY DEF WriterTypeOK
<1> USE DEF WriterTypeOK
<1>a. CASE RecordBattery(row)
  BY <1>1, <1>5, <1>a DEF RecordBattery
<1>b. CASE FlushSilent(row)
  BY <1>4, <1>5, <1>b DEF FlushSilent
<1>c. CASE BeginEpisode(row, kind)
  <2>1. [kind |-> kind, start |-> row.at] \in [kind : {"REAL", "TEST"}, start : Nat]
    BY <1>1
  <2> QED
    BY <1>1, <1>5, <1>c, <2>1 DEF BeginEpisode, None
<1>d. CASE EndEpisode(row)
  <2>1. recharging' \in BOOLEAN
    <3>1. recharging' = (row.status \in BelowFull)
      BY <1>d DEF EndEpisode
    <3> QED
      BY <3>1
  <2>2. stream' \in Seq(Sample)
    BY <1>1, <1>5, <1>d DEF EndEpisode
  <2> QED
    BY <1>2, <1>d, <2>1, <2>2 DEF EndEpisode
<1>e. CASE Recharge(row)
  BY <1>1, <1>2, <1>5, <1>e DEF Recharge
<1>f. CASE Relapse(row)
  BY <1>1, <1>5, <1>f DEF Relapse, None
<1>g. CASE RecordTail(row)
  BY <1>1, <1>5, <1>g DEF RecordTail
<1>h. CASE StaySilent(row)
  <2>1. silent' \subseteq Sample
    BY <1>1, <1>h DEF StaySilent
  <2> QED
    BY <1>h, <2>1 DEF StaySilent, None
<1>i. CASE AppendRaises(row, landed)
  <2>1. stream' \in Seq(Sample)
    BY <1>3, <1>5, <1>i DEF AppendRaises
  <2>2. recharging' \in BOOLEAN
    BY Zenon, <1>i DEF AppendRaises
  <2>3. postFullUntil' = 0 \/ postFullUntil' = postFullUntil
    BY Zenon, <1>i DEF AppendRaises, None
  <2>4. UNCHANGED <<history, active, episode, silent>>
    BY Zenon, <1>i DEF AppendRaises
  <2> QED
    BY <2>1, <2>2, <2>3, <2>4 DEF None
<1> QED
  BY <1>a, <1>b, <1>c, <1>d, <1>e, <1>f, <1>g, <1>h, <1>i

LEMMA RestoredEpisodeType ==
  ASSUME WriterTypeOK, Restored
  PROVE  episode' \in [kind : {"REAL", "TEST"}, start : Nat]
<1> DEFINE open == CHOOSE run \in OpenRuns : TRUE
<1>1. CASE OpenRuns = {}
  BY <1>1 DEF Restored, None
<1>2. CASE OpenRuns # {}
  <2>1. open \in Runs
    BY <1>2 DEF OpenRuns
  <2> HIDE DEF open
  <2>2. stream[open[1]] \in Sample
    BY <2>1 DEF Runs, Battery, WriterTypeOK
  <2>3. Start(open) \in Nat
    BY <2>2 DEF Start, Sample
  <2>4. episode' = [kind |-> "REAL", start |-> Start(open)]
    BY <1>2 DEF Restored, open
  <2> QED
    BY <2>3, <2>4
<1> QED
  BY <1>1, <1>2

LEMMA TypeStep == TInv /\ [Next]_vars => TInv'
<1> SUFFICES ASSUME TypeOK, PollInv, [Next]_vars PROVE TypeOK' /\ PollInv'
  BY DEF TInv
<1>0. now \in Nat \ {0} /\ now + 1 \in Nat /\ MaxTime \in Nat
  BY RecordingAssumption DEF TypeOK
<1>1. Row.at = now /\ Row.status = reading /\ Row \in [at : Nat \ {0}, status : Reading]
  BY <1>0 DEF TypeOK, Row
<1>2. \A s \in Readings : s \in Reading
  BY RecordingAssumption
<1>3. KindOfReading \in {"REAL", "TEST"}
  BY DEF KindOfReading
<1>4. \A s \in Readings : Classify(s) =>
        /\ episodeKind' \in {"NONE", "REAL", "TEST"}
        /\ pendingUntil' \in Nat
        /\ attributed' \subseteq 1 .. now
  BY <1>0 DEF Classify, TypeOK, None
<1>5. WriterTypeOK /\ UNCHANGED writerVars => WriterTypeOK'
  BY DEF writerVars, WriterTypeOK
<1> USE DEF TypeOK, PollInv
<1>a. ASSUME NEW s \in Readings, Observe(s) PROVE TypeOK' /\ PollInv'
  <2>1. s # "UNKNOWN" => s \in Recorded
    BY <1>2 DEF Reading, Recorded, OnlineKind, BelowFull
  <2>2. Classify(s) /\ UNCHANGED writerVars
    BY <1>a DEF Observe
  <2> QED
    BY <1>0, <1>2, <1>4, <1>5, <1>a, <2>1, <2>2 DEF Observe
<1>b. ASSUME NEW s \in Readings, ObserveInvalid(s) PROVE TypeOK' /\ PollInv'
  <2>1. Classify(s) /\ UNCHANGED writerVars
    BY <1>b DEF ObserveInvalid
  <2> QED
    BY <1>0, <1>4, <1>5, <1>b, <2>1 DEF ObserveInvalid
<1>c. CASE Elapse
  <2>1. UNCHANGED writerVars
    BY <1>c DEF Elapse
  <2> QED
    BY <1>0, <1>5, <1>c, <2>1 DEF Elapse, daemonVars, witnessVars
<1>d. CASE Flush
  <2>1. WriterTypeOK'
    BY <1>1, <1>3, <1>d, WriterStepType DEF Flush
  <2> QED
    BY <1>d, <2>1 DEF Flush, daemonVars, witnessVars
<1>e. CASE Write
  <2>1. WriterTypeOK'
    BY <1>1, <1>3, <1>e, WriterStepType DEF Write
  <2> QED
    BY <1>e, <2>1 DEF Write, daemonVars, witnessVars
<1>f. CASE Close
  <2>1. WriterTypeOK'
    BY <1>1, <1>3, <1>f, WriterStepType DEF Close
  <2> QED
    BY <1>f, <2>1 DEF Close, daemonVars, witnessVars
<1>g. CASE SummarizeEpisode
  <2>1. WriterTypeOK'
    <3>1. Summarize(now)
      BY <1>g DEF SummarizeEpisode
    <3>2. episode.start \in Nat
      BY DEF WriterTypeOK
    <3>3. history' \in Seq(HistoryRow)
      BY <1>0, <3>1, <3>2, SummaryType DEF Summarize, WriterTypeOK, HistoryRow
    <3> QED
      BY <3>1, <3>3 DEF Summarize, WriterTypeOK, HistoryRow, NoEpisode, None
  <2> QED
    BY <1>g, <2>1 DEF SummarizeEpisode, daemonVars, witnessVars
<1>h. ASSUME NEW landed \in BOOLEAN, AppendFails(landed) PROVE TypeOK' /\ PollInv'
  <2>1. WriterTypeOK'
    <3>1. CASE pc = "write" /\ AppendRaises(Row, landed)
      BY <1>1, <1>3, <3>1, WriterStepType
    <3>2. CASE SummaryRaises(now, landed)
      <4>1. episode.start \in Nat
        BY DEF WriterTypeOK
      <4>2. history' \in Seq(HistoryRow)
        BY <1>0, <3>2, <4>1, SummaryType DEF SummaryRaises, WriterTypeOK, HistoryRow
      <4> QED
        BY <3>2, <4>2 DEF SummaryRaises, WriterTypeOK, HistoryRow
    <3> QED
      BY <1>h, <3>1, <3>2 DEF AppendFails
  <2>2. faults' \in 0 .. MaxFaults /\ late' \in 0 .. faults'
    BY <1>h, RecordingAssumption DEF AppendFails, Fault
  <2>3. pc' = "check" /\ now < MaxTime
    BY <1>h DEF AppendFails
  <2>4. UNCHANGED <<now, reading, daemonVars, commands, attributed>>
    BY <1>h DEF AppendFails
  <2> QED
    BY <2>1, <2>2, <2>3, <2>4 DEF daemonVars
<1>i. CASE NoSelfTest
  <2>1. UNCHANGED writerVars
    BY <1>i DEF NoSelfTest
  <2>2. checkedDay' \in Nat
    BY <1>0, <1>i, DayType DEF NoSelfTest
  <2> QED
    BY <1>0, <1>5, <1>i, <2>1, <2>2 DEF NoSelfTest, EndOfPoll, witnessVars, Reading
<1>j. ASSUME NEW accepted \in BOOLEAN, SelfTest(accepted) PROVE TypeOK' /\ PollInv'
  <2>1. UNCHANGED writerVars
    BY <1>j DEF SelfTest
  <2>2. checkedDay' \in Nat
    BY <1>0, <1>j, DayType DEF SelfTest
  <2>3. pendingUntil' \in Nat /\ commands' \in Seq(Nat)
    <3>1. AttributionWindow \in Nat /\ now + AttributionWindow \in Nat
      BY <1>0, RecordingAssumption
    <3>2. Append(commands, now) \in Seq(Nat)
      BY <1>0
    <3> QED
      BY <1>j, <3>1, <3>2 DEF SelfTest
  <2> QED
    BY <1>0, <1>5, <1>j, <2>1, <2>2, <2>3 DEF SelfTest, EndOfPoll, Reading
<1>k. CASE Stop
  <2>1. WriterTypeOK'
    BY <1>k DEF Stop, WriterTypeOK, NoEpisode, None
  <2>2. now' \in 1 .. MaxTime /\ now <= now'
    BY <1>0, <1>k DEF Stop
  <2>3. faults' \in 0 .. MaxFaults /\ late' \in 0 .. faults'
    BY <1>k, RecordingAssumption DEF Stop, Fault
  <2>4. attributed' \subseteq 1 .. now'
    BY <1>0, <1>k, <2>2 DEF Stop
  <2> QED
    BY <1>k, <2>1, <2>2, <2>3, <2>4 DEF Stop, Reading, None
<1>l. ASSUME NEW shadowed \in BOOLEAN, Restart(shadowed) PROVE TypeOK' /\ PollInv'
  <2>1. WriterTypeOK'
    <3>1. history' \in Seq(HistoryRow)
      BY <1>l, ReconciledType DEF Restart
    <3>2. episode' \in [kind : {"REAL", "TEST"}, start : Nat]
      BY <1>l, RestoredEpisodeType DEF Restart
    <3>3. active' \in BOOLEAN /\ recharging' \in BOOLEAN
      BY Zenon, <1>l DEF Restart, Restored
    <3> QED
      BY <1>l, <3>1, <3>2, <3>3 DEF Restart, Restored, WriterTypeOK, HistoryRow, None
  <2> QED
    BY <1>l, <2>1 DEF Restart, daemonVars, witnessVars
<1>m. ASSUME NEW shadowed \in BOOLEAN, NEW landed \in BOOLEAN, RestartFails(shadowed, landed)
      PROVE  TypeOK' /\ PollInv'
  <2>1. WriterTypeOK'
    <3>1. history' \in Seq(HistoryRow)
      BY <1>m, ReconciledType DEF RestartFails, WriterTypeOK, HistoryRow
    <3> QED
      BY <1>m, <3>1 DEF RestartFails, WriterTypeOK, HistoryRow
  <2>2. faults' \in 0 .. MaxFaults /\ late' \in 0 .. faults'
    BY <1>m, RecordingAssumption DEF RestartFails, Fault
  <2> QED
    BY <1>m, <2>1, <2>2 DEF RestartFails, daemonVars
<1>n. CASE UNCHANGED vars
  BY <1>5, <1>n DEF vars, daemonVars, witnessVars
<1> QED
  BY <1>a, <1>b, <1>c, <1>d, <1>e, <1>f, <1>g, <1>h, <1>i, <1>j, <1>k, <1>l, <1>m, <1>n
  DEF Next

(* The types of the recorder and the writer, from TelemetryJsonlWriter.    *)
THEOREM TypeCorrect == Spec => []TypeOK
<1>1. TInv => TypeOK
  BY DEF TInv
<1> QED
  BY <1>1, InitType, TypeStep, PTL DEF Spec

-----------------------------------------------------------------------------
(* Order.  What is buffered was seen after what is in the stream, and      *)
(* nothing of the second being processed is in either before it is         *)
(* written.  Buffered rows exist only where an online row would stay       *)
(* silent, so the first append to come is theirs.                          *)

Seen(t) == t <= now /\ (pc \in {"idle", "down", "write"} => t < now)

BufferedInOrder ==
  /\ \A row \in silent : Seen(row.at)
  /\ \A row, other \in silent : row.at = other.at => row = other
  /\ \A row \in silent, i \in DOMAIN stream :
       stream[i].at <= row.at /\ (stream[i].at = row.at => late > 0)
  /\ silent # {} => ~active /\ ~recharging /\ postFullUntil = None

OrderInv ==
  /\ StreamInOrder
  /\ \A i \in DOMAIN stream : Seen(stream[i].at)
  /\ BufferedInOrder

LEMMA StreamTimes ==
  ASSUME WriterTypeOK
  PROVE  \A i \in DOMAIN stream : stream[i].at \in Nat
<1>1. \A i \in DOMAIN stream : stream[i] \in Sample
  BY DEF WriterTypeOK
<1> QED
  BY <1>1 DEF Sample

(* A row goes to the end of an ordered stream.                             *)
LEMMA AppendInOrder ==
  ASSUME TypeOK, TypeOK', StreamInOrder, late <= late',
         NEW row \in Sample, stream' = Append(stream, row),
         \A i \in DOMAIN stream :
           stream[i].at <= row.at /\ (stream[i].at = row.at => late' > 0)
  PROVE  StreamInOrder'
<1>1. /\ DOMAIN stream = 1 .. Len(stream) /\ Len(stream) \in Nat
      /\ DOMAIN stream' = 1 .. Len(stream) + 1
      /\ \A i \in DOMAIN stream : stream'[i] = stream[i]
      /\ stream'[Len(stream) + 1] = row
  <2>1. stream \in Seq(Sample)
    BY DEF TypeOK, WriterTypeOK
  <2> QED
    BY <2>1
<1>2. late \in Nat /\ late' \in Nat
  BY DEF TypeOK
<1> SUFFICES ASSUME NEW i \in DOMAIN stream', NEW j \in DOMAIN stream', i < j
             PROVE  /\ stream'[i].at <= stream'[j].at
                    /\ stream'[i].at = stream'[j].at => late' > 0
  BY Zenon DEF StreamInOrder
<1>3. i \in DOMAIN stream
  BY <1>1
<1>4. CASE j \in DOMAIN stream
  BY <1>1, <1>2, <1>3, <1>4 DEF StreamInOrder
<1>5. CASE j = Len(stream) + 1
  BY <1>1, <1>3, <1>5
<1> QED
  BY <1>1, <1>4, <1>5

LEMMA OrderInit == Init => OrderInv
BY DEF Init, WriterInit, OrderInv, StreamInOrder, BufferedInOrder

(* A step that leaves the stream and the buffer alone, or drops the buffer.*)
LEMMA OrderKept ==
  ASSUME TypeOK, TypeOK', OrderInv, stream' = stream, late <= late',
         now <= now',
         pc' \in {"idle", "down", "write"} => pc \in {"idle", "down", "write"} \/ now < now',
         \/ silent' = {}
         \/ UNCHANGED <<silent, active, recharging, postFullUntil>>
  PROVE  OrderInv'
<1>1. now \in Nat /\ now' \in Nat /\ late \in Nat /\ late' \in Nat
  BY RecordingAssumption DEF TypeOK
<1>2. \A i \in DOMAIN stream : stream[i].at \in Nat
  BY StreamTimes DEF TypeOK
<1>3. \A row \in silent : row.at \in Nat
  BY DEF TypeOK, WriterTypeOK, Sample
<1>4. \A t \in Nat : Seen(t) => Seen(t)'
  BY <1>1 DEF Seen
<1>5. StreamInOrder'
  BY <1>1 DEF OrderInv, StreamInOrder
<1>6. \A i \in DOMAIN stream' : Seen(stream[i].at)'
  BY <1>2, <1>4 DEF OrderInv
<1>7. BufferedInOrder'
  BY <1>1, <1>3, <1>4 DEF OrderInv, BufferedInOrder
<1> QED
  BY <1>5, <1>6, <1>7 DEF OrderInv

(* The row of this second is appended: no buffered row waits before it.    *)
LEMMA OrderOfOwnRow ==
  ASSUME TInv, TInv', OrderInv, pc = "write", silent = {}, silent' = {},
         stream' = Append(stream, Row), pc' \notin {"idle", "down", "write"},
         now' = now, late <= late'
  PROVE  OrderInv'
<1>1. now \in Nat /\ Row.at = now /\ Row \in Sample
  BY DEF TInv, TypeOK, PollInv, Row, Sample
<1>2. stream \in Seq(Sample)
  BY DEF TInv, TypeOK, WriterTypeOK
<1>3. \A i \in DOMAIN stream : stream[i].at \in Nat /\ stream[i].at < now
  BY <1>1, StreamTimes DEF TInv, TypeOK, OrderInv, Seen
<1>4. StreamInOrder'
  BY <1>1, <1>3, AppendInOrder DEF TInv, OrderInv
<1>5. \A i \in DOMAIN stream' : stream'[i].at <= now
  BY <1>1, <1>2, <1>3
<1> QED
  BY <1>4, <1>5 DEF OrderInv, BufferedInOrder, Seen

(* An oldest buffered row is appended; it stays buffered if that raised.   *)
LEMMA OrderOfBuffered ==
  ASSUME TInv, TInv', OrderInv, now' = now,
         pc' \in {"idle", "down", "write"} => pc \in {"idle", "down", "write"},
         NEW next \in NextSilent, stream' = Append(stream, next),
         \/ silent' = silent /\ late' > late
         \/ silent' = silent \ {next} /\ late' = late,
         UNCHANGED <<active, recharging, postFullUntil>>
  PROVE  OrderInv'
<1>1. now \in Nat /\ late \in Nat /\ late' \in Nat
  BY DEF TInv, TypeOK
<1>2. next \in silent /\ next \in Sample /\ \A row \in silent : next.at <= row.at
  BY DEF NextSilent, TInv, TypeOK, WriterTypeOK
<1>3. next.at \in Nat /\ \A row \in silent : row.at \in Nat
  BY <1>2 DEF TInv, TypeOK, WriterTypeOK, Sample
<1>4. \A i \in DOMAIN stream : stream[i].at \in Nat
  BY StreamTimes DEF TInv, TypeOK
<1>5. /\ DOMAIN stream' = DOMAIN stream \cup {Len(stream) + 1}
      /\ \A i \in DOMAIN stream : stream'[i] = stream[i]
      /\ stream'[Len(stream) + 1] = next
  <2>1. stream \in Seq(Sample)
    BY DEF TInv, TypeOK, WriterTypeOK
  <2> QED
    BY <2>1
<1>6. \A t \in Nat : Seen(t) => Seen(t)'
  BY DEF Seen
<1>7. StreamInOrder'
  BY <1>1, <1>2, AppendInOrder DEF TInv, OrderInv, BufferedInOrder
<1>8. (\A i \in DOMAIN stream : Seen(stream[i].at))'
  <2>1. \A i \in DOMAIN stream : Seen(stream[i].at) /\ stream[i].at \in Nat
    BY <1>4 DEF OrderInv
  <2>2. Seen(next.at)
    BY <1>2 DEF OrderInv, BufferedInOrder
  <2> QED
    BY <1>3, <1>5, <2>1, <2>2 DEF Seen
<1>9. BufferedInOrder'
  <2>1. \A row \in silent' : row \in silent /\ Seen(row.at)'
    BY <1>3, <1>6 DEF OrderInv, BufferedInOrder
  <2>2. \A row, other \in silent' : row.at = other.at => row = other
    BY <2>1 DEF OrderInv, BufferedInOrder
  <2>3. ASSUME NEW row \in silent', NEW i \in DOMAIN stream'
        PROVE  stream'[i].at <= row.at /\ (stream'[i].at = row.at => late' > 0)
    <3>1. CASE i \in DOMAIN stream
      BY <1>1, <1>5, <2>1, <3>1 DEF OrderInv, BufferedInOrder
    <3>2. CASE i = Len(stream) + 1
      BY <1>1, <1>2, <1>3, <1>5, <2>1, <3>2 DEF OrderInv, BufferedInOrder
    <3> QED
      BY <1>5, <3>1, <3>2
  <2>4. ~active' /\ ~recharging' /\ postFullUntil' = None
    BY <1>2 DEF OrderInv, BufferedInOrder
  <2> QED
    BY <2>1, <2>2, <2>3, <2>4 DEF BufferedInOrder
<1> QED
  BY <1>7, <1>8, <1>9 DEF OrderInv

(* An append of this second's observation that raised.                     *)
LEMMA OrderOfFailedAppend ==
  ASSUME TInv, TInv', OrderInv, pc = "write", NEW landed \in BOOLEAN,
         AppendRaises(Row, landed), pc' = "check", now' = now,
         late' = IF landed THEN late + 1 ELSE late
  PROVE  OrderInv'
<1>1. now \in Nat /\ late \in Nat /\ Row.at = now /\ Row \in Sample
  BY DEF TInv, TypeOK, PollInv, Row, Sample
<1>2. PICK due \in Due(Row) : stream' = IF landed THEN Append(stream, due) ELSE stream
  BY DEF AppendRaises
<1>3. silent' = silent /\ active' = active
  BY DEF AppendRaises
<1>4. CASE silent = {}
  <2>1. Due(Row) = {Row}
    BY <1>4 DEF Due
  <2>2. CASE landed
    BY <1>1, <1>2, <1>3, <1>4, <2>1, <2>2, OrderOfOwnRow
  <2>3. CASE ~landed
    BY <1>1, <1>2, <1>3, <1>4, <2>3, OrderKept DEF TInv
  <2> QED
    BY <2>2, <2>3
<1>5. CASE silent # {}
  <2>1. ~active /\ ~recharging /\ ~InTail
    BY <1>5 DEF OrderInv, BufferedInOrder, InTail
  <2>2. Row.status = "OB" /\ UNCHANGED <<recharging, postFullUntil>>
    BY <2>1, Zenon DEF AppendRaises
  <2>3. due \in NextSilent
    BY <1>5, <2>1, <2>2 DEF Due
  <2>4. CASE landed
    BY <1>1, <1>2, <1>3, <2>2, <2>3, <2>4, OrderOfBuffered
  <2>5. CASE ~landed
    BY <1>1, <1>2, <1>3, <2>2, <2>5, OrderKept DEF TInv
  <2> QED
    BY <2>4, <2>5
<1> QED
  BY <1>4, <1>5

LEMMA OrderOfFlush ==
  ASSUME TInv, TInv', OrderInv, FlushSilent(Row), UNCHANGED <<now, pc, late>>
  PROVE  OrderInv'
<1>1. PICK next \in NextSilent : stream' = Append(stream, next) /\ silent' = silent \ {next}
  BY DEF FlushSilent
<1> QED
  BY <1>1, OrderOfBuffered DEF FlushSilent

(* Every step keeps the order.                                             *)
LEMMA OrderStep == TInv /\ TInv' /\ OrderInv /\ [Next]_vars => OrderInv'
<1> SUFFICES ASSUME TInv, TInv', OrderInv, [Next]_vars PROVE OrderInv'
  OBVIOUS
<1>0. /\ now \in Nat /\ late \in Nat /\ late <= late
      /\ now <= now + 1 /\ now < now + 1 /\ now <= now /\ late <= late + 1
  BY DEF TInv, TypeOK
<1>1. TypeOK /\ TypeOK'
  BY DEF TInv
<1> USE <1>0, <1>1
<1>a. ASSUME NEW s \in Readings, Observe(s) PROVE OrderInv'
  BY <1>a, OrderKept DEF Observe, writerVars
<1>b. ASSUME NEW s \in Readings, ObserveInvalid(s) PROVE OrderInv'
  BY <1>b, OrderKept DEF ObserveInvalid, writerVars
<1>c. CASE Elapse
  BY <1>c, OrderKept DEF Elapse, writerVars, witnessVars
<1>d. CASE Flush
  BY <1>d, OrderOfFlush DEF Flush, witnessVars
<1>e. CASE Write
  <2>1. pc = "write" /\ pc' = "check" /\ UNCHANGED <<now, late>>
    BY <1>e DEF Write, witnessVars
  <2>2. CASE StaySilent(Row)
    <3>1. /\ stream' = stream
          /\ \A row \in silent' : row \in silent \/ row = Row
          /\ ~active' /\ ~recharging' /\ postFullUntil' = None
      BY <2>2 DEF StaySilent
    <3>2. Row.at = now
      BY DEF Row
    <3>3. \A i \in DOMAIN stream : stream[i].at \in Nat /\ stream[i].at < now
      BY <2>1, StreamTimes DEF TypeOK, OrderInv, Seen
    <3>4. \A row \in silent : row.at \in Nat /\ row.at < now
      BY <2>1 DEF OrderInv, BufferedInOrder, Seen, TypeOK, WriterTypeOK, Sample
    <3>5. StreamInOrder'
      BY <2>1, <3>1 DEF OrderInv, StreamInOrder
    <3>6. BufferedInOrder'
      <4>1. \A row \in silent' : row.at <= now
        BY <3>1, <3>2, <3>4
      <4>2. \A row, other \in silent' : row.at = other.at => row = other
        BY <3>1, <3>2, <3>4 DEF OrderInv, BufferedInOrder
      <4>3. \A row \in silent', i \in DOMAIN stream :
              stream[i].at <= row.at /\ (stream[i].at = row.at => late > 0)
        BY <3>1, <3>2, <3>3 DEF OrderInv, BufferedInOrder
      <4> QED
        BY <2>1, <3>1, <4>1, <4>2, <4>3 DEF BufferedInOrder, Seen
    <3> QED
      BY <2>1, <3>1, <3>3, <3>5, <3>6 DEF OrderInv, Seen
  <2>3. CASE ~StaySilent(Row)
    <3>1. /\ stream' = Append(stream, Row)
          /\ silent' = silent
          /\ silent = {} \/ active \/ recharging \/ InTail
      BY <1>e, <2>3, Zenon
      DEF Write, RecordBattery, BeginEpisode, Recharge, Relapse, RecordTail
    <3>2. silent = {}
      BY <3>1 DEF OrderInv, BufferedInOrder, InTail
    <3> QED
      BY <2>1, <3>1, <3>2, OrderOfOwnRow
  <2> QED
    BY <2>2, <2>3
<1>f. CASE Close
  <2>1. silent = {} /\ silent' = {} /\ stream' = Append(stream, Row)
    BY <1>f DEF Close, EndEpisode, OrderInv, BufferedInOrder
  <2> QED
    BY <1>f, <2>1, OrderOfOwnRow DEF Close, witnessVars
<1>g. CASE SummarizeEpisode
  BY <1>g, OrderKept DEF SummarizeEpisode, Summarize, witnessVars
<1>h. ASSUME NEW landed \in BOOLEAN, AppendFails(landed) PROVE OrderInv'
  <2>1. CASE pc = "write" /\ AppendRaises(Row, landed)
    BY <1>h, <2>1, OrderOfFailedAppend DEF AppendFails, Fault
  <2>2. CASE pc = "summarize" /\ SummaryRaises(now, landed)
    BY <1>h, <2>2, OrderKept DEF AppendFails, Fault, SummaryRaises
  <2> QED
    BY <1>h, <2>1, <2>2 DEF AppendFails
<1>i. CASE NoSelfTest
  BY <1>i, OrderKept DEF NoSelfTest, EndOfPoll, writerVars, witnessVars
<1>j. ASSUME NEW accepted \in BOOLEAN, SelfTest(accepted) PROVE OrderInv'
  BY <1>j, OrderKept DEF SelfTest, EndOfPoll, writerVars
<1>k. CASE Stop
  BY <1>k, OrderKept DEF Stop, Fault
<1>l. ASSUME NEW shadowed \in BOOLEAN, Restart(shadowed) PROVE OrderInv'
  BY <1>l, OrderKept DEF Restart, Restored, witnessVars
<1>m. ASSUME NEW shadowed \in BOOLEAN, NEW landed \in BOOLEAN, RestartFails(shadowed, landed)
      PROVE  OrderInv'
  BY <1>m, OrderKept DEF RestartFails, Fault
<1>n. CASE UNCHANGED vars
  BY <1>n, OrderKept DEF vars, writerVars, witnessVars
<1> QED
  BY <1>a, <1>b, <1>c, <1>d, <1>e, <1>f, <1>g, <1>h, <1>i, <1>j, <1>k, <1>l, <1>m, <1>n
  DEF Next

(* The stream is a record in order of time, through buffering, failing     *)
(* appends and restarts (TelemetryJsonlWriter.write).                      *)
THEOREM RecordInOrder == Spec => []StreamInOrder
<1>1. Spec => [](TInv /\ OrderInv)
  BY InitType, TypeStep, OrderInit, OrderStep, PTL DEF Spec
<1>2. OrderInv => StreamInOrder
  BY DEF OrderInv
<1> QED
  BY <1>1, <1>2, PTL

-----------------------------------------------------------------------------
(* Attribution.  The kind of a reading and the kind of the open episode    *)
(* were decided by readings the daemon attributed to its own command.      *)

AttributionInv ==
  /\ SelfTestsWereAttributed
  /\ episode.kind = "TEST" => episode.start \in attributed
  /\ pc = "write" /\ reading = "OB" /\ episodeKind = "TEST" => now \in attributed

LEMMA AttributionInit == Init => AttributionInv
BY DEF Init, WriterInit, NoEpisode, AttributionInv, SelfTestsWereAttributed

(* What a summary adds has the episode's kind and start.                   *)
LEMMA SummaryAttributed ==
  ASSUME TypeOK, AttributionInv, NEW to \in Nat, attributed \subseteq attributed',
         \/ history' = history
         \/ history' = WithSummary(episode.kind, episode.start, to)
         \/ \E from, until \in Nat :
              history' = Append(history, [kind |-> "blackout", at |-> from, until |-> until])
  PROVE  SelfTestsWereAttributed'
<1>1. history \in Seq(HistoryRow)
  BY DEF TypeOK, WriterTypeOK, HistoryRow
<1>2. CASE history' = history
  BY <1>2 DEF AttributionInv, SelfTestsWereAttributed, SelfTestRow
<1>3. ASSUME NEW row \in HistoryRow, history' = Append(history, row),
             row.kind = "self_test" => row.at \in attributed
      PROVE  SelfTestsWereAttributed'
  BY <1>1, <1>3 DEF AttributionInv, SelfTestsWereAttributed, SelfTestRow
<1>4. CASE history' = WithSummary(episode.kind, episode.start, to) /\ history' # history
  <2> DEFINE row == [kind  |-> IF episode.kind = "TEST" THEN "self_test" ELSE "blackout",
                     at    |-> episode.start,
                     until |-> to]
  <2>1. history' = Append(history, row)
    BY <1>4 DEF WithSummary
  <2>2. row \in HistoryRow /\ (row.kind = "self_test" => row.at \in attributed)
    BY DEF HistoryRow, AttributionInv, TypeOK, WriterTypeOK
  <2> QED
    BY <1>3, <2>1, <2>2
<1>5. CASE \E from, until \in Nat :
              history' = Append(history, [kind |-> "blackout", at |-> from, until |-> until])
  BY <1>3, <1>5 DEF HistoryRow
<1> QED
  BY <1>2, <1>4, <1>5

LEMMA AttributionStep == TInv /\ AttributionInv /\ [Next]_vars => AttributionInv'
<1> SUFFICES ASSUME TypeOK, AttributionInv, [Next]_vars PROVE AttributionInv'
  BY DEF TInv
<1>0. now \in Nat /\ WriterTypeOK
  BY DEF TypeOK
<1>1. ASSUME UNCHANGED <<history, episode>>, attributed \subseteq attributed',
             pc' = "write" => UNCHANGED <<pc, reading, episodeKind, now>>
      PROVE  AttributionInv'
  BY <1>1 DEF AttributionInv, SelfTestsWereAttributed, SelfTestRow
<1> USE DEF writerVars, daemonVars, witnessVars
<1>a. ASSUME NEW s \in Readings, Observe(s) PROVE AttributionInv'
  <2>1. /\ attributed \subseteq attributed' /\ now' = now /\ reading' = s
        /\ s = "OB" /\ episodeKind' = "TEST" => now \in attributed'
        /\ UNCHANGED <<history, episode>>
    BY <1>a DEF Observe, Classify
  <2> QED
    BY <2>1 DEF AttributionInv, SelfTestsWereAttributed, SelfTestRow
<1>b. ASSUME NEW s \in Readings, ObserveInvalid(s) PROVE AttributionInv'
  <2>1. attributed \subseteq attributed' /\ pc' = "idle" /\ UNCHANGED <<history, episode>>
    BY <1>b DEF ObserveInvalid, Classify
  <2> QED
    BY <1>1, <2>1
<1>c. CASE Elapse
  BY <1>1, <1>c DEF Elapse
<1>d. CASE Flush
  BY <1>1, <1>d DEF Flush, FlushSilent
<1>e. CASE Write
  <2>1. pc = "write" /\ pc' = "check" /\ attributed' = attributed
    BY <1>e DEF Write
  <2>2. CASE BeginEpisode(Row, KindOfReading)
    <3>1. /\ reading = "OB" /\ history' = history
          /\ episode'.kind = KindOfReading /\ episode'.start = now
      BY <2>2 DEF BeginEpisode, Row
    <3> QED
      BY <2>1, <3>1 DEF KindOfReading, AttributionInv, SelfTestsWereAttributed, SelfTestRow
  <2>3. CASE ~BeginEpisode(Row, KindOfReading)
    <3>1. UNCHANGED <<history, episode>>
      BY <1>e, <2>3, Zenon
      DEF Write, RecordBattery, Recharge, Relapse, RecordTail, StaySilent
    <3> QED
      BY <1>1, <2>1, <3>1
  <2> QED
    BY <2>2, <2>3
<1>f. CASE Close
  BY <1>1, <1>f DEF Close, EndEpisode
<1>g. CASE SummarizeEpisode
  <2>1. /\ history' = WithSummary(episode.kind, episode.start, now)
        /\ episode'.kind = "REAL" /\ pc' = "check" /\ attributed' = attributed
    BY <1>g DEF SummarizeEpisode, Summarize, NoEpisode
  <2>2. SelfTestsWereAttributed'
    BY <1>0, <2>1, SummaryAttributed
  <2> QED
    BY <2>1, <2>2 DEF AttributionInv
<1>h. ASSUME NEW landed \in BOOLEAN, AppendFails(landed) PROVE AttributionInv'
  <2>1. pc' = "check" /\ attributed' = attributed /\ episode' = episode
    BY <1>h DEF AppendFails, AppendRaises, SummaryRaises
  <2>2. \/ history' = history
        \/ history' = WithSummary(episode.kind, episode.start, now)
    BY <1>h DEF AppendFails, AppendRaises, SummaryRaises
  <2>3. SelfTestsWereAttributed'
    BY <1>0, <2>1, <2>2, SummaryAttributed
  <2> QED
    BY <2>1, <2>3 DEF AttributionInv
<1>i. CASE NoSelfTest
  BY <1>1, <1>i DEF NoSelfTest, EndOfPoll
<1>j. ASSUME NEW accepted \in BOOLEAN, SelfTest(accepted) PROVE AttributionInv'
  BY <1>1, <1>j DEF SelfTest, EndOfPoll
<1>k. CASE Stop
  <2>1. /\ history' = history /\ episode'.kind = "REAL" /\ pc' = "down"
        /\ attributed' = attributed
    BY <1>k DEF Stop, NoEpisode
  <2> QED
    BY <2>1 DEF AttributionInv, SelfTestsWereAttributed, SelfTestRow
<1>l. ASSUME NEW shadowed \in BOOLEAN, Restart(shadowed) PROVE AttributionInv'
  <2>1. /\ history' = Reconciled(shadowed) /\ episode'.kind = "REAL" /\ pc' = "idle"
        /\ attributed' = attributed
    BY <1>l DEF Restart, Restored
  <2>2. SelfTestsWereAttributed'
    BY <1>0, <2>1, WindowAssumption, ReconciledAddsBlackout, SummaryAttributed
  <2> QED
    BY <2>1, <2>2 DEF AttributionInv
<1>m. ASSUME NEW shadowed \in BOOLEAN, NEW landed \in BOOLEAN, RestartFails(shadowed, landed)
      PROVE  AttributionInv'
  <2>1. /\ history' = history \/ history' = Reconciled(shadowed)
        /\ episode' = episode /\ pc' = "down" /\ attributed' = attributed
    BY <1>m DEF RestartFails
  <2>2. SelfTestsWereAttributed'
    BY <1>0, <2>1, WindowAssumption, ReconciledAddsBlackout, SummaryAttributed
  <2> QED
    BY <2>1, <2>2 DEF AttributionInv
<1>n. CASE UNCHANGED vars
  BY <1>1, <1>n DEF vars
<1> QED
  BY <1>a, <1>b, <1>c, <1>d, <1>e, <1>f, <1>g, <1>h, <1>i, <1>j, <1>k, <1>l, <1>m, <1>n
  DEF Next

(* An outage in the history as a self-test began with a reading the daemon *)
(* attributed to its own command: neither a failing append nor a restart   *)
(* lets a real outage inherit the kind (TelemetryJsonlWriter._episode_kind,*)
(* MonitorDaemon._episode_kind).                                           *)
THEOREM SelfTestsAttributed == Spec => []SelfTestsWereAttributed
<1>1. AttributionInv => SelfTestsWereAttributed
  BY DEF AttributionInv
<1> QED
  BY <1>1, InitType, TypeStep, AttributionInit, AttributionStep, PTL DEF Spec

-----------------------------------------------------------------------------
(* Rows and runs.  An append leaves the closed runs as they are; a battery *)
(* row extends the open run or starts one, any other row closes it.        *)

LEMMA AppendedRows ==
  ASSUME stream \in Seq(Sample), NEW row \in Sample, stream' = Append(stream, row)
  PROVE  /\ Len(stream) \in Nat
         /\ DOMAIN stream = 1 .. Len(stream)
         /\ DOMAIN stream' = 1 .. Len(stream) + 1
         /\ Len(stream') = Len(stream) + 1
         /\ stream'[Len(stream) + 1] = row
         /\ \A i \in 1 .. Len(stream) : stream'[i] = stream[i]
         /\ \A i \in 1 .. Len(stream) : Battery(i)' <=> Battery(i)
         /\ \A i : i = Len(stream) + 1 => (Battery(i)' <=> row.status = "OB")
         /\ \A i \in {0, Len(stream) + 2} : ~Battery(i)'
<1>1. /\ Len(stream) \in Nat
      /\ DOMAIN stream = 1 .. Len(stream)
      /\ DOMAIN stream' = 1 .. Len(stream) + 1
      /\ Len(stream') = Len(stream) + 1
      /\ stream'[Len(stream) + 1] = row
      /\ \A i \in 1 .. Len(stream) : stream'[i] = stream[i]
  OBVIOUS
<1>2. \A i \in 1 .. Len(stream) : Battery(i)' <=> Battery(i)
  BY <1>1 DEF Battery
<1>3. \A i : i = Len(stream) + 1 => (Battery(i)' <=> row.status = "OB")
  BY <1>1 DEF Battery
<1>4. \A i \in {0, Len(stream) + 2} : ~Battery(i)'
  BY <1>1 DEF Battery
<1> QED
  BY <1>1, <1>2, <1>3, <1>4

LEMMA ClosedRunStays ==
  ASSUME stream \in Seq(Sample), NEW row \in Sample, stream' = Append(stream, row),
         NEW run \in ClosedRuns
  PROVE  run \in ClosedRuns' /\ End(run)' = End(run) /\ \A t : Within(run, t) => Within(run, t)'
<1>1. run \in Runs /\ run[2] + 1 <= Len(stream) /\ run[1] \in Nat /\ run[2] \in Nat
      /\ 1 <= run[1] /\ run[1] <= run[2] /\ run = <<run[1], run[2]>>
  BY AppendedRows DEF ClosedRuns, OpenRuns, Runs
<1>2. run \in Runs'
  <2>1. \A i \in run[1] .. run[2] : Battery(i)'
    BY <1>1, AppendedRows DEF Runs
  <2>2. ~Battery(run[1] - 1)'
    <3>1. CASE run[1] = 1
      BY <3>1, AppendedRows
    <3>2. CASE run[1] - 1 \in 1 .. Len(stream)
      BY <1>1, <3>2, AppendedRows DEF Runs
    <3> QED
      BY <1>1, <3>1, <3>2, AppendedRows
  <2>3. ~Battery(run[2] + 1)'
    BY <1>1, AppendedRows DEF Runs
  <2>4. run \in (DOMAIN stream') \X (DOMAIN stream')
    BY <1>1, AppendedRows
  <2> QED
    BY <1>1, <2>1, <2>2, <2>3, <2>4 DEF Runs
<1>3. run \in ClosedRuns'
  BY <1>1, <1>2, AppendedRows DEF ClosedRuns, OpenRuns
<1>4. End(run)' = End(run)
  BY <1>1, AppendedRows DEF End
<1>5. ASSUME NEW t, Within(run, t) PROVE Within(run, t)'
  BY <1>1, <1>5, AppendedRows DEF Within
<1> QED
  BY <1>3, <1>4, <1>5

LEMMA OpenRunShape ==
  ASSUME stream \in Seq(Sample), NEW run \in OpenRuns
  PROVE  /\ run = <<run[1], run[2]>> /\ run[1] \in Nat /\ run[2] = Len(stream)
         /\ 1 <= run[1] /\ run[1] <= Len(stream) /\ Len(stream) \in Nat
         /\ \A i \in run[1] .. Len(stream) : Battery(i)
         /\ ~Battery(run[1] - 1)
BY DEF OpenRuns, Runs

LEMMA OpenRunGoesOn ==
  ASSUME stream \in Seq(Sample), NEW row \in Sample, stream' = Append(stream, row),
         NEW run \in OpenRuns, row.status = "OB"
  PROVE  \E longer \in OpenRuns' : \A t : Within(run, t) => Within(longer, t)'
<1>0. PICK longer : longer = <<run[1], Len(stream) + 1>>
  OBVIOUS
<1>1. longer[1] = run[1] /\ longer[2] = Len(stream) + 1
  BY <1>0
<1>2. longer \in (DOMAIN stream') \X (DOMAIN stream') /\ longer[1] <= longer[2]
  BY <1>0, OpenRunShape, AppendedRows
<1>3. ASSUME NEW i \in longer[1] .. longer[2] PROVE Battery(i)'
  <2>1. CASE i = Len(stream) + 1
    BY <2>1, AppendedRows
  <2>2. CASE i \in run[1] .. Len(stream)
    BY <2>2, OpenRunShape, AppendedRows
  <2> QED
    BY <1>1, <1>3, <2>1, <2>2, OpenRunShape
<1>4. ~Battery(longer[1] - 1)'
  <2>1. CASE run[1] = 1
    BY <1>1, <2>1, AppendedRows
  <2>2. CASE run[1] - 1 \in 1 .. Len(stream)
    BY <1>1, <2>2, OpenRunShape, AppendedRows
  <2> QED
    BY <2>1, <2>2, OpenRunShape
<1>5. ~Battery(longer[2] + 1)'
  <2>1. longer[2] + 1 = Len(stream) + 2
    BY <1>1, AppendedRows
  <2> QED
    BY <2>1, AppendedRows
<1>6. longer \in Runs'
  BY <1>2, <1>3, <1>4, <1>5 DEF Runs
<1>7. longer \in OpenRuns'
  BY <1>1, <1>6, AppendedRows DEF OpenRuns
<1>8. ASSUME NEW t, Within(run, t) PROVE Within(longer, t)'
  BY <1>1, <1>8, OpenRunShape, AppendedRows DEF Within
<1> QED
  BY <1>7, <1>8

LEMMA OpenRunCloses ==
  ASSUME stream \in Seq(Sample), NEW row \in Sample, stream' = Append(stream, row),
         NEW run \in OpenRuns, row.status # "OB"
  PROVE  run \in ClosedRuns' /\ End(run)' = row.at /\ \A t : Within(run, t) => Within(run, t)'
<1>1. \A i \in run[1] .. run[2] : Battery(i)'
  BY OpenRunShape, AppendedRows
<1>2. ~Battery(run[1] - 1)'
  <2>1. CASE run[1] = 1
    BY <2>1, AppendedRows
  <2>2. CASE run[1] - 1 \in 1 .. Len(stream)
    BY <2>2, OpenRunShape, AppendedRows
  <2> QED
    BY <2>1, <2>2, OpenRunShape
<1>3. ~Battery(run[2] + 1)'
  BY OpenRunShape, AppendedRows
<1>4. run \in (DOMAIN stream') \X (DOMAIN stream')
  BY OpenRunShape, AppendedRows
<1>5. run \in ClosedRuns'
  BY <1>1, <1>2, <1>3, <1>4, OpenRunShape, AppendedRows DEF Runs, ClosedRuns, OpenRuns
<1>6. End(run)' = row.at
  BY OpenRunShape, AppendedRows DEF End
<1>7. ASSUME NEW t, Within(run, t) PROVE Within(run, t)'
  BY <1>7, OpenRunShape, AppendedRows DEF Within
<1> QED
  BY <1>5, <1>6, <1>7

LEMMA BatteryRowIsInOpenRun ==
  ASSUME stream \in Seq(Sample), NEW row \in Sample, stream' = Append(stream, row),
         row.status = "OB"
  PROVE  \E run \in OpenRuns' : Within(run, row.at)'
<1>1. EveryBatteryRowLiesInRun'
  BY BatteryRowLiesInRun, PTL
<1>2. PICK last \in Nat : last = Len(stream) + 1
  BY AppendedRows
<1>3. PICK run \in Runs' : run[1] <= last /\ last <= run[2]
  <2>1. stream' \in Seq(Sample) /\ Battery(last)'
    BY <1>2, AppendedRows
  <2> QED
    BY <1>1, <2>1, Zenon DEF EveryBatteryRowLiesInRun
<1>4. run[1] \in 1 .. Len(stream) + 1 /\ run[2] = Len(stream) + 1
  BY <1>2, <1>3, AppendedRows DEF Runs
<1>5. run \in OpenRuns'
  BY <1>3, <1>4, AppendedRows DEF OpenRuns
<1>6. Within(run, row.at)'
  BY <1>4, AppendedRows DEF Within
<1> QED
  BY <1>5, <1>6

-----------------------------------------------------------------------------
(* Rows of the history.  The open episode began in the run that is open in *)
(* the stream, and when its row is due, that run has just ended now.       *)

HistoryLiesInRuns ==
  \A i \in DOMAIN history : \E run \in ClosedRuns :
    Within(run, history[i].at) /\ history[i].until = End(run)

RowsInv ==
  late = 0 =>
    /\ HistoryLiesInRuns
    /\ active => \E run \in OpenRuns : Within(run, episode.start)
    /\ pc = "summarize" =>
         /\ ~active
         /\ \E run \in ClosedRuns : Within(run, episode.start) /\ End(run) = now

(* In an ordered stream a row of the run is between its ends.              *)
LEMMA RowsInvSuffices == TypeOK /\ StreamInOrder /\ RowsInv => RowsLieInOneOutage
<1> SUFFICES ASSUME TypeOK, StreamInOrder, RowsInv, late = 0, NEW h \in DOMAIN history
             PROVE  \E run \in ClosedRuns :
                      /\ Start(run) <= history[h].at
                      /\ history[h].at <= stream[run[2]].at
                      /\ history[h].until = End(run)
  BY DEF RowsLieInOneOutage
<1>1. PICK run \in ClosedRuns : Within(run, history[h].at) /\ history[h].until = End(run)
  BY DEF RowsInv, HistoryLiesInRuns
<1>2. run[1] \in DOMAIN stream /\ run[2] \in DOMAIN stream /\ DOMAIN stream = 1 .. Len(stream)
      /\ Len(stream) \in Nat
  BY DEF ClosedRuns, Runs, TypeOK, WriterTypeOK
<1>3. PICK i \in run[1] .. run[2] : stream[i].at = history[h].at
  BY <1>1 DEF Within
<1>4. i \in DOMAIN stream /\ i \in Nat /\ run[1] <= i /\ i <= run[2]
  BY <1>2, <1>3
<1>5. \A k \in DOMAIN stream : stream[k].at \in Nat
  BY StreamTimes DEF TypeOK
<1>6. stream[run[1]].at <= stream[i].at
  BY <1>2, <1>4, <1>5 DEF StreamInOrder
<1>7. stream[i].at <= stream[run[2]].at
  BY <1>2, <1>4, <1>5 DEF StreamInOrder
<1> QED
  BY <1>1, <1>3, <1>6, <1>7 DEF Start

LEMMA RowsInit == Init => RowsInv
BY DEF Init, WriterInit, RowsInv, HistoryLiesInRuns

(* No row is appended, and no episode begins.                              *)
LEMMA RowsKept ==
  ASSUME RowsInv, late' = 0 => late = 0, UNCHANGED <<stream, history>>,
         active' => active /\ episode' = episode,
         pc' = "summarize" => pc = "summarize" /\ UNCHANGED <<now, episode, active>>
  PROVE  RowsInv'
<1>1. ClosedRuns' = ClosedRuns /\ OpenRuns' = OpenRuns
  BY DEF ClosedRuns, OpenRuns, Runs, Battery
<1>2. \A run : End(run)' = End(run) /\ \A t : Within(run, t)' <=> Within(run, t)
  BY DEF End, Within
<1>3. HistoryLiesInRuns => HistoryLiesInRuns'
  BY <1>1, <1>2 DEF HistoryLiesInRuns
<1> QED
  BY <1>1, <1>2, <1>3 DEF RowsInv

(* A summary of the history that describes a closed run.                   *)
LEMMA RowsSummarized ==
  ASSUME TypeOK, RowsInv, late = 0, stream' = stream,
         \/ history' = history
         \/ \E row \in HistoryRow, run \in ClosedRuns :
              history' = Append(history, row) /\ Within(run, row.at) /\ row.until = End(run)
  PROVE  HistoryLiesInRuns'
<1>1. ClosedRuns' = ClosedRuns
  BY DEF ClosedRuns, OpenRuns, Runs, Battery
<1>2. \A run : End(run)' = End(run) /\ \A t : Within(run, t)' <=> Within(run, t)
  BY DEF End, Within
<1>3. history \in Seq(HistoryRow)
  BY DEF TypeOK, WriterTypeOK, HistoryRow
<1>4. CASE history' = history
  BY <1>1, <1>2, <1>4 DEF RowsInv, HistoryLiesInRuns
<1>5. ASSUME NEW row \in HistoryRow, NEW run \in ClosedRuns, history' = Append(history, row),
             Within(run, row.at), row.until = End(run)
      PROVE  HistoryLiesInRuns'
  <2> SUFFICES ASSUME NEW i \in DOMAIN history'
               PROVE  \E r \in ClosedRuns' :
                        Within(r, history[i].at)' /\ history'[i].until = End(r)'
    BY DEF HistoryLiesInRuns
  <2>1. CASE i \in DOMAIN history
    <3>1. history'[i] = history[i]
      BY <1>3, <1>5, <2>1
    <3> QED
      BY <1>1, <1>2, <2>1, <3>1 DEF RowsInv, HistoryLiesInRuns, Within
  <2>2. CASE i \notin DOMAIN history
    <3>1. history'[i] = row
      BY <1>3, <1>5, <2>2
    <3> QED
      BY <1>1, <1>2, <1>5, <3>1 DEF Within
  <2> QED
    BY <2>1, <2>2
<1> QED
  BY <1>4, <1>5

(* A row of the stream is appended.                                        *)
LEMMA RowsAppended ==
  ASSUME TypeOK, RowsInv, late = 0, NEW row \in Sample, stream' = Append(stream, row),
         history' = history
  PROVE  HistoryLiesInRuns'
<1>1. stream \in Seq(Sample)
  BY DEF TypeOK, WriterTypeOK
<1>2. SUFFICES ASSUME NEW i \in DOMAIN history
               PROVE  \E run \in ClosedRuns' :
                        Within(run, history[i].at)' /\ history'[i].until = End(run)'
  BY DEF HistoryLiesInRuns
<1>3. PICK run \in ClosedRuns : Within(run, history[i].at) /\ history[i].until = End(run)
  BY DEF RowsInv, HistoryLiesInRuns
<1>4. \A t : Within(run, t) => Within(run, t)'
  BY <1>1, ClosedRunStays
<1>5. run \in ClosedRuns' /\ End(run)' = End(run)
  BY <1>1, ClosedRunStays
<1>6. Within(run, history[i].at)'
  BY <1>3, <1>4 DEF Within
<1> QED
  BY <1>3, <1>5, <1>6

LEMMA RowsStep == TInv /\ TInv' /\ RowsInv /\ [Next]_vars => RowsInv'
<1> SUFFICES ASSUME TInv, TInv', RowsInv, [Next]_vars PROVE RowsInv'
  OBVIOUS
<1>0. /\ TypeOK /\ WriterTypeOK /\ stream \in Seq(Sample)
      /\ late \in Nat /\ late + 1 # 0 /\ now \in Nat /\ now # now + 1
  <2>1. TypeOK
    BY DEF TInv
  <2>2. late \in Nat /\ now \in Nat
    BY <2>1 DEF TypeOK
  <2> QED
    BY <2>1, <2>2 DEF TypeOK, WriterTypeOK
<1>1. Row.at = now /\ (pc = "write" => Row \in Sample)
  BY DEF TInv, TypeOK, PollInv, Row, Sample
<1> USE DEF writerVars, daemonVars, witnessVars
<1>a. ASSUME NEW s \in Readings, Observe(s) PROVE RowsInv'
  BY <1>a, RowsKept DEF Observe
<1>b. ASSUME NEW s \in Readings, ObserveInvalid(s) PROVE RowsInv'
  BY <1>b, RowsKept DEF ObserveInvalid
<1>c. CASE Elapse
  BY <1>c, RowsKept DEF Elapse
<1>d. CASE Flush
  <2>1. PICK next \in NextSilent : stream' = Append(stream, next)
    BY <1>d DEF Flush, FlushSilent
  <2>2. next \in Sample
    BY <1>0 DEF NextSilent, WriterTypeOK
  <2>3. ~active' /\ pc' = "write" /\ late' = late /\ history' = history
    BY <1>d DEF Flush, FlushSilent
  <2>4. late = 0 => HistoryLiesInRuns'
    BY <1>0, <2>1, <2>2, <2>3, RowsAppended
  <2> QED
    BY <2>3, <2>4 DEF RowsInv
<1>e. CASE Write
  <2>1. pc = "write" /\ pc' = "check" /\ late' = late /\ Row \in Sample
    BY <1>1, <1>e DEF Write
  <2>2. CASE StaySilent(Row)
    BY <2>1, <2>2, RowsKept DEF StaySilent
  <2>3. ASSUME stream' = Append(stream, Row), history' = history,
               late = 0 /\ active' => \E run \in OpenRuns' : Within(run, episode.start)'
        PROVE  RowsInv'
    <3>1. late = 0 => HistoryLiesInRuns'
      BY <1>0, <2>1, <2>3, RowsAppended
    <3> QED
      BY <2>1, <2>3, <3>1 DEF RowsInv
  <2>4. CASE RecordBattery(Row)
    <3>1. /\ stream' = Append(stream, Row) /\ Row.status = "OB" /\ active
          /\ UNCHANGED <<history, episode>>
      BY <2>4 DEF RecordBattery
    <3>2. SUFFICES ASSUME late = 0 PROVE \E run \in OpenRuns' : Within(run, episode.start)'
      BY <2>3, <3>1
    <3>3. PICK run \in OpenRuns : Within(run, episode.start)
      BY <3>1, <3>2 DEF RowsInv
    <3>4. PICK longer \in OpenRuns' : \A t : Within(run, t) => Within(longer, t)'
      BY <1>0, <2>1, <3>1, OpenRunGoesOn
    <3> QED
      BY <3>1, <3>3, <3>4 DEF Within
  <2>5. CASE BeginEpisode(Row, KindOfReading)
    <3>1. /\ stream' = Append(stream, Row) /\ Row.status = "OB"
          /\ history' = history /\ episode'.start = Row.at
      BY <2>5 DEF BeginEpisode
    <3>2. PICK own \in Sample : own = Row
      BY <2>1
    <3>3. PICK run \in OpenRuns' : Within(run, own.at)'
      BY <1>0, <2>1, <3>1, <3>2, BatteryRowIsInOpenRun
    <3>4. Within(run, episode.start)'
      BY <3>1, <3>2, <3>3 DEF Within
    <3> QED
      BY <2>3, <3>1, <3>4
  <2>6. CASE Recharge(Row) \/ Relapse(Row) \/ RecordTail(Row)
    <3>1. stream' = Append(stream, Row) /\ history' = history /\ ~active /\ active' = active
      BY <2>6, Zenon DEF Recharge, Relapse, RecordTail, InTail
    <3> QED
      BY <2>3, <3>1
  <2> QED
    BY <1>e, <2>2, <2>4, <2>5, <2>6 DEF Write
<1>f. CASE Close
  <2>1. /\ pc = "write" /\ late' = late /\ now' = now /\ Row \in Sample
        /\ stream' = Append(stream, Row) /\ Row.status # "OB"
        /\ UNCHANGED <<history, episode>>
        /\ active /\ active' = FALSE
    BY <1>1, <1>f DEF Close, EndEpisode, OnlineKind, BelowFull
  <2>2. SUFFICES ASSUME late = 0
                 PROVE  /\ HistoryLiesInRuns'
                        /\ \E run \in ClosedRuns' :
                             Within(run, episode.start)' /\ End(run)' = now'
    BY <2>1 DEF RowsInv
  <2>3. HistoryLiesInRuns'
    BY <1>0, <2>1, <2>2, RowsAppended
  <2>4. PICK run \in OpenRuns : Within(run, episode.start)
    BY <2>1, <2>2 DEF RowsInv
  <2>5. run \in ClosedRuns' /\ End(run)' = Row.at
    BY <1>0, <2>1, OpenRunCloses
  <2>6. \A t : Within(run, t) => Within(run, t)'
    BY <1>0, <2>1, OpenRunCloses
  <2>7. Within(run, episode.start)'
    BY <2>1, <2>4, <2>6 DEF Within
  <2> QED
    BY <1>1, <2>1, <2>3, <2>5, <2>7
<1>g. CASE SummarizeEpisode
  <2>1. /\ pc = "summarize" /\ pc' = "check" /\ late' = late
        /\ history' = WithSummary(episode.kind, episode.start, now)
        /\ stream' = stream /\ active' = active
    BY <1>g DEF SummarizeEpisode, Summarize
  <2>2. SUFFICES ASSUME late = 0 PROVE HistoryLiesInRuns' /\ ~active'
    BY <2>1 DEF RowsInv
  <2>3. PICK run \in ClosedRuns : Within(run, episode.start) /\ End(run) = now
    BY <2>1, <2>2 DEF RowsInv
  <2> DEFINE row == [kind  |-> IF episode.kind = "TEST" THEN "self_test" ELSE "blackout",
                     at    |-> episode.start,
                     until |-> now]
  <2>4. row \in HistoryRow /\ row.at = episode.start /\ row.until = now
    BY <1>0 DEF HistoryRow, WriterTypeOK
  <2>5. history' = history \/ history' = Append(history, row)
    BY <2>1 DEF WithSummary
  <2>6. HistoryLiesInRuns'
    BY <1>0, <2>1, <2>2, <2>3, <2>4, <2>5, RowsSummarized
  <2>7. ~active'
    BY <2>1, <2>2 DEF RowsInv
  <2> QED
    BY <2>6, <2>7
<1>h. ASSUME NEW landed \in BOOLEAN, AppendFails(landed) PROVE RowsInv'
  <2>1. CASE landed
    BY <1>0, <1>h, <2>1 DEF AppendFails, Fault, RowsInv
  <2>2. CASE ~landed
    BY <1>h, <2>2, RowsKept DEF AppendFails, Fault, AppendRaises, SummaryRaises
  <2> QED
    BY <2>1, <2>2
<1>i. CASE NoSelfTest
  BY <1>i, RowsKept DEF NoSelfTest, EndOfPoll
<1>j. ASSUME NEW accepted \in BOOLEAN, SelfTest(accepted) PROVE RowsInv'
  BY <1>j, RowsKept DEF SelfTest, EndOfPoll
<1>k. CASE Stop
  BY <1>k, RowsKept DEF Stop, Fault
<1>l. ASSUME NEW shadowed \in BOOLEAN, Restart(shadowed) PROVE RowsInv'
  <2>1. /\ pc' = "idle" /\ late' = late /\ stream' = stream
        /\ history' = Reconciled(shadowed)
        /\ active' = (OpenRuns # {})
        /\ OpenRuns # {} => episode'.start = Start(CHOOSE run \in OpenRuns : TRUE)
    BY <1>l DEF Restart, Restored
  <2>2. late = 0 => HistoryLiesInRuns'
    <3>1. \A run \in ClosedRuns, from \in Nat : End(run) \in Nat =>
            [kind |-> "blackout", at |-> from, until |-> End(run)] \in HistoryRow
      BY DEF HistoryRow
    <3>2. \/ history' = history
          \/ \E row \in HistoryRow, run \in ClosedRuns :
               history' = Append(history, row) /\ Within(run, row.at) /\ row.until = End(run)
      BY <1>0, <2>1, <3>1, WindowAssumption, ReconciledAddsRun
    <3> QED
      BY <1>0, <2>1, <3>2, RowsSummarized
  <2>3. active' => \E run \in OpenRuns' : Within(run, episode.start)'
    <3>1. SUFFICES ASSUME OpenRuns # {}
                   PROVE  \E run \in OpenRuns' : Within(run, episode.start)'
      BY <2>1
    <3>2. PICK run : run \in OpenRuns /\ episode'.start = Start(run)
      BY <2>1, <3>1
    <3>3. OpenRuns' = OpenRuns
      BY <2>1 DEF OpenRuns, Runs, Battery
    <3>4. run[1] \in run[1] .. run[2]
      BY <1>0, <3>2, OpenRunShape
    <3>5. Within(run, episode.start)'
      BY <2>1, <3>2, <3>4 DEF Within, Start
    <3> QED
      BY <3>2, <3>3, <3>5
  <2> QED
    BY <2>1, <2>2, <2>3 DEF RowsInv
<1>m. ASSUME NEW shadowed \in BOOLEAN, NEW landed \in BOOLEAN, RestartFails(shadowed, landed)
      PROVE  RowsInv'
  <2>1. CASE landed
    BY <1>0, <1>m, <2>1 DEF RestartFails, Fault, RowsInv
  <2>2. CASE ~landed
    BY <1>m, <2>2, RowsKept DEF RestartFails, Fault
  <2> QED
    BY <2>1, <2>2
<1>n. CASE UNCHANGED vars
  BY <1>n, RowsKept DEF vars
<1> QED
  BY <1>a, <1>b, <1>c, <1>d, <1>e, <1>f, <1>g, <1>h, <1>i, <1>j, <1>k, <1>l, <1>m, <1>n
  DEF Next

(* A history row lies in one outage of the stream and ends with it, after  *)
(* restarts and failing appends too (TelemetryJsonlWriter._write_online,   *)
(* _reconcile_closed_episodes, BatteryHistory.episode).                    *)
THEOREM RowsInOneOutage == Spec => []RowsLieInOneOutage
<1>1. Spec => [](TInv /\ OrderInv /\ RowsInv)
  BY InitType, TypeStep, OrderInit, OrderStep, RowsInit, RowsStep, PTL DEF Spec
<1>2. TInv /\ OrderInv /\ RowsInv => RowsLieInOneOutage
  BY RowsInvSuffices DEF TInv, OrderInv
<1> QED
  BY <1>1, <1>2, PTL

-----------------------------------------------------------------------------
(* How many history rows there are: no more self-tests than commands, and  *)
(* no more outages without a row than faults.                              *)
Tally(claim) == IF claim THEN 1 ELSE 0

LEMMA TallyType == \A claim : Tally(claim) \in {0, 1} /\ (Tally(claim) = 1 <=> claim)
BY DEF Tally

-----------------------------------------------------------------------------
(* An accepted command entitles the history to one row of a self-test.     *)
(* The claim passes from the pending window to the daemon's kind, from     *)
(* there to the episode the writer opens, and from the episode to its row. *)
(* A daemon's kind is no claim while an episode is open: the reading that  *)
(* closes the episode ends the kind, too.                                  *)
TestRows == {i \in DOMAIN history : SelfTestRow(i)}

EpisodeClaims == episode.kind = "TEST" /\ (active \/ pc = "summarize")
DaemonClaims  == episodeKind = "TEST" /\ ~active
PendingClaims == pendingUntil # None

KindInv ==
  /\ pc = "write" /\ reading \in OnlineKind => episodeKind = "NONE"
  /\ pc = "summarize" => ~active /\ episodeKind = "NONE"
  /\ pc = "down" => episodeKind = "NONE"

ClaimInv ==
  /\ KindInv
  /\ Cardinality(TestRows) + Tally(EpisodeClaims) + Tally(DaemonClaims) + Tally(PendingClaims)
       <= Len(commands)

(* The rows are countable, and an appended one counts when it is a test's. *)
LEMMA TestRowsFinite ==
  ASSUME TypeOK
  PROVE  IsFiniteSet(TestRows) /\ Cardinality(TestRows) \in Nat
<1>1. DOMAIN history = 1 .. Len(history) /\ Len(history) \in Nat
  BY DEF TypeOK, WriterTypeOK
<1>2. IsFiniteSet(DOMAIN history)
  BY <1>1, FS_Interval
<1>3. IsFiniteSet(TestRows)
  BY <1>2, FS_Subset DEF TestRows
<1> QED
  BY <1>3, FS_CardinalityType

(* A definition, to be cited of the next state too.                        *)
RowsAreCountable == TypeOK => Cardinality(TestRows) \in Nat

LEMMA TestRowsCountable == RowsAreCountable
BY TestRowsFinite DEF RowsAreCountable

LEMMA TestRowAppended ==
  ASSUME TypeOK, NEW row \in HistoryRow, history' = Append(history, row)
  PROVE  Cardinality(TestRows') = Cardinality(TestRows) + Tally(row.kind = "self_test")
<1>1. history \in Seq(HistoryRow)
  BY DEF TypeOK, WriterTypeOK, HistoryRow
<1>2. /\ DOMAIN history = 1 .. Len(history) /\ Len(history) \in Nat
      /\ DOMAIN history' = 1 .. Len(history) + 1
      /\ \A i \in DOMAIN history : history'[i] = history[i]
      /\ history'[Len(history) + 1] = row
  BY <1>1
<1>3. CASE row.kind = "self_test"
  <2>1. TestRows' = TestRows \cup {Len(history) + 1}
    BY <1>2, <1>3 DEF TestRows, SelfTestRow
  <2>2. Len(history) + 1 \notin TestRows
    BY <1>2 DEF TestRows
  <2> QED
    BY <1>3, <2>1, <2>2, TestRowsFinite, FS_AddElement DEF Tally
<1>4. CASE row.kind # "self_test"
  <2>1. TestRows' = TestRows
    BY <1>2, <1>4 DEF TestRows, SelfTestRow
  <2> QED
    BY <1>4, <2>1, TestRowsFinite DEF Tally
<1> QED
  BY <1>3, <1>4

(* The summary of an episode uses its claim, whether it adds a row or not. *)
LEMMA SummaryUsesClaim ==
  ASSUME TypeOK, NEW to \in Nat,
         history' \in {history, WithSummary(episode.kind, episode.start, to)}
  PROVE  Cardinality(TestRows') <= Cardinality(TestRows) + Tally(episode.kind = "TEST")
<1> DEFINE row == [kind  |-> IF episode.kind = "TEST" THEN "self_test" ELSE "blackout",
                   at    |-> episode.start,
                   until |-> to]
<1>1. row \in HistoryRow /\ (row.kind = "self_test" <=> episode.kind = "TEST")
  BY DEF TypeOK, WriterTypeOK, HistoryRow
<1>2. CASE history' = history
  <2>1. TestRows' = TestRows
    BY <1>2 DEF TestRows, SelfTestRow
  <2> QED
    BY <2>1, TestRowsFinite, TallyType
<1>3. CASE history' = Append(history, row)
  <2> HIDE DEF row
  <2>1. Cardinality(TestRows') = Cardinality(TestRows) + Tally(row.kind = "self_test")
    BY <1>1, <1>3, TestRowAppended
  <2> QED
    BY <1>1, <2>1, TestRowsFinite DEF Tally
<1> QED
  BY <1>2, <1>3 DEF WithSummary

(* Reconciling adds a blackout, if anything.                               *)
LEMMA ReconcilingUsesNoClaim ==
  ASSUME TypeOK, NEW shadowed \in BOOLEAN, history' \in {history, Reconciled(shadowed)}
  PROVE  Cardinality(TestRows') = Cardinality(TestRows)
<1>1. CASE history' = history
  BY <1>1 DEF TestRows, SelfTestRow
<1>2. ASSUME NEW from \in Nat, NEW to \in Nat,
             history' = Append(history, [kind |-> "blackout", at |-> from, until |-> to])
      PROVE  Cardinality(TestRows') = Cardinality(TestRows)
  <2> DEFINE row == [kind |-> "blackout", at |-> from, until |-> to]
  <2>1. row \in HistoryRow /\ row.kind # "self_test"
    BY DEF HistoryRow
  <2> HIDE DEF row
  <2>2. history' = Append(history, row)
    BY <1>2 DEF row
  <2>3. Cardinality(TestRows') = Cardinality(TestRows) + Tally(row.kind = "self_test")
    BY <2>1, <2>2, TestRowAppended
  <2> QED
    BY <2>1, <2>3, TestRowsFinite DEF Tally
<1> QED
  BY <1>1, <1>2, WindowAssumption, ReconciledAddsBlackout DEF TypeOK

LEMMA ClaimInit == Init => ClaimInv
<1> SUFFICES ASSUME Init PROVE ClaimInv
  OBVIOUS
<1>1. TestRows = {}
  BY DEF Init, WriterInit, TestRows
<1>2. ~EpisodeClaims /\ ~DaemonClaims /\ ~PendingClaims
  BY DEF Init, WriterInit, NoEpisode, EpisodeClaims, DaemonClaims, PendingClaims
<1>3. KindInv /\ Len(commands) = 0
  BY DEF Init, WriterInit, KindInv
<1> QED
  BY <1>1, <1>2, <1>3, FS_EmptySet DEF ClaimInv, Tally

(* No claim arises and none is used.                                       *)
LEMMA ClaimsKept ==
  ASSUME TypeOK, ClaimInv, KindInv', Cardinality(TestRows') = Cardinality(TestRows),
         EpisodeClaims' => EpisodeClaims, DaemonClaims' => DaemonClaims,
         PendingClaims' => PendingClaims, commands' = commands
  PROVE  ClaimInv'
<1>1. Cardinality(TestRows) \in Nat /\ Len(commands) \in Nat
  BY TestRowsFinite DEF TypeOK
<1>2. /\ Tally(EpisodeClaims') <= Tally(EpisodeClaims)
      /\ Tally(DaemonClaims') <= Tally(DaemonClaims)
      /\ Tally(PendingClaims') <= Tally(PendingClaims)
  BY DEF Tally
<1>3. {Tally(EpisodeClaims), Tally(DaemonClaims), Tally(PendingClaims),
       Tally(EpisodeClaims'), Tally(DaemonClaims'), Tally(PendingClaims')} \subseteq {0, 1}
  BY DEF Tally
<1>4. Cardinality(TestRows) + Tally(EpisodeClaims) + Tally(DaemonClaims) + Tally(PendingClaims)
        <= Len(commands)
  BY DEF ClaimInv
<1>5. Cardinality(TestRows') + Tally(EpisodeClaims') + Tally(DaemonClaims')
        + Tally(PendingClaims') <= Len(commands')
  BY <1>1, <1>2, <1>3, <1>4
<1> QED
  BY <1>5 DEF ClaimInv

(* A claim passes from one place to the next.                              *)
LEMMA ClaimPasses ==
  ASSUME TypeOK, ClaimInv, KindInv', commands' = commands,
         Cardinality(TestRows') \in Nat,
         Cardinality(TestRows') + Tally(EpisodeClaims') + Tally(DaemonClaims')
             + Tally(PendingClaims')
           <= Cardinality(TestRows) + Tally(EpisodeClaims) + Tally(DaemonClaims)
                + Tally(PendingClaims)
  PROVE  ClaimInv'
<1>1. Cardinality(TestRows) \in Nat /\ Len(commands) \in Nat
  BY TestRowsFinite DEF TypeOK
<1>2. {Tally(EpisodeClaims), Tally(DaemonClaims), Tally(PendingClaims),
       Tally(EpisodeClaims'), Tally(DaemonClaims'), Tally(PendingClaims')} \subseteq {0, 1}
  BY DEF Tally
<1> QED
  BY <1>1, <1>2 DEF ClaimInv

(* The classification hands the pending window's claim to the kind.        *)
LEMMA ClassificationPasses ==
  ASSUME NEW s, Classify(s), active' = active
  PROVE  /\ Tally(DaemonClaims') + Tally(PendingClaims')
              <= Tally(DaemonClaims) + Tally(PendingClaims)
         /\ s \in OnlineKind => episodeKind' = "NONE"
<1>1. "OB" \notin OnlineKind
  BY DEF OnlineKind, BelowFull
<1>2. CASE s = "OB" /\ episodeKind = "NONE"
  <2>1. ~PendingClaims' /\ (DaemonClaims' => PendingClaims)
    BY <1>2 DEF Classify, DaemonClaims, PendingClaims, InWindow
  <2> QED
    BY <1>1, <1>2, <2>1 DEF Tally
<1>3. CASE ~(s = "OB" /\ episodeKind = "NONE")
  <2>1. (DaemonClaims' => DaemonClaims) /\ (PendingClaims' => PendingClaims)
    BY <1>3 DEF Classify, DaemonClaims, PendingClaims, InWindow
  <2>2. s \in OnlineKind => episodeKind' = "NONE"
    BY <1>3 DEF Classify
  <2> QED
    BY <2>1, <2>2 DEF Tally
<1> QED
  BY <1>2, <1>3

LEMMA ClaimStep == TInv /\ TInv' /\ ClaimInv /\ [Next]_vars => ClaimInv'
<1> SUFFICES ASSUME TInv, TInv', ClaimInv, [Next]_vars PROVE ClaimInv'
  OBVIOUS
<1>0. TypeOK /\ TypeOK' /\ now \in Nat /\ KindInv
  BY DEF TInv, TypeOK, ClaimInv
<1>1. Cardinality(TestRows) \in Nat /\ Cardinality(TestRows') \in Nat
  <2>1. RowsAreCountable /\ RowsAreCountable'
    BY TestRowsCountable, PTL
  <2> QED
    BY <1>0, <2>1 DEF RowsAreCountable
<1>2. history' = history => Cardinality(TestRows') = Cardinality(TestRows)
  BY DEF TestRows, SelfTestRow
<1>3. {Tally(EpisodeClaims), Tally(DaemonClaims), Tally(PendingClaims),
       Tally(EpisodeClaims'), Tally(DaemonClaims'), Tally(PendingClaims')} \subseteq {0, 1}
  BY DEF Tally
<1>4. ASSUME UNCHANGED <<history, commands, episode, active, episodeKind, pendingUntil>>, KindInv',
             pc' # "summarize"
      PROVE  ClaimInv'
  BY <1>0, <1>2, <1>4, ClaimsKept DEF EpisodeClaims, DaemonClaims, PendingClaims
<1> USE DEF writerVars, daemonVars, witnessVars
<1>a. ASSUME NEW s \in Readings, Observe(s) PROVE ClaimInv'
  <2>1. /\ Classify(s) /\ UNCHANGED <<history, commands, episode, active>> /\ reading' = s
        /\ pc = "idle" /\ pc' \in {"write", "check"}
    BY <1>a DEF Observe
  <2>2. Tally(EpisodeClaims') = Tally(EpisodeClaims)
    BY <2>1 DEF EpisodeClaims, Tally
  <2>3. KindInv'
    BY <2>1, ClassificationPasses DEF KindInv
  <2>4. Tally(DaemonClaims') + Tally(PendingClaims')
          <= Tally(DaemonClaims) + Tally(PendingClaims)
    BY <2>1, ClassificationPasses
  <2> QED
    BY <1>0, <1>1, <1>2, <1>3, <2>1, <2>2, <2>3, <2>4, ClaimPasses
<1>b. ASSUME NEW s \in Readings, ObserveInvalid(s) PROVE ClaimInv'
  <2>1. /\ Classify(s) /\ UNCHANGED <<history, commands, episode, active>>
        /\ pc = "idle" /\ pc' = "idle"
    BY <1>b DEF ObserveInvalid
  <2>2. Tally(EpisodeClaims') = Tally(EpisodeClaims)
    BY <2>1 DEF EpisodeClaims, Tally
  <2>3. KindInv'
    BY <2>1 DEF KindInv
  <2>4. Tally(DaemonClaims') + Tally(PendingClaims')
          <= Tally(DaemonClaims) + Tally(PendingClaims)
    BY <2>1, ClassificationPasses
  <2> QED
    BY <1>0, <1>1, <1>2, <1>3, <2>1, <2>2, <2>3, <2>4, ClaimPasses
<1>c. CASE Elapse
  BY <1>0, <1>4, <1>c DEF Elapse, KindInv
<1>d. CASE Flush
  BY <1>0, <1>4, <1>d DEF Flush, FlushSilent, KindInv
<1>e. CASE Write
  <2>1. /\ pc = "write" /\ pc' = "check"
        /\ UNCHANGED <<history, commands, episodeKind, pendingUntil>>
    BY <1>e, Zenon
    DEF Write, RecordBattery, BeginEpisode, Recharge, Relapse, RecordTail, StaySilent
  <2>2. KindInv'
    BY <2>1 DEF KindInv
  <2>3. CASE BeginEpisode(Row, KindOfReading)
    <3>1. ~active /\ active' /\ episode'.kind = KindOfReading
      BY <2>3 DEF BeginEpisode
    <3>2. ~DaemonClaims' /\ (EpisodeClaims' => DaemonClaims) /\ (PendingClaims' <=> PendingClaims)
      BY <2>1, <3>1 DEF EpisodeClaims, DaemonClaims, PendingClaims, KindOfReading
    <3>3. Tally(EpisodeClaims') + Tally(DaemonClaims') <= Tally(DaemonClaims)
          /\ Tally(PendingClaims') = Tally(PendingClaims)
      BY <3>2 DEF Tally
    <3> QED
      BY <1>0, <1>1, <1>2, <1>3, <2>1, <2>2, <3>3, ClaimPasses
  <2>4. CASE ~BeginEpisode(Row, KindOfReading)
    <3>1. UNCHANGED <<episode, active>>
      BY <1>e, <2>4, Zenon
      DEF Write, RecordBattery, Recharge, Relapse, RecordTail, StaySilent
    <3> QED
      BY <1>4, <2>1, <2>2, <3>1
  <2> QED
    BY <2>3, <2>4
<1>f. CASE Close
  <2>1. /\ pc = "write" /\ pc' = "summarize" /\ active /\ ~active' /\ reading \in OnlineKind
        /\ UNCHANGED <<history, commands, episode, episodeKind, pendingUntil>>
    BY <1>f DEF Close, EndEpisode, Row
  <2>2. episodeKind' = "NONE" /\ KindInv'
    BY <1>0, <2>1 DEF KindInv
  <2> QED
    BY <1>0, <1>2, <2>1, <2>2, ClaimsKept DEF EpisodeClaims, DaemonClaims, PendingClaims
<1>g. CASE SummarizeEpisode
  <2>1. /\ pc = "summarize" /\ pc' = "check"
        /\ history' = WithSummary(episode.kind, episode.start, now)
        /\ UNCHANGED <<active, commands, episodeKind, pendingUntil>>
        /\ episode'.kind = "REAL"
    BY <1>g DEF SummarizeEpisode, Summarize, NoEpisode
  <2>2. Cardinality(TestRows') <= Cardinality(TestRows) + Tally(EpisodeClaims)
    BY <1>0, <2>1, SummaryUsesClaim DEF EpisodeClaims
  <2>3. ~EpisodeClaims' /\ (DaemonClaims' <=> DaemonClaims) /\ (PendingClaims' <=> PendingClaims)
    BY <2>1 DEF EpisodeClaims, DaemonClaims, PendingClaims
  <2>4. /\ Tally(EpisodeClaims') = 0 /\ Tally(DaemonClaims') = Tally(DaemonClaims)
        /\ Tally(PendingClaims') = Tally(PendingClaims)
    BY <2>3 DEF Tally
  <2>5. KindInv'
    BY <2>1 DEF KindInv
  <2> QED
    BY <1>0, <1>1, <1>3, <2>1, <2>2, <2>4, <2>5, ClaimPasses
<1>h. ASSUME NEW landed \in BOOLEAN, AppendFails(landed) PROVE ClaimInv'
  <2>1. /\ pc' = "check"
        /\ UNCHANGED <<active, episode, commands, episodeKind, pendingUntil>>
    BY <1>h DEF AppendFails, AppendRaises, SummaryRaises
  <2>2. KindInv'
    BY <2>1 DEF KindInv
  <2>3. CASE pc = "write" /\ AppendRaises(Row, landed)
    BY <1>4, <2>1, <2>2, <2>3 DEF AppendRaises
  <2>4. CASE pc = "summarize" /\ SummaryRaises(now, landed)
    <3>1. history' \in {history, WithSummary(episode.kind, episode.start, now)}
      BY <2>4 DEF SummaryRaises
    <3>2. Cardinality(TestRows') <= Cardinality(TestRows) + Tally(EpisodeClaims)
      BY <1>0, <2>4, <3>1, SummaryUsesClaim DEF EpisodeClaims
    <3>3. ~EpisodeClaims' /\ (DaemonClaims' <=> DaemonClaims) /\ (PendingClaims' <=> PendingClaims)
      BY <1>0, <2>1, <2>4 DEF EpisodeClaims, DaemonClaims, PendingClaims, KindInv
    <3>4. /\ Tally(EpisodeClaims') = 0 /\ Tally(DaemonClaims') = Tally(DaemonClaims)
          /\ Tally(PendingClaims') = Tally(PendingClaims)
      BY <3>3 DEF Tally
    <3> QED
      BY <1>0, <1>1, <1>3, <2>1, <2>2, <3>2, <3>4, ClaimPasses
  <2> QED
    BY <1>h, <2>3, <2>4 DEF AppendFails
<1>i. CASE NoSelfTest
  BY <1>0, <1>4, <1>i DEF NoSelfTest, EndOfPoll, KindInv
<1>j. ASSUME NEW accepted \in BOOLEAN, SelfTest(accepted) PROVE ClaimInv'
  <2>1. /\ pc' = "idle" /\ pc = "check"
        /\ UNCHANGED <<history, active, episode, episodeKind>>
    BY <1>j DEF SelfTest, EndOfPoll
  <2>2. KindInv'
    BY <2>1 DEF KindInv
  <2>3. CASE ~accepted
    BY <1>4, <1>j, <2>1, <2>2, <2>3 DEF SelfTest
  <2>4. CASE accepted
    <3>1. Len(commands') = Len(commands) + 1 /\ Len(commands) \in Nat
      BY <1>0, <1>j, <2>4 DEF SelfTest, TypeOK
    <3>2. (EpisodeClaims' <=> EpisodeClaims) /\ (DaemonClaims' <=> DaemonClaims)
      BY <2>1 DEF EpisodeClaims, DaemonClaims
    <3>3. /\ Tally(EpisodeClaims') = Tally(EpisodeClaims)
          /\ Tally(DaemonClaims') = Tally(DaemonClaims)
      BY <3>2 DEF Tally
    <3>4. Cardinality(TestRows) + Tally(EpisodeClaims) + Tally(DaemonClaims)
            + Tally(PendingClaims) <= Len(commands)
      BY DEF ClaimInv
    <3>5. Cardinality(TestRows') + Tally(EpisodeClaims') + Tally(DaemonClaims')
            + Tally(PendingClaims') <= Len(commands')
      BY <1>1, <1>2, <1>3, <2>1, <3>1, <3>3, <3>4
    <3> QED
      BY <2>2, <3>5 DEF ClaimInv
  <2> QED
    BY <2>3, <2>4
<1>k. CASE Stop
  <2>1. /\ UNCHANGED <<history, commands>> /\ pc' = "down" /\ ~active'
        /\ episodeKind' = "NONE" /\ pendingUntil' = None
    BY <1>k DEF Stop
  <2>2. ~EpisodeClaims' /\ ~DaemonClaims' /\ ~PendingClaims' /\ KindInv'
    BY <2>1 DEF EpisodeClaims, DaemonClaims, PendingClaims, KindInv
  <2> QED
    BY <1>0, <1>2, <2>1, <2>2, ClaimsKept
<1>l. ASSUME NEW shadowed \in BOOLEAN, Restart(shadowed) PROVE ClaimInv'
  <2>1. /\ history' = Reconciled(shadowed) /\ pc = "down" /\ pc' = "idle"
        /\ UNCHANGED <<commands, episodeKind, pendingUntil>> /\ episode'.kind = "REAL"
    BY <1>l DEF Restart, Restored
  <2>2. ~EpisodeClaims' /\ ~DaemonClaims' /\ (PendingClaims' => PendingClaims) /\ KindInv'
    BY <1>0, <2>1 DEF EpisodeClaims, DaemonClaims, PendingClaims, KindInv
  <2>3. Cardinality(TestRows') = Cardinality(TestRows)
    BY <1>0, <2>1, ReconcilingUsesNoClaim
  <2> QED
    BY <1>0, <2>1, <2>2, <2>3, ClaimsKept
<1>m. ASSUME NEW shadowed \in BOOLEAN, NEW landed \in BOOLEAN, RestartFails(shadowed, landed)
      PROVE  ClaimInv'
  <2>1. /\ history' \in {history, Reconciled(shadowed)} /\ pc' = pc
        /\ UNCHANGED <<commands, active, episode, episodeKind, pendingUntil, reading>>
    BY <1>m DEF RestartFails
  <2>2. Cardinality(TestRows') = Cardinality(TestRows)
    BY <1>0, <2>1, ReconcilingUsesNoClaim
  <2>3. KindInv'
    BY <1>0, <2>1 DEF KindInv
  <2> QED
    BY <1>0, <2>1, <2>2, <2>3, ClaimsKept DEF EpisodeClaims, DaemonClaims, PendingClaims
<1>n. CASE UNCHANGED vars
  <2>1. /\ UNCHANGED <<pc, reading, history, commands, active, episode>>
        /\ UNCHANGED <<episodeKind, pendingUntil>>
    BY <1>n DEF vars
  <2>2. KindInv'
    BY <1>0, <2>1 DEF KindInv
  <2> QED
    BY <1>0, <1>2, <2>1, <2>2, ClaimsKept DEF EpisodeClaims, DaemonClaims, PendingClaims
<1> QED
  BY <1>a, <1>b, <1>c, <1>d, <1>e, <1>f, <1>g, <1>h, <1>i, <1>j, <1>k, <1>l, <1>m, <1>n
  DEF Next

(* A self-test command accounts for at most one row of the history, and    *)
(* taints no later outage, however the window, the daemon's kind and the   *)
(* writer's episode come apart (MonitorDaemon._pending_self_test_until,    *)
(* _episode_kind, TelemetryJsonlWriter._episode_kind).                     *)
THEOREM OneRowPerCommand == Spec => []OneOutagePerCommand
<1>1. TypeOK /\ ClaimInv => OneOutagePerCommand
  <2> SUFFICES ASSUME TypeOK, ClaimInv PROVE OneOutagePerCommand
    OBVIOUS
  <2>1. Cardinality(TestRows) \in Nat /\ Len(commands) \in Nat
    BY TestRowsFinite DEF TypeOK
  <2>2. {Tally(EpisodeClaims), Tally(DaemonClaims), Tally(PendingClaims)} \subseteq {0, 1}
    BY DEF Tally
  <2>3. Cardinality(TestRows) + Tally(EpisodeClaims) + Tally(DaemonClaims)
          + Tally(PendingClaims) <= Len(commands)
    BY DEF ClaimInv
  <2>4. Cardinality(TestRows) <= Len(commands)
    BY <2>1, <2>2, <2>3
  <2> QED
    BY <2>4 DEF OneOutagePerCommand, TestRows
<1>2. Spec => [](TInv /\ ClaimInv)
  BY InitType, TypeStep, ClaimInit, ClaimStep, PTL DEF Spec
<1> QED
  BY <1>1, <1>2, PTL DEF TInv

-----------------------------------------------------------------------------
(* Outages without a row.  A fault can leave a closed outage without one,  *)
(* an open outage that no episode will summarize, or an episode whose own  *)
(* outage is neither open nor waiting for a row; never two of these.       *)
Orphaned == OpenRuns # {} /\ ~active /\ pc # "down"
Astray   == active /\ \A run \in OpenRuns \cup Unsummarized : Start(run) # episode.start

(* The outage whose row is about to be written.                            *)
Awaiting == {run \in Unsummarized : Start(run) = episode.start}

BatterySeconds ==
  /\ \A i, j \in DOMAIN stream : Battery(i) /\ Battery(j) /\ stream[i].at = stream[j].at => i = j
  /\ \A row \in silent : row.status # "OB"

LossInv ==
  /\ BatterySeconds
  /\ pc = "summarize" =>
       ~active /\ OpenRuns = {} /\ Cardinality(Unsummarized \ Awaiting) <= faults
  /\ pc # "summarize" => Cardinality(Unsummarized) + Tally(Orphaned) + Tally(Astray) <= faults

LEMMA RunsFinite ==
  ASSUME stream \in Seq(Sample)
  PROVE  IsFiniteSet(Runs)
<1>1. DOMAIN stream = 1 .. Len(stream) /\ Len(stream) \in Nat
  OBVIOUS
<1>2. IsFiniteSet(DOMAIN stream)
  BY <1>1, FS_Interval
<1>3. IsFiniteSet((DOMAIN stream) \X (DOMAIN stream))
  BY <1>2, FS_Product
<1> QED
  BY <1>3, FS_Subset DEF Runs

LEMMA UnsummarizedFinite ==
  ASSUME stream \in Seq(Sample), NEW S \in SUBSET Unsummarized
  PROVE  IsFiniteSet(S) /\ Cardinality(S) \in Nat /\ Cardinality(S) <= Cardinality(Unsummarized)
<1>1. Unsummarized \subseteq Runs
  BY DEF Unsummarized, ClosedRuns
<1>2. IsFiniteSet(Unsummarized)
  BY <1>1, RunsFinite, FS_Subset
<1> QED
  BY <1>2, FS_Subset, FS_CardinalityType

LEMMA RunShape ==
  ASSUME stream \in Seq(Sample), NEW run \in Runs
  PROVE  /\ run = <<run[1], run[2]>> /\ run[1] \in Nat /\ run[2] \in Nat
         /\ 1 <= run[1] /\ run[1] <= run[2] /\ run[2] <= Len(stream) /\ Len(stream) \in Nat
         /\ \A i \in run[1] .. run[2] : Battery(i)
         /\ ~Battery(run[1] - 1) /\ ~Battery(run[2] + 1)
         /\ Battery(run[1]) /\ Battery(run[2])
<1>1. DOMAIN stream = 1 .. Len(stream) /\ Len(stream) \in Nat
  OBVIOUS
<1>2. /\ run \in (DOMAIN stream) \X (DOMAIN stream)
      /\ run[1] <= run[2]
      /\ \A i \in run[1] .. run[2] : Battery(i)
      /\ ~Battery(run[1] - 1)
      /\ ~Battery(run[2] + 1)
  BY DEF Runs
<1> QED
  BY <1>1, <1>2

(* Runs with a common second are one.                                      *)
LEMMA RunsAreApart ==
  ASSUME stream \in Seq(Sample), NEW r \in Runs, NEW s \in Runs,
         r[1] <= s[1], s[1] <= r[2]
  PROVE  r = s
<1>1. r[1] = s[1]
  <2>1. SUFFICES ASSUME r[1] < s[1] PROVE FALSE
    BY RunShape
  <2>2. s[1] - 1 \in r[1] .. r[2]
    BY <2>1, RunShape
  <2> QED
    BY <2>2, RunShape
<1>2. r[2] = s[2]
  <2>1. CASE r[2] < s[2]
    <3>1. r[2] + 1 \in s[1] .. s[2]
      BY <2>1, RunShape
    <3> QED
      BY <3>1, RunShape
  <2>2. CASE s[2] < r[2]
    <3>1. s[2] + 1 \in r[1] .. r[2]
      BY <1>1, <2>2, RunShape
    <3> QED
      BY <3>1, RunShape
  <2> QED
    BY <2>1, <2>2, RunShape
<1> QED
  BY <1>1, <1>2, RunShape

LEMMA OneOpenRun ==
  ASSUME stream \in Seq(Sample), NEW r \in OpenRuns, NEW s \in OpenRuns
  PROVE  r = s
<1>1. r \in Runs /\ s \in Runs /\ r[2] = Len(stream) /\ s[2] = Len(stream)
  BY DEF OpenRuns
<1>2. r[1] <= s[1] \/ s[1] <= r[1]
  BY <1>1, RunShape
<1> QED
  BY <1>1, <1>2, RunShape, RunsAreApart

(* With a second of its own for every battery row, at most one outage      *)
(* waits for the row that is due.                                          *)
LEMMA OneAwaiting ==
  ASSUME stream \in Seq(Sample), BatterySeconds
  PROVE  Cardinality(Awaiting) <= 1
<1>1. ASSUME NEW r \in Awaiting, NEW s \in Awaiting PROVE r = s
  <2>1. r \in Runs /\ s \in Runs /\ Start(r) = Start(s)
    BY DEF Awaiting, Unsummarized, ClosedRuns
  <2>2. /\ r[1] \in DOMAIN stream /\ s[1] \in DOMAIN stream
        /\ Battery(r[1]) /\ Battery(s[1]) /\ stream[r[1]].at = stream[s[1]].at
    BY <2>1, RunShape DEF Start, Battery
  <2>3. r[1] = s[1]
    BY <2>2 DEF BatterySeconds
  <2> QED
    BY <2>1, <2>3, RunShape, RunsAreApart
<1>2. CASE Awaiting = {}
  BY <1>2, FS_EmptySet
<1>3. CASE Awaiting # {}
  <2>1. PICK r \in Awaiting : TRUE
    BY <1>3
  <2>2. Awaiting = {r}
    BY <1>1
  <2>3. Cardinality({r}) = 1
    BY FS_Singleton
  <2> QED
    BY <2>2, <2>3
<1> QED
  BY <1>2, <1>3

(* A row that is not a battery row closes the open run ...                 *)
LEMMA OtherRowAppended ==
  ASSUME stream \in Seq(Sample), NEW row \in Sample, stream' = Append(stream, row),
         row.status # "OB"
  PROVE  /\ OpenRuns' = {} /\ ClosedRuns' = Runs
         /\ \A run \in Runs : Start(run)' = Start(run)
<1>1. ASSUME NEW run \in Runs'
      PROVE  run \in Runs /\ run[2] # Len(stream')
  <2>1. /\ run \in (DOMAIN stream') \X (DOMAIN stream') /\ run[1] <= run[2]
        /\ \A i \in run[1] .. run[2] : Battery(i)'
        /\ ~Battery(run[1] - 1)' /\ ~Battery(run[2] + 1)'
    BY <1>1 DEF Runs
  <2>2. run[1] \in 1 .. Len(stream) + 1 /\ run[2] \in 1 .. Len(stream) + 1
    BY <2>1, AppendedRows
  <2>3. run[2] # Len(stream) + 1
    BY <2>1, <2>2, AppendedRows
  <2>4. run \in (DOMAIN stream) \X (DOMAIN stream)
    BY <2>1, <2>2, <2>3, AppendedRows
  <2>5. \A i \in run[1] .. run[2] : Battery(i)
    BY <2>1, <2>2, <2>3, AppendedRows
  <2>6. ~Battery(run[1] - 1)
    <3>1. CASE run[1] = 1
      BY <3>1, AppendedRows DEF Battery
    <3>2. CASE run[1] - 1 \in 1 .. Len(stream)
      BY <2>1, <3>2, AppendedRows
    <3> QED
      BY <2>2, <2>3, <3>1, <3>2, AppendedRows
  <2>7. ~Battery(run[2] + 1)
    <3>1. CASE run[2] = Len(stream)
      BY <3>1, AppendedRows DEF Battery
    <3>2. CASE run[2] + 1 \in 1 .. Len(stream)
      BY <2>1, <3>2, AppendedRows
    <3> QED
      BY <2>2, <2>3, <3>1, <3>2, AppendedRows
  <2> QED
    BY <2>1, <2>3, <2>4, <2>5, <2>6, <2>7, AppendedRows DEF Runs
<1>2. OpenRuns' = {}
  BY <1>1 DEF OpenRuns
<1>3. ASSUME NEW run \in Runs PROVE run \in ClosedRuns'
  BY <1>3, ClosedRunStays, OpenRunCloses DEF ClosedRuns
<1>4. ClosedRuns' \subseteq Runs
  BY <1>1 DEF ClosedRuns
<1>5. ASSUME NEW run \in Runs PROVE Start(run)' = Start(run)
  <2>1. run[1] \in 1 .. Len(stream)
    BY RunShape
  <2> QED
    BY <2>1, AppendedRows DEF Start
<1> QED
  BY <1>2, <1>3, <1>4, <1>5

(* ... and a battery row extends it, or opens one of its own.              *)
LEMMA BatteryRowAppended ==
  ASSUME stream \in Seq(Sample), NEW row \in Sample, stream' = Append(stream, row),
         row.status = "OB"
  PROVE  /\ ClosedRuns' = ClosedRuns
         /\ \A run \in ClosedRuns : Start(run)' = Start(run)
         /\ \A run \in OpenRuns : \E longer \in OpenRuns' : Start(longer)' = Start(run)
         /\ OpenRuns = {} => \E run \in OpenRuns' : Start(run)' = row.at
<1>1. ASSUME NEW run \in ClosedRuns' PROVE run \in ClosedRuns
  <2>1. /\ run \in (DOMAIN stream') \X (DOMAIN stream') /\ run[1] <= run[2]
        /\ \A i \in run[1] .. run[2] : Battery(i)'
        /\ ~Battery(run[1] - 1)' /\ ~Battery(run[2] + 1)'
        /\ run[2] # Len(stream')
    BY <1>1 DEF ClosedRuns, OpenRuns, Runs
  <2>2. run[1] \in 1 .. Len(stream) /\ run[2] \in 1 .. Len(stream)
    BY <2>1, AppendedRows
  <2>3. run[2] # Len(stream)
    BY <2>1, <2>2, AppendedRows
  <2>4. run \in (DOMAIN stream) \X (DOMAIN stream)
    BY <2>1, <2>2, AppendedRows
  <2>5. \A i \in run[1] .. run[2] : Battery(i)
    BY <2>1, <2>2, AppendedRows
  <2>6. ~Battery(run[1] - 1)
    <3>1. CASE run[1] = 1
      BY <3>1, AppendedRows DEF Battery
    <3>2. CASE run[1] - 1 \in 1 .. Len(stream)
      BY <2>1, <3>2, AppendedRows
    <3> QED
      BY <2>2, <3>1, <3>2, AppendedRows
  <2>7. ~Battery(run[2] + 1)
    BY <2>1, <2>2, <2>3, AppendedRows
  <2> QED
    BY <2>1, <2>3, <2>4, <2>5, <2>6, <2>7 DEF ClosedRuns, OpenRuns, Runs
<1>2. ClosedRuns' = ClosedRuns
  BY <1>1, ClosedRunStays
<1>3. ASSUME NEW run \in ClosedRuns PROVE Start(run)' = Start(run)
  <2>1. run[1] \in 1 .. Len(stream)
    BY RunShape DEF ClosedRuns
  <2> QED
    BY <2>1, AppendedRows DEF Start
<1>4. PICK last \in OpenRuns' : Within(last, row.at)'
  BY BatteryRowIsInOpenRun
<1>5. /\ last[1] \in 1 .. Len(stream) + 1 /\ last[2] = Len(stream) + 1
      /\ \A i \in last[1] .. Len(stream) + 1 : Battery(i)'
      /\ ~Battery(last[1] - 1)'
  BY <1>4, AppendedRows DEF OpenRuns, Runs
<1>6. ASSUME NEW run \in OpenRuns
      PROVE  \E longer \in OpenRuns' : Start(longer)' = Start(run)
  <2>1. run[1] \in 1 .. Len(stream) /\ run[1] \in Nat
    BY OpenRunShape
  <2>2. last[1] = run[1]
    <3>1. CASE last[1] < run[1]
      <4>1. run[1] - 1 \in 1 .. Len(stream) /\ run[1] - 1 \in last[1] .. Len(stream) + 1
        BY <1>5, <2>1, <3>1, AppendedRows
      <4>2. Battery(run[1] - 1)
        BY <1>5, <4>1, AppendedRows
      <4> QED
        BY <4>2, OpenRunShape
    <3>2. CASE run[1] < last[1]
      <4>1. last[1] - 1 \in run[1] .. Len(stream) /\ last[1] - 1 \in 1 .. Len(stream)
        BY <1>5, <2>1, <3>2, AppendedRows
      <4>2. Battery(last[1] - 1)
        BY <4>1, OpenRunShape
      <4> QED
        BY <1>5, <4>1, <4>2, AppendedRows
    <3> QED
      BY <1>5, <2>1, <3>1, <3>2, AppendedRows
  <2>3. Start(last)' = Start(run)
    BY <2>1, <2>2, AppendedRows DEF Start
  <2> QED
    BY <2>3
<1>7. ASSUME OpenRuns = {} PROVE Start(last)' = row.at
  <2>1. last[1] = Len(stream) + 1
    <3>1. SUFFICES ASSUME last[1] \in 1 .. Len(stream) PROVE FALSE
      BY <1>5, AppendedRows
    <3>2. PICK run : run = <<last[1], Len(stream)>>
      OBVIOUS
    <3>3. run \in (DOMAIN stream) \X (DOMAIN stream) /\ run[1] = last[1] /\ run[2] = Len(stream)
          /\ run[1] <= run[2]
      BY <3>1, <3>2, AppendedRows
    <3>4. \A i \in run[1] .. run[2] : Battery(i)
      BY <1>5, <3>1, <3>3, AppendedRows
    <3>5. ~Battery(run[1] - 1)
      <4>1. CASE run[1] = 1
        BY <4>1, AppendedRows DEF Battery
      <4>2. CASE run[1] - 1 \in 1 .. Len(stream)
        BY <1>5, <3>3, <4>2, AppendedRows
      <4> QED
        BY <3>1, <3>3, <4>1, <4>2, AppendedRows
    <3>6. ~Battery(run[2] + 1)
      BY <3>3, AppendedRows DEF Battery
    <3>7. run \in OpenRuns
      BY <3>3, <3>4, <3>5, <3>6 DEF OpenRuns, Runs
    <3> QED
      BY <1>7, <3>7
  <2> QED
    BY <2>1, AppendedRows DEF Start
<1> QED
  BY <1>2, <1>3, <1>4, <1>6, <1>7

(* What an append and a row of the history do to the outages without one.  *)
LEMMA OtherRowLosesOne ==
  ASSUME WriterTypeOK, NEW row \in Sample, stream' = Append(stream, row),
         row.status # "OB", history' = history
  PROVE  /\ Unsummarized \subseteq Unsummarized'
         /\ Unsummarized' \subseteq Unsummarized \cup OpenRuns
         /\ Cardinality(Unsummarized') \in Nat
         /\ Cardinality(Unsummarized') <= Cardinality(Unsummarized) + Tally(OpenRuns # {})
<1>0. stream \in Seq(Sample)
  BY DEF WriterTypeOK
<1>1. Unsummarized \subseteq Unsummarized' /\ Unsummarized' \subseteq Unsummarized \cup OpenRuns
  BY <1>0, OtherRowAppended DEF Unsummarized, ClosedRuns
<1>2. IsFiniteSet(Unsummarized) /\ Cardinality(Unsummarized) \in Nat
  BY <1>0, UnsummarizedFinite
<1>3. CASE OpenRuns = {}
  <2>1. Unsummarized' = Unsummarized
    BY <1>1, <1>3
  <2> QED
    BY <1>1, <1>2, <1>3, <2>1 DEF Tally
<1>4. CASE OpenRuns # {}
  <2>1. PICK open \in OpenRuns : OpenRuns = {open}
    BY <1>0, <1>4, OneOpenRun
  <2>2. /\ IsFiniteSet(Unsummarized \cup {open})
        /\ Cardinality(Unsummarized \cup {open}) <= Cardinality(Unsummarized) + 1
    <3>1. /\ IsFiniteSet(Unsummarized \cup {open})
          /\ Cardinality(Unsummarized \cup {open}) =
               IF open \in Unsummarized THEN Cardinality(Unsummarized)
               ELSE Cardinality(Unsummarized) + 1
      BY <1>2, FS_AddElement, Zenon
    <3> QED
      BY <1>2, <3>1
  <2>3. /\ IsFiniteSet(Unsummarized')
        /\ Cardinality(Unsummarized') <= Cardinality(Unsummarized \cup {open})
    BY <1>1, <2>1, <2>2, FS_Subset
  <2>4. Cardinality(Unsummarized') \in Nat /\ Cardinality(Unsummarized \cup {open}) \in Nat
    BY <2>2, <2>3, FS_CardinalityType
  <2> QED
    BY <1>1, <1>2, <1>4, <2>2, <2>3, <2>4 DEF Tally
<1> QED
  BY <1>3, <1>4

LEMMA BatteryRowLosesNone ==
  ASSUME WriterTypeOK, NEW row \in Sample, stream' = Append(stream, row),
         row.status = "OB", history' = history
  PROVE  Unsummarized' = Unsummarized
BY BatteryRowAppended DEF WriterTypeOK, Unsummarized

LEMMA HistoryRowGainsOnly ==
  ASSUME TypeOK, stream' = stream,
         \/ history' = history
         \/ \E row \in HistoryRow : history' = Append(history, row)
  PROVE  Unsummarized' \subseteq Unsummarized
<1>1. ClosedRuns' = ClosedRuns /\ \A run : Start(run)' = Start(run)
  BY DEF ClosedRuns, OpenRuns, Runs, Battery, Start
<1>2. history \in Seq(HistoryRow)
  BY DEF TypeOK, WriterTypeOK, HistoryRow
<1>3. \A i \in DOMAIN history : i \in DOMAIN history' /\ history'[i] = history[i]
  BY <1>2
<1> QED
  BY <1>1, <1>3 DEF Unsummarized

LEMMA ReconcilingGainsOnly ==
  ASSUME TypeOK, stream' = stream, NEW shadowed \in BOOLEAN,
         history' \in {history, Reconciled(shadowed)}
  PROVE  Unsummarized' \subseteq Unsummarized
<1>1. \A from, to \in Nat : [kind |-> "blackout", at |-> from, until |-> to] \in HistoryRow
  BY DEF HistoryRow
<1>2. \/ history' = history
      \/ \E row \in HistoryRow : history' = Append(history, row)
  BY <1>1, WindowAssumption, ReconciledAddsBlackout DEF TypeOK
<1> QED
  BY <1>2, HistoryRowGainsOnly

LEMMA SummaryGainsOnly ==
  ASSUME TypeOK, stream' = stream, NEW to \in Nat,
         history' \in {history, WithSummary(episode.kind, episode.start, to)}
  PROVE  Unsummarized' \subseteq Unsummarized
<1> DEFINE row == [kind  |-> IF episode.kind = "TEST" THEN "self_test" ELSE "blackout",
                   at    |-> episode.start,
                   until |-> to]
<1>1. row \in HistoryRow
  BY DEF TypeOK, WriterTypeOK, HistoryRow
<1>2. history' = history \/ history' = Append(history, row)
  BY DEF WithSummary
<1> QED
  BY <1>1, <1>2, HistoryRowGainsOnly

(* After the summary nothing waits for that row.                           *)
LEMMA SummaryEndsWaiting ==
  ASSUME TypeOK, stream' = stream, NEW to \in Nat,
         history' = WithSummary(episode.kind, episode.start, to)
  PROVE  Unsummarized' \subseteq Unsummarized \ Awaiting
<1>1. Unsummarized' \subseteq Unsummarized
  BY SummaryGainsOnly
<1>2. \E i \in DOMAIN history' : history'[i].at = episode.start
  <2>1. CASE history' = history
    <3>1. Len(history) \in Nat /\ history \in Seq(HistoryRow)
      BY DEF TypeOK, WriterTypeOK, HistoryRow
    <3>2. \A new : Append(history, new) # history
      BY <3>1
    <3> QED
      BY <2>1, <3>2 DEF WithSummary
  <2>2. CASE history' # history
    <3> DEFINE row == [kind  |-> IF episode.kind = "TEST" THEN "self_test" ELSE "blackout",
                       at    |-> episode.start,
                       until |-> to]
    <3>1. history' = Append(history, row)
      BY <2>2 DEF WithSummary
    <3>2. row.at = episode.start
      OBVIOUS
    <3> HIDE DEF row
    <3>3. Len(history) + 1 \in DOMAIN history' /\ history'[Len(history) + 1] = row
      BY <3>1 DEF TypeOK, WriterTypeOK
    <3> QED
      BY <3>2, <3>3
  <2> QED
    BY <2>1, <2>2
<1>3. \A run : Start(run)' = Start(run)
  BY DEF Start
<1> QED
  BY <1>1, <1>2, <1>3 DEF Unsummarized, Awaiting

-----------------------------------------------------------------------------
LEMMA SecondsAppended ==
  ASSUME WriterTypeOK, BatterySeconds, NEW row \in Sample, stream' = Append(stream, row),
         row.status = "OB" => \A i \in DOMAIN stream : stream[i].at # row.at,
         silent' \subseteq silent
  PROVE  BatterySeconds'
<1>0. stream \in Seq(Sample)
  BY DEF WriterTypeOK
<1>1. ASSUME NEW i \in DOMAIN stream', NEW j \in DOMAIN stream',
             Battery(i)', Battery(j)', stream'[i].at = stream'[j].at
      PROVE  i = j
  <2>1. i \in 1 .. Len(stream) + 1 /\ j \in 1 .. Len(stream) + 1
    BY <1>0, AppendedRows
  <2>2. CASE i \in 1 .. Len(stream) /\ j \in 1 .. Len(stream)
    BY <1>0, <1>1, <2>2, AppendedRows DEF BatterySeconds
  <2>3. CASE i = Len(stream) + 1 /\ j \in 1 .. Len(stream)
    BY <1>0, <1>1, <2>3, AppendedRows
  <2>4. CASE j = Len(stream) + 1 /\ i \in 1 .. Len(stream)
    BY <1>0, <1>1, <2>4, AppendedRows
  <2> QED
    BY <1>0, <2>1, <2>2, <2>3, <2>4, AppendedRows
<1> QED
  BY <1>1 DEF BatterySeconds

LEMMA SecondsKept ==
  ASSUME BatterySeconds, stream' = stream, \A row \in silent' : row.status # "OB"
  PROVE  BatterySeconds'
BY DEF BatterySeconds, Battery

LEMMA LossInit == Init => LossInv
<1> SUFFICES ASSUME Init PROVE LossInv
  OBVIOUS
<1>1. /\ stream = <<>> /\ silent = {} /\ active = FALSE /\ faults = 0 /\ pc = "idle"
      /\ DOMAIN stream = {}
  BY DEF Init, WriterInit
<1>2. Unsummarized = {} /\ OpenRuns = {}
  BY <1>1 DEF Unsummarized, ClosedRuns, OpenRuns, Runs
<1>3. ~Orphaned /\ ~Astray
  BY <1>1, <1>2 DEF Orphaned, Astray
<1> QED
  BY <1>1, <1>2, <1>3, FS_EmptySet DEF LossInv, BatterySeconds, Tally

(* Between steps of a poll other than the summary it is enough that the    *)
(* balance grows no more than the faults.                                  *)
LEMMA LossBalanced ==
  ASSUME TypeOK, TypeOK', LossInv, BatterySeconds', pc # "summarize", pc' # "summarize",
         Cardinality(Unsummarized') \in Nat,
         Cardinality(Unsummarized') + Tally(Orphaned') + Tally(Astray') + faults
           <= Cardinality(Unsummarized) + Tally(Orphaned) + Tally(Astray) + faults'
  PROVE  LossInv'
<1>1. Cardinality(Unsummarized) \in Nat /\ faults \in Nat /\ faults' \in Nat
  BY UnsummarizedFinite DEF TypeOK, WriterTypeOK
<1>2. {Tally(Orphaned), Tally(Astray), Tally(Orphaned'), Tally(Astray')} \subseteq {0, 1}
  BY DEF Tally
<1>3. Cardinality(Unsummarized) + Tally(Orphaned) + Tally(Astray) <= faults
  BY DEF LossInv
<1>4. Cardinality(Unsummarized') + Tally(Orphaned') + Tally(Astray') <= faults'
  BY <1>1, <1>2, <1>3
<1> QED
  BY <1>4 DEF LossInv

LEMMA LossKept ==
  ASSUME TypeOK, TypeOK', LossInv, UNCHANGED <<stream, history>>,
         \A row \in silent' : row.status # "OB",
         pc # "summarize", pc' # "summarize", faults <= faults',
         Orphaned' => Orphaned, Astray' => Astray
  PROVE  LossInv'
<1>1. Unsummarized' = Unsummarized
  BY DEF Unsummarized, ClosedRuns, OpenRuns, Runs, Battery, Start
<1>2. Cardinality(Unsummarized) \in Nat /\ faults \in Nat /\ faults' \in Nat
  BY UnsummarizedFinite DEF TypeOK, WriterTypeOK
<1>3. /\ Tally(Orphaned') <= Tally(Orphaned) /\ Tally(Astray') <= Tally(Astray)
      /\ {Tally(Orphaned), Tally(Astray), Tally(Orphaned'), Tally(Astray')} \subseteq {0, 1}
  BY DEF Tally
<1>4. BatterySeconds'
  BY SecondsKept DEF LossInv
<1> QED
  BY <1>1, <1>2, <1>3, <1>4, LossBalanced

(* A row other than a battery row, while no episode is open.               *)
LEMMA LossOfOtherRow ==
  ASSUME TypeOK, TypeOK', LossInv, pc = "write", pc' # "summarize", ~active, ~active',
         NEW row \in Sample, stream' = Append(stream, row), row.status # "OB",
         history' = history, silent' \subseteq silent, faults <= faults'
  PROVE  LossInv'
<1>1. WriterTypeOK /\ stream \in Seq(Sample) /\ faults \in Nat /\ faults' \in Nat
  BY DEF TypeOK, WriterTypeOK
<1>2. OpenRuns' = {}
  BY <1>1, OtherRowAppended
<1>3. ~Orphaned' /\ ~Astray' /\ (Orphaned <=> OpenRuns # {})
  BY <1>2 DEF Orphaned, Astray
<1>4. /\ Tally(Orphaned') = 0 /\ Tally(Astray') = 0 /\ Tally(Orphaned) = Tally(OpenRuns # {})
      /\ Tally(Astray) \in {0, 1} /\ Tally(Orphaned) \in {0, 1}
  BY <1>3 DEF Tally
<1>5. /\ Cardinality(Unsummarized') \in Nat
      /\ Cardinality(Unsummarized') <= Cardinality(Unsummarized) + Tally(OpenRuns # {})
  BY <1>1, OtherRowLosesOne
<1>6. Cardinality(Unsummarized) \in Nat
  BY <1>1, UnsummarizedFinite
<1>7. BatterySeconds'
  BY <1>1, SecondsAppended DEF LossInv
<1> QED
  BY <1>1, <1>4, <1>5, <1>6, <1>7, LossBalanced

(* A battery row of an open episode.                                       *)
LEMMA EpisodeGoesOn ==
  ASSUME WriterTypeOK, NEW row \in Sample, stream' = Append(stream, row),
         row.status = "OB", UNCHANGED <<history, active, episode>>
  PROVE  Astray' => Astray
<1>1. SUFFICES ASSUME NEW run \in OpenRuns \cup Unsummarized, Start(run) = episode.start
               PROVE  \E same \in OpenRuns' \cup Unsummarized' : Start(same)' = episode.start
  BY DEF Astray, Start
<1>2. CASE run \in OpenRuns
  BY <1>1, <1>2, BatteryRowAppended DEF WriterTypeOK
<1>3. CASE run \in Unsummarized
  <2>1. run \in ClosedRuns /\ run \in Unsummarized'
    BY <1>3, BatteryRowLosesNone DEF Unsummarized
  <2>2. Start(run)' = Start(run)
    BY <2>1, BatteryRowAppended DEF WriterTypeOK
  <2> QED
    BY <1>1, <2>1, <2>2
<1> QED
  BY <1>1, <1>2, <1>3

(* A row that is not a battery row, which raised in an open episode after  *)
(* it reached the stream: the fault pays for the outage it closed.         *)
LEMMA LossOfFailedClose ==
  ASSUME TypeOK, TypeOK', LossInv, pc = "write", pc' = "check", active,
         NEW row \in Sample, stream' = Append(stream, row), row.status # "OB",
         UNCHANGED <<history, active, episode, silent>>, faults' = faults + 1
  PROVE  LossInv'
<1>1. WriterTypeOK /\ stream \in Seq(Sample) /\ faults \in Nat /\ faults' \in Nat
  BY DEF TypeOK, WriterTypeOK
<1>2. /\ OpenRuns' = {} /\ \A run \in Runs : Start(run)' = Start(run)
  BY <1>1, OtherRowAppended
<1>3. /\ Unsummarized \subseteq Unsummarized'
      /\ Unsummarized' \subseteq Unsummarized \cup OpenRuns
      /\ Cardinality(Unsummarized') \in Nat
      /\ Cardinality(Unsummarized') <= Cardinality(Unsummarized) + Tally(OpenRuns # {})
  BY <1>1, OtherRowLosesOne
<1>4. Cardinality(Unsummarized) \in Nat
  BY <1>1, UnsummarizedFinite
<1>5. BatterySeconds'
  BY <1>1, SecondsAppended DEF LossInv
<1>6. Tally(Orphaned) = 0 /\ Tally(Orphaned') = 0
  BY DEF Orphaned, Tally
<1>7. {Tally(Astray), Tally(Astray'), Tally(OpenRuns # {})} \subseteq {0, 1}
  BY DEF Tally
<1>8. CASE Astray' => Astray
  <2>1. Tally(Astray') <= Tally(Astray)
    BY <1>8 DEF Tally
  <2>2. Cardinality(Unsummarized') + Tally(Astray') <= Cardinality(Unsummarized) + Tally(Astray) + 1
    BY <1>3, <1>4, <1>7, <2>1
  <2> QED
    BY <1>1, <1>3, <1>4, <1>5, <1>6, <1>7, <2>2, LossBalanced
<1>9. CASE Astray' /\ ~Astray
  <2>1. PICK run \in OpenRuns \cup Unsummarized : Start(run) = episode.start
    BY <1>9 DEF Astray
  <2>2. run \in Runs
    BY DEF OpenRuns, Unsummarized, ClosedRuns
  <2>3. Start(run)' = episode'.start
    BY <1>2, <2>1, <2>2
  <2>4. run \notin Unsummarized'
    BY <1>9, <2>3 DEF Astray
  <2>5. run \in OpenRuns /\ OpenRuns = {run}
    BY <1>1, <1>3, <2>1, <2>4, OneOpenRun
  <2>6. Unsummarized' = Unsummarized
    BY <1>3, <2>4, <2>5
  <2>7. Cardinality(Unsummarized') + Tally(Astray') <= Cardinality(Unsummarized) + Tally(Astray) + 1
    BY <1>4, <1>7, <2>6
  <2> QED
    BY <1>1, <1>3, <1>4, <1>5, <1>6, <1>7, <2>7, LossBalanced
<1> QED
  BY <1>8, <1>9

(* The row that ends an episode: of the outages without a row, the         *)
(* episode's own is about to get one.                                      *)
LEMMA LossAtClose ==
  ASSUME TypeOK, TypeOK', LossInv, pc = "write", pc' = "summarize", active, ~active',
         NEW row \in Sample, stream' = Append(stream, row), row.status # "OB",
         UNCHANGED <<history, episode, silent, faults>>
  PROVE  LossInv'
<1>1. WriterTypeOK /\ stream \in Seq(Sample) /\ faults \in Nat /\ faults' \in Nat
  BY DEF TypeOK, WriterTypeOK
<1>2. OpenRuns' = {} /\ \A run \in Runs : Start(run)' = Start(run)
  BY <1>1, OtherRowAppended
<1>3. /\ Unsummarized \subseteq Unsummarized'
      /\ Unsummarized' \subseteq Unsummarized \cup OpenRuns
      /\ Cardinality(Unsummarized') \in Nat
      /\ Cardinality(Unsummarized') <= Cardinality(Unsummarized) + Tally(OpenRuns # {})
  BY <1>1, OtherRowLosesOne
<1>4. BatterySeconds'
  BY <1>1, SecondsAppended DEF LossInv
<1>5. IsFiniteSet(Unsummarized) /\ Cardinality(Unsummarized) \in Nat
  BY <1>1, UnsummarizedFinite
<1>6. Cardinality(Unsummarized) + Tally(Astray) <= faults
  <2>1. Tally(Orphaned) = 0 /\ Tally(Astray) \in {0, 1}
    BY DEF Orphaned, Tally
  <2>2. Cardinality(Unsummarized) + Tally(Orphaned) + Tally(Astray) <= faults
    BY DEF LossInv
  <2> QED
    BY <1>5, <2>1, <2>2
<1>7. IsFiniteSet(Unsummarized')
  <2>1. IsFiniteSet(Runs)
    BY <1>1, RunsFinite
  <2>2. Unsummarized' \subseteq Runs
    BY <1>3 DEF Unsummarized, ClosedRuns, OpenRuns
  <2> QED
    BY <2>1, <2>2, FS_Subset
<1>8. SUFFICES Cardinality(Unsummarized' \ Awaiting') <= faults
  BY <1>1, <1>2, <1>4 DEF LossInv
<1>9. /\ IsFiniteSet(Unsummarized' \ Awaiting') /\ Cardinality(Unsummarized' \ Awaiting') \in Nat
      /\ Cardinality(Unsummarized' \ Awaiting') <= Cardinality(Unsummarized')
  BY <1>7, FS_Subset, FS_CardinalityType
<1>10. CASE Unsummarized' \ Awaiting' \subseteq Unsummarized
  <2>1. Cardinality(Unsummarized' \ Awaiting') <= Cardinality(Unsummarized)
    BY <1>5, <1>10, FS_Subset
  <2> QED
    BY <1>1, <1>5, <1>6, <1>9, <2>1, TallyType
<1>11. CASE Astray
  <2>1. Tally(Astray) = 1 /\ Tally(OpenRuns # {}) \in {0, 1}
    BY <1>11 DEF Tally
  <2> QED
    BY <1>1, <1>3, <1>5, <1>6, <1>9, <2>1
<1>12. CASE ~Astray /\ ~(Unsummarized' \ Awaiting' \subseteq Unsummarized)
  <2>1. PICK run \in OpenRuns \cup Unsummarized : Start(run) = episode.start
    BY <1>12 DEF Astray
  <2>2. run \in Runs
    BY DEF OpenRuns, Unsummarized, ClosedRuns
  <2>3. Start(run)' = episode'.start
    BY <1>2, <2>1, <2>2
  <2>4. PICK open \in Unsummarized' \ Awaiting' : open \notin Unsummarized
    BY <1>12
  <2>5. open \in OpenRuns /\ OpenRuns = {open}
    BY <1>1, <1>3, <2>4, OneOpenRun
  <2>6. open # run
    BY <2>3, <2>4 DEF Awaiting
  <2>7. run \in Unsummarized /\ run \in Awaiting'
    BY <1>3, <2>1, <2>3, <2>5, <2>6 DEF Awaiting
  <2>8. Unsummarized' \ Awaiting' \subseteq (Unsummarized \ {run}) \cup {open}
    BY <1>3, <2>5, <2>7
  <2>9. /\ IsFiniteSet(Unsummarized \ {run})
        /\ Cardinality(Unsummarized \ {run}) = Cardinality(Unsummarized) - 1
    <3>1. /\ IsFiniteSet(Unsummarized \ {run})
          /\ Cardinality(Unsummarized \ {run}) =
               IF run \in Unsummarized THEN Cardinality(Unsummarized) - 1
               ELSE Cardinality(Unsummarized)
      BY <1>5, FS_RemoveElement, Zenon
    <3> QED
      BY <2>7, <3>1
  <2>10. /\ IsFiniteSet((Unsummarized \ {run}) \cup {open})
         /\ Cardinality((Unsummarized \ {run}) \cup {open}) = Cardinality(Unsummarized)
    <3>1. /\ IsFiniteSet((Unsummarized \ {run}) \cup {open})
          /\ Cardinality((Unsummarized \ {run}) \cup {open}) =
               IF open \in Unsummarized \ {run} THEN Cardinality(Unsummarized \ {run})
               ELSE Cardinality(Unsummarized \ {run}) + 1
      BY <2>9, FS_AddElement, Zenon
    <3>2. open \notin Unsummarized \ {run}
      BY <2>4
    <3> QED
      BY <1>5, <2>9, <3>1, <3>2
  <2>11. Cardinality(Unsummarized' \ Awaiting') <= Cardinality(Unsummarized)
    <3>1. Cardinality(Unsummarized' \ Awaiting')
            <= Cardinality((Unsummarized \ {run}) \cup {open})
      BY <2>8, <2>10, FS_Subset
    <3> QED
      BY <2>10, <3>1
  <2> QED
    BY <1>1, <1>5, <1>6, <1>9, <2>11, TallyType
<1> QED
  BY <1>10, <1>11, <1>12

(* The first battery row of an episode of its own.                         *)
LEMMA LossAtBegin ==
  ASSUME TypeOK, TypeOK', LossInv, BatterySeconds', pc = "write", pc' = "check",
         NEW row \in Sample, stream' = Append(stream, row), row.status = "OB",
         ~active, active', episode'.start = row.at, UNCHANGED <<history, faults>>
  PROVE  LossInv'
<1>1. WriterTypeOK /\ stream \in Seq(Sample) /\ faults \in Nat
  BY DEF TypeOK, WriterTypeOK
<1>2. Unsummarized' = Unsummarized /\ Cardinality(Unsummarized) \in Nat
  BY <1>1, BatteryRowLosesNone, UnsummarizedFinite
<1>3. ~Orphaned' /\ ~Astray
  BY DEF Orphaned, Astray
<1>4. Astray' => Orphaned
  <2>1. SUFFICES ASSUME OpenRuns = {} PROVE ~Astray'
    BY DEF Orphaned
  <2>2. \E run \in OpenRuns' : Start(run)' = row.at
    BY <1>1, <2>1, BatteryRowAppended
  <2> QED
    BY <2>2 DEF Astray
<1>5. Tally(Orphaned') + Tally(Astray') <= Tally(Orphaned) + Tally(Astray)
  BY <1>3, <1>4 DEF Tally
<1>6. {Tally(Orphaned), Tally(Astray), Tally(Orphaned'), Tally(Astray')} \subseteq {0, 1}
  BY DEF Tally
<1> QED
  BY <1>1, <1>2, <1>5, <1>6, LossBalanced

(* A battery row that raised after it reached the stream.                  *)
LEMMA LossOfFailedBattery ==
  ASSUME TypeOK, TypeOK', LossInv, BatterySeconds', pc = "write", pc' = "check",
         NEW row \in Sample, stream' = Append(stream, row), row.status = "OB",
         UNCHANGED <<history, active, episode>>, faults' = faults + 1
  PROVE  LossInv'
<1>1. WriterTypeOK /\ stream \in Seq(Sample) /\ faults \in Nat /\ faults' \in Nat
  BY DEF TypeOK, WriterTypeOK
<1>2. Unsummarized' = Unsummarized /\ Cardinality(Unsummarized) \in Nat
  BY <1>1, BatteryRowLosesNone, UnsummarizedFinite
<1>3. Astray' => Astray
  BY <1>1, EpisodeGoesOn
<1>4. Tally(Orphaned') + Tally(Astray') <= Tally(Orphaned) + Tally(Astray) + 1
  BY <1>3 DEF Tally
<1>5. {Tally(Orphaned), Tally(Astray), Tally(Orphaned'), Tally(Astray')} \subseteq {0, 1}
  BY DEF Tally
<1> QED
  BY <1>1, <1>2, <1>4, <1>5, LossBalanced

(* The summary raised, or the process died before it.                      *)
LEMMA LossOfSummary ==
  ASSUME TypeOK, TypeOK', LossInv, pc = "summarize", pc' \in {"check", "down"},
         UNCHANGED stream, ~active', silent' \subseteq silent,
         Unsummarized' \subseteq Unsummarized, faults' = faults + 1
  PROVE  LossInv'
<1>1. stream \in Seq(Sample) /\ faults \in Nat
  BY DEF TypeOK, WriterTypeOK
<1>2. OpenRuns' = {} /\ BatterySeconds'
  BY SecondsKept DEF LossInv, BatterySeconds, OpenRuns, Runs, Battery
<1>3. Tally(Orphaned') = 0 /\ Tally(Astray') = 0
  BY <1>2 DEF Orphaned, Astray, Tally
<1>4. Awaiting \subseteq Unsummarized
  BY DEF Awaiting
<1>5. /\ IsFiniteSet(Unsummarized)
      /\ Cardinality(Awaiting) \in Nat /\ Cardinality(Unsummarized \ Awaiting) \in Nat
      /\ Cardinality(Unsummarized) \in Nat
  BY <1>1, <1>4, UnsummarizedFinite
<1>6. Cardinality(Unsummarized) = Cardinality(Unsummarized \ Awaiting) + Cardinality(Awaiting)
  <2>1. Cardinality(Unsummarized \ Awaiting)
          = Cardinality(Unsummarized) - Cardinality(Unsummarized \cap Awaiting)
    BY <1>5, FS_Difference
  <2>2. Unsummarized \cap Awaiting = Awaiting
    BY <1>4
  <2>3. Cardinality(Unsummarized \ Awaiting) = Cardinality(Unsummarized) - Cardinality(Awaiting)
    BY <2>1, <2>2, Zenon
  <2> QED
    BY <1>5, <2>3
<1>7. Cardinality(Awaiting) <= 1
  BY <1>1, OneAwaiting DEF LossInv
<1>8. Cardinality(Unsummarized \ Awaiting) <= faults
  BY DEF LossInv
<1>9. Cardinality(Unsummarized') \in Nat /\ Cardinality(Unsummarized') <= Cardinality(Unsummarized)
  <2>1. PICK rest \in SUBSET Unsummarized : rest = Unsummarized'
    OBVIOUS
  <2> QED
    BY <1>1, <2>1, UnsummarizedFinite
<1>10. Cardinality(Unsummarized') + Tally(Orphaned') + Tally(Astray') <= faults'
  BY <1>1, <1>3, <1>5, <1>6, <1>7, <1>8, <1>9
<1> QED
  BY <1>2, <1>10 DEF LossInv

LEMMA LossStep == TInv /\ TInv' /\ OrderInv /\ LossInv /\ [Next]_vars => LossInv'
<1> SUFFICES ASSUME TInv, TInv', OrderInv, LossInv, [Next]_vars PROVE LossInv'
  OBVIOUS
<1>0. /\ TypeOK /\ TypeOK' /\ WriterTypeOK /\ stream \in Seq(Sample) /\ now \in Nat
      /\ faults \in Nat /\ faults <= faults /\ faults <= faults + 1
      /\ BatterySeconds /\ \A row \in silent : row.status # "OB"
  <2>1. TypeOK /\ TypeOK'
    BY DEF TInv
  <2>2. WriterTypeOK /\ stream \in Seq(Sample) /\ now \in Nat /\ faults \in Nat
    BY <2>1 DEF TypeOK, WriterTypeOK
  <2>3. BatterySeconds /\ \A row \in silent : row.status # "OB"
    BY DEF LossInv, BatterySeconds
  <2> QED
    BY <2>1, <2>2, <2>3
<1>1. pc = "write" => Row \in Sample /\ Row.at = now /\ Row.status = reading
                      /\ \A i \in DOMAIN stream : stream[i].at # Row.at
  <2>1. \A i \in DOMAIN stream : stream[i].at \in Nat
    BY <1>0, StreamTimes
  <2> QED
    BY <1>0, <2>1 DEF TInv, PollInv, Row, Sample, TypeOK, OrderInv, Seen
<1>2. Orphaned <=> OpenRuns # {} /\ ~active /\ pc # "down"
  BY DEF Orphaned
<1>3. stream' = stream => OpenRuns' = OpenRuns
  BY DEF OpenRuns, Runs, Battery
<1>4. UNCHANGED <<stream, history, episode, active>> => (Astray' <=> Astray)
  BY DEF Astray, Unsummarized, ClosedRuns, OpenRuns, Runs, Battery, Start
<1>5. ASSUME UNCHANGED <<stream, history, silent, active, episode>>, faults <= faults',
             pc # "summarize", pc' # "summarize", pc = "down" => pc' = "down"
      PROVE  LossInv'
  BY <1>0, <1>3, <1>4, <1>5, LossKept DEF Orphaned
<1> USE DEF writerVars, daemonVars, witnessVars
<1>a. ASSUME NEW s \in Readings, Observe(s) PROVE LossInv'
  BY <1>0, <1>5, <1>a DEF Observe
<1>b. ASSUME NEW s \in Readings, ObserveInvalid(s) PROVE LossInv'
  BY <1>0, <1>5, <1>b DEF ObserveInvalid
<1>c. CASE Elapse
  BY <1>0, <1>5, <1>c DEF Elapse
<1>d. CASE Flush
  <2>1. PICK next \in NextSilent : stream' = Append(stream, next) /\ silent' = silent \ {next}
    BY <1>d DEF Flush, FlushSilent
  <2>2. next \in Sample /\ next.status # "OB"
    BY <1>0 DEF NextSilent, WriterTypeOK
  <2>3. /\ pc = "write" /\ pc' = "write" /\ ~active /\ ~active'
        /\ UNCHANGED <<history, faults>>
    BY <1>d DEF Flush, FlushSilent
  <2> QED
    BY <1>0, <2>1, <2>2, <2>3, LossOfOtherRow
<1>e. CASE Write
  <2>1. pc = "write" /\ pc' = "check" /\ faults' = faults
    BY <1>e DEF Write
  <2>2. CASE RecordBattery(Row)
    <3>1. /\ Row.status = "OB" /\ active /\ stream' = Append(stream, Row)
          /\ UNCHANGED <<history, active, episode, silent>>
      BY <2>2 DEF RecordBattery
    <3>2. PICK own \in Sample : own = Row
      BY <1>1, <2>1
    <3>3. Astray' => Astray
      BY <1>0, <3>1, <3>2, EpisodeGoesOn
    <3>4. Unsummarized' = Unsummarized /\ Cardinality(Unsummarized) \in Nat
      BY <1>0, <3>1, <3>2, BatteryRowLosesNone, UnsummarizedFinite
    <3>5. BatterySeconds'
      BY <1>0, <1>1, <2>1, <3>1, <3>2, SecondsAppended
    <3>6. /\ Tally(Orphaned) = 0 /\ Tally(Orphaned') = 0 /\ Tally(Astray') <= Tally(Astray)
          /\ {Tally(Astray), Tally(Astray')} \subseteq {0, 1}
      BY <3>1, <3>3 DEF Orphaned, Tally
    <3> QED
      BY <1>0, <2>1, <3>4, <3>5, <3>6, LossBalanced
  <2>3. CASE BeginEpisode(Row, KindOfReading)
    <3>1. /\ Row.status = "OB" /\ ~active /\ active' /\ stream' = Append(stream, Row)
          /\ episode'.start = Row.at /\ UNCHANGED <<history, silent>>
      BY <2>3 DEF BeginEpisode
    <3>2. PICK own \in Sample : own = Row
      BY <1>1, <2>1
    <3>3. BatterySeconds'
      BY <1>0, <1>1, <2>1, <3>1, <3>2, SecondsAppended
    <3> QED
      BY <1>0, <2>1, <3>1, <3>2, <3>3, LossAtBegin
  <2>4. CASE Recharge(Row) \/ Relapse(Row) \/ RecordTail(Row)
    <3>1. /\ Row.status \in OnlineKind /\ ~active /\ active' = active
          /\ stream' = Append(stream, Row) /\ UNCHANGED <<history, silent>>
      BY <2>4, Zenon DEF Recharge, Relapse, RecordTail, InTail, OnlineKind
    <3>2. PICK own \in Sample : own = Row
      BY <1>1, <2>1
    <3>3. own.status # "OB"
      BY <3>1, <3>2 DEF OnlineKind, BelowFull
    <3> QED
      BY <1>0, <2>1, <3>1, <3>2, <3>3, LossOfOtherRow
  <2>5. CASE StaySilent(Row)
    <3>1. /\ UNCHANGED <<stream, history, active, episode>>
          /\ \A row \in silent' : row \in silent \/ row = Row
          /\ Row.status # "OB"
      BY <2>5 DEF StaySilent, OnlineKind, BelowFull
    <3>2. \A row \in silent' : row.status # "OB"
      BY <1>0, <3>1
    <3> QED
      BY <1>0, <1>3, <1>4, <2>1, <3>1, <3>2, LossKept DEF Orphaned
  <2> QED
    BY <1>e, <2>2, <2>3, <2>4, <2>5 DEF Write
<1>f. CASE Close
  <2>1. /\ pc = "write" /\ pc' = "summarize" /\ active /\ ~active' /\ Row.status # "OB"
        /\ stream' = Append(stream, Row) /\ UNCHANGED <<history, episode, silent, faults>>
    BY <1>f DEF Close, EndEpisode, OnlineKind, BelowFull
  <2>2. PICK own \in Sample : own = Row
    BY <1>1, <2>1
  <2> QED
    BY <1>0, <2>1, <2>2, LossAtClose
<1>g. CASE SummarizeEpisode
  <2>1. /\ pc = "summarize" /\ pc' = "check" /\ faults' = faults
        /\ history' = WithSummary(episode.kind, episode.start, now)
        /\ UNCHANGED <<stream, active, silent>>
    BY <1>g DEF SummarizeEpisode, Summarize
  <2>2. ~active' /\ OpenRuns' = {} /\ Cardinality(Unsummarized \ Awaiting) <= faults
    BY <1>3, <2>1 DEF LossInv
  <2>3. Unsummarized' \subseteq Unsummarized \ Awaiting
    BY <1>0, <2>1, SummaryEndsWaiting
  <2>4. IsFiniteSet(Unsummarized \ Awaiting) /\ Cardinality(Unsummarized \ Awaiting) \in Nat
    BY <1>0, UnsummarizedFinite
  <2>5. /\ Cardinality(Unsummarized') \in Nat
        /\ Cardinality(Unsummarized') <= Cardinality(Unsummarized \ Awaiting)
    BY <2>3, <2>4, FS_Subset, FS_CardinalityType
  <2>6. Tally(Orphaned') = 0 /\ Tally(Astray') = 0
    BY <2>2 DEF Orphaned, Astray, Tally
  <2>7. BatterySeconds'
    BY <1>0, <2>1, SecondsKept
  <2>8. Cardinality(Unsummarized') + Tally(Orphaned') + Tally(Astray') <= faults'
    BY <1>0, <2>1, <2>2, <2>4, <2>5, <2>6
  <2> QED
    BY <2>1, <2>7, <2>8 DEF LossInv
<1>h. ASSUME NEW landed \in BOOLEAN, AppendFails(landed) PROVE LossInv'
  <2>1. /\ pc' = "check" /\ faults' = faults + 1 /\ UNCHANGED <<active, episode, silent>>
    BY <1>h DEF AppendFails, Fault, AppendRaises, SummaryRaises
  <2>2. CASE pc = "write" /\ AppendRaises(Row, landed)
    <3>1. history' = history
      BY <2>2 DEF AppendRaises
    <3>2. PICK due \in Due(Row) : stream' = IF landed THEN Append(stream, due) ELSE stream
      BY <2>2 DEF AppendRaises
    <3>3. /\ due \in Sample
          /\ due.status = "OB" => \A i \in DOMAIN stream : stream[i].at # due.at
      BY <1>0, <1>1, <2>2, <3>2 DEF Due, NextSilent, WriterTypeOK
    <3>4. CASE ~landed
      BY <1>0, <1>5, <2>1, <2>2, <3>1, <3>2, <3>4
    <3>5. CASE landed /\ due.status = "OB"
      <4>1. BatterySeconds'
        BY <1>0, <2>1, <3>2, <3>3, <3>5, SecondsAppended
      <4> QED
        BY <1>0, <2>1, <2>2, <3>1, <3>2, <3>3, <3>5, <4>1, LossOfFailedBattery
    <3>6. CASE landed /\ due.status # "OB" /\ active
      BY <1>0, <2>1, <2>2, <3>1, <3>2, <3>3, <3>6, LossOfFailedClose
    <3>7. CASE landed /\ due.status # "OB" /\ ~active
      BY <1>0, <2>1, <2>2, <3>1, <3>2, <3>3, <3>7, LossOfOtherRow
    <3> QED
      BY <3>4, <3>5, <3>6, <3>7
  <2>3. CASE pc = "summarize" /\ SummaryRaises(now, landed)
    <3>1. /\ stream' = stream
          /\ history' \in {history, WithSummary(episode.kind, episode.start, now)}
      BY <2>3 DEF SummaryRaises
    <3>2. Unsummarized' \subseteq Unsummarized
      BY <1>0, <3>1, SummaryGainsOnly
    <3>3. ~active'
      BY <2>1, <2>3 DEF LossInv
    <3> QED
      BY <1>0, <2>1, <2>3, <3>1, <3>2, <3>3, LossOfSummary
  <2> QED
    BY <1>h, <2>2, <2>3 DEF AppendFails
<1>i. CASE NoSelfTest
  BY <1>0, <1>5, <1>i DEF NoSelfTest, EndOfPoll
<1>j. ASSUME NEW accepted \in BOOLEAN, SelfTest(accepted) PROVE LossInv'
  BY <1>0, <1>5, <1>j DEF SelfTest, EndOfPoll
<1>k. CASE Stop
  <2>1. /\ pc' = "down" /\ ~active' /\ silent' = {} /\ UNCHANGED <<stream, history>>
        /\ faults <= faults' /\ (pc # "idle" => faults' = faults + 1)
    BY <1>0, <1>k DEF Stop, Fault
  <2>2. CASE pc = "summarize"
    <3>1. Unsummarized' = Unsummarized
      BY <2>1 DEF Unsummarized, ClosedRuns, OpenRuns, Runs, Battery, Start
    <3> QED
      BY <1>0, <2>1, <2>2, <3>1, LossOfSummary
  <2>3. CASE pc # "summarize"
    BY <1>0, <2>1, <2>3, LossKept DEF Orphaned, Astray
  <2> QED
    BY <2>2, <2>3
<1>l. ASSUME NEW shadowed \in BOOLEAN, Restart(shadowed) PROVE LossInv'
  <2>1. /\ pc = "down" /\ pc' = "idle" /\ silent' = {} /\ UNCHANGED <<stream, faults>>
        /\ history' = Reconciled(shadowed)
        /\ active' = (OpenRuns # {})
        /\ OpenRuns # {} => episode'.start = Start(CHOOSE run \in OpenRuns : TRUE)
    BY <1>l DEF Restart, Restored
  <2>2. Unsummarized' \subseteq Unsummarized
    BY <1>0, <2>1, ReconcilingGainsOnly
  <2>3. /\ Cardinality(Unsummarized') \in Nat /\ Cardinality(Unsummarized) \in Nat
        /\ Cardinality(Unsummarized') <= Cardinality(Unsummarized)
    <3>1. PICK rest \in SUBSET Unsummarized : rest = Unsummarized'
      BY <2>2
    <3> QED
      BY <1>0, <3>1, UnsummarizedFinite
  <2>4. ~Orphaned'
    BY <1>3, <2>1 DEF Orphaned
  <2>5. ~Astray'
    <3>1. SUFFICES ASSUME OpenRuns # {} PROVE \E run \in OpenRuns' : Start(run)' = episode'.start
      BY <2>1 DEF Astray
    <3>2. PICK run : run \in OpenRuns /\ episode'.start = Start(run)
      BY <2>1, <3>1
    <3> QED
      BY <1>3, <2>1, <3>2 DEF Start
  <2>6. /\ Tally(Orphaned') = 0 /\ Tally(Astray') = 0
        /\ {Tally(Orphaned), Tally(Astray)} \subseteq {0, 1}
    BY <2>4, <2>5 DEF Tally
  <2>7. BatterySeconds'
    BY <1>0, <2>1, SecondsKept
  <2> QED
    BY <1>0, <2>1, <2>3, <2>6, <2>7, LossBalanced
<1>m. ASSUME NEW shadowed \in BOOLEAN, NEW landed \in BOOLEAN, RestartFails(shadowed, landed)
      PROVE  LossInv'
  <2>1. /\ pc = "down" /\ pc' = "down" /\ UNCHANGED <<stream, active, silent>>
        /\ faults' = faults + 1 /\ history' \in {history, Reconciled(shadowed)}
    BY <1>m DEF RestartFails, Fault
  <2>2. Unsummarized' \subseteq Unsummarized
    BY <1>0, <2>1, ReconcilingGainsOnly
  <2>3. /\ Cardinality(Unsummarized') \in Nat /\ Cardinality(Unsummarized) \in Nat
        /\ Cardinality(Unsummarized') <= Cardinality(Unsummarized)
    <3>1. PICK rest \in SUBSET Unsummarized : rest = Unsummarized'
      BY <2>2
    <3> QED
      BY <1>0, <3>1, UnsummarizedFinite
  <2>4. /\ Tally(Orphaned') = 0
        /\ {Tally(Orphaned), Tally(Astray), Tally(Astray')} \subseteq {0, 1}
    BY <2>1 DEF Orphaned, Tally
  <2>5. BatterySeconds'
    BY <1>0, <2>1, SecondsKept
  <2> QED
    BY <1>0, <2>1, <2>3, <2>4, <2>5, LossBalanced
<1>n. CASE UNCHANGED vars
  <2>1. UNCHANGED <<stream, history, silent, active, episode, pc, faults>>
    BY <1>n DEF vars
  <2>2. /\ OpenRuns' = OpenRuns /\ Unsummarized' = Unsummarized /\ Awaiting' = Awaiting
        /\ BatterySeconds'
    BY <1>0, <2>1, SecondsKept
    DEF Awaiting, Unsummarized, ClosedRuns, OpenRuns, Runs, Battery, Start
  <2>3. (Orphaned' <=> Orphaned) /\ (Astray' <=> Astray)
    BY <1>4, <2>1, <2>2 DEF Orphaned
  <2>4. Tally(Orphaned') = Tally(Orphaned) /\ Tally(Astray') = Tally(Astray)
    BY <2>3 DEF Tally
  <2> QED
    BY <2>1, <2>2, <2>4 DEF LossInv
<1> QED
  BY <1>a, <1>b, <1>c, <1>d, <1>e, <1>f, <1>g, <1>h, <1>i, <1>j, <1>k, <1>l, <1>m, <1>n
  DEF Next

(* Whatever fails and wherever the process dies, no more outages of the    *)
(* stream lack their row than there were faults: reconciling, restoring    *)
(* and a summary that failed never cost an outage of their own             *)
(* (TelemetryJsonlWriter._write_online, _restore_active_episode,           *)
(* _reconcile_closed_episodes).                                            *)
THEOREM LossesBounded == Spec => []LostSummariesCostFaults
<1>1. TypeOK /\ LossInv => LostSummariesCostFaults
  <2> SUFFICES ASSUME TypeOK, LossInv, pc # "summarize"
               PROVE  Cardinality(Unsummarized) <= faults
    BY DEF LostSummariesCostFaults
  <2>1. Cardinality(Unsummarized) \in Nat /\ faults \in Nat
    BY UnsummarizedFinite DEF TypeOK, WriterTypeOK
  <2>2. {Tally(Orphaned), Tally(Astray)} \subseteq {0, 1}
    BY DEF Tally
  <2>3. Cardinality(Unsummarized) + Tally(Orphaned) + Tally(Astray) <= faults
    BY DEF LossInv
  <2> QED
    BY <2>1, <2>2, <2>3
<1>2. Spec => [](TInv /\ OrderInv /\ LossInv)
  BY InitType, TypeStep, OrderInit, OrderStep, LossInit, LossStep, PTL DEF Spec
<1> QED
  BY <1>1, <1>2, PTL DEF TInv
=============================================================================
