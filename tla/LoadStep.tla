------------------------------ MODULE LoadStep -------------------------------
(***************************************************************************)
(* The evidence of model feedback: extract_ir_observation of               *)
(* domain/model_feedback.py reads the rows of one outage and looks for a   *)
(* load increase between two stable plateaus of voltage and load.          *)
(*                                                                         *)
(* A signal is what the UPS really did; its rows are what the polls saw of *)
(* it, at a cadence and phase of their own, with one row gone or odd.  The *)
(* extraction is the code's, and the reference is stated on the signal.    *)
(* Time is in seconds, load in percent, voltage in the 0.1 V quanta the    *)
(* UPS displays.  Sums are exact here and floating-point in the code:      *)
(* where a comparison of voltages is on its bound, both outcomes are taken.*)
(***************************************************************************)
EXTENDS Integers, FiniteSets, FiniteSetsExt

CONSTANTS
  PlateauDuration,  \* _PLATEAU_DURATION_S
  MaxGap,           \* _MAX_GAP_S
  MaxPlateauStd,    \* _MAX_PLATEAU_STD, in percent of load
  MinLoadStep,      \* _MIN_LOAD_STEP
  MinVoltageStep,   \* _MIN_VOLTAGE_STEP, in quanta
  SlopeSeconds,     \* 1 / _MAX_VOLTAGE_SLOPE_V_PER_S, in seconds per quantum
  MinKInverse,      \* 1 / _MIN_K, in percent per quantum
  MaxKPer100,       \* 100 * _MAX_K, in quanta
  MaxLoad,          \* the upper bound of a plateau's load in _load_step
  Signals           \* the outages looked at

ASSUME LoadStepAssumption ==
  /\ PlateauDuration \in Nat \ {0} /\ MaxGap \in Nat \ {0}
  /\ MaxPlateauStd \in Nat /\ MinLoadStep \in Nat \ {0} /\ MinVoltageStep \in Nat \ {0}
  /\ SlopeSeconds \in Nat \ {0} /\ MinKInverse \in Nat \ {0} /\ MaxKPer100 \in Nat \ {0}
  /\ MaxLoad \in Nat

(* A window is more than one sample, or a gap is too long.                 *)
ASSUME WindowsAreFilled == MaxGap < PlateauDuration

(* One sample of another load in a window of a sample a second is enough   *)
(* to make it unsteady: s^2 (n - 1) / n^2 is least in the longest window.  *)
ASSUME StepsAreUnsteady ==
  MinLoadStep * MinLoadStep * PlateauDuration
    > MaxPlateauStd * MaxPlateauStd * (PlateauDuration + 1) * (PlateauDuration + 1)

(* A quantum that the voltage falls by of its own is no step, and flat     *)
(* lines drift by less than a quantum over a plateau, the gap before it    *)
(* and half a plateau more.                                                *)
ASSUME DriftsAreSmall ==
  /\ MinVoltageStep > 1
  /\ 3 * PlateauDuration + 2 * MaxGap <= 2 * SlopeSeconds

(* The load is base before rise and from fall on, base + step between; the *)
(* voltage falls by drop with it, lag seconds later, and by one quantum    *)
(* for good at droop.                                                      *)
(* Its samples are in the range that _raw_sample accepts: 8.0 V at least,  *)
(* and 100 percent at most.                                                *)
(* The poll number oddAt is lost, void or carries LB or CAL; the outage is *)
(* seen to end, or not.                                                    *)
Signal ==
  {s \in [base : Nat, step : Nat, drop : Nat, rise : Nat, fall : Nat, lag : Nat, droop : Nat,
          length : Nat, cadence : Nat \ {0}, phase : Nat,
          odd : {"none", "lost", "void", "LB", "CAL"}, oddAt : Nat \ {0}, ends : BOOLEAN] :
     s.base + s.step <= 100 /\ s.drop < 50}

ASSUME SignalsAssumption == Signals \subseteq Signal

VARIABLES
  signal,   \* the outage
  found     \* the observation: its estimate as a fraction in quanta per percent, and its time

vars == <<signal, found>>

NoStep  == [none |-> TRUE]
Pending == [pending |-> TRUE]

-----------------------------------------------------------------------------
(* The outage and its rows.                                                *)

High(s, t)    == s.rise <= t /\ t < s.fall
Load(s, t)    == IF High(s, t) THEN s.base + s.step ELSE s.base
Voltage(s, t) ==
  130 - (IF High(s, t - s.lag) THEN s.drop ELSE 0) - (IF t >= s.droop THEN 1 ELSE 0)

Polls(s) == (s.length - s.phase) \div s.cadence + 1

Row(s, i) ==
  LET t == s.phase + (i - 1) * s.cadence
  IN  [at |-> t, v |-> Voltage(s, t), load |-> Load(s, t),
       status |-> IF i \notin 1 .. Polls(s) THEN {"OL"}
                  ELSE IF i = s.oddAt /\ s.odd \in {"LB", "CAL"} THEN {"OB", s.odd} ELSE {"OB"},
       valid |-> ~(i = s.oddAt /\ s.odd = "void")]

Lost(s, i) == i = s.oddAt /\ s.odd = "lost"

(* The rows by their places: an online one before the outage, one for each *)
(* poll in it, and an online one after it.                                 *)
Rows(s) ==
  [i \in {0} \cup {i \in 1 .. Polls(s) : ~Lost(s, i)} \cup (IF s.ends THEN {Polls(s) + 1} ELSE {}) |->
     Row(s, i)]

-----------------------------------------------------------------------------
(* extract_ir_observation.                                                 *)

IsOb(row) == "OB" \in row.status

Usable(row) == "LB" \notin row.status

(* The first run of OB rows and no CAL in it, if OL ends it and every row  *)
(* that is used has its values: the places of the rows that are used.      *)
NaturalEvent(rows) ==
  LET onBattery == {i \in DOMAIN rows : IsOb(rows[i])}
      start     == Min(onBattery)
      after     == {i \in DOMAIN rows : i > start /\ ~IsOb(rows[i])}
      run       == {i \in DOMAIN rows : start <= i /\ i < Min(after)}
      event     == {i \in run : Usable(rows[i])}
  IN  IF /\ onBattery # {} /\ after # {}
         /\ "OL" \in rows[Min(after)].status
         /\ \A i \in run : "CAL" \notin rows[i].status
         /\ \A i \in event : rows[i].valid
         /\ Cardinality(event) >= 3
      THEN event ELSE {}

(* The rows nearest to the transition that span the plateau's duration, or *)
(* all there are.                                                          *)
PlateauWindows(rows, event, i, span) ==
  LET T     == rows[i].at
      early == {j \in event : j < i /\ T - rows[j].at >= span}
      late  == {j \in event : i <= j /\ rows[j].at - T >= span}
      first == IF early = {} THEN Min(event) ELSE Max(early)
      last  == IF late = {} THEN Max(event) ELSE Min(late)
  IN  [pre |-> {j \in event : first <= j /\ j < i}, post |-> {j \in event : i <= j /\ j <= last}]

(* Mutant: one sample beyond the duration. *)
MutantPlateauWindow(rows, event, i) == PlateauWindows(rows, event, i, PlateauDuration + 1)

PlateauWindow(rows, event, i) == PlateauWindows(rows, event, i, PlateauDuration)

(* The sum of f, a function on places after the first, and its parts.      *)
SumUpTo(f) ==
  LET upTo[j \in Nat] == IF j = 0 THEN 0 ELSE upTo[j - 1] + (IF j \in DOMAIN f THEN f[j] ELSE 0)
  IN  upTo

Sum(f) == SumUpTo(f)[Max(DOMAIN f)]

(* n^2 times the variance against n^2 times the square of the bound. *)
Steady(rows, W) ==
  LET n      == Cardinality(W)
      sum    == Sum([j \in W |-> rows[j].load])
      square == Sum([j \in W |-> rows[j].load * rows[j].load])
  IN  n * square - sum * sum <= n * n * MaxPlateauStd * MaxPlateauStd

Contiguous(rows, W, gap) ==
  \A j \in W :
    LET later   == {k \in W : j < k}
        between == rows[Min(later)].at - rows[j].at
    IN  later # {} => 0 < between /\ between <= gap

ValidIn(rows, i, w, gap) ==
  LET T == rows[i].at IN
  /\ T - rows[Min(w.pre)].at >= PlateauDuration
  /\ rows[Max(w.post)].at - T >= PlateauDuration
  /\ Contiguous(rows, w.pre \cup w.post, gap)

(* Mutant: gaps below eleven seconds only. *)
MutantGap(rows, i, w) ==
  ValidIn(rows, i, w, 10) /\ Steady(rows, w.pre) /\ Steady(rows, w.post)

PlateauIsValid(rows, i, w) ==
  ValidIn(rows, i, w, MaxGap) /\ Steady(rows, w.pre) /\ Steady(rows, w.post)

(* Twice the median load: the values of the two middle ranks.              *)
TwiceMedian(rows, W) ==
  LET n         == Cardinality(W)
      rank(j)   == Cardinality({k \in W : rows[k].load <= rows[j].load})
      ranked(r) == Min({rows[j].load : j \in {j \in W : r <= rank(j)}})
  IN  ranked((n + 1) \div 2) + ranked(n \div 2 + 1)

Gcd[p \in Nat \X Nat] == IF p[2] = 0 THEN p[1] ELSE Gcd[<<p[2], p[1] % p[2]>>]

Abs(n) == IF n < 0 THEN -n ELSE n

(* Least squares over the window, as exact fractions with the denominator  *)
(* den: the slope, and the line's value at the transition, above 120.      *)
LineAtTransition(rows, W, i) ==
  LET x    == [j \in W |-> rows[j].at - rows[i].at]
      y    == [j \in W |-> rows[j].v - 120]
      n    == Cardinality(W)
      sx   == Sum(x)
      sy   == Sum(y)
      sxx  == Sum([j \in W |-> x[j] * x[j]])
      sxy  == Sum([j \in W |-> x[j] * y[j]])
      den  == n * sxx - sx * sx
      at   == sy * sxx - sx * sxy
      g    == Gcd[<<Abs(at), den>>]
  IN  [slope |-> n * sxy - sx * sy, den |-> den,
       value |-> at \div g, valueDen |-> den \div g]

(* A comparison of floating-point numbers, on its bound: either. *)
AtMost(a, b, tight) == IF tight THEN a < b ELSE a <= b

(* Mutant: the slope with its sign. *)
MutantFlat(line, tight) == AtMost(line.slope * SlopeSeconds, line.den, tight)

Flat(line, tight) ==
  AtMost(Abs(line.slope) * SlopeSeconds, line.den, tight)

(* The estimate at index i, or none. *)
StepAt(rows, event, i, tight) ==
  LET w        == PlateauWindow(rows, event, i)
      preLoad  == TwiceMedian(rows, w.pre)
      postLoad == TwiceMedian(rows, w.post)
      rise     == postLoad - preLoad
      pre      == LineAtTransition(rows, w.pre, i)
      post     == LineAtTransition(rows, w.post, i)
      sag      == pre.value * post.valueDen - post.value * pre.valueDen
      den      == pre.valueDen * post.valueDen
  IN  IF /\ PlateauIsValid(rows, i, w)
         /\ rise >= 2 * MinLoadStep   \* a fall of the load never has a positive estimate
         /\ preLoad \in 1 .. 2 * MaxLoad /\ postLoad \in 1 .. 2 * MaxLoad
         /\ Flat(pre, tight) /\ Flat(post, tight)
         /\ AtMost(MinVoltageStep * den, sag, tight)
         /\ AtMost(rise * den, 2 * MinKInverse * sag, tight)
         /\ AtMost(200 * sag, MaxKPer100 * rise * den, tight)
      THEN [sag |-> sag, den |-> den, rise |-> rise, at |-> rows[i].at]
      ELSE NoStep

ExtractIrObservation(rows, tight) ==
  LET event == NaturalEvent(rows)
      steps == {i \in event : i # Min(event) /\ StepAt(rows, event, i, tight) # NoStep}
  IN  IF steps = {} THEN NoStep ELSE StepAt(rows, event, Min(steps), tight)

-----------------------------------------------------------------------------
Init == signal \in Signals /\ found = Pending

Extract ==
  /\ found = Pending
  /\ \E tight \in BOOLEAN : found' = ExtractIrObservation(Rows(signal), tight)
  /\ UNCHANGED signal

Next == Extract

Spec == Init /\ [][Next]_vars

-----------------------------------------------------------------------------
(* The reference, on the signal: no code, only what the plateaus promise.  *)

At(i) == signal.phase + (i - 1) * signal.cadence

(* When the signal was seen: at the polls but a lost one or one with LB.   *)
Seen ==
  {At(i) : i \in {i \in 1 .. (signal.length - signal.phase) \div signal.cadence + 1 :
                    ~(i = signal.oddAt /\ signal.odd \in {"lost", "LB"})}}

(* A sag and a load step that evidence a coefficient in the allowed range, *)
(* or one on a bound of it, for which rounding decides.                    *)
Plausible ==
  /\ signal.step >= MinLoadStep /\ signal.base > 0 /\ signal.base + signal.step <= MaxLoad
  /\ signal.drop > MinVoltageStep
  /\ signal.drop * MinKInverse > signal.step
  /\ 100 * signal.drop < MaxKPer100 * signal.step

OnBound ==
  \/ signal.drop = MinVoltageStep
  \/ signal.drop * MinKInverse = signal.step
  \/ 100 * signal.drop = MaxKPer100 * signal.step

(* Polls show both plateaus for their duration without a gap too long.     *)
Shown ==
  LET seen   == Seen
      risen  == {t \in seen : t >= signal.rise}
      T      == Min(risen)
      before == {t \in seen : t <= T - PlateauDuration}
      after  == {t \in seen : t >= T + PlateauDuration}
  IN  /\ risen # {} /\ before # {} /\ after # {}
      /\ Min(after) < signal.fall
      /\ \A t \in seen : (Max(before) <= t /\ t < Min(after)) =>
           \E u \in seen : t < u /\ u <= t + MaxGap

(* An outage whose load rises once yields an observation exactly if polls  *)
(* show both plateaus for 20 seconds without a gap above 15 seconds, and   *)
(* its estimate is the true one, dated by the first poll after the rise:   *)
(* extract_ir_observation against a reference that knows no index, window  *)
(* or regression.  A voltage that lags or droops: EstimateWithinOneQuantum.*)
FindsTheStepShown ==
  (found # Pending /\ signal.lag = 0 /\ signal.droop > signal.length) =>
    IF /\ Plausible /\ Shown /\ signal.ends
       /\ ~(signal.odd \in {"void", "CAL"} /\ At(signal.oddAt) <= signal.length)
      THEN /\ found # NoStep
           /\ found.sag = signal.drop * found.den
           /\ found.rise = 2 * signal.step
           /\ found.at = Min({t \in Seen : t >= signal.rise})
      ELSE found = NoStep \/ OnBound

(* "The duration guard makes 1-second and roughly 11-second polling        *)
(* cadences equivalent": plateaus of the duration and one cadence more     *)
(* yield the observation whatever the cadence and phase, up to the gap.    *)
CadencesAgree ==
  (/\ found # Pending /\ signal.ends /\ signal.odd = "none" /\ Plausible
   /\ signal.lag = 0 /\ signal.droop > signal.length
   /\ signal.cadence <= MaxGap /\ signal.phase < signal.cadence
   /\ signal.rise >= PlateauDuration + signal.cadence
   /\ signal.fall >= signal.rise + PlateauDuration + 2 * signal.cadence
   /\ signal.length >= signal.fall)
  => found # NoStep

(* The displayed voltage may follow the load late, by any time, and fall   *)
(* by a quantum of its own, between any two polls: an estimate is at most  *)
(* that one quantum off.  A slope taken for a step, or a sample of the     *)
(* wrong plateau, would put more into the model.                           *)
EstimateWithinOneQuantum ==
  found \notin {Pending, NoStep} =>
    /\ found.rise = 2 * signal.step
    /\ found.sag >= (signal.drop - 1) * found.den
    /\ found.sag <= (signal.drop + 1) * found.den
=============================================================================
