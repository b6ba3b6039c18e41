----------------------------- MODULE MCLoadStep ------------------------------
EXTENDS LoadStep

(* Loads of 10 and 30 percent; the cadences of the documentation, the      *)
(* bound of a gap and one beyond it; plateaus just short of the duration,  *)
(* on it, just beyond it, and long enough for every cadence.               *)
Outage(drop, rise, high, lag, droop, cadence, phase, odd, oddAt, ends) ==
  [base |-> 10, step |-> 20, drop |-> drop, rise |-> rise, fall |-> rise + high,
   lag |-> lag, droop |-> droop, length |-> rise + high + 3, cadence |-> cadence, phase |-> phase,
   odd |-> odd, oddAt |-> oddAt, ends |-> ends]

Never == 1000

Steps ==
  {Outage(drop, rise, high, 0, Never, cadence, phase, "none", 1, TRUE) :
     drop \in {1, 2, 3, 8, 9}, rise \in {20, 21, 34, 36}, high \in {20, 21, 31, 50},
     cadence \in {1, 5, 10, 11, 15, 16}, phase \in {0, 1, 4}}

Odd ==
  {Outage(3, rise, 36, 0, Never, cadence, 0, odd, oddAt, ends) :
     rise \in {22, 34}, cadence \in {1, 5, 8, 11},
     odd \in {"lost", "void", "LB", "CAL"}, oddAt \in 1 .. 9, ends \in BOOLEAN}

Drooping ==
  {Outage(drop, 24, 36, lag, droop, cadence, 0, "none", 1, TRUE) :
     drop \in {0, 2, 3}, lag \in {0, 1}, cadence \in {1, 5, 11}, droop \in 0 .. 60}

Lagging ==
  {Outage(drop, 24, 44, lag, Never, cadence, 0, "none", 1, TRUE) :
     drop \in 2 .. 8, cadence \in {1, 2, 5, 11}, lag \in 1 .. 24}

MCSignals == Steps \cup Odd \cup Drooping \cup Lagging
=============================================================================
