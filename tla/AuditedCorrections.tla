-------------------------- MODULE AuditedCorrections --------------------------
(***************************************************************************)
(* What the maintenance history promises about the model coefficient: each *)
(* correction starts from the value the log accounts for, and is logged    *)
(* once; at most one correction is ahead of the log, and it may be lost to *)
(* a failing write only by being superseded, never after it was logged.    *)
(* The history holds other rows too: a correction has a place in it.       *)
(***************************************************************************)
EXTENDS Integers

CONSTANTS
  InitialValue,
  LargestStep,  \* how far one correction may move the value, downwards
  Keys          \* what a correction is logged under

VARIABLES
  value,        \* the coefficient on disk
  log,          \* the corrections the history holds, by their places in it
  pending       \* the correction on disk that the log does not hold yet, as a
                \* sequence of at most one

correctionVars == <<value, log, pending>>

Latest == CHOOSE place \in DOMAIN log : \A earlier \in DOMAIN log : earlier <= place

Accounted == IF DOMAIN log = {} THEN InitialValue ELSE log[Latest].to

Init ==
  /\ value = InitialValue
  /\ log = <<>>
  /\ pending = <<>>

Correct ==
  /\ \E at \in Keys, step \in 1 .. LargestStep :
       /\ \A place \in DOMAIN log : log[place].at # at
       /\ value' = Accounted - step
       /\ pending' = <<[at |-> at, from |-> Accounted, to |-> value']>>
  /\ UNCHANGED log

(* The row comes after those of all other corrections, wherever that is.   *)
Log ==
  /\ pending # <<>>
  /\ \E new \in DOMAIN log' :
       /\ \A place \in DOMAIN log : place < new
       /\ log' = [place \in DOMAIN log \cup {new} |->
                    IF place = new THEN pending[1] ELSE log[place]]
  /\ pending' = <<>>
  /\ UNCHANGED value

Next == Correct \/ Log

Spec == Init /\ [][Next]_correctionVars
=============================================================================
