------------------------- MODULE GuardedPublication -------------------------
(***************************************************************************)
(* What the rest of the exporter may take a guarded publication for: the   *)
(* new content lands at one instant, publish returns only after that, and  *)
(* may raise before it or after it.  After a failure the content can only  *)
(* disappear, and the daemon stops.                                        *)
(***************************************************************************)
EXTENDS Naturals

CONSTANT MaxCalls

VARIABLES
  file,         \* generation of the content in the device file, 0: no file
  calls,        \* publications begun
  stage         \* idle, busy, failed or stopped

vars == <<file, calls, stage>>

Init == file = 0 /\ calls = 0 /\ stage = "idle"

Begin ==
  /\ stage = "idle" /\ calls < MaxCalls
  /\ stage' = "busy"
  /\ calls' = calls + 1
  /\ UNCHANGED file

Land ==
  /\ stage = "busy" /\ file # calls
  /\ file' = calls
  /\ UNCHANGED <<calls, stage>>

Return ==
  /\ stage = "busy" /\ file = calls
  /\ stage' = "idle"
  /\ UNCHANGED <<file, calls>>

Raise ==
  /\ stage = "busy"
  /\ stage' = "failed"
  /\ UNCHANGED <<file, calls>>

Remove ==
  /\ stage = "failed"
  /\ file' = 0
  /\ UNCHANGED <<calls, stage>>

Stop ==
  /\ stage = "failed"
  /\ stage' = "stopped"
  /\ UNCHANGED <<file, calls>>

Next == Begin \/ Land \/ Return \/ Raise \/ Remove \/ Stop

Spec == Init /\ [][Next]_vars
=============================================================================
