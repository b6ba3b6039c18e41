-------------------------- MODULE VirtualUpsContract --------------------------
(***************************************************************************)
(* What upsmon may rely on: the content the virtual UPS serves, as an      *)
(* abstract machine that knows nothing of polls, trackers or processes.    *)
(*   - A reading of the physical UPS is served first while it is at most   *)
(*     Fresh seconds old, and never for longer than Limit seconds.         *)
(*   - The synthetic low battery only ever replaces served content.        *)
(*   - Low battery, once served, is not downgraded to plain on-battery     *)
(*     before OL is served or the service withdraws.                       *)
(***************************************************************************)
EXTENDS Integers

CONSTANTS Fresh, Limit

VARIABLES
  served,       \* content upsmon can read through the driver
  evidence,     \* seconds since the served reading was published
  alarm         \* LB was served, and no OL since

contractVars == <<served, evidence, alarm>>

Reading == {"OL", "OB", "LB"}

Init ==
  /\ served = "ABSENT"
  /\ evidence = 0
  /\ alarm = FALSE

(* A reading is served: a new one, or the first one of a new service. *)
Serve(reading) ==
  /\ reading = "OB" => ~alarm
  /\ served' = reading
  /\ evidence' \in 0 .. Fresh
  /\ served # "ABSENT" => evidence' = 0
  /\ alarm' = (reading = "LB" \/ (alarm /\ reading # "OL"))

GiveUp ==
  /\ served # "ABSENT"
  /\ served' = "FAILSAFE"
  /\ evidence' = 0
  /\ UNCHANGED alarm

Withdraw ==
  /\ served' = "ABSENT"
  /\ evidence' = 0
  /\ alarm' = FALSE

Elapse ==
  /\ served \in Reading
  /\ evidence < Limit
  /\ evidence' = evidence + 1
  /\ UNCHANGED <<served, alarm>>

Next ==
  \/ \E reading \in Reading : Serve(reading)
  \/ GiveUp
  \/ Withdraw
  \/ Elapse

Spec == Init /\ [][Next]_contractVars
=============================================================================
