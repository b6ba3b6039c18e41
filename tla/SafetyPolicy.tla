---------------------------- MODULE SafetyPolicy ----------------------------
(***************************************************************************)
(* The status policy of the virtual UPS: how one physical observation is   *)
(* classified and which status, and which low-battery latch, one poll      *)
(* publishes.  The runtime forecast is an input here; only its position    *)
(* relative to the two thresholds matters to the decision, so whole        *)
(* minutes stand for the code's floating-point minutes.                    *)
(***************************************************************************)
EXTENDS Integers

CONSTANT ShutdownMinutes        \* Config.shutdown_minutes

SafetyFloorMinutes == 2

ASSUME ShutdownAboveFloor ==
  /\ ShutdownMinutes \in Nat
  /\ ShutdownMinutes > SafetyFloorMinutes

Flag   == {"OL", "OB", "CAL"}                      \* the flags ups.status is split into
Kind   == {"ONLINE", "REAL", "TEST", "UNKNOWN"}    \* BlackoutKind
Source == {"NONE", "MODELED", "FLOOR"}             \* SafetyLatch: no latch, or what set it
Status == {"OL", "OB", "LB"}                       \* "OL", "OB DISCHRG", "OB DISCHRG LB"

OnBattery(flags) == flags \cap {"OB", "CAL"} # {}

(* A battery flag is a real blackout unless the daemon attributed the      *)
(* episode to its own self-test; OL counts only without a battery flag.    *)
Classify(flags, attributed) ==
  CASE OnBattery(flags) -> IF attributed = "TEST" THEN "TEST" ELSE "REAL"
    [] ~OnBattery(flags) /\ "OL" \in flags -> "ONLINE"
    [] OTHER -> "UNKNOWN"

ConservativeSafetyKind(kind) == IF kind = "UNKNOWN" THEN "REAL" ELSE kind

HardFloorLb(runtime) == runtime < SafetyFloorMinutes

ModeledLb(kind, runtime) ==
  ConservativeSafetyKind(kind) = "REAL" /\ runtime < ShutdownMinutes

(* Mutant: the hard floor, too, applies to real blackouts only. *)
MutantUnlatchedSource(kind, runtime) ==
  IF ModeledLb(kind, runtime)
    THEN IF HardFloorLb(runtime) THEN "FLOOR" ELSE "MODELED"
    ELSE "NONE"

(* What sets the latch in a poll that found it clear. *)
UnlatchedSource(kind, runtime) ==
  CASE kind = "ONLINE" -> "NONE"
    [] kind # "ONLINE" /\ HardFloorLb(runtime) -> "FLOOR"
    [] kind # "ONLINE" /\ ~HardFloorLb(runtime) /\ ModeledLb(kind, runtime) -> "MODELED"
    [] OTHER -> "NONE"

(* Mutant: each poll decides the low battery afresh. *)
MutantNextLatch(kind, runtime, latch) == UnlatchedSource(kind, runtime)

(* The latch after a poll: OL clears it, otherwise a set latch stays.      *)
NextLatch(kind, runtime, latch) ==
  IF kind # "ONLINE" /\ latch # "NONE" THEN latch ELSE UnlatchedSource(kind, runtime)

(* The status the poll publishes.                                          *)
DecidedStatus(kind, runtime, latch) ==
  CASE kind = "ONLINE" -> "OL"
    [] kind # "ONLINE" /\ NextLatch(kind, runtime, latch) # "NONE" -> "LB"
    [] OTHER -> "OB"
=============================================================================
