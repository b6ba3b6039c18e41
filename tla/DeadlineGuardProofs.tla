------------------------- MODULE DeadlineGuardProofs -------------------------
(***************************************************************************)
(* Proofs about DeadlineGuard, for every deadline, every timer of the      *)
(* caller and any number of publications.                                  *)
(***************************************************************************)
EXTENDS DeadlineGuard, NumberLemmas, TLAPS

USE DEF Place, SetUp, Writing, CleaningUp, Removing, TakeDown, Absent, NoTimer,
        At, Ripe, Step, SetHandler, OpStep, OpFails, guardVars, writeVars, callVars, locals

(* Types.  The intervals of the timers stay below MaxOuter, so that the    *)
(* time that has elapsed keeps its range.  The flags are left to Zenon,    *)
(* the ranges and the arithmetic to SMT.                                   *)

FlagsOK ==
  /\ masked \in BOOLEAN
  /\ installed \in BOOLEAN
  /\ completed \in BOOLEAN
  /\ temp \in BOOLEAN
  /\ known \in BOOLEAN
  /\ fired \in BOOLEAN
  /\ unclean \in BOOLEAN

RangesOK ==
  /\ pc \in Place
  /\ op \in {"write", "mark", "fatal"}
  /\ err \in {"none", "io", "deadline"}
  /\ handler \in {"outer", "timeout", "defer"}
  /\ handler = "defer" => pc \in {"collect", "unmask", "unwind"}
  /\ sig \in {"none", "arrived", "due", "blocked"}
  /\ timer \in Nat /\ prev \in Nat \cup {NoTimer}
  /\ reload \in 0 .. MaxOuter /\ prevEvery \in 0 .. MaxOuter
  /\ saved \in {"outer", "timeout"}
  /\ elapsed \in 0 .. MaxOuter
  /\ plan \in {"none", "deliver", "rearm"}
  /\ plan = "rearm" => prev \in Nat
  /\ file \in 0 .. MaxCalls /\ calls \in 0 .. MaxCalls
  /\ outer \in 0 .. MaxOuter /\ every \in 0 .. MaxOuter /\ owed \in 0 .. MaxOuter
  /\ seen \in 0 .. 2 /\ troubles \in 0 .. 2

LEMMA TypeSplit == FlagsOK /\ RangesOK => TypeOK
<1> SUFFICES ASSUME FlagsOK, RangesOK PROVE TypeOK
  OBVIOUS
<1>1. reload \in Nat /\ prevEvery \in Nat
  BY GuardAssumption DEF RangesOK
<1> QED
  BY Zenon, <1>1 DEF TypeOK, FlagsOK, RangesOK

(* _adjust_previous_timer keeps a period, and what it leaves of a timer is *)
(* never zero while the timer runs on.                                     *)
LEMMA AdjustedTimerType ==
  ASSUME NEW left \in Nat, NEW period \in 0 .. MaxOuter, NEW passed \in Nat
  PROVE  /\ AdjustedTimer(left, period, passed).left \in Nat
         /\ AdjustedTimer(left, period, passed).every \in 0 .. MaxOuter
         /\ left > 0 /\ ~AdjustedTimer(left, period, passed).missed =>
              AdjustedTimer(left, period, passed).left > 0
<1>1. period \in Nat
  BY GuardAssumption
<1>2. CASE left = 0 \/ passed < left \/ period = 0
  BY <1>1, <1>2, GuardAssumption DEF AdjustedTimer
<1>3. CASE left # 0 /\ ~(passed < left) /\ period # 0
  <2>1. passed - left \in Nat /\ period \in Nat \ {0}
    BY <1>1, <1>3
  <2>2. (passed - left) % period \in 0 .. period - 1
    BY <2>1
  <2> QED
    BY <1>1, <1>3, <2>2 DEF AdjustedTimer
<1> QED
  BY <1>2, <1>3

LEMMA InitType == Init => FlagsOK /\ RangesOK
<1> SUFFICES ASSUME Init PROVE FlagsOK /\ RangesOK
  OBVIOUS
<1>1. FlagsOK
  BY Zenon DEF Init, FlagsOK
<1>2. RangesOK
  BY SMT, GuardAssumption DEF Init, RangesOK
<1> QED
  BY <1>1, <1>2

LEMMA TypeStep == FlagsOK /\ RangesOK /\ [Next]_vars => FlagsOK' /\ RangesOK'
<1> SUFFICES ASSUME FlagsOK, RangesOK, [Next]_vars PROVE FlagsOK' /\ RangesOK'
  OBVIOUS
<1>1. CASE Publish
  <2>1. FlagsOK'
    BY Zenon, <1>1 DEF FlagsOK, Publish, FreshLocals
  <2>2. RangesOK'
    BY SMT, <1>1, GuardAssumption DEF RangesOK, Publish, FreshLocals
  <2> QED
    BY <2>1, <2>2
<1>2. CASE Install
  <2>1. FlagsOK'
    BY Zenon, <1>2 DEF FlagsOK, Install
  <2>2. RangesOK'
    BY SMT, <1>2, GuardAssumption DEF RangesOK, Install
  <2> QED
    BY <2>1, <2>2
<1>3. CASE Arm
  <2>1. FlagsOK'
    BY Zenon, <1>3 DEF FlagsOK, Arm, ArmFor
  <2>2. RangesOK'
    BY SMT, <1>3, GuardAssumption DEF RangesOK, Arm, ArmFor
  <2> QED
    BY <2>1, <2>2
<1>4. CASE Begin
  <2>1. FlagsOK'
    BY Zenon, <1>4 DEF FlagsOK, Begin
  <2>2. RangesOK'
    BY SMT, <1>4, GuardAssumption DEF RangesOK, Begin
  <2> QED
    BY <2>1, <2>2
<1>5. CASE Complete
  <2>1. FlagsOK'
    BY Zenon, <1>5 DEF FlagsOK, Complete
  <2>2. RangesOK'
    BY SMT, <1>5, GuardAssumption DEF RangesOK, Complete
  <2> QED
    BY <2>1, <2>2
<1>6. CASE Measure
  <2>1. FlagsOK'
    BY Zenon, <1>6 DEF FlagsOK, Measure, MeasureAs
  <2>2. RangesOK'
    BY SMT, <1>6, GuardAssumption, AdjustedTimerType DEF RangesOK, Measure,
         MeasureAs
  <2> QED
    BY <2>1, <2>2
<1>7. CASE Disarm
  <2>1. FlagsOK'
    BY Zenon, <1>7 DEF FlagsOK, Disarm
  <2>2. RangesOK'
    BY SMT, <1>7, GuardAssumption DEF RangesOK, Disarm
  <2> QED
    BY <2>1, <2>2
<1>8. CASE RestoreHandler
  <2>1. FlagsOK'
    BY Zenon, <1>8 DEF FlagsOK, RestoreHandler, RestoreHandlerIf
  <2>2. RangesOK'
    BY SMT, <1>8, GuardAssumption DEF RangesOK, RestoreHandler,
         RestoreHandlerIf
  <2> QED
    BY <2>1, <2>2
<1>9. CASE Rearm
  <2>1. FlagsOK'
    BY Zenon, <1>9 DEF FlagsOK, Rearm
  <2>2. RangesOK'
    BY SMT, <1>9, GuardAssumption DEF RangesOK, Rearm
  <2> QED
    BY <2>1, <2>2
<1>10. CASE Return
  <2>1. FlagsOK'
    BY Zenon, <1>10 DEF FlagsOK, Return, FreshLocals
  <2>2. RangesOK'
    BY SMT, <1>10, GuardAssumption DEF RangesOK, Return, FreshLocals
  <2> QED
    BY <2>1, <2>2
<1>11. CASE OpenTemp
  <2>1. FlagsOK'
    BY Zenon, <1>11 DEF FlagsOK, OpenTemp
  <2>2. RangesOK'
    BY SMT, <1>11, GuardAssumption DEF RangesOK, OpenTemp, Trouble
  <2> QED
    BY <2>1, <2>2
<1>12. CASE InspectTemp
  <2>1. FlagsOK'
    BY Zenon, <1>12 DEF FlagsOK, InspectTemp
  <2>2. RangesOK'
    BY SMT, <1>12, GuardAssumption DEF RangesOK, InspectTemp, Trouble
  <2> QED
    BY <2>1, <2>2
<1>13. CASE FillTemp
  <2>1. FlagsOK'
    BY Zenon, <1>13 DEF FlagsOK, FillTemp
  <2>2. RangesOK'
    BY SMT, <1>13, GuardAssumption DEF RangesOK, FillTemp, Trouble
  <2> QED
    BY <2>1, <2>2
<1>14. CASE Replace
  <2>1. FlagsOK'
    BY Zenon, <1>14 DEF FlagsOK, Replace
  <2>2. RangesOK'
    BY SMT, <1>14, GuardAssumption DEF RangesOK, Replace, Trouble
  <2> QED
    BY <2>1, <2>2
<1>15. CASE SyncDirectory
  <2>1. FlagsOK'
    BY Zenon, <1>15 DEF FlagsOK, SyncDirectory
  <2>2. RangesOK'
    BY SMT, <1>15, GuardAssumption DEF RangesOK, SyncDirectory, Trouble
  <2> QED
    BY <2>1, <2>2
<1>16. CASE RemoveOutput
  <2>1. FlagsOK'
    BY Zenon, <1>16 DEF FlagsOK, RemoveOutput
  <2>2. RangesOK'
    BY SMT, <1>16, GuardAssumption DEF RangesOK, RemoveOutput
  <2> QED
    BY <2>1, <2>2
<1>17. CASE SyncRemoval
  <2>1. FlagsOK'
    BY Zenon, <1>17 DEF FlagsOK, SyncRemoval
  <2>2. RangesOK'
    BY SMT, <1>17, GuardAssumption DEF RangesOK, SyncRemoval
  <2> QED
    BY <2>1, <2>2
<1>18. CASE BlockAlarms
  <2>1. FlagsOK'
    BY Zenon, <1>18 DEF FlagsOK, BlockAlarms
  <2>2. RangesOK'
    BY SMT, <1>18, GuardAssumption DEF RangesOK, BlockAlarms
  <2> QED
    BY <2>1, <2>2
<1>19. CASE DeferAlarms
  <2>1. FlagsOK'
    BY Zenon, <1>19 DEF FlagsOK, DeferAlarms
  <2>2. RangesOK'
    BY SMT, <1>19, GuardAssumption DEF RangesOK, DeferAlarms
  <2> QED
    BY <2>1, <2>2
<1>20. CASE CollectErrors
  <2>1. FlagsOK'
    <3>1. temp' \in BOOLEAN
      BY Zenon, <1>20 DEF CollectErrors
    <3>2. unclean' \in BOOLEAN
      BY SMT, <1>20 DEF CollectErrors
    <3>3. UNCHANGED <<masked, installed, completed, known, fired>>
      BY <1>20 DEF CollectErrors
    <3> QED
      BY Zenon, <3>1, <3>2, <3>3 DEF FlagsOK
  <2>2. RangesOK'
    BY SMT, <1>20, GuardAssumption DEF RangesOK, CollectErrors, Trouble
  <2> QED
    BY <2>1, <2>2
<1>21. CASE UnblockAlarms
  <2>1. FlagsOK'
    BY Zenon, <1>21 DEF FlagsOK, UnblockAlarms
  <2>2. RangesOK'
    BY SMT, <1>21, GuardAssumption DEF RangesOK, UnblockAlarms
  <2> QED
    BY <2>1, <2>2
<1>22. CASE RestoreTimeoutHandler
  <2>1. FlagsOK'
    BY Zenon, <1>22 DEF FlagsOK, RestoreTimeoutHandler
  <2>2. RangesOK'
    BY SMT, <1>22, GuardAssumption DEF RangesOK, RestoreTimeoutHandler
  <2> QED
    BY <2>1, <2>2
<1>23. CASE FinishCleanup
  <2>1. FlagsOK'
    BY Zenon, <1>23 DEF FlagsOK, FinishCleanup
  <2>2. RangesOK'
    BY SMT, <1>23, GuardAssumption DEF RangesOK, FinishCleanup
  <2> QED
    BY <2>1, <2>2
<1>24. CASE Handle
  <2>1. FlagsOK'
    BY Zenon, <1>24 DEF FlagsOK, Handle, Raise, Ignore, Defer, Deliver,
         Landing
  <2>2. RangesOK'
    BY SMT, <1>24, GuardAssumption DEF RangesOK, Handle, Raise, Ignore,
         Defer, Deliver, Landing
  <2> QED
    BY <2>1, <2>2
<1>25. CASE Tick
  <2>1. FlagsOK'
    BY Zenon, <1>25 DEF FlagsOK, Tick, Measuring, Later, CallerCounts
  <2>2. RangesOK'
    BY SMT, <1>25, GuardAssumption DEF RangesOK, Tick, Measuring, Later,
         CallerCounts
  <2> QED
    BY <2>1, <2>2
<1>26. CASE Ended
  <2>1. FlagsOK'
    BY Zenon, <1>26 DEF FlagsOK, Ended, vars, alarmVars
  <2>2. RangesOK'
    BY SMT, <1>26, GuardAssumption DEF RangesOK, Ended, vars, alarmVars
  <2> QED
    BY <2>1, <2>2
<1>27. CASE UNCHANGED vars
  <2>1. FlagsOK'
    BY Zenon, <1>27 DEF FlagsOK, vars, alarmVars
  <2>2. RangesOK'
    BY SMT, <1>27, GuardAssumption DEF RangesOK, vars, alarmVars
  <2> QED
    BY <2>1, <2>2
<1> QED
  BY <1>1, <1>2, <1>3, <1>4, <1>5, <1>6, <1>7, <1>8, <1>9, <1>10, <1>11,
       <1>12, <1>13, <1>14, <1>15, <1>16, <1>17, <1>18, <1>19, <1>20, <1>21,
       <1>22, <1>23, <1>24, <1>25, <1>26, <1>27 DEF Next, GuardStep,
       OperationStep, CleanupStep

LEMMA Typed == Spec => [](FlagsOK /\ RangesOK)
<1>1. FlagsOK /\ RangesOK /\ [Next]_vars => (FlagsOK /\ RangesOK)'
  BY TypeStep
<1> QED
  BY <1>1, InitType, PTL DEF Spec

(* Every variable of the guard, the write and the alarm keeps its range,   *)
(* whatever timer the caller has.                                          *)
THEOREM TypeCorrect == Spec => []TypeOK
BY Typed, TypeSplit, PTL

-----------------------------------------------------------------------------
(* The handler.  Without a timer of the caller, and in a publication in    *)
(* which nothing was raised, every place has its handler.                  *)

HandlerAt(place) ==
  IF place \in {"idle", "install", "rearm", "return", "stopped"} THEN "outer"
  ELSE IF place \in {"collect", "unmask", "unwind"} THEN "defer" ELSE "timeout"

Undisturbed == outer = 0 \/ (op = "write" /\ err = "none")

HandlerInv ==
  /\ pc = "idle" => op = "write" /\ err = "none"
  /\ Undisturbed =>
       /\ pc # "killed"
       /\ handler = HandlerAt(pc)
       /\ saved = "outer"
       /\ pc \notin {"idle", "install", "noting", "stopped"} => installed

(* The alarm, without a timer of the caller: it comes once, when the inner *)
(* timer has run out, and never where the caller's handler is in place.    *)

Unarmed == {"idle", "install", "noting", "restore", "rearm", "return", "stopped"}
Armed   == {"arming", "opdone", "disarm", "plan"} \cup Writing \cup CleaningUp \cup Removing

AlarmInv ==
  outer = 0 =>
    /\ reload = 0 /\ prevEvery = 0 /\ plan = "none"
    /\ prev \in {NoTimer, 0}
    /\ sig \in {"arrived", "due"} => timer = 0
    /\ pc \in Unarmed => timer = 0 /\ sig \in {"none", "blocked"}
    /\ pc = "plan" => timer = 0
    /\ pc = "masked" => masked /\ sig \in {"none", "blocked"}
    /\ pc \in Armed => prev = 0
    /\ pc = "finally" /\ prev = NoTimer => timer = 0 /\ sig \in {"none", "blocked"}

LEMMA HandlerStep == TypeOK /\ AlarmInv /\ HandlerInv /\ [Next]_vars => HandlerInv'
<1> SUFFICES ASSUME TypeOK, AlarmInv, HandlerInv, [Next]_vars PROVE HandlerInv'
  OBVIOUS
<1>1. CASE Publish
  BY <1>1 DEF TypeOK, HandlerInv, Undisturbed, HandlerAt, AlarmInv, Unarmed,
       Publish, FreshLocals
<1>2. CASE Install
  BY <1>2 DEF TypeOK, HandlerInv, Undisturbed, HandlerAt, AlarmInv, Unarmed,
       Install
<1>3. CASE Arm
  BY <1>3 DEF TypeOK, HandlerInv, Undisturbed, HandlerAt, AlarmInv, Unarmed,
       Arm, ArmFor
<1>4. CASE Begin
  BY <1>4 DEF TypeOK, HandlerInv, Undisturbed, HandlerAt, AlarmInv, Unarmed,
       Begin
<1>5. CASE Complete
  BY <1>5 DEF TypeOK, HandlerInv, Undisturbed, HandlerAt, AlarmInv, Unarmed,
       Complete
<1>6. CASE Measure
  BY <1>6 DEF TypeOK, HandlerInv, Undisturbed, HandlerAt, AlarmInv, Unarmed,
       Measure, MeasureAs
<1>7. CASE Disarm
  BY <1>7 DEF TypeOK, HandlerInv, Undisturbed, HandlerAt, AlarmInv, Unarmed,
       Disarm
<1>8. CASE RestoreHandler
  BY <1>8 DEF TypeOK, HandlerInv, Undisturbed, HandlerAt, AlarmInv, Unarmed,
       RestoreHandler, RestoreHandlerIf
<1>9. CASE Rearm
  BY <1>9 DEF TypeOK, HandlerInv, Undisturbed, HandlerAt, AlarmInv, Unarmed,
       Rearm
<1>10. CASE Return
  BY <1>10 DEF TypeOK, HandlerInv, Undisturbed, HandlerAt, AlarmInv, Unarmed,
       Return, FreshLocals
<1>11. CASE OpenTemp
  BY <1>11 DEF TypeOK, HandlerInv, Undisturbed, HandlerAt, AlarmInv, Unarmed,
       OpenTemp
<1>12. CASE InspectTemp
  BY <1>12 DEF TypeOK, HandlerInv, Undisturbed, HandlerAt, AlarmInv, Unarmed,
       InspectTemp
<1>13. CASE FillTemp
  BY <1>13 DEF TypeOK, HandlerInv, Undisturbed, HandlerAt, AlarmInv, Unarmed,
       FillTemp
<1>14. CASE Replace
  BY <1>14 DEF TypeOK, HandlerInv, Undisturbed, HandlerAt, AlarmInv, Unarmed,
       Replace
<1>15. CASE SyncDirectory
  BY <1>15 DEF TypeOK, HandlerInv, Undisturbed, HandlerAt, AlarmInv, Unarmed,
       SyncDirectory
<1>16. CASE RemoveOutput
  BY <1>16 DEF TypeOK, HandlerInv, Undisturbed, HandlerAt, AlarmInv, Unarmed,
       RemoveOutput
<1>17. CASE SyncRemoval
  BY <1>17 DEF TypeOK, HandlerInv, Undisturbed, HandlerAt, AlarmInv, Unarmed,
       SyncRemoval
<1>18. CASE BlockAlarms
  BY <1>18 DEF TypeOK, HandlerInv, Undisturbed, HandlerAt, AlarmInv, Unarmed,
       BlockAlarms
<1>19. CASE DeferAlarms
  BY <1>19 DEF TypeOK, HandlerInv, Undisturbed, HandlerAt, AlarmInv, Unarmed,
       DeferAlarms
<1>20. CASE CollectErrors
  BY <1>20 DEF TypeOK, HandlerInv, Undisturbed, HandlerAt, AlarmInv, Unarmed,
       CollectErrors
<1>21. CASE UnblockAlarms
  BY <1>21 DEF TypeOK, HandlerInv, Undisturbed, HandlerAt, AlarmInv, Unarmed,
       UnblockAlarms
<1>22. CASE RestoreTimeoutHandler
  BY <1>22 DEF TypeOK, HandlerInv, Undisturbed, HandlerAt, AlarmInv, Unarmed,
       RestoreTimeoutHandler
<1>23. CASE FinishCleanup
  BY <1>23 DEF TypeOK, HandlerInv, Undisturbed, HandlerAt, AlarmInv, Unarmed,
       FinishCleanup
<1>24. CASE Handle
  <2>1. CASE Raise
    <3>1. pc \notin Unarmed \cup {"masked"} \/ outer # 0
      BY <1>24, <2>1 DEF Handle, Raise, AlarmInv
    <3>2. ~(op' = "write" /\ err' = "none") /\ pc' # "idle"
      BY <1>24, <2>1 DEF Handle, Raise, Landing
    <3>3. CASE outer # 0
      BY <1>24, <3>2, <3>3 DEF Handle, HandlerInv, Undisturbed
    <3>4. CASE outer = 0
      <4>1. /\ pc' \in {"finally", "cleanup", "restore"}
            /\ handler = "timeout" /\ saved = "outer" /\ installed
        BY <1>24, <2>1, <3>1, <3>4
        DEF Handle, Raise, Landing, TypeOK, HandlerInv, Undisturbed, HandlerAt, Unarmed
      <4> QED
        BY <1>24, <3>2, <4>1 DEF Handle, HandlerInv, HandlerAt
    <3> QED
      BY <3>3, <3>4
  <2>2. CASE Ignore \/ Defer
    BY <1>24, <2>2 DEF Handle, Ignore, Defer, HandlerInv, Undisturbed, HandlerAt
  <2>3. CASE Deliver
    BY <1>24, <2>3
    DEF Handle, Deliver, TypeOK, HandlerInv, Undisturbed, HandlerAt, AlarmInv, Unarmed
  <2> QED
    BY <1>24, <2>1, <2>2, <2>3 DEF Handle
<1>25. CASE Tick
  BY <1>25 DEF TypeOK, HandlerInv, Undisturbed, HandlerAt, AlarmInv, Unarmed,
       Tick, Measuring, Later, CallerCounts
<1>26. CASE Ended
  BY <1>26 DEF TypeOK, HandlerInv, Undisturbed, HandlerAt, AlarmInv, Unarmed,
       Ended, vars, alarmVars
<1>27. CASE UNCHANGED vars
  BY <1>27 DEF TypeOK, HandlerInv, Undisturbed, HandlerAt, AlarmInv, Unarmed,
       vars, alarmVars
<1> QED
  BY <1>1, <1>2, <1>3, <1>4, <1>5, <1>6, <1>7, <1>8, <1>9, <1>10, <1>11,
       <1>12, <1>13, <1>14, <1>15, <1>16, <1>17, <1>18, <1>19, <1>20, <1>21,
       <1>22, <1>23, <1>24, <1>25, <1>26, <1>27 DEF Next, GuardStep,
       OperationStep, CleanupStep

LEMMA AlarmStep == TypeOK /\ AlarmInv /\ HandlerInv /\ [Next]_vars => AlarmInv'
<1> SUFFICES ASSUME TypeOK, AlarmInv, HandlerInv, [Next]_vars PROVE AlarmInv'
  OBVIOUS
<1>1. CASE Publish
  <2>1. PICK t \in OuterTimers :
           outer' = t[1] /\ timer' = t[1] /\ reload' = t[2]
    BY <1>1 DEF Publish
  <2>2. t[1] = 0 => t[2] = 0
    BY GuardAssumption
  <2>3. pc' = "install" /\ sig' = "none" /\ plan' = "none" /\ prev' = NoTimer /\ prevEvery' = 0
    BY <1>1 DEF Publish, FreshLocals
  <2> QED
    BY <2>1, <2>2, <2>3 DEF AlarmInv, Unarmed, Armed
<1>2. CASE Install
  BY <1>2 DEF TypeOK, AlarmInv, Unarmed, Armed, HandlerInv, Undisturbed,
       HandlerAt, Install
<1>3. CASE Arm
  BY <1>3 DEF TypeOK, AlarmInv, Unarmed, Armed, HandlerInv, Undisturbed,
       HandlerAt, Arm, ArmFor
<1>4. CASE Begin
  BY <1>4 DEF TypeOK, AlarmInv, Unarmed, Armed, HandlerInv, Undisturbed,
       HandlerAt, Begin
<1>5. CASE Complete
  BY <1>5 DEF TypeOK, AlarmInv, Unarmed, Armed, HandlerInv, Undisturbed,
       HandlerAt, Complete
<1>6. CASE Measure
  <2> USE DEF Measure, MeasureAs, AdjustedTimer, TypeOK, AlarmInv, Unarmed, Armed
  <2>1. CASE prev = NoTimer
    BY <1>6, <2>1
  <2>2. CASE prev # NoTimer
    BY <1>6, <2>2
  <2> QED
    BY <2>1, <2>2
<1>7. CASE Disarm
  BY <1>7 DEF TypeOK, AlarmInv, Unarmed, Armed, HandlerInv, Undisturbed,
       HandlerAt, Disarm
<1>8. CASE RestoreHandler
  BY <1>8 DEF TypeOK, AlarmInv, Unarmed, Armed, HandlerInv, Undisturbed,
       HandlerAt, RestoreHandler, RestoreHandlerIf
<1>9. CASE Rearm
  BY <1>9 DEF TypeOK, AlarmInv, Unarmed, Armed, HandlerInv, Undisturbed,
       HandlerAt, Rearm
<1>10. CASE Return
  BY <1>10 DEF TypeOK, AlarmInv, Unarmed, Armed, HandlerInv, Undisturbed,
       HandlerAt, Return, FreshLocals
<1>11. CASE OpenTemp
  BY <1>11 DEF TypeOK, AlarmInv, Unarmed, Armed, HandlerInv, Undisturbed,
       HandlerAt, OpenTemp
<1>12. CASE InspectTemp
  BY <1>12 DEF TypeOK, AlarmInv, Unarmed, Armed, HandlerInv, Undisturbed,
       HandlerAt, InspectTemp
<1>13. CASE FillTemp
  BY <1>13 DEF TypeOK, AlarmInv, Unarmed, Armed, HandlerInv, Undisturbed,
       HandlerAt, FillTemp
<1>14. CASE Replace
  BY <1>14 DEF TypeOK, AlarmInv, Unarmed, Armed, HandlerInv, Undisturbed,
       HandlerAt, Replace
<1>15. CASE SyncDirectory
  BY <1>15 DEF TypeOK, AlarmInv, Unarmed, Armed, HandlerInv, Undisturbed,
       HandlerAt, SyncDirectory
<1>16. CASE RemoveOutput
  BY <1>16 DEF TypeOK, AlarmInv, Unarmed, Armed, HandlerInv, Undisturbed,
       HandlerAt, RemoveOutput
<1>17. CASE SyncRemoval
  BY <1>17 DEF TypeOK, AlarmInv, Unarmed, Armed, HandlerInv, Undisturbed,
       HandlerAt, SyncRemoval
<1>18. CASE BlockAlarms
  BY <1>18 DEF TypeOK, AlarmInv, Unarmed, Armed, HandlerInv, Undisturbed,
       HandlerAt, BlockAlarms
<1>19. CASE DeferAlarms
  BY <1>19 DEF TypeOK, AlarmInv, Unarmed, Armed, HandlerInv, Undisturbed,
       HandlerAt, DeferAlarms
<1>20. CASE CollectErrors
  BY <1>20 DEF TypeOK, AlarmInv, Unarmed, Armed, HandlerInv, Undisturbed,
       HandlerAt, CollectErrors
<1>21. CASE UnblockAlarms
  BY <1>21 DEF TypeOK, AlarmInv, Unarmed, Armed, HandlerInv, Undisturbed,
       HandlerAt, UnblockAlarms
<1>22. CASE RestoreTimeoutHandler
  BY <1>22 DEF TypeOK, AlarmInv, Unarmed, Armed, HandlerInv, Undisturbed,
       HandlerAt, RestoreTimeoutHandler
<1>23. CASE FinishCleanup
  BY <1>23 DEF TypeOK, AlarmInv, Unarmed, Armed, HandlerInv, Undisturbed,
       HandlerAt, FinishCleanup
<1>24. CASE Handle
  BY <1>24 DEF TypeOK, AlarmInv, Unarmed, Armed, HandlerInv, Undisturbed,
       HandlerAt, Handle, Raise, Ignore, Defer, Deliver, Landing
<1>25. CASE Tick
  BY <1>25 DEF TypeOK, AlarmInv, Unarmed, Armed, HandlerInv, Undisturbed,
       HandlerAt, Tick, Measuring, Later, CallerCounts
<1>26. CASE Ended
  BY <1>26 DEF TypeOK, AlarmInv, Unarmed, Armed, HandlerInv, Undisturbed,
       HandlerAt, Ended, vars, alarmVars
<1>27. CASE UNCHANGED vars
  BY <1>27 DEF TypeOK, AlarmInv, Unarmed, Armed, HandlerInv, Undisturbed,
       HandlerAt, vars, alarmVars
<1> QED
  BY <1>1, <1>2, <1>3, <1>4, <1>5, <1>6, <1>7, <1>8, <1>9, <1>10, <1>11,
       <1>12, <1>13, <1>14, <1>15, <1>16, <1>17, <1>18, <1>19, <1>20, <1>21,
       <1>22, <1>23, <1>24, <1>25, <1>26, <1>27 DEF Next, GuardStep,
       OperationStep, CleanupStep

-----------------------------------------------------------------------------
(* The temporary file of a write that no deadline cut short.               *)

Cleaned == {"unmask", "unwind", "finish", "opdone"} \cup TakeDown

TempInv ==
  op = "write" =>
    /\ pc # "removed"
    /\ pc \in SetUp \cup Writing => err = "none"
    /\ pc \in SetUp \cup {"run", "replaced"} => ~temp
    /\ pc \in {"owned", "filled"} => known
    /\ temp /\ err # "deadline" =>
         /\ pc \in {"cleanup", "masked", "collect"} => troubles >= 1 /\ (known \/ troubles = 2)
         /\ pc \in Cleaned => troubles = 2

LEMMA TempStep == TypeOK /\ TempInv /\ [Next]_vars => TempInv'
<1> SUFFICES ASSUME TypeOK, TempInv, [Next]_vars PROVE TempInv'
  OBVIOUS
<1>1. CASE Publish
  BY <1>1 DEF TypeOK, TempInv, Cleaned, Trouble, Publish, FreshLocals
<1>2. CASE Install
  BY <1>2 DEF TypeOK, TempInv, Cleaned, Trouble, Install
<1>3. CASE Arm
  BY <1>3 DEF TypeOK, TempInv, Cleaned, Trouble, Arm, ArmFor
<1>4. CASE Begin
  BY <1>4 DEF TypeOK, TempInv, Cleaned, Trouble, Begin
<1>5. CASE Complete
  BY <1>5 DEF TypeOK, TempInv, Cleaned, Trouble, Complete
<1>6. CASE Measure
  BY <1>6 DEF TypeOK, TempInv, Cleaned, Trouble, Measure, MeasureAs
<1>7. CASE Disarm
  BY <1>7 DEF TypeOK, TempInv, Cleaned, Trouble, Disarm
<1>8. CASE RestoreHandler
  BY <1>8 DEF TypeOK, TempInv, Cleaned, Trouble, RestoreHandler,
       RestoreHandlerIf
<1>9. CASE Rearm
  BY <1>9 DEF TypeOK, TempInv, Cleaned, Trouble, Rearm
<1>10. CASE Return
  BY <1>10 DEF TypeOK, TempInv, Cleaned, Trouble, Return, FreshLocals
<1>11. CASE OpenTemp
  BY <1>11 DEF TypeOK, TempInv, Cleaned, Trouble, OpenTemp
<1>12. CASE InspectTemp
  BY <1>12 DEF TypeOK, TempInv, Cleaned, Trouble, InspectTemp
<1>13. CASE FillTemp
  BY <1>13 DEF TypeOK, TempInv, Cleaned, Trouble, FillTemp
<1>14. CASE Replace
  BY <1>14 DEF TypeOK, TempInv, Cleaned, Trouble, Replace
<1>15. CASE SyncDirectory
  BY <1>15 DEF TypeOK, TempInv, Cleaned, Trouble, SyncDirectory
<1>16. CASE RemoveOutput
  BY <1>16 DEF TypeOK, TempInv, Cleaned, Trouble, RemoveOutput
<1>17. CASE SyncRemoval
  BY <1>17 DEF TypeOK, TempInv, Cleaned, Trouble, SyncRemoval
<1>18. CASE BlockAlarms
  BY <1>18 DEF TypeOK, TempInv, Cleaned, Trouble, BlockAlarms
<1>19. CASE DeferAlarms
  BY <1>19 DEF TypeOK, TempInv, Cleaned, Trouble, DeferAlarms
<1>20. CASE CollectErrors
  <2>1. PICK n \in 0 .. 2, removed \in BOOLEAN :
          /\ temp /\ known /\ ~removed => n > 0
          /\ temp' = (temp /\ ~(known /\ removed))
          /\ troubles' = Trouble(n)
    BY <1>20 DEF CollectErrors
  <2>2. pc = "collect" /\ pc' = "unmask" /\ UNCHANGED <<op, err, known>>
    BY <1>20 DEF CollectErrors
  <2>3. CASE temp'
    <3>1. temp /\ ~(known /\ removed)
      BY <2>1, <2>3
    <3>2. known => n >= 1
      BY <2>1, <3>1
    <3>3. op = "write" /\ err # "deadline" => troubles >= 1 /\ (known \/ troubles = 2)
      BY <2>2, <3>1 DEF TempInv
    <3>4. op = "write" /\ err # "deadline" => troubles' = 2
      BY <2>1, <3>2, <3>3 DEF Trouble, TypeOK
    <3> QED
      BY <2>2, <3>4 DEF TempInv
  <2>4. CASE ~temp'
    BY <2>2, <2>4 DEF TempInv
  <2> QED
    BY <2>3, <2>4
<1>21. CASE UnblockAlarms
  BY <1>21 DEF TypeOK, TempInv, Cleaned, Trouble, UnblockAlarms
<1>22. CASE RestoreTimeoutHandler
  BY <1>22 DEF TypeOK, TempInv, Cleaned, Trouble, RestoreTimeoutHandler
<1>23. CASE FinishCleanup
  BY <1>23 DEF TypeOK, TempInv, Cleaned, Trouble, FinishCleanup
<1>24. CASE Handle
  BY <1>24 DEF TypeOK, TempInv, Cleaned, Trouble, Handle, Raise, Ignore,
       Defer, Deliver, Landing
<1>25. CASE Tick
  BY <1>25 DEF TypeOK, TempInv, Cleaned, Trouble, Tick, Measuring, Later,
       CallerCounts
<1>26. CASE Ended
  BY <1>26 DEF TypeOK, TempInv, Cleaned, Trouble, Ended, vars, alarmVars
<1>27. CASE UNCHANGED vars
  BY <1>27 DEF TypeOK, TempInv, Cleaned, Trouble, vars, alarmVars
<1> QED
  BY <1>1, <1>2, <1>3, <1>4, <1>5, <1>6, <1>7, <1>8, <1>9, <1>10, <1>11,
       <1>12, <1>13, <1>14, <1>15, <1>16, <1>17, <1>18, <1>19, <1>20, <1>21,
       <1>22, <1>23, <1>24, <1>25, <1>26, <1>27 DEF Next, GuardStep,
       OperationStep, CleanupStep

(* The device file: the publication has landed when nothing was raised.    *)

FileInv ==
  /\ file <= calls
  /\ pc \in {"opened", "owned", "filled", "replaced"} \cup CleaningUp => op = "write"
  /\ op = "write" =>
       /\ pc \in SetUp \cup {"run", "opened", "owned", "filled"} => file < calls
       /\ err = "none" /\ pc \in {"replaced", "opdone"} \cup CleaningUp \cup TakeDown => file = calls

LEMMA FileStep == TypeOK /\ HandlerInv /\ TempInv /\ FileInv /\ [Next]_vars => FileInv'
<1> SUFFICES ASSUME TypeOK, HandlerInv, TempInv, FileInv, [Next]_vars PROVE FileInv'
  OBVIOUS
<1>1. CASE Publish
  BY <1>1 DEF TypeOK, FileInv, HandlerInv, TempInv, Publish, FreshLocals
<1>2. CASE Install
  BY <1>2 DEF TypeOK, FileInv, HandlerInv, TempInv, Install
<1>3. CASE Arm
  BY <1>3 DEF TypeOK, FileInv, HandlerInv, TempInv, Arm, ArmFor
<1>4. CASE Begin
  BY <1>4 DEF TypeOK, FileInv, HandlerInv, TempInv, Begin
<1>5. CASE Complete
  BY <1>5 DEF TypeOK, FileInv, HandlerInv, TempInv, Complete
<1>6. CASE Measure
  BY <1>6 DEF TypeOK, FileInv, HandlerInv, TempInv, Measure, MeasureAs
<1>7. CASE Disarm
  BY <1>7 DEF TypeOK, FileInv, HandlerInv, TempInv, Disarm
<1>8. CASE RestoreHandler
  BY <1>8 DEF TypeOK, FileInv, HandlerInv, TempInv, RestoreHandler,
       RestoreHandlerIf
<1>9. CASE Rearm
  BY <1>9 DEF TypeOK, FileInv, HandlerInv, TempInv, Rearm
<1>10. CASE Return
  BY <1>10 DEF TypeOK, FileInv, HandlerInv, TempInv, Return, FreshLocals
<1>11. CASE OpenTemp
  BY <1>11 DEF TypeOK, FileInv, HandlerInv, TempInv, OpenTemp
<1>12. CASE InspectTemp
  BY <1>12 DEF TypeOK, FileInv, HandlerInv, TempInv, InspectTemp
<1>13. CASE FillTemp
  BY <1>13 DEF TypeOK, FileInv, HandlerInv, TempInv, FillTemp
<1>14. CASE Replace
  BY <1>14 DEF TypeOK, FileInv, HandlerInv, TempInv, Replace
<1>15. CASE SyncDirectory
  BY <1>15 DEF TypeOK, FileInv, HandlerInv, TempInv, SyncDirectory
<1>16. CASE RemoveOutput
  BY <1>16 DEF TypeOK, FileInv, HandlerInv, TempInv, RemoveOutput
<1>17. CASE SyncRemoval
  BY <1>17 DEF TypeOK, FileInv, HandlerInv, TempInv, SyncRemoval
<1>18. CASE BlockAlarms
  BY <1>18 DEF TypeOK, FileInv, HandlerInv, TempInv, BlockAlarms
<1>19. CASE DeferAlarms
  BY <1>19 DEF TypeOK, FileInv, HandlerInv, TempInv, DeferAlarms
<1>20. CASE CollectErrors
  BY <1>20 DEF TypeOK, FileInv, HandlerInv, TempInv, CollectErrors
<1>21. CASE UnblockAlarms
  BY <1>21 DEF TypeOK, FileInv, HandlerInv, TempInv, UnblockAlarms
<1>22. CASE RestoreTimeoutHandler
  BY <1>22 DEF TypeOK, FileInv, HandlerInv, TempInv, RestoreTimeoutHandler
<1>23. CASE FinishCleanup
  BY <1>23 DEF TypeOK, FileInv, HandlerInv, TempInv, FinishCleanup
<1>24. CASE Handle
  BY <1>24 DEF TypeOK, FileInv, HandlerInv, TempInv, Handle, Raise, Ignore,
       Defer, Deliver, Landing
<1>25. CASE Tick
  BY <1>25 DEF TypeOK, FileInv, HandlerInv, TempInv, Tick, Measuring, Later,
       CallerCounts
<1>26. CASE Ended
  BY <1>26 DEF TypeOK, FileInv, HandlerInv, TempInv, Ended, vars, alarmVars
<1>27. CASE UNCHANGED vars
  BY <1>27 DEF TypeOK, FileInv, HandlerInv, TempInv, vars, alarmVars
<1> QED
  BY <1>1, <1>2, <1>3, <1>4, <1>5, <1>6, <1>7, <1>8, <1>9, <1>10, <1>11,
       <1>12, <1>13, <1>14, <1>15, <1>16, <1>17, <1>18, <1>19, <1>20, <1>21,
       <1>22, <1>23, <1>24, <1>25, <1>26, <1>27 DEF Next, GuardStep,
       OperationStep, CleanupStep

-----------------------------------------------------------------------------
(* The inductive invariant, and what follows from it.                      *)

IInv == TypeOK /\ HandlerInv /\ AlarmInv /\ TempInv /\ FileInv

LEMMA InitIInv == Init => HandlerInv /\ AlarmInv /\ TempInv /\ FileInv
BY GuardAssumption
DEF Init, HandlerInv, Undisturbed, HandlerAt, AlarmInv, Unarmed, Armed, TempInv, Cleaned, FileInv

THEOREM Invariance == Spec => []IInv
<1> DEFINE Rest == HandlerInv /\ AlarmInv /\ TempInv /\ FileInv
<1>1. Init => Rest
  BY InitIInv
<1>2. TypeOK /\ Rest /\ [Next]_vars => Rest'
  BY HandlerStep, AlarmStep, TempStep, FileStep
<1>3. IInv <=> TypeOK /\ Rest
  BY DEF IInv
<1> HIDE DEF Rest
<1> QED
  BY <1>1, <1>2, <1>3, TypeCorrect, PTL DEF Spec

(* Without a timer of its own the caller finds its handler back, however   *)
(* the guarded call ended and wherever the alarm came.                     *)
THEOREM HandlerComesBack == Spec => []HandlersRestored
<1>1. IInv => HandlersRestored
  BY DEF IInv, HandlerInv, Undisturbed, HandlerAt, HandlersRestored
<1> QED
  BY <1>1, Invariance, PTL

(* The deadline's alarm never meets the default action of SIGALRM.         *)
THEOREM NeverKilled == Spec => []DeadlineNeverKills
<1>1. IInv => (outer = 0 => DeadlineNeverKills)
  BY DEF IInv, HandlerInv, Undisturbed, DeadlineNeverKills
<1>2. IInv /\ DeadlineNeverKills /\ [Next]_vars => DeadlineNeverKills'
  <2> SUFFICES ASSUME IInv, DeadlineNeverKills, [Next]_vars, pc' = "killed" PROVE FALSE
    BY DEF DeadlineNeverKills
  <2>1. outer = 0 /\ outer' = outer
    <3>1. CASE Publish
      BY <3>1 DEF DeadlineNeverKills, Publish, FreshLocals
    <3>2. CASE Install
      BY <3>2 DEF DeadlineNeverKills, Install
    <3>3. CASE Arm
      BY <3>3 DEF DeadlineNeverKills, Arm, ArmFor
    <3>4. CASE Begin
      BY <3>4 DEF DeadlineNeverKills, Begin
    <3>5. CASE Complete
      BY <3>5 DEF DeadlineNeverKills, Complete
    <3>6. CASE Measure
      BY <3>6 DEF DeadlineNeverKills, Measure, MeasureAs
    <3>7. CASE Disarm
      BY <3>7 DEF DeadlineNeverKills, Disarm
    <3>8. CASE RestoreHandler
      BY <3>8 DEF DeadlineNeverKills, RestoreHandler, RestoreHandlerIf
    <3>9. CASE Rearm
      BY <3>9 DEF DeadlineNeverKills, Rearm
    <3>10. CASE Return
      BY <3>10 DEF DeadlineNeverKills, Return, FreshLocals
    <3>11. CASE OpenTemp
      BY <3>11 DEF DeadlineNeverKills, OpenTemp
    <3>12. CASE InspectTemp
      BY <3>12 DEF DeadlineNeverKills, InspectTemp
    <3>13. CASE FillTemp
      BY <3>13 DEF DeadlineNeverKills, FillTemp
    <3>14. CASE Replace
      BY <3>14 DEF DeadlineNeverKills, Replace
    <3>15. CASE SyncDirectory
      BY <3>15 DEF DeadlineNeverKills, SyncDirectory
    <3>16. CASE RemoveOutput
      BY <3>16 DEF DeadlineNeverKills, RemoveOutput
    <3>17. CASE SyncRemoval
      BY <3>17 DEF DeadlineNeverKills, SyncRemoval
    <3>18. CASE BlockAlarms
      BY <3>18 DEF DeadlineNeverKills, BlockAlarms
    <3>19. CASE DeferAlarms
      BY <3>19 DEF DeadlineNeverKills, DeferAlarms
    <3>20. CASE CollectErrors
      BY <3>20 DEF DeadlineNeverKills, CollectErrors
    <3>21. CASE UnblockAlarms
      BY <3>21 DEF DeadlineNeverKills, UnblockAlarms
    <3>22. CASE RestoreTimeoutHandler
      BY <3>22 DEF DeadlineNeverKills, RestoreTimeoutHandler
    <3>23. CASE FinishCleanup
      BY <3>23 DEF DeadlineNeverKills, FinishCleanup
    <3>24. CASE Handle
      BY <3>24 DEF DeadlineNeverKills, Handle, Raise, Ignore, Defer, Deliver,
           Landing
    <3>25. CASE Tick
      BY <3>25 DEF DeadlineNeverKills, Tick, Measuring, Later, CallerCounts
    <3>26. CASE Ended
      BY <3>26 DEF DeadlineNeverKills, Ended, vars, alarmVars
    <3>27. CASE UNCHANGED vars
      BY <3>27 DEF DeadlineNeverKills, vars, alarmVars
    <3> QED
      BY <3>1, <3>2, <3>3, <3>4, <3>5, <3>6, <3>7, <3>8, <3>9, <3>10, <3>11,
           <3>12, <3>13, <3>14, <3>15, <3>16, <3>17, <3>18, <3>19, <3>20,
           <3>21, <3>22, <3>23, <3>24, <3>25, <3>26, <3>27 DEF Next,
           GuardStep, OperationStep, CleanupStep
  <2>2. TypeOK /\ HandlerInv /\ AlarmInv
    BY DEF IInv
  <2>3. HandlerInv'
    BY <2>2, HandlerStep
  <2> QED
    BY <2>1, <2>3 DEF HandlerInv, Undisturbed
<1>3. Init => DeadlineNeverKills
  BY DEF Init, DeadlineNeverKills
<1> QED
  BY <1>2, <1>3, Invariance, PTL DEF Spec

(* No single failing call leaves the temporary file behind: the deadline   *)
(* raised, or two calls failed.                                            *)
THEOREM TempIsRemoved == Spec => []LeftTempIsExplained
<1>1. IInv => LeftTempIsExplained
  BY DEF IInv, TempInv, Cleaned, LeftTempIsExplained
<1> QED
  BY <1>1, Invariance, PTL

-----------------------------------------------------------------------------
(* The guard implements the publication the exporter takes it for.         *)

LEMMA PublicationStep ==
  ASSUME IInv, IInv', DeadlineNeverKills, DeadlineNeverKills', [Next]_vars
  PROVE  [Publication!Next]_(Publication!vars)
<1> USE DEF Publication!vars
<1>1. CASE Publish
  <2>1. Stage = "idle" /\ Stage' = "busy"
    BY <1>1 DEF Publish, Stage
  <2>2. Publication!Begin
    BY <1>1, <2>1 DEF Publish, Publication!Begin
  <2> QED
    BY <2>2 DEF Publication!Next
<1>2. CASE Install
  BY <1>2 DEF Install, Stage, DeadlineNeverKills
<1>3. CASE Arm
  BY <1>3 DEF Arm, ArmFor, Stage, DeadlineNeverKills
<1>4. CASE Begin
  BY <1>4 DEF Begin, Stage, DeadlineNeverKills
<1>5. CASE Complete
  BY <1>5 DEF Complete, Stage, DeadlineNeverKills
<1>6. CASE Measure
  BY <1>6 DEF Measure, MeasureAs, Stage, DeadlineNeverKills
<1>7. CASE Disarm
  BY <1>7 DEF Disarm, Stage, DeadlineNeverKills
<1>8. CASE RestoreHandler
  BY <1>8 DEF RestoreHandler, RestoreHandlerIf, Stage, DeadlineNeverKills
<1>9. CASE Rearm
  BY <1>9 DEF Rearm, Stage, DeadlineNeverKills
<1>10. CASE Return
  <2>1. UNCHANGED <<file, calls>>
    BY <1>10 DEF Return
  <2>2. CASE op = "write" /\ err = "none"
    <3>1. Stage = "busy" /\ Stage' = "idle"
      BY <1>10, <2>2 DEF Return, Stage
    <3>2. file = calls
      BY <1>10, <2>2 DEF Return, IInv, FileInv
    <3>3. Publication!Return
      BY <2>1, <3>1, <3>2 DEF Publication!Return
    <3> QED
      BY <3>3 DEF Publication!Next
  <2>3. CASE op = "write" /\ err # "none"
    <3>1. Stage = "busy" /\ Stage' = "failed"
      BY <1>10, <2>3 DEF Return, Stage
    <3>2. Publication!Raise
      BY <2>1, <3>1 DEF Publication!Raise
    <3> QED
      BY <3>2 DEF Publication!Next
  <2>4. CASE op = "mark"
    <3>1. UNCHANGED Stage
      BY <1>10, <2>4 DEF Return, Stage
    <3> QED
      BY <2>1, <3>1
  <2>5. CASE op = "fatal"
    <3>1. Stage = "failed" /\ Stage' = "stopped"
      BY <1>10, <2>5 DEF Return, Stage
    <3>2. Publication!Stop
      BY <2>1, <3>1 DEF Publication!Stop
    <3> QED
      BY <3>2 DEF Publication!Next
  <2> QED
    BY <2>2, <2>3, <2>4, <2>5 DEF IInv, TypeOK
<1>11. CASE OpenTemp
  BY <1>11 DEF OpenTemp, Stage, DeadlineNeverKills
<1>12. CASE InspectTemp
  BY <1>12 DEF InspectTemp, Stage, DeadlineNeverKills
<1>13. CASE FillTemp
  BY <1>13 DEF FillTemp, Stage, DeadlineNeverKills
<1>14. CASE Replace
  <2>1. op = "write" /\ file < calls /\ calls \in Nat /\ file \in Nat
    BY <1>14, GuardAssumption DEF Replace, IInv, FileInv, TypeOK
  <2>2. Stage = "busy" /\ Stage' = "busy" /\ calls' = calls
    BY <1>14, <2>1 DEF Replace, Stage
  <2>3. file' = calls \/ file' = file
    BY <1>14 DEF Replace
  <2>4. file # calls
    BY <2>1
  <2>5. CASE file' = calls
    <3>1. Publication!Land
      BY <2>2, <2>4, <2>5 DEF Publication!Land
    <3> QED
      BY <3>1 DEF Publication!Next
  <2>6. CASE file' = file
    BY <2>2, <2>6
  <2> QED
    BY <2>3, <2>5, <2>6
<1>15. CASE SyncDirectory
  BY <1>15 DEF SyncDirectory, Stage, DeadlineNeverKills
<1>16. CASE RemoveOutput
  <2>1. Stage = "failed" /\ Stage' = "failed" /\ calls' = calls
    BY <1>16 DEF RemoveOutput, Stage
  <2>2. file' = 0 \/ file' = file
    BY <1>16 DEF RemoveOutput
  <2>3. CASE file' = 0
    <3>1. Publication!Remove
      BY <2>1, <2>3 DEF Publication!Remove
    <3> QED
      BY <3>1 DEF Publication!Next
  <2>4. CASE file' = file
    BY <2>1, <2>4
  <2> QED
    BY <2>2, <2>3, <2>4
<1>17. CASE SyncRemoval
  BY <1>17 DEF SyncRemoval, Stage, DeadlineNeverKills
<1>18. CASE BlockAlarms
  BY <1>18 DEF BlockAlarms, Stage, DeadlineNeverKills
<1>19. CASE DeferAlarms
  BY <1>19 DEF DeferAlarms, Stage, DeadlineNeverKills
<1>20. CASE CollectErrors
  BY <1>20 DEF CollectErrors, Stage, DeadlineNeverKills
<1>21. CASE UnblockAlarms
  BY <1>21 DEF UnblockAlarms, Stage, DeadlineNeverKills
<1>22. CASE RestoreTimeoutHandler
  BY <1>22 DEF RestoreTimeoutHandler, Stage, DeadlineNeverKills
<1>23. CASE FinishCleanup
  BY <1>23 DEF FinishCleanup, Stage, DeadlineNeverKills
<1>24. CASE Handle
  BY <1>24 DEF Handle, Raise, Ignore, Defer, Deliver, Landing, Stage,
       DeadlineNeverKills
<1>25. CASE Tick
  BY <1>25 DEF Tick, Measuring, Later, CallerCounts, Stage,
       DeadlineNeverKills
<1>26. CASE Ended
  BY <1>26 DEF Ended, vars, alarmVars, Stage, DeadlineNeverKills
<1>27. CASE UNCHANGED vars
  BY <1>27 DEF vars, alarmVars, Stage, DeadlineNeverKills
<1> QED
  BY <1>1, <1>2, <1>3, <1>4, <1>5, <1>6, <1>7, <1>8, <1>9, <1>10, <1>11,
       <1>12, <1>13, <1>14, <1>15, <1>16, <1>17, <1>18, <1>19, <1>20, <1>21,
       <1>22, <1>23, <1>24, <1>25, <1>26, <1>27 DEF Next, GuardStep,
       OperationStep, CleanupStep

(* publish returns only after its content has landed, and after a failure  *)
(* the content can only disappear: every step of the guarded write is one  *)
(* of GuardedPublication or leaves what it shows alone.                    *)
THEOREM PublicationImplemented == Spec => ImplementsPublication
<1>1. Init => Publication!Init
  BY DEF Init, Publication!Init, Stage
<1> QED
  BY <1>1, PublicationStep, Invariance, NeverKilled, PTL
  DEF Spec, ImplementsPublication, Publication!Spec
-----------------------------------------------------------------------------
(* The caller's alarm, in a publication in which nothing was raised.       *)

Watched == op = "write" /\ err = "none" /\ outer > 0

Counting == {"idle", "install", "noting", "return"}
Guarded  == Writing \cup CleaningUp \cup Removing \cup {"opdone", "finally"}

(* Where nothing was raised the guard took its steps in order, and the     *)
(* mask does not outlast the cleanup.                                      *)
ControlInv ==
  op = "write" /\ err = "none" =>
    /\ pc # "restore"
    /\ masked => pc \in {"masked", "collect", "unmask"}
    /\ sig = "blocked" => masked
    /\ pc \in SetUp => ~completed /\ elapsed = 0
    /\ pc \in TakeDown => completed
    /\ pc \in Guarded \cup {"arming"} => prev # NoTimer
    /\ pc \in {"plan", "rearm"} => timer = 0 /\ reload = 0
    /\ pc = "rearm" => sig = "none"

(* The caller's timer runs, with what is owed left of it; a one-shot that  *)
(* has expired was seen, or is under way.                                  *)
Runs ==
  IF every > 0 THEN owed > 0 /\ timer = owed /\ reload = every
  ELSE /\ reload = 0 /\ timer = owed
       /\ IF owed > 0 THEN seen = 0 /\ sig = "none"
          ELSE seen = (IF sig = "none" THEN 1 ELSE 0)

(* It is in previous_timer when the inner timer replaces it, unless it had *)
(* expired; an alarm too late for the caller's handler will raise.         *)
Noted ==
  /\ prev = owed /\ prevEvery = every
  /\ every > 0 => owed > 0 /\ (owed <= every \/ owed + every <= MaxOuter)
  /\ every = 0 => IF owed > 0 THEN seen = 0 ELSE seen = 1 \/ sig = "due"

(* previous_timer against the time that passed: what is owed is what is    *)
(* left of it, or of a later period.  The sum is a multiple of the period. *)
Passes ==
  /\ prevEvery = every /\ prev \in 0 .. MaxOuter
  /\ every > 0 => prev > 0 /\ (prev <= every \/ prev + every <= MaxOuter)
  /\ every = 0 => seen = (IF prev > 0 THEN 0 ELSE 1)
  /\ \/ prev = 0 /\ owed = 0
     \/ elapsed < prev /\ owed = prev - elapsed
     \/ /\ prev > 0 /\ elapsed >= prev
        /\ IF every = 0 THEN owed = 0
           ELSE /\ owed \in 1 .. every
                /\ \E n \in Nat : elapsed - prev + owed = n * every

(* What is left of it is rearmed, or the alarm that was missed delivered.  *)
Planned ==
  /\ prevEvery = (IF owed > 0 THEN every ELSE 0) /\ (every > 0 => owed > 0)
  /\ prev = owed
  /\ plan = (IF owed > 0 THEN "rearm" ELSE IF seen = 0 THEN "deliver" ELSE "none")
  /\ every = 0 => seen = 0 \/ (seen = 1 /\ owed = 0)

OuterInv ==
  Watched =>
    /\ pc \in Counting => Runs
    /\ pc = "arming" => Noted
    /\ pc \in Guarded => Passes
    /\ pc \in {"disarm", "plan", "rearm"} => Planned
    /\ pc \in {"install", "noting"} /\ every > 0 => owed <= every \/ owed + every <= MaxOuter

LEMMA ControlStep == TypeOK /\ HandlerInv /\ ControlInv /\ [Next]_vars => ControlInv'
<1> SUFFICES ASSUME TypeOK, HandlerInv, ControlInv, [Next]_vars, op' = "write", err' = "none" PROVE ControlInv'
  BY DEF ControlInv
<1> USE DEF TypeOK, ControlInv, Guarded, HandlerInv, Undisturbed, HandlerAt
<1>1. CASE Publish
  BY <1>1 DEF Publish, FreshLocals
<1>2. CASE Install
  BY <1>2 DEF Install
<1>3. CASE Arm
  BY <1>3 DEF Arm, ArmFor
<1>4. CASE Begin
  BY <1>4 DEF Begin
<1>5. CASE Complete
  BY <1>5 DEF Complete
<1>6. CASE Measure
  BY <1>6 DEF Measure, MeasureAs
<1>7. CASE Disarm
  BY <1>7 DEF Disarm
<1>8. CASE RestoreHandler
  BY <1>8 DEF RestoreHandler, RestoreHandlerIf
<1>9. CASE Rearm
  BY <1>9 DEF Rearm
<1>10. CASE Return
  BY <1>10 DEF Return, FreshLocals
<1>11. CASE OpenTemp
  BY <1>11 DEF OpenTemp
<1>12. CASE InspectTemp
  BY <1>12 DEF InspectTemp
<1>13. CASE FillTemp
  BY <1>13 DEF FillTemp
<1>14. CASE Replace
  BY <1>14 DEF Replace
<1>15. CASE SyncDirectory
  BY <1>15 DEF SyncDirectory
<1>16. CASE RemoveOutput
  BY <1>16 DEF RemoveOutput
<1>17. CASE SyncRemoval
  BY <1>17 DEF SyncRemoval
<1>18. CASE BlockAlarms
  BY <1>18 DEF BlockAlarms
<1>19. CASE DeferAlarms
  BY <1>19 DEF DeferAlarms
<1>20. CASE CollectErrors
  BY <1>20 DEF CollectErrors
<1>21. CASE UnblockAlarms
  BY <1>21 DEF UnblockAlarms
<1>22. CASE RestoreTimeoutHandler
  BY <1>22 DEF RestoreTimeoutHandler
<1>23. CASE FinishCleanup
  BY <1>23 DEF FinishCleanup
<1>24. CASE Handle
  BY <1>24 DEF Handle, Raise, Ignore, Defer, Deliver, Landing
<1>25. CASE Tick
  BY <1>25 DEF Tick, Measuring, Later, CallerCounts
<1>26. CASE Ended
  BY <1>26 DEF Ended, vars, alarmVars
<1>27. CASE UNCHANGED vars
  BY <1>27 DEF vars, alarmVars
<1> QED
  BY <1>1, <1>2, <1>3, <1>4, <1>5, <1>6, <1>7, <1>8, <1>9, <1>10, <1>11,
     <1>12, <1>13, <1>14, <1>15, <1>16, <1>17, <1>18, <1>19, <1>20, <1>21,
     <1>22, <1>23, <1>24, <1>25, <1>26, <1>27 DEF Next, GuardStep,
     OperationStep, CleanupStep

(* Within the operation and the cleanup, what the guard notes of the       *)
(* caller's timer stays as it is.                                          *)
LEMMA GuardedStep ==
  ASSUME TypeOK, Complete \/ OperationStep \/ CleanupStep
  PROVE  /\ pc \in Guarded
         /\ op' = "write" /\ err' = "none" => pc' \in Guarded
         /\ UNCHANGED <<op, prev, prevEvery, elapsed, plan, outer, every, owed, seen>>
         /\ err' = "none" => err = "none"
<1> USE DEF Guarded, TypeOK
<1>1. CASE Complete
  BY <1>1 DEF Complete
<1>2. CASE OpenTemp
  BY <1>2 DEF OpenTemp
<1>3. CASE InspectTemp
  BY <1>3 DEF InspectTemp
<1>4. CASE FillTemp
  BY <1>4 DEF FillTemp
<1>5. CASE Replace
  BY <1>5 DEF Replace
<1>6. CASE SyncDirectory
  BY <1>6 DEF SyncDirectory
<1>7. CASE RemoveOutput
  BY <1>7 DEF RemoveOutput
<1>8. CASE SyncRemoval
  BY <1>8 DEF SyncRemoval
<1>9. CASE BlockAlarms
  BY <1>9 DEF BlockAlarms
<1>10. CASE DeferAlarms
  BY <1>10 DEF DeferAlarms
<1>11. CASE CollectErrors
  BY <1>11 DEF CollectErrors
<1>12. CASE UnblockAlarms
  BY <1>12 DEF UnblockAlarms
<1>13. CASE RestoreTimeoutHandler
  BY <1>13 DEF RestoreTimeoutHandler
<1>14. CASE FinishCleanup
  BY <1>14 DEF FinishCleanup
<1> QED
  BY <1>1, <1>2, <1>3, <1>4, <1>5, <1>6, <1>7, <1>8, <1>9, <1>10, <1>11, <1>12, <1>13, <1>14
  DEF OperationStep, CleanupStep

(* What _adjust_previous_timer leaves is what is owed.                     *)
LEMMA AdjustedIsOwed ==
  ASSUME TypeOK, Passes
  PROVE  /\ AdjustedTimer(prev, prevEvery, elapsed).left = owed
         /\ AdjustedTimer(prev, prevEvery, elapsed).every = (IF owed > 0 THEN every ELSE 0)
         /\ AdjustedTimer(prev, prevEvery, elapsed).missed <=> owed = 0 /\ prev > 0
<1>1. /\ prev \in Nat /\ prevEvery = every /\ elapsed \in Nat /\ every \in Nat /\ owed \in Nat
      /\ every > 0 => prev > 0
  BY GuardAssumption DEF TypeOK, Passes
<1>2. CASE prev = 0
  BY <1>1, <1>2 DEF AdjustedTimer, Passes
<1>3. CASE prev > 0 /\ elapsed < prev
  BY <1>1, <1>3 DEF AdjustedTimer, Passes
<1>4. CASE prev > 0 /\ elapsed >= prev /\ every = 0
  BY <1>1, <1>4 DEF AdjustedTimer, Passes
<1>5. CASE prev > 0 /\ elapsed >= prev /\ every > 0
  <2>1. PICK n \in Nat : elapsed - prev + owed = n * every
    BY <1>1, <1>5 DEF Passes
  <2>2. owed \in 1 .. every
    BY <1>1, <1>5 DEF Passes
  <2>3. elapsed - prev = (n - 1) * every + (every - owed)
    <3>1. (n - 1) * every = n * every - every /\ n * every \in Nat
      BY <1>1
    <3> QED
      BY <1>1, <2>1, <3>1
  <2>4. (elapsed - prev) % every = every - owed
    <3>1. every \in Nat \ {0}
      BY <1>1, <1>5
    <3>2. PICK q \in Int : q = n - 1
      BY <1>1
    <3>3. PICK r \in 0 .. every - 1 : r = every - owed
      BY <1>1, <2>2
    <3>4. PICK passed \in Nat : passed = elapsed - prev
      BY <1>1, <1>5
    <3>5. passed = q * every + r
      BY <2>3, <3>2, <3>3, <3>4
    <3>6. passed % every = r
      BY <3>1, <3>5, Remainder
    <3> QED
      BY <3>3, <3>4, <3>6
  <2> QED
    BY <1>1, <1>5, <2>2, <2>4 DEF AdjustedTimer
<1> QED
  BY <1>1, <1>2, <1>3, <1>4, <1>5

(* One tick of a counting caller takes one tick of what is owed.           *)
LEMMA PassesTick ==
  ASSUME TypeOK, Passes, HandlerInv, Watched, pc \in Guarded, Tick
  PROVE  Passes'
<1> DEFINE next == IF owed > 1 THEN owed - 1 ELSE every
<1>1. /\ elapsed \in 0 .. MaxOuter /\ MaxOuter \in Nat /\ every \in Nat /\ owed \in Nat
      /\ prevEvery = every /\ prev \in Nat /\ (every > 0 => prev > 0)
      /\ prev <= MaxOuter
      /\ UNCHANGED <<pc, prev, prevEvery, every, seen>>
  <2>1. prev <= MaxOuter
    BY GuardAssumption DEF TypeOK, Passes
  <2> QED
    BY <2>1, GuardAssumption DEF TypeOK, Passes, Tick
<1>2. CASE prev = 0
  <2>1. UNCHANGED <<elapsed, owed>>
    BY <1>1, <1>2 DEF Tick, Measuring, Guarded, CallerCounts
  <2> QED
    BY <1>1, <1>2, <2>1 DEF Passes
<1>3. CASE prev > 0
  <2>1. elapsed' = Later(elapsed) /\ owed' = next
    BY <1>1, <1>3 DEF Tick, Measuring, Guarded, CallerCounts
  <2>2. CASE elapsed < prev
    <3>1. owed = prev - elapsed
      BY <1>1, <1>3, <2>2 DEF Passes
    <3>2. elapsed' = elapsed + 1
      BY <1>1, <2>1, <2>2 DEF Later
    <3>3. 0 * every = 0 /\ 1 * every = every
      BY <1>1
    <3> QED
      BY <1>1, <1>3, <2>1, <2>2, <3>1, <3>2, <3>3 DEF Passes
  <2>3. CASE elapsed >= prev /\ every = 0
    BY <1>1, <1>3, <2>1, <2>3 DEF Passes, Later
  <2>4. CASE elapsed >= prev /\ every > 0
    <3>1. PICK n \in Nat : elapsed - prev + owed = n * every
      BY <1>1, <1>3, <2>4 DEF Passes
    <3>2. owed \in 1 .. every /\ next \in 1 .. every
      BY <1>1, <1>3, <2>4 DEF Passes
    <3>3. PICK m \in Nat : elapsed + 1 - prev + next = m * every
      <4>1. CASE owed > 1
        <5>1. elapsed + 1 - prev + next = n * every
          BY <1>1, <3>1, <4>1
        <5> QED
          BY <5>1
      <4>2. CASE owed = 1
        <5>1. elapsed + 1 - prev + next = n * every + every
          BY <1>1, <3>1, <4>2
        <5>2. n * every + every = (n + 1) * every
          BY <1>1
        <5> QED
          BY <5>1, <5>2
      <4> QED
        BY <3>2, <4>1, <4>2
    <3> HIDE DEF next
    <3>4. CASE elapsed < MaxOuter
      <4>1. elapsed' = elapsed + 1
        BY <1>1, <2>1, <3>4 DEF Later
      <4> QED
        BY <1>1, <1>3, <2>1, <2>4, <3>2, <3>3, <4>1 DEF Passes
    <3>5. CASE elapsed = MaxOuter
      <4>1. elapsed' = elapsed + 1 - every
        BY <1>1, <2>1, <2>4, <3>5 DEF Later
      <4>2. elapsed' - prev + next = (m - 1) * every
        <5>1. (m - 1) * every = m * every - every /\ m * every \in Int
          BY <1>1
        <5> QED
          BY <1>1, <3>2, <3>3, <4>1, <5>1
      <4>3. CASE elapsed' < prev
        <5>1. prev <= every
          BY <1>1, <2>4, <3>5, <4>1, <4>3 DEF Passes
        <5>2. -every < elapsed' - prev + next /\ elapsed' - prev + next < every
          BY <1>1, <2>4, <3>2, <4>1, <4>3, <5>1
        <5>3. m - 1 = 0
          BY <1>1, <2>4, <4>2, <5>2, SmallMultiple
        <5>4. elapsed' - prev + next = 0
          BY <1>1, <4>2, <5>3
        <5> QED
          BY <1>1, <1>3, <2>1, <3>2, <4>1, <4>3, <5>4 DEF Passes
      <4>4. CASE elapsed' >= prev
        <5>1. elapsed' - prev + next > 0
          BY <1>1, <3>2, <4>1, <4>4
        <5>2. m - 1 \in Nat
          <6>1. m # 0
            BY <1>1, <2>4, <4>2, <5>1
          <6> QED
            BY <6>1
        <5>3. \E k \in Nat : elapsed' - prev' + owed' = k * every'
          BY <1>1, <2>1, <4>2, <5>2
        <5> QED
          BY <1>1, <1>3, <2>1, <2>4, <3>2, <4>1, <4>4, <5>3 DEF Passes
      <4> QED
        BY <1>1, <4>1, <4>3, <4>4
    <3> QED
      BY <1>1, <3>4, <3>5
  <2> QED
    BY <1>1, <2>2, <2>3, <2>4
<1> QED
  BY <1>1, <1>2, <1>3

(* What OuterInv says where the guard itself acts.                         *)
LEMMA OuterStep ==
  ASSUME TypeOK, HandlerInv, ControlInv, OuterInv, [Next]_vars
  PROVE  OuterInv'
<1> SUFFICES ASSUME Watched' PROVE OuterInv'
  BY DEF OuterInv
<1> USE DEF Counting, Watched
<1>1. CASE Publish
  <2>1. PICK t \in OuterTimers :
          /\ outer' = t[1] /\ owed' = t[1] /\ timer' = t[1]
          /\ every' = t[2] /\ reload' = t[2]
    BY <1>1 DEF Publish
  <2>2. /\ t[1] \in Nat /\ t[2] \in Nat /\ t[1] + t[2] <= MaxOuter
        /\ t[2] > 0 => t[1] > 0
    BY GuardAssumption
  <2>3. pc' = "install" /\ sig' = "none" /\ seen' = 0
    BY <1>1 DEF Publish
  <2> QED
    BY <2>1, <2>2, <2>3 DEF OuterInv, Guarded, Runs
<1>2. CASE Install
  BY <1>2 DEF Install, OuterInv, Guarded, Runs, ControlInv, TypeOK
<1>3. CASE Arm
  <2>1. /\ pc = "noting" /\ pc' = "arming" /\ sig \in {"none", "arrived"} /\ sig' = Ripe /\ Watched
        /\ prev' = timer /\ prevEvery' = reload
        /\ UNCHANGED <<every, owed, seen>>
    BY <1>3 DEF Arm, ArmFor, ControlInv, TypeOK
  <2>2. Runs /\ (every > 0 => owed <= every \/ owed + every <= MaxOuter)
    BY <2>1 DEF OuterInv
  <2>3. Noted'
    BY <2>1, <2>2, GuardAssumption DEF Runs, Noted, TypeOK
  <2> QED
    BY <2>1, <2>3 DEF OuterInv, Guarded
<1>4. CASE Begin
  <2>1. pc = "arming" /\ pc' = "run" /\ sig # "due" /\ elapsed = 0 /\ Noted
        /\ UNCHANGED <<prev, prevEvery, elapsed, every, owed, seen>>
    BY <1>4 DEF Begin, OuterInv, ControlInv
  <2>2. prev \in 0 .. MaxOuter /\ every \in Nat /\ owed \in Nat
    BY <2>1, GuardAssumption DEF Noted, TypeOK
  <2>3. Passes'
    BY <2>1, <2>2 DEF Noted, Passes
  <2> QED
    BY <2>1, <2>3 DEF OuterInv, Guarded
<1>5. CASE Complete \/ OperationStep \/ CleanupStep
  <2>1. /\ pc \in Guarded /\ pc' \in Guarded /\ Watched
        /\ UNCHANGED <<prev, prevEvery, elapsed, every, owed, seen>>
    BY <1>5, GuardedStep
  <2>2. Passes'
    BY <2>1 DEF OuterInv, Passes
  <2> QED
    BY <2>1, <2>2 DEF OuterInv, Guarded
<1>6. CASE Measure
  <2> DEFINE adjusted == AdjustedTimer(prev, prevEvery, elapsed)
  <2>1. pc = "finally" /\ Passes /\ completed /\ prev # NoTimer
        /\ UNCHANGED <<owed, every, seen>>
    BY <1>6 DEF Measure, MeasureAs, OuterInv, ControlInv, Guarded
  <2>2. /\ adjusted.left = owed
        /\ adjusted.every = (IF owed > 0 THEN every ELSE 0)
        /\ adjusted.missed <=> owed = 0 /\ prev > 0
    BY <2>1, AdjustedIsOwed
  <2>3. /\ pc' = "disarm" /\ prev' = adjusted.left /\ prevEvery' = adjusted.every
        /\ plan' = IF adjusted.missed THEN "deliver" ELSE IF adjusted.left # 0 THEN "rearm" ELSE "none"
    BY <1>6, <2>1 DEF Measure, MeasureAs
  <2>4. owed \in Nat /\ every \in Nat /\ (every > 0 => owed > 0)
        /\ (every = 0 => seen = (IF prev > 0 THEN 0 ELSE 1))
    BY <2>1, GuardAssumption DEF Passes, TypeOK
  <2> HIDE DEF adjusted
  <2>5. /\ plan' = (IF owed > 0 THEN "rearm" ELSE IF seen = 0 THEN "deliver" ELSE "none")
        /\ every = 0 => seen = 0 \/ (seen = 1 /\ owed = 0)
    <3>1. CASE owed > 0
      <4>1. prev > 0
        BY <2>1, <2>4, <3>1, GuardAssumption DEF Passes, TypeOK
      <4> QED
        BY <2>2, <2>3, <2>4, <3>1, <4>1
    <3>2. CASE owed = 0 /\ prev > 0
      BY <2>2, <2>3, <2>4, <3>2
    <3>3. CASE owed = 0 /\ prev = 0
      BY <2>2, <2>3, <2>4, <3>3
    <3> QED
      BY <2>1, <2>4, <3>1, <3>2, <3>3, GuardAssumption DEF Passes
  <2>6. Planned'
    BY <2>1, <2>2, <2>3, <2>4, <2>5 DEF Planned
  <2> QED
    BY <2>3, <2>6 DEF OuterInv, Guarded
<1>7. CASE Disarm
  BY <1>7 DEF Disarm, OuterInv, Guarded, Planned
<1>8. CASE RestoreHandler
  BY <1>8 DEF RestoreHandler, RestoreHandlerIf, OuterInv, ControlInv, Guarded, Planned
<1>9. CASE Rearm
  BY <1>9 DEF Rearm, OuterInv, ControlInv, Guarded, Planned, Runs, TypeOK
<1>10. CASE Return
  BY <1>10 DEF Return, FreshLocals, OuterInv, Guarded, Runs, TypeOK
<1>11. CASE Handle
  <2>1. /\ sig \in {"arrived", "due"} /\ sig' = "none"
        /\ UNCHANGED <<op, outer, elapsed, every, owed, timer, reload>>
    BY <1>11 DEF Handle
  <2>2. CASE Raise
    BY <2>2 DEF Raise
  <2>3. CASE Ignore \/ Defer
    <3>1. UNCHANGED <<pc, err, prev, prevEvery, plan, seen>>
      BY <2>3 DEF Ignore, Defer
    <3>2. Watched /\ pc # "arming" /\ pc \notin Counting
      BY <2>1, <2>3, <3>1 DEF Ignore, Defer, HandlerInv, Undisturbed, HandlerAt, ControlInv
    <3>3. Passes => Passes'
      BY <2>1, <3>1 DEF Passes
    <3>4. Planned => Planned'
      BY <2>1, <3>1 DEF Planned
    <3> QED
      BY <3>1, <3>2, <3>3, <3>4 DEF OuterInv, Guarded
  <2>4. CASE Deliver
    <3>1. Watched /\ UNCHANGED <<pc, err>> /\ seen' = (IF seen < 2 THEN seen + 1 ELSE seen)
      BY <2>1, <2>4 DEF Deliver
    <3>2. pc \in {"idle", "install", "return", "stopped"}
      BY <2>1, <2>4, <3>1 DEF Deliver, HandlerInv, Undisturbed, HandlerAt, ControlInv, TypeOK
    <3>3. pc \in Counting => Runs'
      BY <2>1, <3>1, <3>2, GuardAssumption DEF OuterInv, Runs, TypeOK
    <3> QED
      BY <2>1, <3>1, <3>2, <3>3 DEF OuterInv, Guarded
  <2> QED
    BY <1>11, <2>2, <2>3, <2>4 DEF Handle
<1>12. CASE Tick
  <2>1. Watched /\ UNCHANGED <<pc, op, err, outer, every, seen, prev, prevEvery, plan, reload>>
    BY <1>12 DEF Tick
  <2>2. CASE pc \in Counting
    BY <1>12, <2>1, <2>2, GuardAssumption
    DEF Tick, CallerCounts, Measuring, OuterInv, ControlInv, Guarded, Runs, TypeOK
  <2>3. CASE pc = "arming"
    BY <1>12, <2>1, <2>3 DEF Tick, CallerCounts, Measuring, OuterInv, Guarded, Noted, TypeOK
  <2>4. CASE pc \in Guarded
    <3>1. Passes'
      BY <1>12, <2>1, <2>4, PassesTick DEF OuterInv
    <3> QED
      BY <2>1, <2>4, <3>1 DEF OuterInv, Guarded
  <2>5. CASE pc \in {"disarm", "plan", "rearm"}
    BY <1>12, <2>1, <2>5 DEF Tick, CallerCounts, Measuring, OuterInv, Guarded, Planned
  <2> QED
    BY <2>1, <2>2, <2>3, <2>4, <2>5 DEF OuterInv, Guarded
<1>13. CASE UNCHANGED vars
  BY <1>13 DEF vars, alarmVars, OuterInv, Guarded, Runs, Noted, Passes, Planned
<1> QED
  BY <1>1, <1>2, <1>3, <1>4, <1>5, <1>6, <1>7, <1>8, <1>9, <1>10, <1>11, <1>12, <1>13
  DEF Next, GuardStep, Ended

(* Whatever a publication did, an alarm of the caller's own comes neither  *)
(* early nor twice, is not lost, and keeps the phase of its period.        *)
THEOREM OuterAlarmComesBack == Spec => []OuterAlarmKept
<1>1. Init => ControlInv /\ OuterInv
  BY DEF Init, ControlInv, OuterInv, Watched, Guarded
<1>2. TypeOK /\ HandlerInv /\ ControlInv /\ OuterInv /\ [Next]_vars => (ControlInv /\ OuterInv)'
  BY ControlStep, OuterStep
<1>3. TypeOK /\ HandlerInv /\ OuterInv => OuterAlarmKept
  BY GuardAssumption DEF TypeOK, HandlerInv, OuterInv, Watched, Counting, Runs, OuterAlarmKept
<1>4. IInv => TypeOK /\ HandlerInv
  BY DEF IInv
<1> QED
  BY <1>1, <1>2, <1>3, <1>4, Invariance, PTL DEF Spec
=============================================================================
