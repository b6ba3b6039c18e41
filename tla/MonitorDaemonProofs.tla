------------------------- MODULE MonitorDaemonProofs -------------------------
(***************************************************************************)
(* Proofs about MonitorDaemon, for every grace, iteration bound, watchdog  *)
(* period, set of runtimes and number of faults.                           *)
(***************************************************************************)
EXTENDS MonitorDaemon, TLAPS

-----------------------------------------------------------------------------
(* Types.  Each action keeps every variable in its range; the counters     *)
(* because they saturate or are guarded.                                   *)

USE DEF InProcess, Alive, Age, Output, Status, Freshness, Source,
        Absent, FailSafe, Unstaged, history, Wrote, Outlived

LEMMA OlderType ==
  ASSUME NEW a \in Age
  PROVE  Older(a) \in Age /\ Older(a) <= a + 1 /\ (Older(a) = a + 1 \/ Older(a) = AgeCap)
BY AgeAssumption DEF Older

LEMMA PolicyType ==
  ASSUME NEW kind, NEW runtime, NEW l \in Source
  PROVE  /\ NextLatch(kind, runtime, l) \in Source
         /\ DecidedStatus(kind, runtime, l) \in Status
BY DEF NextLatch, UnlatchedSource, DecidedStatus

(* A poll that decides plain on-battery found no latch and sets none; one  *)
(* that decides LB leaves a latch.                                         *)
LEMMA StatusFollowsLatch ==
  ASSUME NEW kind, NEW runtime, NEW l
  PROVE  /\ DecidedStatus(kind, runtime, l) = "OB" =>
              l = "NONE" /\ NextLatch(kind, runtime, l) = "NONE"
         /\ DecidedStatus(kind, runtime, l) = "LB" => NextLatch(kind, runtime, l) # "NONE"
BY DEF DecidedStatus, NextLatch

(* The flags are left to Zenon, the ranges and the arithmetic to SMT.      *)
FlagsOK ==
  /\ hasPrior \in BOOLEAN
  /\ failSafe \in BOOLEAN
  /\ running \in BOOLEAN
  /\ published \in BOOLEAN
  /\ ready \in BOOLEAN
  /\ announced \in BOOLEAN
  /\ own \in BOOLEAN

RangesOK ==
  /\ output \in Output
  /\ outputAge \in Age
  /\ freshness \in Freshness
  /\ age \in Age
  /\ staged \in Status \cup {Unstaged}
  /\ call \in {"idle", "landed", "raised"}
  /\ pc \in InProcess \cup {"exit", "down"}
  /\ latch \in Source
  /\ nextLatch \in Source
  /\ episodeKind \in {"NONE", "REAL", "TEST"}
  /\ watchdog \in 0 .. WatchdogTicks
  /\ busy \in 0 .. IterationBound
  /\ nut \in {"any", "lost", "low"}
  /\ faults \in 0 .. MaxFaults
  /\ outlived \in 0 .. faults

LEMMA TypeSplit == TypeOK <=> FlagsOK /\ RangesOK
BY Zenon DEF TypeOK, ExporterTypeOK, DaemonTypeOK, FlagsOK, RangesOK

LEMMA InitType == Init => TypeOK
<1> SUFFICES ASSUME Init PROVE FlagsOK /\ RangesOK
  BY TypeSplit
<1>1. FlagsOK
  BY Zenon DEF Init, FlagsOK
<1>2. RangesOK
  BY SMT, AgeAssumption, DaemonAssumption DEF Init, RangesOK
<1> QED
  BY <1>1, <1>2

LEMMA TypeStep == TypeOK /\ [Next]_vars => TypeOK'
<1> SUFFICES ASSUME FlagsOK, RangesOK, [Next]_vars PROVE FlagsOK' /\ RangesOK'
  BY Zenon DEF TypeOK, ExporterTypeOK, DaemonTypeOK, FlagsOK, RangesOK
<1>1. CASE Start
  <2>1. FlagsOK'
    BY Zenon, <1>1 DEF FlagsOK, Start, Removing, Faulty, Invalidate, Construct
  <2>2. RangesOK'
    BY SMT, <1>1, AgeAssumption, DaemonAssumption
    DEF RangesOK, Start, Removing, Faulty, Invalidate, Construct
  <2> QED
    BY <2>1, <2>2
<1>2. CASE ReadFails
  <2>1. FlagsOK'
    BY Zenon, <1>2 DEF FlagsOK, ReadFails, exporterVars
  <2>2. RangesOK'
    BY SMT, <1>2, AgeAssumption, DaemonAssumption
    DEF RangesOK, ReadFails, exporterVars
  <2> QED
    BY <2>1, <2>2
<1>3. ASSUME NEW flags \in SUBSET Flag, ReadInvalid(flags) PROVE FlagsOK' /\ RangesOK'
  <2>1. FlagsOK'
    BY Zenon, <1>3 DEF FlagsOK, ReadInvalid, exporterVars, EpisodeKinds
  <2>2. RangesOK'
    BY SMT, <1>3, AgeAssumption, DaemonAssumption
    DEF RangesOK, ReadInvalid, exporterVars, EpisodeKinds
  <2> QED
    BY <2>1, <2>2
<1>4. ASSUME NEW flags \in SUBSET Flag, NEW runtime \in Runtimes, ReadValid(flags, runtime)
      PROVE  FlagsOK' /\ RangesOK'
  <2>1. FlagsOK'
    BY Zenon, <1>4 DEF FlagsOK, ReadValid, Stage, EpisodeKinds
  <2>2. RangesOK'
    BY SMT, <1>4, AgeAssumption, DaemonAssumption, PolicyType
    DEF RangesOK, ReadValid, Stage, EpisodeKinds
  <2> QED
    BY <2>1, <2>2
<1>5. CASE Land
  <2>1. FlagsOK'
    BY Zenon, <1>5 DEF FlagsOK, Land, PublishLands
  <2>2. RangesOK'
    BY SMT, <1>5, AgeAssumption, DaemonAssumption
    DEF RangesOK, Land, PublishLands
  <2> QED
    BY <2>1, <2>2
<1>6. CASE Published
  <2>1. FlagsOK'
    BY Zenon, <1>6 DEF FlagsOK, Published, PublishReturns
  <2>2. RangesOK'
    BY SMT, <1>6, AgeAssumption, DaemonAssumption
    DEF RangesOK, Published, PublishReturns
  <2> QED
    BY <2>1, <2>2
<1>7. CASE SideWorkEnds
  <2>1. FlagsOK'
    BY Zenon, <1>7 DEF FlagsOK, SideWorkEnds, exporterVars
  <2>2. RangesOK'
    BY SMT, <1>7, AgeAssumption, DaemonAssumption
    DEF RangesOK, SideWorkEnds, exporterVars
  <2> QED
    BY <2>1, <2>2
<1>8. CASE PollFailureHandled
  <2>1. FlagsOK'
    BY Zenon, <1>8
    DEF FlagsOK, PollFailureHandled, PollFailureTolerated, PollFailureUnpublished,
         PollFailureFailSafe
  <2>2. RangesOK'
    BY SMT, <1>8, AgeAssumption, DaemonAssumption
    DEF RangesOK, PollFailureHandled, PollFailureTolerated, PollFailureUnpublished,
         PollFailureFailSafe
  <2> QED
    BY <2>1, <2>2
<1>9. ASSUME NEW removed \in BOOLEAN, FatalStop(removed) PROVE FlagsOK' /\ RangesOK'
  <2>1. FlagsOK'
    BY Zenon, <1>9
    DEF FlagsOK, FatalStop, Removing, Faulty, InvalidateOutput, Invalidate
  <2>2. RangesOK'
    BY SMT, <1>9, AgeAssumption, DaemonAssumption
    DEF RangesOK, FatalStop, Removing, Faulty, InvalidateOutput, Invalidate
  <2> QED
    BY <2>1, <2>2
<1>10. CASE Notify
  <2>1. FlagsOK'
    BY Zenon, <1>10 DEF FlagsOK, Notify, exporterVars
  <2>2. RangesOK'
    BY SMT, <1>10, AgeAssumption, DaemonAssumption
    DEF RangesOK, Notify, exporterVars
  <2> QED
    BY <2>1, <2>2
<1>11. CASE NextIteration
  <2>1. FlagsOK'
    BY Zenon, <1>11 DEF FlagsOK, NextIteration, exporterVars
  <2>2. RangesOK'
    BY SMT, <1>11, AgeAssumption, DaemonAssumption
    DEF RangesOK, NextIteration, exporterVars
  <2> QED
    BY <2>1, <2>2
<1>12. CASE WatchdogKill
  <2>1. FlagsOK'
    BY Zenon, <1>12 DEF FlagsOK, WatchdogKill, exporterVars
  <2>2. RangesOK'
    BY SMT, <1>12, AgeAssumption, DaemonAssumption
    DEF RangesOK, WatchdogKill, exporterVars
  <2> QED
    BY <2>1, <2>2
<1>13. ASSUME NEW removed \in BOOLEAN, StopPost(removed) PROVE FlagsOK' /\ RangesOK'
  <2>1. FlagsOK'
    BY Zenon, <1>13 DEF FlagsOK, StopPost, Removing, Faulty, Invalidate, ForgetProcess
  <2>2. RangesOK'
    BY SMT, <1>13, AgeAssumption, DaemonAssumption
    DEF RangesOK, StopPost, Removing, Faulty, Invalidate, ForgetProcess
  <2> QED
    BY <2>1, <2>2
<1>14. ASSUME NEW removed \in BOOLEAN, PublicationRaises(removed) PROVE FlagsOK' /\ RangesOK'
  <2>1. FlagsOK'
    BY Zenon, <1>14
    DEF FlagsOK, PublicationRaises, Faulty, PublishRaises, MarkPublicationFailed, Invalidate
  <2>2. RangesOK'
    BY SMT, <1>14, AgeAssumption, DaemonAssumption
    DEF RangesOK, PublicationRaises, Faulty, PublishRaises, MarkPublicationFailed, Invalidate
  <2> QED
    BY <2>1, <2>2
<1>15. CASE SideWorkRaises
  <2>1. FlagsOK'
    BY Zenon, <1>15 DEF FlagsOK, SideWorkRaises, Faulty, exporterVars
  <2>2. RangesOK'
    BY SMT, <1>15, AgeAssumption, DaemonAssumption
    DEF RangesOK, SideWorkRaises, Faulty, exporterVars
  <2> QED
    BY <2>1, <2>2
<1>16. ASSUME NEW landed \in BOOLEAN, NEW removed \in BOOLEAN, FailSafeRaises(landed, removed)
      PROVE  FlagsOK' /\ RangesOK'
  <2>1. FlagsOK'
    BY Zenon, <1>16 DEF FlagsOK, FailSafeRaises, Faulty, PollFailureRaises
  <2>2. RangesOK'
    BY SMT, <1>16, AgeAssumption, DaemonAssumption
    DEF RangesOK, FailSafeRaises, Faulty, PollFailureRaises
  <2> QED
    BY <2>1, <2>2
<1>17. CASE RequestStop
  <2>1. FlagsOK'
    BY Zenon, <1>17 DEF FlagsOK, RequestStop, exporterVars
  <2>2. RangesOK'
    BY SMT, <1>17, AgeAssumption, DaemonAssumption
    DEF RangesOK, RequestStop, exporterVars
  <2> QED
    BY <2>1, <2>2
<1>18. CASE Crash
  <2>1. FlagsOK'
    BY Zenon, <1>18 DEF FlagsOK, Crash, Faulty, exporterVars
  <2>2. RangesOK'
    BY SMT, <1>18, AgeAssumption, DaemonAssumption
    DEF RangesOK, Crash, Faulty, exporterVars
  <2> QED
    BY <2>1, <2>2
<1>19. CASE Tick
  <2>1. FlagsOK'
    BY Zenon, <1>19 DEF FlagsOK, Tick, Elapse, ContentOlder
  <2>2. RangesOK'
    BY SMT, <1>19, AgeAssumption, DaemonAssumption, OlderType
    DEF RangesOK, Tick, Elapse, ContentOlder
  <2> QED
    BY <2>1, <2>2
<1>20. ASSUME NEW mode \in {"lost", "low"}, NutSettles(mode) PROVE FlagsOK' /\ RangesOK'
  <2>1. FlagsOK'
    BY Zenon, <1>20 DEF FlagsOK, NutSettles, exporterVars
  <2>2. RangesOK'
    BY SMT, <1>20, AgeAssumption, DaemonAssumption
    DEF RangesOK, NutSettles, exporterVars
  <2> QED
    BY <2>1, <2>2
<1>21. CASE UNCHANGED vars
  <2>1. FlagsOK'
    BY Zenon, <1>21 DEF FlagsOK, vars, exporterVars, daemonVars
  <2>2. RangesOK'
    BY SMT, <1>21, AgeAssumption, DaemonAssumption
    DEF RangesOK, vars, exporterVars, daemonVars
  <2> QED
    BY <2>1, <2>2
<1> QED
  BY <1>1, <1>2, <1>3, <1>4, <1>5, <1>6, <1>7, <1>8, <1>9, <1>10, <1>11, <1>12,
     <1>13, <1>14, <1>15, <1>16, <1>17, <1>18, <1>19, <1>20, <1>21
  DEF Next, Progress, ReadPoll

(* Every variable stays in its range, whatever the constants.              *)
THEOREM TypeCorrect == Spec => []TypeOK
<1>1. Init => TypeOK
  BY InitType
<1>2. TypeOK /\ [Next]_vars => TypeOK'
  BY TypeStep
<1> QED
  BY <1>1, <1>2, PTL DEF Spec

-----------------------------------------------------------------------------
(* The latch.  LB goes into the file (Land) before the latch moves         *)
(* (Published), so the invariant says where the low battery is remembered  *)
(* in between: in the latch of the poll being published.                   *)

AtRest == pc \in {"poll", "side", "failed", "notify", "sleep"}

CallInv ==
  /\ AtRest => call = "idle"
  /\ pc = "publish" => call \in {"idle", "landed"} /\ staged \in Status

LEMMA CallStep == TypeOK /\ CallInv /\ [Next]_vars => CallInv'
<1> SUFFICES ASSUME TypeOK, CallInv, [Next]_vars PROVE CallInv'
  OBVIOUS
<1> USE DEF CallInv, AtRest, TypeOK, ExporterTypeOK, DaemonTypeOK
<1>1. CASE Start
  BY <1>1 DEF Start, Removing, Faulty, Invalidate, Construct
<1>2. CASE ReadFails
  BY <1>2 DEF ReadFails, exporterVars
<1>3. ASSUME NEW flags \in SUBSET Flag, ReadInvalid(flags) PROVE CallInv'
  BY <1>3 DEF ReadInvalid, exporterVars, EpisodeKinds
<1>4. ASSUME NEW flags \in SUBSET Flag, NEW runtime \in Runtimes, ReadValid(flags, runtime)
      PROVE CallInv'
  BY <1>4, PolicyType DEF ReadValid, Stage, EpisodeKinds
<1>5. CASE Land
  BY <1>5 DEF Land, PublishLands
<1>6. CASE Published
  BY <1>6 DEF Published, PublishReturns
<1>7. CASE SideWorkEnds
  BY <1>7 DEF SideWorkEnds, exporterVars
<1>8. CASE PollFailureHandled
  BY <1>8 DEF PollFailureHandled, PollFailureTolerated, PollFailureUnpublished,
         PollFailureFailSafe
<1>9. ASSUME NEW removed \in BOOLEAN, FatalStop(removed) PROVE CallInv'
  BY <1>9 DEF FatalStop, Removing, Faulty, InvalidateOutput, Invalidate
<1>10. CASE Notify
  BY <1>10 DEF Notify, exporterVars
<1>11. CASE NextIteration
  BY <1>11 DEF NextIteration, exporterVars
<1>12. CASE WatchdogKill
  BY <1>12 DEF WatchdogKill, exporterVars
<1>13. ASSUME NEW removed \in BOOLEAN, StopPost(removed) PROVE CallInv'
  BY <1>13 DEF StopPost, Removing, Faulty, Invalidate, ForgetProcess
<1>14. ASSUME NEW removed \in BOOLEAN, PublicationRaises(removed) PROVE CallInv'
  BY <1>14
  DEF PublicationRaises, Faulty, PublishRaises, MarkPublicationFailed, Invalidate
<1>15. CASE SideWorkRaises
  BY <1>15 DEF SideWorkRaises, Faulty, exporterVars
<1>16. ASSUME NEW landed \in BOOLEAN, NEW removed \in BOOLEAN, FailSafeRaises(landed, removed)
      PROVE CallInv'
  BY <1>16 DEF FailSafeRaises, Faulty, PollFailureRaises
<1>17. CASE RequestStop
  BY <1>17 DEF RequestStop, exporterVars
<1>18. CASE Crash
  BY <1>18 DEF Crash, Faulty, exporterVars
<1>19. CASE Tick
  BY <1>19 DEF Tick, Elapse, ContentOlder
<1>20. ASSUME NEW mode \in {"lost", "low"}, NutSettles(mode) PROVE CallInv'
  BY <1>20 DEF NutSettles, exporterVars
<1>21. CASE UNCHANGED vars
  BY <1>21 DEF vars, exporterVars, daemonVars
<1> QED
  BY <1>1, <1>2, <1>3, <1>4, <1>5, <1>6, <1>7, <1>8, <1>9, <1>10, <1>11, <1>12,
     <1>13, <1>14, <1>15, <1>16, <1>17, <1>18, <1>19, <1>20, <1>21
  DEF Next, Progress, ReadPoll

LatchInv ==
  /\ pc = "down" => ~announced
  /\ pc = "publish" /\ staged = "OB" => latch = "NONE"
  /\ pc = "publish" /\ staged = "LB" => nextLatch # "NONE"
  /\ AtRest /\ announced => latch # "NONE"
  /\ pc = "publish" /\ call = "idle" /\ announced => latch # "NONE"
  /\ pc = "publish" /\ call = "landed" /\ announced => nextLatch # "NONE"
  /\ LbStandsUntilOl

LEMMA LatchStep == TypeOK /\ CallInv /\ LatchInv /\ [Next]_vars => LatchInv'
<1> SUFFICES ASSUME TypeOK, CallInv, LatchInv, [Next]_vars PROVE LatchInv'
  OBVIOUS
<1> USE DEF LatchInv, LbStandsUntilOl, CallInv, AtRest, TypeOK, ExporterTypeOK, DaemonTypeOK
<1>1. CASE Start
  BY <1>1 DEF Start, Removing, Faulty, Invalidate, Construct
<1>2. CASE ReadFails
  BY <1>2 DEF ReadFails, exporterVars
<1>3. ASSUME NEW flags \in SUBSET Flag, ReadInvalid(flags) PROVE LatchInv'
  BY <1>3 DEF ReadInvalid, exporterVars, EpisodeKinds
<1>4. ASSUME NEW flags \in SUBSET Flag, NEW runtime \in Runtimes, ReadValid(flags, runtime)
      PROVE LatchInv'
  BY <1>4, StatusFollowsLatch DEF ReadValid, Stage, EpisodeKinds
<1>5. CASE Land
  BY <1>5 DEF Land, PublishLands
<1>6. CASE Published
  BY <1>6 DEF Published, PublishReturns
<1>7. CASE SideWorkEnds
  BY <1>7 DEF SideWorkEnds, exporterVars
<1>8. CASE PollFailureHandled
  BY <1>8 DEF PollFailureHandled, PollFailureTolerated, PollFailureUnpublished,
         PollFailureFailSafe
<1>9. ASSUME NEW removed \in BOOLEAN, FatalStop(removed) PROVE LatchInv'
  BY <1>9 DEF FatalStop, Removing, Faulty, InvalidateOutput, Invalidate
<1>10. CASE Notify
  BY <1>10 DEF Notify, exporterVars
<1>11. CASE NextIteration
  BY <1>11 DEF NextIteration, exporterVars
<1>12. CASE WatchdogKill
  BY <1>12 DEF WatchdogKill, exporterVars
<1>13. ASSUME NEW removed \in BOOLEAN, StopPost(removed) PROVE LatchInv'
  BY <1>13 DEF StopPost, Removing, Faulty, Invalidate, ForgetProcess
<1>14. ASSUME NEW removed \in BOOLEAN, PublicationRaises(removed) PROVE LatchInv'
  BY <1>14
  DEF PublicationRaises, Faulty, PublishRaises, MarkPublicationFailed, Invalidate
<1>15. CASE SideWorkRaises
  BY <1>15 DEF SideWorkRaises, Faulty, exporterVars
<1>16. ASSUME NEW landed \in BOOLEAN, NEW removed \in BOOLEAN, FailSafeRaises(landed, removed)
      PROVE LatchInv'
  BY <1>16 DEF FailSafeRaises, Faulty, PollFailureRaises
<1>17. CASE RequestStop
  BY <1>17 DEF RequestStop, exporterVars
<1>18. CASE Crash
  BY <1>18 DEF Crash, Faulty, exporterVars
<1>19. CASE Tick
  BY <1>19 DEF Tick, Elapse, ContentOlder
<1>20. ASSUME NEW mode \in {"lost", "low"}, NutSettles(mode) PROVE LatchInv'
  BY <1>20 DEF NutSettles, exporterVars
<1>21. CASE UNCHANGED vars
  BY <1>21 DEF vars, exporterVars, daemonVars
<1> QED
  BY <1>1, <1>2, <1>3, <1>4, <1>5, <1>6, <1>7, <1>8, <1>9, <1>10, <1>11, <1>12,
     <1>13, <1>14, <1>15, <1>16, <1>17, <1>18, <1>19, <1>20, <1>21
  DEF Next, Progress, ReadPoll

-----------------------------------------------------------------------------
(* The age of a served reading.  What is being served was published by     *)
(* this process, at most one iteration before the tracker's clock started; *)
(* the tracker's clock is checked once per iteration, and only iterations  *)
(* at "fatal" still show a reading the tracker has given up.               *)

Recorded == Alive /\ (ready \/ published \/ pc = "side")
Unchecked == IF pc \in {"poll", "publish", "failed"} THEN IterationBound ELSE 0

AgeInv ==
  /\ pc = "down" => ~ready /\ ~published
  /\ pc = "publish" /\ call = "landed" => outputAge <= busy
  /\ pc = "side" => freshness = "fresh" /\ age <= busy /\ outputAge <= busy
  /\ Recorded => hasPrior
  /\ Recorded /\ Physical => outputAge <= age + IterationBound
  /\ Recorded /\ freshness # "stale_failed" => age <= MaxAge + busy + Unchecked
  /\ Recorded /\ freshness = "stale_failed" /\ Physical =>
       pc = "fatal" \/ (pc = "publish" /\ call = "landed")
  /\ Recorded /\ Physical /\ pc = "fatal" => outputAge <= MaxAge + 2 * IterationBound + busy

LEMMA AgeStep == TypeOK /\ CallInv /\ AgeInv /\ [Next]_vars => AgeInv'
<1> SUFFICES ASSUME TypeOK, CallInv, AgeInv, [Next]_vars PROVE AgeInv'
  OBVIOUS
<1> USE DEF AgeInv, Recorded, Unchecked, Physical, CallInv, AtRest, TypeOK, ExporterTypeOK, DaemonTypeOK
<1>1. CASE Start
  BY <1>1, AgeAssumption, DaemonAssumption
  DEF Start, Removing, Faulty, Invalidate, Construct
<1>2. CASE ReadFails
  BY <1>2, AgeAssumption, DaemonAssumption DEF ReadFails, exporterVars
<1>3. ASSUME NEW flags \in SUBSET Flag, ReadInvalid(flags) PROVE AgeInv'
  BY <1>3, AgeAssumption, DaemonAssumption DEF ReadInvalid, exporterVars, EpisodeKinds
<1>4. ASSUME NEW flags \in SUBSET Flag, NEW runtime \in Runtimes, ReadValid(flags, runtime)
      PROVE AgeInv'
  BY <1>4, AgeAssumption, DaemonAssumption DEF ReadValid, Stage, EpisodeKinds
<1>5. CASE Land
  BY <1>5, AgeAssumption, DaemonAssumption DEF Land, PublishLands
<1>6. CASE Published
  BY <1>6, AgeAssumption, DaemonAssumption DEF Published, PublishReturns
<1>7. CASE SideWorkEnds
  BY <1>7, AgeAssumption, DaemonAssumption DEF SideWorkEnds, exporterVars
<1>8. CASE PollFailureHandled
  BY <1>8, AgeAssumption, DaemonAssumption
  DEF PollFailureHandled, PollFailureTolerated, PollFailureUnpublished,
         PollFailureFailSafe, Evaluated
<1>9. ASSUME NEW removed \in BOOLEAN, FatalStop(removed) PROVE AgeInv'
  BY <1>9, AgeAssumption, DaemonAssumption
  DEF FatalStop, Removing, Faulty, InvalidateOutput, Invalidate
<1>10. CASE Notify
  BY <1>10, AgeAssumption, DaemonAssumption DEF Notify, exporterVars
<1>11. CASE NextIteration
  BY <1>11, AgeAssumption, DaemonAssumption DEF NextIteration, exporterVars
<1>12. CASE WatchdogKill
  BY <1>12, AgeAssumption, DaemonAssumption DEF WatchdogKill, exporterVars
<1>13. ASSUME NEW removed \in BOOLEAN, StopPost(removed) PROVE AgeInv'
  BY <1>13, AgeAssumption, DaemonAssumption
  DEF StopPost, Removing, Faulty, Invalidate, ForgetProcess
<1>14. ASSUME NEW removed \in BOOLEAN, PublicationRaises(removed) PROVE AgeInv'
  BY <1>14, AgeAssumption, DaemonAssumption
  DEF PublicationRaises, Faulty, PublishRaises, MarkPublicationFailed, Invalidate
<1>15. CASE SideWorkRaises
  BY <1>15, AgeAssumption, DaemonAssumption DEF SideWorkRaises, Faulty, exporterVars
<1>16. ASSUME NEW landed \in BOOLEAN, NEW removed \in BOOLEAN, FailSafeRaises(landed, removed)
      PROVE AgeInv'
  BY <1>16, AgeAssumption, DaemonAssumption
  DEF FailSafeRaises, Faulty, PollFailureRaises, Evaluated
<1>17. CASE RequestStop
  BY <1>17, AgeAssumption, DaemonAssumption DEF RequestStop, exporterVars
<1>18. CASE Crash
  BY <1>18, AgeAssumption, DaemonAssumption DEF Crash, Faulty, exporterVars
<1>19. CASE Tick
  BY <1>19, AgeAssumption, DaemonAssumption, OlderType DEF Tick, Elapse, ContentOlder
<1>20. ASSUME NEW mode \in {"lost", "low"}, NutSettles(mode) PROVE AgeInv'
  BY <1>20, AgeAssumption, DaemonAssumption DEF NutSettles, exporterVars
<1>21. CASE UNCHANGED vars
  BY <1>21, AgeAssumption, DaemonAssumption DEF vars, exporterVars, daemonVars
<1> QED
  BY <1>1, <1>2, <1>3, <1>4, <1>5, <1>6, <1>7, <1>8, <1>9, <1>10, <1>11, <1>12,
     <1>13, <1>14, <1>15, <1>16, <1>17, <1>18, <1>19, <1>20, <1>21
  DEF Next, Progress, ReadPoll

-----------------------------------------------------------------------------
(* What the service shows.  The content of a recorded file and the history *)
(* variable agree on whether low battery stands.                           *)

ServeInv ==
  /\ pc = "publish" /\ call = "landed" => Physical /\ (announced <=> output = "LB")
  /\ pc = "side" => Physical
  /\ Recorded /\ Physical => (announced <=> output = "LB")
  /\ Recorded /\ pc # "fatal" => output # Absent
  /\ published => pc \in {"notify", "sleep", "exit"}
  /\ published /\ pc \in {"notify", "sleep"} => Physical /\ outputAge <= busy

LEMMA ServeStep == TypeOK /\ CallInv /\ LatchInv /\ AgeInv /\ ServeInv /\ [Next]_vars => ServeInv'
<1> SUFFICES ASSUME TypeOK, CallInv, LatchInv, AgeInv, ServeInv, [Next]_vars PROVE ServeInv'
  OBVIOUS
<1> USE DEF ServeInv, Recorded, Physical, CallInv, AtRest, TypeOK, ExporterTypeOK, DaemonTypeOK
<1>1. CASE Start
  BY <1>1, AgeAssumption DEF AgeInv, Start, Removing, Faulty, Invalidate, Construct
<1>2. CASE ReadFails
  BY <1>2, AgeAssumption DEF ReadFails, exporterVars
<1>3. ASSUME NEW flags \in SUBSET Flag, ReadInvalid(flags) PROVE ServeInv'
  BY <1>3, AgeAssumption DEF ReadInvalid, exporterVars, EpisodeKinds
<1>4. ASSUME NEW flags \in SUBSET Flag, NEW runtime \in Runtimes, ReadValid(flags, runtime)
      PROVE ServeInv'
  BY <1>4, AgeAssumption DEF ReadValid, Stage, EpisodeKinds
<1>5. CASE Land
  BY <1>5, AgeAssumption DEF Land, PublishLands, LatchInv
<1>6. CASE Published
  BY <1>6, AgeAssumption DEF Published, PublishReturns
<1>7. CASE SideWorkEnds
  BY <1>7, AgeAssumption DEF AgeInv, SideWorkEnds, exporterVars
<1>8. CASE PollFailureHandled
  BY <1>8, AgeAssumption
  DEF PollFailureHandled, PollFailureTolerated, PollFailureUnpublished,
         PollFailureFailSafe, AgeInv
<1>9. ASSUME NEW removed \in BOOLEAN, FatalStop(removed) PROVE ServeInv'
  BY <1>9, AgeAssumption DEF FatalStop, Removing, Faulty, InvalidateOutput, Invalidate
<1>10. CASE Notify
  BY <1>10, AgeAssumption DEF Notify, exporterVars
<1>11. CASE NextIteration
  BY <1>11, AgeAssumption DEF NextIteration, exporterVars
<1>12. CASE WatchdogKill
  BY <1>12, AgeAssumption DEF WatchdogKill, exporterVars
<1>13. ASSUME NEW removed \in BOOLEAN, StopPost(removed) PROVE ServeInv'
  BY <1>13, AgeAssumption DEF StopPost, Removing, Faulty, Invalidate, ForgetProcess
<1>14. ASSUME NEW removed \in BOOLEAN, PublicationRaises(removed) PROVE ServeInv'
  BY <1>14, AgeAssumption
  DEF PublicationRaises, Faulty, PublishRaises, MarkPublicationFailed, Invalidate
<1>15. CASE SideWorkRaises
  BY <1>15, AgeAssumption DEF SideWorkRaises, Faulty, exporterVars
<1>16. ASSUME NEW landed \in BOOLEAN, NEW removed \in BOOLEAN, FailSafeRaises(landed, removed)
      PROVE ServeInv'
  BY <1>16, AgeAssumption DEF FailSafeRaises, Faulty, PollFailureRaises
<1>17. CASE RequestStop
  BY <1>17, AgeAssumption DEF RequestStop, exporterVars
<1>18. CASE Crash
  BY <1>18, AgeAssumption DEF Crash, Faulty, exporterVars
<1>19. CASE Tick
  BY <1>19, AgeAssumption, OlderType DEF Tick, Elapse, ContentOlder, LatchInv
<1>20. ASSUME NEW mode \in {"lost", "low"}, NutSettles(mode) PROVE ServeInv'
  BY <1>20, AgeAssumption DEF NutSettles, exporterVars
<1>21. CASE UNCHANGED vars
  BY <1>21, AgeAssumption DEF vars, exporterVars, daemonVars
<1> QED
  BY <1>1, <1>2, <1>3, <1>4, <1>5, <1>6, <1>7, <1>8, <1>9, <1>10, <1>11, <1>12,
     <1>13, <1>14, <1>15, <1>16, <1>17, <1>18, <1>19, <1>20, <1>21
  DEF Next, Progress, ReadPoll

-----------------------------------------------------------------------------
(* The inductive invariant.                                                *)

IInv == TypeOK /\ CallInv /\ LatchInv /\ AgeInv /\ ServeInv

LEMMA InitIInv == Init => IInv
<1> SUFFICES ASSUME Init PROVE IInv
  OBVIOUS
<1>1. TypeOK
  BY InitType
<1>2. CallInv
  BY DEF Init, CallInv, AtRest
<1>3. LatchInv
  BY DEF Init, LatchInv, LbStandsUntilOl, AtRest
<1>4. AgeInv
  BY DEF Init, AgeInv, Recorded
<1>5. ServeInv
  BY DEF Init, ServeInv, Recorded
<1> QED
  BY <1>1, <1>2, <1>3, <1>4, <1>5 DEF IInv

LEMMA StepIInv == IInv /\ [Next]_vars => IInv'
BY TypeStep, CallStep, LatchStep, AgeStep, ServeStep DEF IInv

LEMMA AgeBounds == IInv => BoundedStaleness
BY AgeAssumption, DaemonAssumption
DEF IInv, TypeOK, ExporterTypeOK, DaemonTypeOK, AgeInv, Recorded, Unchecked,
    BoundedStaleness, Serving, Physical

THEOREM Invariance == Spec => []IInv
<1>1. Init => IInv
  BY InitIInv
<1>2. IInv /\ [Next]_vars => IInv'
  BY StepIInv
<1> QED
  BY <1>1, <1>2, PTL DEF Spec

(* Once a process has put LB in the device file, the file does not go back *)
(* to plain OB before OL: the latch moves only after the file did, and     *)
(* nothing between two publications clears it.                             *)
THEOREM LowBatteryStands == Spec => []LbStandsUntilOl
<1>1. IInv => LbStandsUntilOl
  BY DEF IInv, LatchInv
<1> QED
  BY <1>1, Invariance, PTL

(* A reading served to upsmon is never older than the grace and three      *)
(* iterations, however polls, publications and side work fail.             *)
THEOREM StalenessBounded == Spec => []BoundedStaleness
<1>1. IInv => BoundedStaleness
  BY AgeBounds
<1> QED
  BY <1>1, Invariance, PTL
-----------------------------------------------------------------------------
(* Refinement.  Each step that changes what is served is one step of       *)
(* VirtualUpsContract; all others leave the abstract variables alone.      *)

(* The steps by which the process stops serving, or never started to.      *)
LEMMA NotServing ==
  ASSUME ~Serving'
  PROVE  Contract!Withdraw
BY DEF Contract!Withdraw, Serving

LEMMA Unserved ==
  ASSUME ~Serving, ~Serving'
  PROVE  UNCHANGED Contract!contractVars
BY DEF Contract!contractVars, Serving

LEMMA SameContent ==
  ASSUME Serving' <=> Serving, UNCHANGED <<output, outputAge, announced>>
  PROVE  UNCHANGED Contract!contractVars
BY DEF Contract!contractVars, Serving, Physical

LEMMA ContractStep ==
  ASSUME IInv, [Next]_vars, BoundedStaleness'
  PROVE  [Contract!Next]_(Contract!contractVars)
<1> USE AgeAssumption, DaemonAssumption
    DEF IInv, TypeOK, ExporterTypeOK, DaemonTypeOK
<1> DEFINE Goal == [Contract!Next]_(Contract!contractVars)
<1>w. ASSUME ~Serving' PROVE Goal
  BY <1>w, NotServing DEF Contract!Next
<1>s. ASSUME Serving' <=> Serving, UNCHANGED <<output, outputAge, announced>> PROVE Goal
  BY <1>s, SameContent
<1>1. CASE Start
  <2>1. ~Serving'
    BY <1>1 DEF Start, AgeInv, Serving
  <2> QED
    BY <2>1, <1>w
<1>2. CASE ReadFails
  BY <1>2, <1>s DEF ReadFails, exporterVars, Serving
<1>3. ASSUME NEW flags \in SUBSET Flag, ReadInvalid(flags) PROVE Goal
  BY <1>3, <1>s DEF ReadInvalid, exporterVars, Serving
<1>4. ASSUME NEW flags \in SUBSET Flag, NEW runtime \in Runtimes, ReadValid(flags, runtime)
      PROVE  Goal
  BY <1>4, <1>s DEF ReadValid, Stage, Serving
<1>5. CASE Land
  <2>1. CASE ~Serving
    BY <2>1, <1>5, <1>w DEF Land, Serving
  <2>2. CASE Serving
    <3>1. staged \in Contract!Reading /\ output' = staged /\ outputAge' = 0 /\ Serving'
      BY <1>5, <2>2 DEF Land, PublishLands, CallInv, Contract!Reading, Serving
    <3>2. output # Absent
      BY <1>5, <2>2 DEF Land, ServeInv, Recorded, Serving
    <3>3. staged = "OB" => ~announced
      BY <1>5 DEF Land, PublishLands, LatchInv
    <3>4. announced' = (staged = "LB" \/ (announced /\ staged # "OL"))
      BY <1>5, <3>1 DEF Land
    <3>5. Contract!Serve(staged)
      <4>1. (IF Serving' THEN output' ELSE Absent) = staged
        BY <3>1
      <4>2. (IF Serving' /\ Physical' THEN outputAge' ELSE 0) = 0
        BY <3>1
      <4>3. (Serving' /\ output' # Absent /\ announced') =
              (staged = "LB" \/ ((Serving /\ output # Absent /\ announced) /\ staged # "OL"))
        <5>1. output' # Absent
          BY <3>1 DEF Contract!Reading
        <5> QED
          BY Zenon, <2>2, <3>1, <3>2, <3>4, <5>1
      <4>4. staged = "OB" => ~(Serving /\ output # Absent /\ announced)
        BY Zenon, <3>3
      <4>5. 0 \in 0 .. IterationBound
        OBVIOUS
      <4> QED
        BY Zenon, <4>1, <4>2, <4>3, <4>4, <4>5 DEF Contract!Serve
    <3> QED
      BY <3>1, <3>5 DEF Contract!Next
  <2> QED
    BY <2>1, <2>2
<1>6. CASE Published
  BY <1>6, <1>s DEF Published, PublishReturns, Serving
<1>7. CASE SideWorkEnds
  BY <1>7, <1>s DEF SideWorkEnds, exporterVars, Serving
<1>8. CASE PollFailureHandled
  <2>1. CASE PollFailureFailSafe
    <3>1. CASE ~Serving
      BY <3>1, <1>8, <1>w DEF PollFailureHandled, Serving
    <3>2. CASE Serving
      <4>1. output # Absent
        BY <1>8, <3>2 DEF PollFailureHandled, ServeInv, Recorded, Serving
      <4>2. output' = FailSafe /\ Serving' /\ announced' = announced
        BY <1>8, <2>1, <3>2 DEF PollFailureHandled, PollFailureFailSafe, Serving
      <4>3. Contract!GiveUp
        BY <3>2, <4>1, <4>2 DEF Contract!GiveUp, Physical
      <4> QED
        BY <4>3 DEF Contract!Next
    <3> QED
      BY <3>1, <3>2
  <2>2. CASE PollFailureTolerated \/ PollFailureUnpublished
    BY <1>8, <2>2, <1>s
    DEF PollFailureHandled, PollFailureTolerated, PollFailureUnpublished, Serving
  <2> QED
    BY <1>8, <2>1, <2>2 DEF PollFailureHandled
<1>9. ASSUME NEW removed \in BOOLEAN, FatalStop(removed) PROVE Goal
  BY <1>9, <1>w DEF FatalStop, Serving
<1>10. CASE Notify
  <2>1. CASE Serving' <=> Serving
    BY <2>1, <1>10, <1>s DEF Notify, exporterVars
  <2>2. CASE ~Serving /\ Serving'
    <3>1. published /\ Alive
      BY <1>10, <2>2 DEF Notify, Serving
    <3>2. Physical /\ outputAge <= busy /\ (announced <=> output = "LB")
      BY <1>10, <3>1 DEF Notify, ServeInv, Recorded
    <3>3. output' = output /\ outputAge' = outputAge /\ announced' = announced
      BY <1>10 DEF Notify, exporterVars
    <3>4. Contract!Serve(output)
      BY <2>2, <3>2, <3>3 DEF Contract!Serve, Physical
    <3> QED
      BY <3>2, <3>4 DEF Contract!Next, Contract!Reading, Physical
  <2>3. CASE ~Serving'
    BY <2>3, <1>w
  <2> QED
    BY <2>1, <2>2, <2>3
<1>11. CASE NextIteration
  <2>1. CASE running
    BY <2>1, <1>11, <1>s DEF NextIteration, exporterVars, Serving
  <2>2. CASE ~running
    BY <2>2, <1>11, <1>w DEF NextIteration, Serving
  <2> QED
    BY <2>1, <2>2
<1>12. CASE WatchdogKill
  BY <1>12, <1>w DEF WatchdogKill, Serving
<1>13. ASSUME NEW removed \in BOOLEAN, StopPost(removed) PROVE Goal
  BY <1>13, <1>w DEF StopPost, Serving
<1>14. ASSUME NEW removed \in BOOLEAN, PublicationRaises(removed) PROVE Goal
  <2>1. (Serving' <=> Serving) /\ announced' = announced
    BY <1>14 DEF PublicationRaises, Serving
  <2>2. CASE removed
    <3>1. output' = Absent
      BY <1>14, <2>2
      DEF PublicationRaises, PublishRaises, MarkPublicationFailed, Invalidate
    <3>2. Contract!Withdraw
      BY <3>1 DEF Contract!Withdraw, Physical
    <3> QED
      BY <3>2 DEF Contract!Next
  <2>3. CASE ~removed
    BY <1>14, <2>1, <2>3, <1>s
    DEF PublicationRaises, PublishRaises, MarkPublicationFailed, Invalidate
  <2> QED
    BY <2>2, <2>3
<1>15. CASE SideWorkRaises
  BY <1>15, <1>s DEF SideWorkRaises, exporterVars, Serving
<1>16. ASSUME NEW landed \in BOOLEAN, NEW removed \in BOOLEAN, FailSafeRaises(landed, removed)
       PROVE  Goal
  <2>1. (Serving' <=> Serving) /\ announced' = announced
    BY <1>16 DEF FailSafeRaises, Serving
  <2>2. CASE removed
    <3>1. output' = Absent
      BY <1>16, <2>2 DEF FailSafeRaises, PollFailureRaises
    <3>2. Contract!Withdraw
      BY <3>1 DEF Contract!Withdraw, Physical
    <3> QED
      BY <3>2 DEF Contract!Next
  <2>3. CASE ~removed /\ ~landed
    BY <1>16, <2>1, <2>3, <1>s DEF FailSafeRaises, PollFailureRaises
  <2>4. CASE ~removed /\ landed
    <3>1. output' = FailSafe
      BY <1>16, <2>4 DEF FailSafeRaises, PollFailureRaises
    <3>2. CASE Serving
      <4>1. output # Absent
        BY <1>16, <3>2 DEF FailSafeRaises, ServeInv, Recorded, Serving
      <4>2. Contract!GiveUp
        BY <2>1, <3>1, <3>2, <4>1 DEF Contract!GiveUp, Physical
      <4> QED
        BY <4>2 DEF Contract!Next
    <3>3. CASE ~Serving
      BY <3>3, <2>1, <1>w
    <3> QED
      BY <3>2, <3>3
  <2> QED
    BY <2>2, <2>3, <2>4
<1>17. CASE RequestStop
  BY <1>17, <1>s DEF RequestStop, exporterVars, Serving
<1>18. CASE Crash
  BY <1>18, <1>w DEF Crash, Serving
<1>19. CASE Tick
  <2>1. (Serving' <=> Serving) /\ output' = output /\ announced' = announced
    BY <1>19 DEF Tick, Serving
  <2>2. CASE Serving /\ Physical
    <3>1. outputAge' = Older(outputAge)
      BY <1>19, <2>2 DEF Tick, Elapse, ContentOlder, Serving, Physical
    <3>2. Older(outputAge) <= MaxAge + 3 * IterationBound
      BY <2>1, <2>2, <3>1 DEF BoundedStaleness, Physical
    <3>3. outputAge' = outputAge + 1 /\ outputAge < MaxAge + 3 * IterationBound
      BY <3>1, <3>2, OlderType
    <3>4. Contract!Elapse
      BY <2>1, <2>2, <3>3 DEF Contract!Elapse, Contract!Reading, Physical
    <3> QED
      BY <3>4 DEF Contract!Next
  <2>3. CASE ~(Serving /\ Physical)
    BY <2>1, <2>3 DEF Contract!contractVars, Physical
  <2> QED
    BY <2>2, <2>3
<1>20. ASSUME NEW mode \in {"lost", "low"}, NutSettles(mode) PROVE Goal
  BY <1>20, <1>s DEF NutSettles, exporterVars, Serving
<1>21. CASE UNCHANGED vars
  BY <1>21, <1>s DEF vars, exporterVars, daemonVars, Serving
<1> QED
  BY <1>1, <1>2, <1>3, <1>4, <1>5, <1>6, <1>7, <1>8, <1>9, <1>10, <1>11, <1>12, <1>13,
     <1>14, <1>15, <1>16, <1>17, <1>18, <1>19, <1>20, <1>21
  DEF Next, Progress, ReadPoll

(* The daemon under its unit keeps every promise of VirtualUpsContract: a  *)
(* served reading is fresh when service begins and bounded ever after, the *)
(* synthetic low battery only replaces served content, and low battery is  *)
(* not downgraded to on-battery while the service lasts.                   *)
THEOREM ContractImplemented == Spec => ImplementsContract
<1>1. Init => Contract!Init
  BY DEF Init, Contract!Init, Serving
<1>2. IInv /\ [Next]_vars /\ IInv' => [Contract!Next]_(Contract!contractVars)
  <2>1. IInv' => BoundedStaleness'
    BY AgeBounds, PTL
  <2> QED
    BY <2>1, ContractStep
<1>3. Spec => Contract!Spec
  BY <1>1, <1>2, Invariance, PTL DEF Spec, Contract!Spec
<1> QED
  BY <1>3 DEF ImplementsContract

-----------------------------------------------------------------------------
(* The tracker and the file.  A process without a prior publication has no *)
(* file, but for the one it is just replacing.                             *)

FileInv ==
  /\ Alive /\ ~hasPrior =>
       \/ output = Absent
       \/ pc = "publish" /\ call = "landed"
       \/ pc = "fatal" /\ Physical
  /\ TrackerMatchesFile
  /\ LeftoverNeedsFailedUnlinks
  /\ pc = "down" => ~own
  /\ Recorded /\ output # Absent => own
  /\ pc = "publish" /\ call = "landed" => own
  /\ WatchdogBoundsStaleness

LEMMA FileStep == IInv /\ FileInv /\ [Next]_vars => FileInv'
<1> SUFFICES ASSUME IInv, FileInv, [Next]_vars PROVE FileInv'
  OBVIOUS
<1> USE DEF FileInv, TrackerMatchesFile, LeftoverNeedsFailedUnlinks, WatchdogBoundsStaleness,
       IInv, CallInv, Recorded, Serving, Physical, TypeOK, ExporterTypeOK, DaemonTypeOK
<1>1. CASE Start
  <2>1. PICK removed \in BOOLEAN, fileAge \in Age :
          /\ removed => fileAge = 0
          /\ Invalidate(removed) /\ Outlived(removed) /\ Construct(output', fileAge)
    BY Zenon, <1>1 DEF Start
  <2>2. pc = "down" /\ pc' = "poll" /\ UNCHANGED <<ready, published, own>> /\ ~ready /\ ~published
    BY <1>1 DEF Start, AgeInv
  <2>3. ~own
    BY Zenon, <2>2
  <2>4. output' # Absent => output # Absent /\ ~removed
    BY Zenon, <2>1 DEF Invalidate
  <2>5. output' # Absent => outlived >= 1 /\ outlived' = outlived + 1
    BY <2>1, <2>2, <2>3, <2>4
  <2>6. LeftoverNeedsFailedUnlinks'
    BY <2>2, <2>5
  <2>7. ~Recorded' /\ ~Serving'
    BY <2>2
  <2>8. Alive' /\ ~hasPrior' => output' = Absent
    BY <2>1 DEF Construct
  <2> QED
    BY <2>2, <2>6, <2>7, <2>8
<1>2. CASE ReadFails
  BY <1>2, AgeAssumption, DaemonAssumption DEF ReadFails, exporterVars
<1>3. ASSUME NEW flags \in SUBSET Flag, ReadInvalid(flags) PROVE FileInv'
  BY <1>3, AgeAssumption, DaemonAssumption DEF ReadInvalid, exporterVars, EpisodeKinds
<1>4. ASSUME NEW flags \in SUBSET Flag, NEW runtime \in Runtimes, ReadValid(flags, runtime)
      PROVE FileInv'
  BY <1>4, AgeAssumption, DaemonAssumption DEF ReadValid, Stage, EpisodeKinds
<1>5. CASE Land
  <2>1. own'
    BY Zenon, <1>5 DEF Land
  <2> QED
    BY <1>5, <2>1, AgeAssumption, DaemonAssumption DEF Land, PublishLands, LatchInv
<1>6. CASE Published
  BY <1>6, AgeAssumption, DaemonAssumption DEF Published, PublishReturns
<1>7. CASE SideWorkEnds
  BY <1>7, AgeAssumption, DaemonAssumption
  DEF SideWorkEnds, exporterVars, AgeInv, ServeInv
<1>8. CASE PollFailureHandled
  BY <1>8, AgeAssumption, DaemonAssumption
  DEF PollFailureHandled, PollFailureTolerated, PollFailureUnpublished,
         PollFailureFailSafe
<1>9. ASSUME NEW removed \in BOOLEAN, FatalStop(removed) PROVE FileInv'
  BY <1>9, AgeAssumption, DaemonAssumption
  DEF FatalStop, Removing, Faulty, InvalidateOutput, Invalidate
<1>10. CASE Notify
  BY <1>10, AgeAssumption, DaemonAssumption
  DEF Notify, exporterVars, PingsWatchdog, ServeInv
<1>11. CASE NextIteration
  BY <1>11, AgeAssumption, DaemonAssumption DEF NextIteration, exporterVars
<1>12. CASE WatchdogKill
  BY <1>12, AgeAssumption, DaemonAssumption DEF WatchdogKill, exporterVars
<1>13. ASSUME NEW removed \in BOOLEAN, StopPost(removed) PROVE FileInv'
  BY <1>13, AgeAssumption, DaemonAssumption
  DEF StopPost, Removing, Faulty, Invalidate, ForgetProcess
<1>14. ASSUME NEW removed \in BOOLEAN, PublicationRaises(removed) PROVE FileInv'
  BY <1>14, AgeAssumption, DaemonAssumption
  DEF ServeInv, PublicationRaises, Faulty, PublishRaises, MarkPublicationFailed, Invalidate
<1>15. CASE SideWorkRaises
  BY <1>15, AgeAssumption, DaemonAssumption DEF SideWorkRaises, Faulty, exporterVars
<1>16. ASSUME NEW landed \in BOOLEAN, NEW removed \in BOOLEAN, FailSafeRaises(landed, removed)
      PROVE FileInv'
  BY <1>16, AgeAssumption, DaemonAssumption
  DEF FailSafeRaises, Faulty, PollFailureRaises
<1>17. CASE RequestStop
  BY <1>17, AgeAssumption, DaemonAssumption DEF RequestStop, exporterVars
<1>18. CASE Crash
  BY <1>18, AgeAssumption, DaemonAssumption DEF Crash, Faulty, exporterVars
<1>19. CASE Tick
  BY <1>19, AgeAssumption, DaemonAssumption, OlderType DEF Tick, Elapse, ContentOlder
<1>20. ASSUME NEW mode \in {"lost", "low"}, NutSettles(mode) PROVE FileInv'
  BY <1>20, AgeAssumption, DaemonAssumption DEF NutSettles, exporterVars
<1>21. CASE UNCHANGED vars
  BY <1>21, AgeAssumption, DaemonAssumption DEF vars, exporterVars, daemonVars
<1> QED
  BY <1>1, <1>2, <1>3, <1>4, <1>5, <1>6, <1>7, <1>8, <1>9, <1>10, <1>11, <1>12,
     <1>13, <1>14, <1>15, <1>16, <1>17, <1>18, <1>19, <1>20, <1>21
  DEF Next, Progress, ReadPoll

LEMMA FileInvariance == Spec => [](IInv /\ FileInv)
<1>1. Init => FileInv
  BY DEF Init, FileInv, TrackerMatchesFile, LeftoverNeedsFailedUnlinks,
         WatchdogBoundsStaleness, Recorded, Serving
<1>2. IInv /\ FileInv /\ [Next]_vars => FileInv'
  BY FileStep
<1> QED
  BY <1>1, <1>2, Invariance, PTL DEF Spec

(* Between iterations, fresh means a reading of this very iteration and    *)
(* stale means the fail-safe, or no file where none ever was.              *)
THEOREM TrackerTellsTheFile == Spec => []TrackerMatchesFile
<1>1. FileInv => TrackerMatchesFile
  BY DEF FileInv
<1> QED
  BY <1>1, FileInvariance, PTL

(* No synthetic low battery before the first publication.                  *)
THEOREM NoFalseShutdown == Spec => []NoSyntheticLbUnpublished
<1>1. IInv /\ FileInv => NoSyntheticLbUnpublished
  BY DEF IInv, ServeInv, FileInv, NoSyntheticLbUnpublished, Physical
<1> QED
  BY <1>1, FileInvariance, PTL

(* Whatever ended a process, its file is left behind only by a failed      *)
(* ExecStopPost, and found by a later process only if the ExecStartPre     *)
(* failed as well: crashes and failing writes and removals included.       *)
THEOREM LeftoversExplained == Spec => []LeftoverNeedsFailedUnlinks
<1>1. FileInv => LeftoverNeedsFailedUnlinks
  BY DEF FileInv
<1> QED
  BY <1>1, FileInvariance, PTL

(* No process serves a file that it did not write: a leftover past both    *)
(* unlinks stays behind READY=1, which waits for an own publication.       *)
THEOREM OwnFileServed == Spec => []LeftoverNeverServed
<1>1. FileInv => LeftoverNeverServed
  BY DEF FileInv, Recorded, Serving, LeftoverNeverServed
<1> QED
  BY <1>1, FileInvariance, PTL

(* The watchdog bounds the age of a served reading by itself, whatever the *)
(* tracker tolerates.                                                      *)
THEOREM WatchdogBounds == Spec => []WatchdogBoundsStaleness
<1>1. FileInv => WatchdogBoundsStaleness
  BY DEF FileInv
<1> QED
  BY <1>1, FileInvariance, PTL

(* Each WATCHDOG=1 follows a publication of the same iteration.  A fresh   *)
(* tracker tells the truth about the file, and the first notification      *)
(* (READY=1) comes from an iteration that published.                       *)
THEOREM PingFollowsPublication == Spec => PingNeedsPublication
<1> DEFINE Ping == Alive /\ watchdog' < watchdog /\ pc' # "down" => Physical /\ outputAge <= busy
<1>1. IInv /\ FileInv /\ [Next]_vars => Ping
  <2> SUFFICES ASSUME IInv, FileInv, [Next]_vars, Alive, watchdog' < watchdog, pc' # "down"
               PROVE  Physical /\ outputAge <= busy
    OBVIOUS
  <2>1. watchdog \in Nat
    BY DaemonAssumption DEF IInv, TypeOK, DaemonTypeOK
  <2>2. CASE Notify
    <3>1. pc = "notify" /\ watchdog # watchdog'
      BY <2>1, <2>2 DEF Notify
    <3>2. freshness = "fresh" \/ published
      BY <2>2, <3>1 DEF Notify, PingsWatchdog
    <3>3. CASE freshness = "fresh"
      BY <3>1, <3>3 DEF FileInv, TrackerMatchesFile
    <3>4. CASE published
      BY <3>1, <3>4 DEF IInv, ServeInv
    <3> QED
      BY <3>2, <3>3, <3>4
  <2>3. CASE Tick
    BY <2>1, <2>3 DEF Tick
  <2>4. CASE \E removed \in BOOLEAN : StopPost(removed)
    BY <2>4 DEF StopPost
  <2>5. CASE Start
    BY <2>5 DEF Start, Alive
  <2>6. CASE UNCHANGED watchdog
    BY <2>1, <2>6
  <2> QED
    BY <2>2, <2>3, <2>4, <2>5, <2>6
    DEF Next, Progress, ReadPoll, ReadFails, ReadInvalid, ReadValid, Land, Published,
        SideWorkEnds, PollFailureHandled, FatalStop, NextIteration, WatchdogKill,
        PublicationRaises, SideWorkRaises, FailSafeRaises, RequestStop, Crash, NutSettles,
        vars, daemonVars
<1>2. IInv /\ FileInv /\ [Next]_vars => [Ping]_vars
  BY <1>1
<1> QED
  BY <1>2, FileInvariance, PTL DEF Spec, PingNeedsPublication
=============================================================================
