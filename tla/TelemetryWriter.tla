--------------------------- MODULE TelemetryWriter ---------------------------
(***************************************************************************)
(* TelemetryJsonlWriter: which observations become rows of the raw stream, *)
(* and when an episode becomes a row of the history.  An action is one     *)
(* durable append and what the writer remembers after it.                  *)
(*                                                                         *)
(* A sample is the second it was observed at and its reading: on battery,  *)
(* or online at 100%, below (charging explicitly or not) or without a      *)
(* percentage, or neither.  The rows kept only for an episode's summary    *)
(* (_recent_online, the context in _episode_records) are left out: they    *)
(* change the figures of a history row, not whether or when it is written. *)
(***************************************************************************)
EXTENDS Integers, Sequences, FiniteSets

CONSTANTS
  SilentWindow,   \* silent_window_sec
  ContextRows     \* the rows before an episode that its summary may look at

ASSUME WindowAssumption == SilentWindow \in Nat /\ ContextRows \in Nat

Reading    == {"OB", "FULL", "LOW", "CHRG", "BLIND", "UNKNOWN"}
BelowFull  == {"LOW", "CHRG"}
OnlineKind == BelowFull \cup {"FULL", "BLIND"}
Recorded   == OnlineKind \cup {"OB"}

None == 0                       \* no time; the clock starts at one
Sample == [at : Nat, status : Recorded]
NoEpisode == [kind |-> "REAL", start |-> None]

VARIABLES
  stream,         \* telemetry.jsonl
  history,        \* history.jsonl: the episode rows
  active,         \* _episode_active
  episode,        \* _episode_kind, and the first battery row of _episode_records
  recharging,     \* _recharging
  postFullUntil,  \* _post_full_until
  silent          \* _silent_observations

writerVars == <<stream, history, active, episode, recharging, postFullUntil, silent>>

WriterTypeOK ==
  /\ stream \in Seq(Sample)
  /\ history \in Seq([kind : {"blackout", "self_test"}, at : Nat, until : Nat])
  /\ active \in BOOLEAN
  /\ episode \in [kind : {"REAL", "TEST"}, start : Nat]
  /\ recharging \in BOOLEAN
  /\ postFullUntil \in Nat
  /\ postFullUntil # None => postFullUntil > SilentWindow
  /\ silent \subseteq Sample

WriterInit ==
  /\ stream = <<>>
  /\ history = <<>>
  /\ active = FALSE
  /\ episode = NoEpisode
  /\ recharging = FALSE
  /\ postFullUntil = None
  /\ silent = {}

(* Mutant: the window is taken off the time instead of added to it. *)
MutantPostFullDeadline(row) ==
  IF row.status = "FULL" THEN row.at - SilentWindow ELSE None

PostFullDeadline(row) == IF row.status = "FULL" THEN row.at + SilentWindow ELSE None

-----------------------------------------------------------------------------
(* write, a battery observation.                                           *)

RecordBattery(row) ==
  /\ row.status = "OB"
  /\ active
  /\ stream' = Append(stream, row)
  /\ UNCHANGED <<history, active, episode, recharging, postFullUntil, silent>>

(* Mutant: the buffer is written newest first. *)
MutantNextSilent == {row \in silent : \A other \in silent : row.at >= other.at}

(* The rows before the event come first, the oldest first ... *)
NextSilent == {row \in silent : \A other \in silent : row.at <= other.at}

FlushSilent(row) ==
  /\ row.status = "OB"
  /\ ~active
  /\ \E next \in NextSilent :
       /\ stream' = Append(stream, next)
       /\ silent' = silent \ {next}
  /\ UNCHANGED <<history, active, episode, recharging, postFullUntil>>

(* Mutant: an episode whose summary failed keeps its rows. *)
MutantBeginKeepsRows(row, kind) ==
  /\ row.status = "OB"
  /\ ~active
  /\ silent = {}
  /\ stream' = Append(stream, row)
  /\ active' = TRUE
  /\ episode' = [kind  |-> kind,
                 start |-> IF episode.start = None THEN row.at ELSE episode.start]
  /\ recharging' = FALSE
  /\ postFullUntil' = None
  /\ UNCHANGED <<history, silent>>

(* Mutant: an episode whose summary failed leaves its kind to the next. *)
MutantBeginKeepsKind(row, kind) ==
  /\ row.status = "OB"
  /\ ~active
  /\ silent = {}
  /\ stream' = Append(stream, row)
  /\ active' = TRUE
  /\ episode' = [kind  |-> IF episode.kind = "TEST" THEN "TEST" ELSE kind,
                 start |-> row.at]
  /\ recharging' = FALSE
  /\ postFullUntil' = None
  /\ UNCHANGED <<history, silent>>

(* ... then the row that opens the episode, with the daemon's kind.        *)
BeginEpisode(row, kind) ==
  /\ row.status = "OB"
  /\ ~active
  /\ silent = {}
  /\ stream' = Append(stream, row)
  /\ active' = TRUE
  /\ episode' = [kind |-> kind, start |-> row.at]
  /\ recharging' = FALSE
  /\ postFullUntil' = None
  /\ UNCHANGED <<history, silent>>

-----------------------------------------------------------------------------
(* _write_online.                                                          *)

EndEpisode(row) ==
  /\ row.status \in OnlineKind
  /\ active
  /\ stream' = Append(stream, row)
  /\ active' = FALSE
  /\ recharging' = (row.status \in BelowFull)
  /\ postFullUntil' = PostFullDeadline(row)
  /\ UNCHANGED <<history, episode, silent>>

(* Mutant: an outage right after another counts as its continuation. *)
MutantWithSummary(kind, from, to) ==
  IF \E i \in DOMAIN history : history[i].until + 1 >= from THEN history
  ELSE Append(history, [kind  |-> IF kind = "TEST" THEN "self_test" ELSE "blackout",
                        at    |-> from,
                        until |-> to])

(* BatteryHistory.episode. *)
WithSummary(kind, from, to) ==
  IF \E i \in DOMAIN history : history[i].at = from THEN history
  ELSE Append(history, [kind  |-> IF kind = "TEST" THEN "self_test" ELSE "blackout",
                        at    |-> from,
                        until |-> to])

Summarize(to) ==
  /\ history' = WithSummary(episode.kind, episode.start, to)
  /\ episode' = NoEpisode
  /\ UNCHANGED <<stream, active, recharging, postFullUntil, silent>>

(* _write_recharge. *)
Recharge(row) ==
  /\ row.status \in OnlineKind
  /\ ~active
  /\ recharging
  /\ stream' = Append(stream, row)
  /\ recharging' = (row.status \in BelowFull)
  /\ postFullUntil' = PostFullDeadline(row)
  /\ UNCHANGED <<history, active, episode, silent>>

InTail == ~active /\ ~recharging /\ postFullUntil # None

Relapse(row) ==
  /\ row.status \in BelowFull
  /\ InTail
  /\ stream' = Append(stream, row)
  /\ recharging' = TRUE
  /\ postFullUntil' = None
  /\ UNCHANGED <<history, active, episode, silent>>

RecordTail(row) ==
  /\ row.status \in OnlineKind \ BelowFull
  /\ InTail
  /\ row.at <= postFullUntil
  /\ stream' = Append(stream, row)
  /\ UNCHANGED <<history, active, episode, recharging, postFullUntil, silent>>

(* Nothing is written; the observation may become context. *)
StaySilent(row) ==
  /\ row.status \in OnlineKind
  /\ ~active
  /\ ~recharging
  /\ \/ postFullUntil = None
     \/ row.status \notin BelowFull /\ row.at > postFullUntil
  /\ postFullUntil' = None
  /\ silent' = {kept \in silent \cup {row} : kept.at >= row.at - SilentWindow}
  /\ UNCHANGED <<stream, history, active, episode, recharging>>

-----------------------------------------------------------------------------
(* The append that is due for the observation, when it fails.              *)

Due(row) ==
  IF row.status = "OB" /\ ~active /\ silent # {} THEN NextSilent ELSE {row}

(* A relapse is remembered before its row is written. *)
AppendRaises(row, landed) ==
  /\ \/ row.status = "OB"
     \/ active
     \/ recharging
     \/ InTail /\ (row.status \in BelowFull \/ row.at <= postFullUntil)
  /\ \E due \in Due(row) : stream' = IF landed THEN Append(stream, due) ELSE stream
  /\ IF InTail /\ row.status \in BelowFull
       THEN recharging' = TRUE /\ postFullUntil' = None
       ELSE UNCHANGED <<recharging, postFullUntil>>
  /\ UNCHANGED <<history, active, episode, silent>>

SummaryRaises(to, landed) ==
  /\ history' = IF landed THEN WithSummary(episode.kind, episode.start, to) ELSE history
  /\ UNCHANGED <<stream, active, episode, recharging, postFullUntil, silent>>

-----------------------------------------------------------------------------
(* The stream read back: its battery runs, by their first and last row.    *)

Battery(i) == i \in DOMAIN stream /\ stream[i].status = "OB"

Runs ==
  {run \in (DOMAIN stream) \X (DOMAIN stream) :
     /\ run[1] <= run[2]
     /\ \A i \in run[1] .. run[2] : Battery(i)
     /\ ~Battery(run[1] - 1)
     /\ ~Battery(run[2] + 1)}

OpenRuns   == {run \in Runs : run[2] = Len(stream)}
ClosedRuns == Runs \ OpenRuns

Start(run) == stream[run[1]].at         \* of any run
End(run)   == stream[run[2] + 1].at     \* of a closed run

(* The row BatteryHistory.episode derives from the rows of a closed run    *)
(* and the ContextRows before it: from the first battery row among these.  *)
SummaryInContext(run) ==
  LET rows  == {i \in run[1] - ContextRows .. run[1] : Battery(i)}
      first == CHOOSE i \in rows : \A j \in rows : i <= j
      found == CHOOSE r \in ClosedRuns : r[1] <= first /\ first <= r[2]
  IN  WithSummary("REAL", stream[first].at, End(found))

(* _reconcile_closed_episodes: the last run, when it is closed and has no  *)
(* row, as a blackout.  It seems to have none, too, when the feedback's    *)
(* rows for the same outage come behind it in the file.                    *)
Reconciled(shadowed) ==
  IF OpenRuns # {} \/ ClosedRuns = {} THEN history
  ELSE LET last == CHOOSE run \in Runs : \A other \in Runs : other[1] <= run[1]
           rows == {i \in DOMAIN history : history[i].at >= Start(last)}
       IN  IF rows # {} /\ ~(shadowed /\ \A i \in rows : history[i].kind = "blackout")
             THEN history
             ELSE SummaryInContext(last)

(* _restore_active_episode: an unfinished episode goes on, as a blackout,  *)
(* and so does an explicit recharge.                                       *)
Restored ==
  /\ active' = (OpenRuns # {})
  /\ episode' = [kind  |-> "REAL",
                 start |-> IF OpenRuns = {} THEN None
                           ELSE Start(CHOOSE run \in OpenRuns : TRUE)]
  /\ recharging' = (stream # <<>> /\ stream[Len(stream)].status = "CHRG")
  /\ postFullUntil' = None
  /\ silent' = {}
=============================================================================
