--------------------------- MODULE MCModelFeedback ---------------------------
EXTENDS ModelFeedback

(* From 0.015, the fresh model, to 0.005: five steps.  Outages without a   *)
(* usable load step, and self-tests, which have one but are passed over.   *)
NaturalOutages == [test : {FALSE}, estimate : {20}]
AnyOutage      == NaturalOutages \cup {[test |-> FALSE, estimate |-> NoStep],
                                       [test |-> TRUE,  estimate |-> 20]}

(* All outages natural with a load step, which is what a second correction *)
(* takes, or two fewer with one of another kind among them.                *)
OneOddOutage ==
  LET odd == {e \in DOMAIN raw' : raw'[e] \notin NaturalOutages}
  IN  Cardinality(odd) <= IF Len(raw') < MaxEvents - 1 THEN 1 ELSE 0

(* An outage with a load step lasts at least forty seconds, so that at a   *)
(* row a second its start is not among the rows before the next one.       *)
OnlyTheLastIsReconciled ==
  pc = "down" => history' \in {history, WithEpisode(Len(raw), "blackout")}
=============================================================================
