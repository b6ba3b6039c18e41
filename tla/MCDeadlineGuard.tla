--------------------------- MODULE MCDeadlineGuard ---------------------------
EXTENDS DeadlineGuard

(* No timer of the caller, one-shots due before and after the deadline,    *)
(* and a periodic one that is due several times in a long operation.       *)
MCNoOuterTimer == {<<0, 0>>}
MCOuterTimers  == {<<0, 0>>, <<1, 0>>, <<3, 0>>, <<1, 2>>}
=============================================================================
