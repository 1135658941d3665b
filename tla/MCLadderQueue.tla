---------------------------- MODULE MCLadderQueue ----------------------------
(* Small instances of LadderQueue for TLC. *)
EXTENDS LadderQueue

CONSTANT WholeTimes   \* the arrival times a client pushes, in whole time units

MCTimes == {Unit * t : t \in WholeTimes}
=============================================================================
