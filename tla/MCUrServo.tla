----------------------------- MODULE MCUrServo ------------------------------
(* UrServo for TLC: a path of one point, one that fills the queue and one   *)
(* longer than queue and worker hold; and the faults of a run.              *)
EXTENDS UrServo

Lengths == {1, 4, 6}
Moves   == {"move", "servo"}
=============================================================================
