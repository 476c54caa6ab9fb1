---------------------------- MODULE MCKukaProgram ----------------------------
(* KukaProgram for TLC: a path within the ring between two moves, one that  *)
(* goes one point beyond it, and one that goes round it twice and a point.  *)
EXTENDS KukaProgram

Texts == {[before |-> TRUE, points |-> 2, after |-> TRUE],
          [before |-> FALSE, points |-> 4, after |-> FALSE],
          [before |-> FALSE, points |-> 7, after |-> TRUE]}
=============================================================================
