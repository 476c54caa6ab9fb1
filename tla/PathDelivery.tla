---------------------------- MODULE PathDelivery ----------------------------
(***************************************************************************)
(* What streaming a toolpath through a bounded buffer promises, whatever   *)
(* the protocol: a path is opened with its length, its waypoints are sent  *)
(* and planned in order, each exactly once, at most Capacity of them sent  *)
(* ahead of the planner, and the path is reported complete only when all   *)
(* but Dropped of its waypoints are planned (Dropped = 0 is what one would *)
(* want).  A path may be aborted; what is buffered may still be planned.   *)
(***************************************************************************)
EXTENDS Naturals

CONSTANTS Capacity, Lengths, Dropped

VARIABLES total, sent, planned, status

vars == <<total, sent, planned, status>>

Init == total = 0 /\ sent = 0 /\ planned = 0 /\ status = "none"

Open ==
  /\ status # "open"
  /\ status' = "open"
  /\ total' \in Lengths
  /\ sent' = 0
  /\ planned' = 0

Send ==
  /\ status = "open"
  /\ sent < total
  /\ sent - planned < Capacity
  /\ sent' = sent + 1
  /\ UNCHANGED <<total, planned, status>>

Plan ==
  /\ planned < sent
  /\ planned' = planned + 1
  /\ UNCHANGED <<total, sent, status>>

Complete ==
  /\ status = "open"
  /\ planned + Dropped >= total
  /\ status' = "complete"
  /\ UNCHANGED <<total, sent, planned>>

Abort ==
  /\ status = "open"
  /\ status' = "aborted"
  /\ UNCHANGED <<total, sent, planned>>

Next == Open \/ Send \/ Plan \/ Complete \/ Abort

Spec == Init /\ [][Next]_vars
=============================================================================
