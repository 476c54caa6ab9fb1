---------------------------- MODULE MCPollCycle -----------------------------
(* PollCycle for TLC: every second cycle reads base and tool (every third in the code); *)
(* the two counts that end something are small.                             *)
EXTENDS PollCycle
=============================================================================
