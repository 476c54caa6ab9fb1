----------------------------- MODULE MCPathJob ------------------------------
(* PathJob for TLC.                                                         *)
EXTENDS PathJob
=============================================================================
