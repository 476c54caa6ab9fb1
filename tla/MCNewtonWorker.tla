---------------------------- MODULE MCNewtonWorker --------------------------
(* NewtonWorker for TLC.                                                    *)
EXTENDS NewtonWorker
=============================================================================
