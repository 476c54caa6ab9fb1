----------------------------- MODULE MCKukaLink -----------------------------
(* KukaLink for TLC: enough timeouts for late replies to pile up.           *)
EXTENDS KukaLink
=============================================================================
