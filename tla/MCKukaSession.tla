--------------------------- MODULE MCKukaSession ----------------------------
(* KukaSession for TLC: a toolpath longer than the ring, so that it needs a *)
(* refill, and few enough clicks to keep every order of them.               *)
EXTENDS KukaSession
=============================================================================
