---------------------------- MODULE MCKukaStream ----------------------------
(* Small instances of KukaStream for TLC; the .cfg files choose among them. *)
EXTENDS KukaStream

(* A path of one point, paths that just fill the ring or miss it by one,    *)
(* and paths that go round it more than once.                               *)
AroundRing == {1, Ring - 1, Ring, Ring + 1, 2 * Ring + 1}
=============================================================================
