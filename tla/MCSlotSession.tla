--------------------------- MODULE MCSlotSession ----------------------------
(* SlotSession for TLC.  Slots are model values and alike: the safety run   *)
(* takes them up to permutation.                                            *)
EXTENDS SlotSession, TLC

Symmetry == Permutations(Slots)
=============================================================================
