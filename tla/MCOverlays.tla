---------------------------- MODULE MCOverlays ----------------------------
(* Small instances of Overlays for TLC. *)
EXTENDS Overlays, TLC

Symmetry == Permutations(Addresses)
=============================================================================
