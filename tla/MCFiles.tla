------------------------------ MODULE MCFiles ------------------------------
(* Small instances of FileSystem for TLC. *)
EXTENDS FileSystem, TLC

Symmetry == Permutations(Variables)
=============================================================================
