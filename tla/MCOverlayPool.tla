--------------------------- MODULE MCOverlayPool ---------------------------
(* Small instances of OverlayPool, with its history, for TLC. *)
EXTENDS PoolHistory

MCIndices == 0 .. 5
MCSizeOf == [i \in MCIndices |-> <<1, 4, 5, 8, 22, 23>>[i + 1]]
=============================================================================
