------------------------------- MODULE MCKeys -------------------------------
(* Small instances of Keys for TLC. *)
EXTENDS Keys

MCRepeatDelay  == 3
MCRepeatPeriod == 2
MCDebounce     == 2
=============================================================================
