---------------------------- MODULE MCSupervisor ----------------------------
(* Small instances of Supervisor for TLC. *)
EXTENDS Supervisor

\* A program that is driven by events and idles, and one that only sleeps.
MixedPrograms == {{"@button1", "@timertick", "@idle"}, {"@button4"}}
IdleProgram   == {{"@button1", "@button4", "@idle"}}

TwoButtons  == {"BUTTON1", "BUTTON4"}
MainOnly    == {"main"}
Hanging     == {"main", "@button1"}
MainIdleKey == {"main", "@idle", "@button1"}
MainAndIdle == {"main", "@idle"}
AllOutcomes == {"return", "sleep", "exit", "fail"}
None        == {}
=============================================================================
