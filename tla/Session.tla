------------------------------ MODULE Session ------------------------------
(***************************************************************************)
(* Runtime/main.c (main, loadprogram): programs one after the other, from  *)
(* the header of a file to the end of the program, with the memory, FPGA   *)
(* and pins (Loader) and the files and names (FileSystem) that they hand   *)
(* on to each other.                                                       *)
(*                                                                         *)
(* amxinit_file stands with the end of loadprogram: whatever it is called  *)
(* before, no program runs in between, and without one the table is clear. *)
(***************************************************************************)
EXTENDS FileSystem, Loader

fileVars    == <<vars, nameVars>>
sessionVars == <<fileVars, loaderVars>>

\* loadprogram has succeeded: main() runs the program.
StartProgram == Register(TRUE) /\ ProgramStarts

\* The program is over: amxcleanup_file, however it ended.
EndProgram == End /\ ProgramEnds

\* The native functions of the program, one at a time.
CallFiles == pc = "run" /\ FileCalls /\ UNCHANGED loaderVars
CallFPGA  == ~Finding /\ FPGACalls /\ UNCHANGED fileVars

LoadProgram == Loading /\ UNCHANGED fileVars

SessionNext ==
  \/ LoadProgram \/ StartProgram \/ CallFiles \/ CallFPGA \/ EndProgram
  \/ DiskChanges /\ UNCHANGED loaderVars

SessionInit == FSInit /\ LoaderInit

SessionSpec == SessionInit /\ [][SessionNext]_sessionVars

-----------------------------------------------------------------------------
(* Properties *)

\* However a program ended, and however many could not be loaded after it, its FPGA image,
\* its pin directions and its open files are gone when main() of the next one starts: the
\* FPGA has the original image, or none if that one could not be loaded the last time it was
\* tried; the directions are default_pins (amx_fpga.c:159-165; "Restore original FPGA
\* image"); and no entry of the table of files is in use (main.c:404).
NothingIsInherited ==
  [][ pc = "register" /\ pc' = "run" =>
        /\ image = IF unloaded THEN Blank ELSE Original
        /\ outputs = default_pins
        /\ FreeEntries = Entries /\ \A v \in Variables : held[v] = NoHandle
    ]_sessionVars
=============================================================================
