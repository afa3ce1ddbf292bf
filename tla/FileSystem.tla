----------------------------- MODULE FileSystem -----------------------------
(***************************************************************************)
(* The file functions a program has, together: the table of open files     *)
(* (Files) and the search for an unused name (FileNames).  They meet where *)
(* a program opens a file for writing under the name it was given; the     *)
(* screenshot goes past the table, with a FIL of its own.                  *)
(***************************************************************************)
EXTENDS Files, FileNames

Finding == finding # "no"

\* f_open with the name given: the file is created if the table has an entry for it
\* and the file system lets it.
OpenGiven(v) ==
  /\ ~Finding /\ given # {} /\ Open(v)
  /\ IF held'[v].opened THEN CreateFile ELSE UNCHANGED nameVars

\* A program does one call at a time.
FileCalls ==
  \/ ~Finding /\ UNCHANGED nameVars /\ \E v \in Variables : Calls(v)
  \/ \E v \in Variables : OpenGiven(v)
  \/ /\ UNCHANGED vars
     /\ \/ running /\ \E f \in Formats : SelectFilename(f)
        \/ PrintName \/ NameIsUsed \/ CopyStart \/ CopyRest
        \/ \E error \in BOOLEAN : NameIsFree(error)

\* The timer interrupt and the USB host do not ask who is running.
DiskChanges ==
  /\ UNCHANGED vars
  /\ \/ \E error \in BOOLEAN : ScreenShot(error)
     \/ \E name \in FileName : RemoveOverUSB(name) \/ CreateOverUSB(name)

ProgramStarts == InitFiles /\ ForgetName
ProgramEnds   == ~Finding /\ CleanUp /\ UNCHANGED nameVars

FSNext == ProgramStarts \/ ProgramEnds \/ FileCalls \/ DiskChanges

FSInit == Init /\ NamesInit

FSSpec == FSInit /\ [][FSNext]_<<vars, nameVars>>
=============================================================================
