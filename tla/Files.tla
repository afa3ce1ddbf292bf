------------------------------- MODULE Files -------------------------------
(***************************************************************************)
(* Runtime/amx_file.c: the table of files a program has open.  The handle  *)
(* f_open gives a program is the address of a table entry, also when the   *)
(* file could not be opened.                                               *)
(*                                                                         *)
(* The file system is external: each of its calls may succeed or fail.     *)
(* Programs keep handles in variables; how careful they are with them is   *)
(* given by KEEPS_FAILED.                                                  *)
(***************************************************************************)
EXTENDS Integers, FiniteSets

CONSTANTS
  FILE_COUNT,
  Variables,       \* the variables in which a program keeps handles
  Errors,          \* the errors of the file system, FR_INVALID_OBJECT among them
  FR_OK, FR_INVALID_OBJECT,
  KEEPS_FAILED     \* whether programs hold on to a handle that f_open returned
                   \* with an error while they open another file

Status == Errors \union {FR_OK}

ASSUME FilesAssumption ==
  /\ FILE_COUNT \in Nat \ {0}
  /\ FR_INVALID_OBJECT \in Errors /\ FR_OK \notin Errors
  /\ KEEPS_FAILED \in BOOLEAN

VARIABLES
  files,     \* the table: valid, error, and whether the FIL is open
  held,      \* variable -> the handle in it, or NoHandle
  running    \* whether a program is running

vars == <<files, held, running>>

Entries == 0 .. FILE_COUNT - 1
File    == [valid : BOOLEAN, error : Status, open : BOOLEAN]

\* A handle: the entry it is the address of, whether f_open had succeeded, and a
\* ghost: the first error that SETERROR or f_open has seen with it.
Handle   == [entry : Entries, opened : BOOLEAN, first : Status]
NoHandle == [entry |-> -1, opened |-> FALSE, first |-> FR_OK]

Init ==
  /\ files = [i \in Entries |-> [valid |-> FALSE, error |-> FR_OK, open |-> FALSE]]
  /\ held = [v \in Variables |-> NoHandle]
  /\ running = FALSE

Held(v) == running /\ held[v] # NoHandle

\* (Names ending in _BugN are faulty variants of the definition after them;
\* README.md says which property notices each.)

\* SETERROR keeps the first error.
FirstError_Bug1(error, status) == IF status # FR_OK THEN status ELSE error
FirstError(error, status) == IF error = FR_OK THEN status ELSE error

\* What a call to the file system may return for a FIL: one that is not open is
\* refused.
Outcomes(i) == IF files[i].open THEN Status ELSE {FR_INVALID_OBJECT}

-----------------------------------------------------------------------------
(* Programs are loaded and end *)

\* amxinit_file
InitFiles ==
  /\ ~running /\ running' = TRUE
  /\ files' = [i \in Entries |-> [files[i] EXCEPT !.valid = FALSE]]
  /\ UNCHANGED held

\* amxcleanup_file closes what the program has left open.  A file that cannot be
\* closed stays as it is.
CleanUp ==
  /\ running /\ running' = FALSE
  /\ \E closed \in SUBSET Entries :
       files' = [i \in Entries |->
                   IF files[i].valid
                     THEN [files[i] EXCEPT !.valid = FALSE,
                                           !.open  = @ /\ i \notin closed]
                     ELSE files[i]]
  /\ held' = [v \in Variables |-> NoHandle]

-----------------------------------------------------------------------------
(* The native functions *)

FreeEntries_Bug1 == Entries
FreeEntries == {i \in Entries : ~files[i].valid}

\* A careful program has not kept a handle with which it can do nothing.
MayOpen == KEEPS_FAILED \/ \A v \in Variables : Held(v) => held[v].opened

\* f_open returns 0 when there is no entry left ...
OpenRefused(v) ==
  /\ running /\ ~Held(v) /\ MayOpen
  /\ FreeEntries = {}
  /\ UNCHANGED vars

\* ... and else the first free entry, whether or not the file could be opened.
Open(v) ==
  /\ running /\ ~Held(v) /\ MayOpen
  /\ \E i \in FreeEntries, status \in Status :
       /\ \A j \in FreeEntries : i <= j
       /\ LET ok == status = FR_OK
          IN  /\ files' = [files EXCEPT ![i] =
                             [valid |-> ok, error |-> status, open |-> ok]]
              /\ held' = [held EXCEPT ![v] =
                            [entry |-> i, opened |-> ok, first |-> status]]
  /\ UNCHANGED running

\* f_read, f_write and f_lseek
Access(v) ==
  /\ Held(v)
  /\ \E status \in Outcomes(held[v].entry) :
       /\ files' = [files EXCEPT ![held[v].entry].error = FirstError(@, status)]
       /\ held' = [held EXCEPT ![v].first = IF @ = FR_OK THEN status ELSE @]
  /\ UNCHANGED running

\* f_truncate returns whether it succeeded, without SETERROR.
Truncate(v) == Held(v) /\ UNCHANGED vars

\* f_close; the entry is free again even if the file could not be closed.
ValidAfterClose_Bug1(status) == status # FR_OK
ValidAfterClose(status) == FALSE

Close(v) ==
  /\ Held(v)
  /\ \E status \in Outcomes(held[v].entry) :
       files' = [files EXCEPT ![held[v].entry] =
                   [valid |-> ValidAfterClose(status),
                    error |-> FirstError(@.error, status),
                    open  |-> @.open /\ status # FR_OK]]
  /\ held' = [held EXCEPT ![v] = NoHandle]
  /\ UNCHANGED running

\* The program gives up a handle it could not open a file with.
Forget(v) ==
  /\ Held(v) /\ ~held[v].opened
  /\ held' = [held EXCEPT ![v] = NoHandle]
  /\ UNCHANGED <<files, running>>

-----------------------------------------------------------------------------
Calls(v) ==
  \/ OpenRefused(v) \/ Open(v) \/ Access(v) \/ Truncate(v) \/ Close(v) \/ Forget(v)

Next == InitFiles \/ CleanUp \/ \E v \in Variables : Calls(v)

Spec == Init /\ [][Next]_vars

-----------------------------------------------------------------------------
(* Properties *)

TypeOK ==
  /\ files \in [Entries -> File]
  /\ held \in [Variables -> Handle \union {NoHandle}]
  /\ running \in BOOLEAN

\* f_error tells the first error of f_open, f_read, f_write and f_lseek since the file
\* was opened: "If multiple errors have occurred since file opening, returns the
\* first one that occurred" (Compiler/include/file.inc:126-128, amx_file.c:47-50).
FirstErrorKept == \A v \in Variables : Held(v) => files[held[v].entry].error = held[v].first

\* Two handles are never the same file: what a program does with one of them, or how
\* it fails, leaves the others alone (amx_file.c:20-40, 52-60).  Programs that keep the
\* handle of a failed f_open and then open another file are left out by KEEPS_FAILED =
\* FALSE: those two handles are the same entry.
HandlesAreDistinct ==
  \A v, w \in Variables : Held(v) /\ Held(w) /\ v # w => held[v].entry # held[w].entry

\* The entries in use are those of the files the program has open, so that it is only
\* ever refused a file when it has FILE_COUNT of them open: failed opens and failed
\* closes cost nothing (amx_file.c:38, 57, 219-222).
NoEntryLost ==
  running => {i \in Entries : files[i].valid}
               = {held[v].entry : v \in {w \in Variables : Held(w) /\ held[w].opened}}
=============================================================================
