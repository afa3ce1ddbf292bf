----------------------------- MODULE FileNames -----------------------------
(***************************************************************************)
(* Runtime/ds203_io.c (f_exists, select_filename) with its two users, the  *)
(* native function select_filename of amx_file.c and the screenshot that   *)
(* the timer interrupt takes (main.c): finding a name that no file has.    *)
(* The name stands in a static buffer that both users share.               *)
(*                                                                         *)
(* A name is a format and the number printed into it.  The disk is the set *)
(* of names in use; it is a USB drive too, so files come and go.           *)
(***************************************************************************)
EXTENDS Integers

CONSTANTS
  Formats,      \* the formats of programs
  SSHOT,        \* "SSHOT%03d.BMP"
  LAST          \* the last number tried (999)

ASSUME FileNamesAssumption == SSHOT \notin Formats /\ LAST \in Nat

Numbers == 0 .. LAST
FileName == (Formats \union {SSHOT}) \X Numbers

VARIABLES
  disk,         \* the names in use
  filename,     \* static buffer of select_filename
  given,        \* the name in the program's array, as a set: {} until it is there
  finding,      \* where select_filename is: "no", "print", "test", "copy", "copying"
  format,       \* its argument
  number,       \* its counter i
  excused       \* ghost: there is a reason for which a used name may be given

nameVars == <<disk, filename, given, finding, format, number, excused>>

NamesInit ==
  /\ disk \in SUBSET FileName
  /\ filename = <<SSHOT, 0>> /\ given = {}
  /\ finding = "no" /\ format = SSHOT /\ number = 0 /\ excused = FALSE

-----------------------------------------------------------------------------
\* (Names ending in _BugN are faulty variants of the definition after them;
\* README.md says which property notices each.)

\* Another program has other data: the name is gone.
ForgetName ==
  /\ finding = "no" /\ given' = {}
  /\ UNCHANGED <<disk, filename, finding, format, number, excused>>

\* A program calls select_filename; its array holds the format.
SelectFilename(f) ==
  /\ finding = "no" /\ finding' = "print"
  /\ format' = f /\ number' = 0 /\ given' = {} /\ excused' = FALSE
  /\ UNCHANGED <<disk, filename>>

\* snprintf
PrintName ==
  /\ finding = "print" /\ finding' = "test"
  /\ filename' = <<format, number>>
  /\ UNCHANGED <<disk, given, format, number, excused>>

\* i <= 999, after i++
MoreNumbers_Bug1 == number + 1 < LAST
MoreNumbers == number + 1 <= LAST

\* f_exists finds a file with the name that is in the buffer by now.  After the last
\* number that name is taken all the same.
NameIsUsed ==
  /\ finding = "test" /\ filename \in disk
  /\ finding' = IF MoreNumbers THEN "print" ELSE "copy"
  /\ number' = IF MoreNumbers THEN number + 1 ELSE number
  /\ excused' = (excused \/ number = LAST)
  /\ UNCHANGED <<disk, filename, given, format>>

\* The file cannot be opened: there is none, or any other error of f_open.
NameIsFree(error) ==
  /\ finding = "test" /\ (error \/ filename \notin disk)
  /\ finding' = "copy"
  /\ excused' = (excused \/ filename \in disk)
  /\ UNCHANGED <<disk, filename, given, format, number>>

\* amx_SetString reads the buffer byte by byte, first its length and then each byte.
CopyStart ==
  /\ finding = "copy" /\ finding' = "copying"
  /\ given' = {filename}
  /\ excused' = (excused \/ filename[1] # format)
  /\ UNCHANGED <<disk, filename, format, number>>

\* If a screenshot has changed the buffer meanwhile, the array has bytes of both names:
\* any name, which nobody has tested.
CopyRest ==
  /\ finding = "copying" /\ finding' = "no"
  /\ \/ given = {filename} /\ UNCHANGED <<given, excused>>
     \/ /\ given # {filename} /\ excused' = TRUE
        /\ \E name \in FileName : given' = {name}
  /\ UNCHANGED <<disk, filename, format, number>>

\* The program creates the file, with FA_CREATE_ALWAYS.
CreateFile ==
  /\ finding = "no" /\ given # {}
  /\ disk' = disk \union given /\ given' = {}
  /\ UNCHANGED <<filename, finding, format, number, excused>>

\* TimerTick, BUTTON3 and BUTTON4: the name select_filename finds for the interrupt,
\* in one piece, is left in the buffer; write_bitmap may fail before or after it has
\* created the file.
FirstFree(error) ==
  {n \in Numbers : /\ \A k \in 0 .. n - 1 : <<SSHOT, k>> \in disk
                   /\ n = LAST \/ error \/ <<SSHOT, n>> \notin disk}

ScreenShot(error) ==
  /\ \E n \in FirstFree(error) : filename' = <<SSHOT, n>>
  /\ disk' \in {disk \union {filename'}} \union (IF error THEN {disk} ELSE {})
  /\ UNCHANGED <<given, finding, format, number, excused>>

\* Over USB.  Nothing keeps the host from creating the very file whose name has just been
\* found unused.
RemoveOverUSB(name) ==
  /\ name \in disk /\ disk' = disk \ {name}
  /\ UNCHANGED <<filename, given, finding, format, number, excused>>

Found(name) ==
  name \in given \/ (finding \in {"copy", "copying"} /\ name = filename)

CreateOverUSB(name) ==
  /\ name \notin disk /\ disk' = disk \union {name}
  /\ excused' = (excused \/ Found(name))
  /\ UNCHANGED <<filename, given, finding, format, number>>

-----------------------------------------------------------------------------
(* Properties *)

NamesTypeOK ==
  /\ disk \subseteq FileName /\ filename \in FileName /\ given \subseteq FileName
  /\ finding \in {"no", "print", "test", "copy", "copying"}
  /\ format \in Formats \union {SSHOT} /\ number \in Numbers /\ excused \in BOOLEAN

\* A program that creates the file with the name it was given overwrites none, wherever
\* screenshots change the shared buffer while the name is looked for, and however files come
\* and go (ds203_io.c:39-48; "Select an unused filename", file.inc:134).  Excused are
\* the cases in which the code does give a used name: the last number is used too; an
\* f_open has failed for another reason; the name is the one a screenshot has left in the
\* buffer, or a mixture with it; the USB host creates that file after it was looked for.
NothingIsOverwritten ==
  [][ CreateFile => excused \/ given \intersect disk = {} ]_nameVars
=============================================================================
