--------------------------- MODULE SessionProofs ---------------------------
(***************************************************************************)
(* Proofs about a session and its parts: the table of files (Files), names *)
(* (FileNames), memory, FPGA and pins (Loader), and what one program       *)
(* leaves to the next (Session).                                           *)
(*                                                                         *)
(* FilesInv is inductive: to know that a new handle is not one the program *)
(* already has, one needs that the entries of the handles in use are not   *)
(* free, and for that that no two handles share an entry when one of them  *)
(* is closed.  TableInv is what is left without any supposition about what *)
(* programs do with handles.                                               *)
(***************************************************************************)
EXTENDS Session, TLAPS

\* Between programs there are no handles.
NoneLeft == ~running => \A v \in Variables : held[v] = NoHandle

FilesInv ==
  /\ TypeOK
  /\ NoneLeft
  /\ HandlesAreDistinct
  /\ NoEntryLost
  /\ FirstErrorKept

\* What the entry of a handle holds, as the invariant has it.
LEMMA HandleFacts ==
  ASSUME FilesInv, NEW v \in Variables, Held(v)
  PROVE  /\ held[v] \in Handle
         /\ held[v].entry \in Entries
         /\ files[held[v].entry] \in File
         /\ files[held[v].entry].valid = held[v].opened
         /\ running
<1>1. held[v] \in Handle
  BY DEF FilesInv, TypeOK, Held
<1>2. held[v].entry \in Entries
  BY <1>1 DEF Handle
<1>3. files[held[v].entry] \in File
  BY <1>2 DEF FilesInv, TypeOK
<1>4. held[v].opened => files[held[v].entry].valid
  <2>1. running
    BY DEF Held
  <2> QED
    BY <1>1, <1>2, <2>1 DEF FilesInv, NoEntryLost
<1>5. files[held[v].entry].valid => held[v].opened
  <2> SUFFICES ASSUME files[held[v].entry].valid
               PROVE  held[v].opened
    OBVIOUS
  <2>1. running
    BY DEF Held
  <2>2. PICK w \in Variables : Held(w) /\ held[w].opened /\ held[w].entry = held[v].entry
    BY <1>2, <2>1 DEF FilesInv, NoEntryLost
  <2>3. w = v
    BY <2>2 DEF FilesInv, HandlesAreDistinct
  <2> QED
    BY <2>2, <2>3
<1>6. held[v].opened \in BOOLEAN /\ files[held[v].entry].valid \in BOOLEAN
  BY <1>1, <1>3 DEF Handle, File
<1> QED
  BY <1>1, <1>2, <1>3, <1>4, <1>5, <1>6 DEF Held

\* The value SETERROR leaves is a status.
LEMMA FirstErrorType ==
  ASSUME NEW e \in Status, NEW s \in Status
  PROVE  FirstError(e, s) \in Status
BY DEF FirstError

\* What a call may return is a status.
LEMMA OutcomesType ==
  ASSUME FilesAssumption, NEW i \in Entries
  PROVE  Outcomes(i) \subseteq Status
BY DEF FilesAssumption, Outcomes, Status

LEMMA InitInv == FilesAssumption /\ Init => FilesInv
<1> SUFFICES ASSUME FilesAssumption, Init
             PROVE  FilesInv
  OBVIOUS
<1>1. TypeOK
  BY DEF Init, TypeOK, File, Status
<1>2. \A v \in Variables : ~Held(v)
  BY DEF Init, Held
<1> QED
  BY <1>1, <1>2 DEF Init, FilesInv, NoneLeft, HandlesAreDistinct, NoEntryLost, FirstErrorKept

LEMMA InitFilesKeepsInv ==
  ASSUME FilesAssumption, FilesInv, InitFiles
  PROVE  FilesInv'
<1>1. TypeOK'
  <2>1. \A i \in Entries : [files[i] EXCEPT !.valid = FALSE] \in File
    BY DEF FilesInv, TypeOK, File
  <2> QED
    BY <2>1 DEF FilesInv, TypeOK, InitFiles
<1>2. \A v \in Variables : ~Held(v)'
  BY DEF FilesInv, NoneLeft, InitFiles, Held
<1>3. \A i \in Entries : files'[i].valid = FALSE
  <2>1. \A i \in Entries : files[i] \in File
    BY DEF FilesInv, TypeOK
  <2>2. \A i \in Entries : files'[i] = [files[i] EXCEPT !.valid = FALSE]
    BY DEF InitFiles
  <2> QED
    BY <2>1, <2>2 DEF File
<1> QED
  BY <1>1, <1>2, <1>3
     DEF InitFiles, FilesInv, NoneLeft, HandlesAreDistinct, NoEntryLost, FirstErrorKept

LEMMA CleanUpKeepsInv ==
  ASSUME FilesAssumption, FilesInv, CleanUp
  PROVE  FilesInv'
<1>1. TypeOK'
  <2>1. PICK closed \in SUBSET Entries :
          files' = [i \in Entries |->
                      IF files[i].valid
                        THEN [files[i] EXCEPT !.valid = FALSE,
                                              !.open  = @ /\ i \notin closed]
                        ELSE files[i]]
    BY DEF CleanUp
  <2>2. \A i \in Entries : files[i] \in File
    BY DEF FilesInv, TypeOK
  <2>3. \A i \in Entries :
          [files[i] EXCEPT !.valid = FALSE, !.open = @ /\ i \notin closed] \in File
    BY <2>2 DEF File
  <2>4. files' \in [Entries -> File]
    BY <2>1, <2>2, <2>3
  <2> QED
    BY <2>4 DEF CleanUp, TypeOK
<1>2. \A v \in Variables : ~Held(v)'
  BY DEF CleanUp, Held
<1> QED
  BY <1>1, <1>2
     DEF CleanUp, FilesInv, NoneLeft, HandlesAreDistinct, NoEntryLost, FirstErrorKept

LEMMA OpenKeepsInv ==
  ASSUME FilesAssumption, ~KEEPS_FAILED, FilesInv, NEW v \in Variables, Open(v)
  PROVE  FilesInv'
<1>1. PICK i \in FreeEntries, status \in Status :
        /\ files' = [files EXCEPT ![i] = [valid |-> status = FR_OK, error |-> status,
                                          open |-> status = FR_OK]]
        /\ held' = [held EXCEPT ![v] = [entry |-> i, opened |-> status = FR_OK,
                                        first |-> status]]
  BY DEF Open
<1>2. i \in Entries /\ ~files[i].valid
  BY DEF FreeEntries
<1>3. running /\ running' = running /\ ~Held(v)
  BY DEF Open
<1>4. \A w \in Variables : Held(w) => held[w].opened /\ held[w].entry # i
  <2>1. \A w \in Variables : Held(w) => held[w].opened
    BY DEF Open, MayOpen
  <2> QED
    BY <2>1, <1>2, HandleFacts
<1> DEFINE new == [entry |-> i, opened |-> status = FR_OK,
                   first |-> status]
           entry == [valid |-> status = FR_OK, error |-> status, open |-> status = FR_OK]
<1>5. held'[v] = new /\ \A w \in Variables : w # v => held'[w] = held[w]
  BY <1>1 DEF FilesInv, TypeOK
<1>6. files'[i] = entry /\ \A j \in Entries : j # i => files'[j] = files[j]
  BY <1>1, <1>2 DEF FilesInv, TypeOK
<1>7. new \in Handle /\ entry \in File
  BY <1>2 DEF Handle, File
<1>8. TypeOK'
  BY <1>1, <1>2, <1>3, <1>7 DEF FilesInv, TypeOK
<1>9. /\ new.entry = i /\ new.first = status /\ new.opened = (status = FR_OK)
      /\ entry.error = status /\ entry.valid = (status = FR_OK)
  OBVIOUS
<1>10. Held(v)' /\ new # NoHandle
  <2>1. NoHandle.entry = -1
    BY DEF NoHandle
  <2>2. i # -1
    BY <1>2, FilesAssumption DEF Entries, FilesAssumption
  <2>3. new # NoHandle
    BY <1>9, <2>1, <2>2
  <2> QED
    BY <1>3, <1>5, <2>3 DEF Held
<1> HIDE DEF new, entry
<1>11. \A w \in Variables : w # v => (Held(w)' <=> Held(w))
  BY <1>3, <1>5 DEF Held
<1>12. HandlesAreDistinct'
  BY <1>4, <1>5, <1>9, <1>11 DEF FilesInv, HandlesAreDistinct
<1>13. NoEntryLost'
  <2> SUFFICES ASSUME NEW j \in Entries
               PROVE  files'[j].valid
                        <=> \E w \in Variables : Held(w)' /\ held'[w].opened /\ held'[w].entry = j
    <3>1. \A w \in Variables : Held(w)' => held'[w].entry \in Entries
      BY <1>2, <1>5, <1>9, <1>11, HandleFacts
    <3> QED
      BY <3>1 DEF NoEntryLost
  <2>1. CASE j = i
    BY <2>1, <1>4, <1>5, <1>6, <1>9, <1>10, <1>11
  <2>2. CASE j # i
    <3>1. files[j].valid
            <=> \E w \in Variables : Held(w) /\ held[w].opened /\ held[w].entry = j
      BY <1>3 DEF FilesInv, NoEntryLost
    <3> QED
      BY <2>2, <3>1, <1>3, <1>5, <1>6, <1>9, <1>11
  <2> QED
    BY <2>1, <2>2
<1>14. FirstErrorKept'
  <2> SUFFICES ASSUME NEW w \in Variables, Held(w)'
               PROVE  files'[held'[w].entry].error = held'[w].first
    BY DEF FirstErrorKept
  <2>1. CASE w = v
    BY <2>1, <1>5, <1>6, <1>9
  <2>2. CASE w # v
    BY <2>2, <1>4, <1>5, <1>6, <1>11, HandleFacts DEF FilesInv, FirstErrorKept
  <2> QED
    BY <2>1, <2>2
<1>15. NoneLeft'
  BY <1>3 DEF NoneLeft
<1> QED
  BY <1>8, <1>12, <1>13, <1>14, <1>15 DEF FilesInv

\* f_read, f_write and f_lseek change at most the error of an entry, and of the handle
\* only the ghost.
LEMMA UseKeepsInv ==
  ASSUME FilesAssumption, FilesInv, NEW v \in Variables, Held(v),
         NEW status \in Status, running' = running,
         files' = [files EXCEPT ![held[v].entry].error = FirstError(@, status)],
         held' = [held EXCEPT ![v].first = IF @ = FR_OK THEN status ELSE @]
  PROVE  FilesInv'
<1>1. /\ held[v] \in Handle /\ held[v].entry \in Entries
      /\ files[held[v].entry] \in File
  BY HandleFacts
<1> DEFINE i == held[v].entry
           new == [held[v] EXCEPT !.first = IF @ = FR_OK THEN status ELSE @]
           entry == [files[i] EXCEPT !.error = FirstError(@, status)]
<1>2. held' = [held EXCEPT ![v] = new]
  OBVIOUS
<1>3. files' = [files EXCEPT ![i] = entry]
  OBVIOUS
<1>4. /\ held'[v] = new /\ \A w \in Variables : w # v => held'[w] = held[w]
      /\ files'[i] = entry /\ \A j \in Entries : j # i => files'[j] = files[j]
  BY <1>1, <1>2, <1>3 DEF FilesInv, TypeOK
<1>5. new \in Handle /\ new.entry = i /\ new.opened = held[v].opened
  BY <1>1 DEF Handle
<1>6. entry \in File /\ entry.valid = files[i].valid
  BY <1>1, FirstErrorType DEF File
<1>7. entry.error = new.first
  BY <1>1 DEF FilesInv, FirstErrorKept, FirstError, File, Handle
<1>8. i # -1
  BY <1>1 DEF FilesAssumption, Entries
<1>9. new # NoHandle
  BY <1>5, <1>8 DEF NoHandle
<1>10. TypeOK'
  BY <1>1, <1>2, <1>3, <1>5, <1>6 DEF FilesInv, TypeOK
<1> HIDE DEF new, entry
<1>11. \A w \in Variables :
         /\ Held(w)' <=> Held(w)
         /\ held'[w].entry = held[w].entry /\ held'[w].opened = held[w].opened
  BY <1>4, <1>5, <1>9 DEF Held
<1>12. \A j \in Entries : files'[j].valid = files[j].valid
  BY <1>4, <1>6
<1>13. HandlesAreDistinct'
  BY <1>11 DEF FilesInv, HandlesAreDistinct
<1>14. NoEntryLost'
  BY <1>11, <1>12 DEF FilesInv, NoEntryLost
<1>15. FirstErrorKept'
  <2> SUFFICES ASSUME NEW w \in Variables, Held(w)'
               PROVE  files'[held'[w].entry].error = held'[w].first
    BY DEF FirstErrorKept
  <2>1. CASE w = v
    BY <2>1, <1>4, <1>5, <1>7
  <2>2. CASE w # v
    <3>1. Held(w)
      BY <1>11
    <3>2. held[w].entry # i /\ held[w].entry \in Entries
      BY <2>2, <3>1, HandleFacts DEF FilesInv, HandlesAreDistinct
    <3> QED
      BY <2>2, <3>1, <3>2, <1>4 DEF FilesInv, FirstErrorKept
  <2> QED
    BY <2>1, <2>2
<1>16. NoneLeft'
  BY DEF Held, NoneLeft
<1> QED
  BY <1>10, <1>13, <1>14, <1>15, <1>16 DEF FilesInv

\* A handle is given up and its entry, if it was in use, is free again.
LEMMA GiveUpKeepsInv ==
  ASSUME FilesAssumption, FilesInv, NEW v \in Variables, Held(v), running' = running,
         held' = [held EXCEPT ![v] = NoHandle],
         files' \in [Entries -> File], files'[held[v].entry].valid = FALSE,
         \A j \in Entries : j # held[v].entry => files'[j] = files[j]
  PROVE  FilesInv'
<1>1. held'[v] = NoHandle /\ \A w \in Variables : w # v => held'[w] = held[w]
  BY DEF FilesInv, TypeOK
<1>2. TypeOK'
  BY DEF FilesInv, TypeOK
<1>3. ~Held(v)' /\ \A w \in Variables : w # v => (Held(w)' <=> Held(w))
  BY <1>1 DEF Held
<1>4. \A w \in Variables :
        Held(w)' => /\ Held(w) /\ held'[w] = held[w] /\ held[w].entry \in Entries
                    /\ held[w].entry # held[v].entry
  BY <1>1, <1>3, HandleFacts DEF FilesInv, HandlesAreDistinct
<1>5. HandlesAreDistinct'
  BY <1>4 DEF FilesInv, HandlesAreDistinct
<1>6. FirstErrorKept'
  BY <1>4 DEF FilesInv, FirstErrorKept
<1>7. NoEntryLost'
  <2> SUFFICES ASSUME NEW j \in Entries
               PROVE  files'[j].valid
                        <=> \E w \in Variables : Held(w)' /\ held'[w].opened /\ held'[w].entry = j
    BY <1>4 DEF NoEntryLost
  <2>1. CASE j = held[v].entry
    BY <2>1, <1>4
  <2>2. CASE j # held[v].entry
    <3>1. files[j].valid
            <=> \E w \in Variables : Held(w) /\ held[w].opened /\ held[w].entry = j
      BY DEF FilesInv, NoEntryLost, Held
    <3> QED
      BY <2>2, <3>1, <1>1, <1>3, <1>4
  <2> QED
    BY <2>1, <2>2
<1>8. NoneLeft'
  BY DEF Held, NoneLeft
<1> QED
  BY <1>2, <1>5, <1>6, <1>7, <1>8 DEF FilesInv

LEMMA CloseKeepsInv ==
  ASSUME FilesAssumption, FilesInv, NEW v \in Variables, Close(v)
  PROVE  FilesInv'
<1>1. Held(v)
  BY DEF Close
<1>2. held[v].entry \in Entries /\ files[held[v].entry] \in File
  BY <1>1, HandleFacts
<1> DEFINE i == held[v].entry
<1>3. PICK status \in Outcomes(i) :
        files' = [files EXCEPT ![i] = [valid |-> FALSE,
                                       error |-> FirstError(@.error, status),
                                       open  |-> @.open /\ status # FR_OK]]
  BY DEF Close, ValidAfterClose
<1>4. status \in Status
  BY <1>2, <1>3, OutcomesType
<1>5. [valid |-> FALSE, error |-> FirstError(files[i].error, status),
       open |-> files[i].open /\ status # FR_OK] \in File
  BY <1>2, <1>4, FirstErrorType DEF File
<1>6. /\ files' \in [Entries -> File] /\ files'[i].valid = FALSE
      /\ \A j \in Entries : j # i => files'[j] = files[j]
  BY <1>2, <1>3, <1>5 DEF FilesInv, TypeOK
<1>7. held' = [held EXCEPT ![v] = NoHandle] /\ running' = running
  BY DEF Close
<1> QED
  BY <1>1, <1>6, <1>7, GiveUpKeepsInv

LEMMA NextKeepsInv ==
  FilesAssumption /\ ~KEEPS_FAILED /\ FilesInv /\ [Next]_vars => FilesInv'
<1> SUFFICES ASSUME FilesAssumption, ~KEEPS_FAILED, FilesInv, [Next]_vars
             PROVE  FilesInv'
  OBVIOUS
<1>1. CASE InitFiles
  BY <1>1, InitFilesKeepsInv
<1>2. CASE CleanUp
  BY <1>2, CleanUpKeepsInv
<1>3. ASSUME NEW v \in Variables, OpenRefused(v)
      PROVE  FilesInv'
  BY <1>3 DEF OpenRefused, vars, FilesInv, TypeOK, NoneLeft, HandlesAreDistinct,
              NoEntryLost, FirstErrorKept, Held
<1>4. ASSUME NEW v \in Variables, Open(v)
      PROVE  FilesInv'
  BY <1>4, OpenKeepsInv
<1>5. ASSUME NEW v \in Variables, Access(v)
      PROVE  FilesInv'
  <2>1. PICK status \in Outcomes(held[v].entry) :
          /\ files' = [files EXCEPT ![held[v].entry].error = FirstError(@, status)]
          /\ held' = [held EXCEPT ![v].first = IF @ = FR_OK THEN status ELSE @]
    BY <1>5 DEF Access
  <2>2. Held(v) /\ running' = running
    BY <1>5 DEF Access
  <2>3. status \in Status
    BY <2>2, HandleFacts, OutcomesType
  <2> QED
    BY <2>1, <2>2, <2>3, UseKeepsInv
<1>6. ASSUME NEW v \in Variables, Truncate(v)
      PROVE  FilesInv'
  BY <1>6 DEF Truncate, vars, FilesInv, TypeOK, NoneLeft, HandlesAreDistinct,
              NoEntryLost, FirstErrorKept, Held
<1>7. ASSUME NEW v \in Variables, Close(v)
      PROVE  FilesInv'
  BY <1>7, CloseKeepsInv
<1>8. ASSUME NEW v \in Variables, Forget(v)
      PROVE  FilesInv'
  <2>1. Held(v) /\ ~held[v].opened /\ held' = [held EXCEPT ![v] = NoHandle]
        /\ files' = files /\ running' = running
    BY <1>8 DEF Forget
  <2>2. files[held[v].entry].valid = FALSE /\ files \in [Entries -> File]
    BY <2>1, HandleFacts DEF FilesInv, TypeOK, File
  <2> QED
    BY <2>1, <2>2, GiveUpKeepsInv
<1>9. CASE UNCHANGED vars
  BY <1>9 DEF vars, FilesInv, TypeOK, NoneLeft, HandlesAreDistinct, NoEntryLost,
               FirstErrorKept, Held
<1> QED
  BY <1>1, <1>2, <1>3, <1>4, <1>5, <1>6, <1>7, <1>8, <1>9 DEF Next, Calls

LEMMA Invariance == ASSUME ~KEEPS_FAILED PROVE Spec => []FilesInv
<1>1. Init => FilesInv
  BY FilesAssumption, InitInv
<1>2. FilesInv /\ [Next]_vars => FilesInv'
  BY FilesAssumption, NextKeepsInv
<1> QED
  BY <1>1, <1>2, PTL DEF Spec

-----------------------------------------------------------------------------
(* The table alone, whatever handles a program keeps *)

\* Between programs no entry is in use either.
NoneUsed == ~running => FreeEntries = Entries

TableInv == TypeOK /\ NoneLeft /\ NoneUsed

LEMMA HandleTypes ==
  ASSUME TypeOK, NEW v \in Variables, Held(v)
  PROVE  /\ held[v] \in Handle /\ held[v].entry \in Entries
         /\ files[held[v].entry] \in File
         /\ running
<1>1. held[v] \in Handle
  BY DEF TypeOK, Held
<1> QED
  BY <1>1 DEF TypeOK, Handle, Held

LEMMA TableInit == FilesAssumption /\ Init => TableInv
<1> SUFFICES ASSUME FilesAssumption, Init
             PROVE  TableInv
  OBVIOUS
<1>1. TypeOK
  BY DEF Init, TypeOK, File, Status
<1>2. \A i \in Entries : ~files[i].valid
  BY DEF Init
<1> QED
  BY <1>1, <1>2 DEF Init, TableInv, NoneLeft, NoneUsed, FreeEntries

LEMMA TableStep ==
  ASSUME FilesAssumption, TableInv, [Next]_vars
  PROVE  TableInv'
<1>1. \A i \in Entries : files[i] \in File
  BY DEF TableInv, TypeOK
<1>2. CASE InitFiles
  <2>1. \A i \in Entries : [files[i] EXCEPT !.valid = FALSE] \in File
    BY <1>1 DEF File
  <2> QED
    BY <1>2, <2>1 DEF InitFiles, TableInv, TypeOK, NoneLeft, NoneUsed
<1>3. CASE CleanUp
  <2>1. PICK closed \in SUBSET Entries :
          files' = [i \in Entries |->
                      IF files[i].valid
                        THEN [files[i] EXCEPT !.valid = FALSE,
                                              !.open  = @ /\ i \notin closed]
                        ELSE files[i]]
    BY <1>3 DEF CleanUp
  <2>2. \A i \in Entries :
          LET new == [files[i] EXCEPT !.valid = FALSE, !.open = @ /\ i \notin closed]
          IN  new \in File /\ new.valid = FALSE
    BY <1>1 DEF File
  <2>3. files' \in [Entries -> File] /\ \A i \in Entries : ~files'[i].valid
    BY <1>1, <2>1, <2>2
  <2> QED
    BY <1>3, <2>3 DEF CleanUp, TableInv, TypeOK, NoneLeft, NoneUsed, FreeEntries
<1>4. ASSUME NEW v \in Variables, Calls(v)
      PROVE  TypeOK' /\ running /\ running'
  <2>1. CASE OpenRefused(v) \/ Truncate(v)
    BY <2>1 DEF OpenRefused, Truncate, Held, vars, TableInv, TypeOK
  <2>2. CASE Open(v)
    <3>1. PICK i \in FreeEntries, status \in Status :
            /\ files' = [files EXCEPT ![i] = [valid |-> status = FR_OK, error |-> status,
                                              open  |-> status = FR_OK]]
            /\ held' = [held EXCEPT ![v] = [entry |-> i, opened |-> status = FR_OK,
                                            first |-> status]]
      BY <2>2 DEF Open
    <3>2. i \in Entries
      BY <3>1 DEF FreeEntries
    <3>3. files' \in [Entries -> File]
      BY <3>1, <3>2 DEF TableInv, TypeOK, File
    <3>4. held' \in [Variables -> Handle \union {NoHandle}]
      BY <3>1, <3>2 DEF TableInv, TypeOK, Handle
    <3> QED
      BY <2>2, <3>3, <3>4 DEF Open, TypeOK
  <2>3. CASE Access(v)
    <3>1. Held(v) /\ held[v] \in Handle /\ held[v].entry \in Entries
          /\ files[held[v].entry] \in File
      BY <2>3, HandleTypes DEF Access, TableInv
    <3>2. PICK status \in Outcomes(held[v].entry) :
            /\ files' = [files EXCEPT ![held[v].entry].error = FirstError(@, status)]
            /\ held' = [held EXCEPT ![v].first = IF @ = FR_OK THEN status ELSE @]
      BY <2>3 DEF Access
    <3>3. status \in Status
      BY <3>1, <3>2, OutcomesType
    <3>4. files' \in [Entries -> File]
      BY <3>1, <3>2, <3>3, FirstErrorType DEF TableInv, TypeOK, File
    <3>5. held' \in [Variables -> Handle \union {NoHandle}]
      BY <3>1, <3>2, <3>3 DEF TableInv, TypeOK, Handle
    <3> QED
      BY <2>3, <3>1, <3>4, <3>5 DEF Access, Held, TableInv, TypeOK
  <2>4. CASE Close(v)
    <3>1. Held(v) /\ held[v].entry \in Entries /\ files[held[v].entry] \in File
      BY <2>4, HandleTypes DEF Close, TableInv
    <3>2. PICK status \in Outcomes(held[v].entry) :
            files' = [files EXCEPT ![held[v].entry] =
                        [valid |-> FALSE, error |-> FirstError(@.error, status),
                         open  |-> @.open /\ status # FR_OK]]
      BY <2>4 DEF Close, ValidAfterClose
    <3>3. status \in Status
      BY <3>1, <3>2, OutcomesType
    <3>4. files' \in [Entries -> File]
      BY <3>1, <3>2, <3>3, FirstErrorType DEF TableInv, TypeOK, File
    <3> QED
      BY <2>4, <3>1, <3>4 DEF Close, Held, TableInv, TypeOK
  <2>5. CASE Forget(v)
    BY <2>5 DEF Forget, Held, TableInv, TypeOK
  <2> QED
    BY <1>4, <2>1, <2>2, <2>3, <2>4, <2>5 DEF Calls
<1>5. CASE UNCHANGED vars
  BY <1>5 DEF vars, TableInv, TypeOK, NoneLeft, NoneUsed, FreeEntries
<1>6. TypeOK' /\ running' => TableInv'
  BY DEF TableInv, NoneLeft, NoneUsed
<1> QED
  BY <1>2, <1>3, <1>4, <1>5, <1>6 DEF Next

LEMMA TableInvariance == Spec => []TableInv
<1>1. Init => TableInv
  BY FilesAssumption, TableInit
<1>2. TableInv /\ [Next]_vars => TableInv'
  BY FilesAssumption, TableStep
<1> QED
  BY <1>1, <1>2, PTL DEF Spec

\* The table of files and the handles keep their types, also for programs that hold on
\* to handles of failed opens: every handle is the address of an entry of the table.
THEOREM FilesTypeCorrect == Spec => []TypeOK
<1>1. TableInv => TypeOK
  BY DEF TableInv
<1> QED
  BY <1>1, TableInvariance, PTL

-----------------------------------------------------------------------------
(* What careful programs may rely on *)

\* f_error and f_close report the first recorded error (amx_file.c:47-60), as long as
\* programs drop handles of failed opens.
THEOREM FirstErrorIsReported == ASSUME ~KEEPS_FAILED PROVE Spec => []FirstErrorKept
<1>1. FilesInv => FirstErrorKept
  BY DEF FilesInv
<1> QED
  BY <1>1, Invariance, PTL

\* No two handles of such a program are the same file (amx_file.c:20-40).
THEOREM HandlesNeverAlias == ASSUME ~KEEPS_FAILED PROVE Spec => []HandlesAreDistinct
<1>1. FilesInv => HandlesAreDistinct
  BY DEF FilesInv
<1> QED
  BY <1>1, Invariance, PTL

\* The entries in use are those of the open files (amx_file.c:38, 57).
THEOREM EntriesAreNotLost == ASSUME ~KEEPS_FAILED PROVE Spec => []NoEntryLost
<1>1. FilesInv => NoEntryLost
  BY DEF FilesInv
<1> QED
  BY <1>1, Invariance, PTL

-----------------------------------------------------------------------------
(* Names *)

\* The name tested last, and the name in the program's array, are unused or excused;
\* only the interrupt's format can be in use meanwhile.
NamesInv ==
  /\ NamesTypeOK
  /\ finding # "no" => format \in Formats
  /\ finding = "copy" => excused \/ filename[1] # format \/ filename \notin disk
  /\ ~excused => \A name \in given : name[1] \in Formats /\ name \notin disk

LEMMA NamesInitInv == FileNamesAssumption /\ NamesInit => NamesInv
<1> SUFFICES ASSUME FileNamesAssumption, NamesInit PROVE NamesInv
  OBVIOUS
<1>1. 0 \in Numbers
  BY DEF FileNamesAssumption, Numbers
<1>2. NamesTypeOK
  BY <1>1 DEF NamesInit, NamesTypeOK, FileName
<1> QED
  BY <1>2 DEF NamesInit, NamesInv

LEMMA MoreNumbersType ==
  ASSUME FileNamesAssumption, number \in Numbers
  PROVE  /\ MoreNumbers => number + 1 \in Numbers
         /\ ~MoreNumbers => number = LAST
BY DEF FileNamesAssumption, Numbers, MoreNumbers

LEMMA ScreenShotKeepsInv ==
  ASSUME FileNamesAssumption, NamesInv, NEW error \in BOOLEAN, ScreenShot(error)
  PROVE  NamesInv'
<1>1. PICK n \in Numbers : filename' = <<SSHOT, n>>
  BY DEF ScreenShot, FirstFree
<1>2. /\ filename' \in FileName /\ filename'[1] = SSHOT
      /\ SSHOT \notin Formats
  BY <1>1 DEF FileName, FileNamesAssumption
<1>3. disk' \subseteq disk \union {filename'}
  BY DEF ScreenShot
<1>4. UNCHANGED <<given, finding, format, number, excused>>
  BY DEF ScreenShot
<1>5. NamesTypeOK'
  BY <1>2, <1>3, <1>4 DEF NamesInv, NamesTypeOK
<1>6. (finding = "copy" => excused \/ filename[1] # format \/ filename \notin disk)'
  BY <1>2, <1>4 DEF NamesInv
<1>7. (~excused => \A name \in given : name[1] \in Formats /\ name \notin disk)'
  BY <1>2, <1>3, <1>4 DEF NamesInv
<1> QED
  BY <1>4, <1>5, <1>6, <1>7 DEF NamesInv

LEMMA NamesStep ==
  ASSUME FileNamesAssumption, NamesInv, [FSNext]_<<vars, nameVars>>
  PROVE  NamesInv'
<1>1. CASE UNCHANGED nameVars
  BY <1>1 DEF nameVars, NamesInv, NamesTypeOK
<1>2. ASSUME NEW f \in Formats, SelectFilename(f)
      PROVE  NamesInv'
  <2>1. 0 \in Numbers
    BY DEF FileNamesAssumption, Numbers
  <2> QED
    BY <1>2, <2>1 DEF SelectFilename, NamesInv, NamesTypeOK
<1>3. CASE PrintName
  <2>1. <<format, number>> \in FileName
    BY <1>3 DEF PrintName, NamesInv, NamesTypeOK, FileName
  <2> QED
    BY <1>3, <2>1 DEF PrintName, NamesInv, NamesTypeOK
<1>4. CASE NameIsUsed
  <2>1. NamesTypeOK'
    BY <1>4, MoreNumbersType DEF NameIsUsed, NamesInv, NamesTypeOK
  <2>2. finding' = "copy" => excused'
    BY <1>4, MoreNumbersType DEF NameIsUsed, NamesInv, NamesTypeOK
  <2>3. /\ finding # "no" /\ ~excused' => ~excused
        /\ UNCHANGED <<disk, filename, given, format>>
    BY <1>4 DEF NameIsUsed
  <2> QED
    BY <2>1, <2>2, <2>3, <1>4 DEF NameIsUsed, NamesInv
<1>5. ASSUME NEW error \in BOOLEAN, NameIsFree(error)
      PROVE  NamesInv'
  <2>1. NamesTypeOK'
    BY <1>5 DEF NameIsFree, NamesInv, NamesTypeOK
  <2>2. excused' \/ filename \notin disk
    BY <1>5 DEF NameIsFree
  <2> QED
    BY <2>1, <2>2, <1>5 DEF NameIsFree, NamesInv
<1>6. CASE CopyStart
  <2>1. NamesTypeOK'
    BY <1>6 DEF CopyStart, NamesInv, NamesTypeOK
  <2>2. ~excused' => ~excused /\ filename[1] = format /\ filename \notin disk
    BY <1>6 DEF CopyStart, NamesInv
  <2> QED
    BY <2>1, <2>2, <1>6 DEF CopyStart, NamesInv
<1>11. CASE CopyRest
  BY <1>11 DEF CopyRest, NamesInv, NamesTypeOK
<1>7. CASE CreateFile
  BY <1>7 DEF CreateFile, NamesInv, NamesTypeOK
<1>8. ASSUME NEW error \in BOOLEAN, ScreenShot(error)
      PROVE  NamesInv'
  BY <1>8, ScreenShotKeepsInv
<1>9. ASSUME NEW name \in FileName, RemoveOverUSB(name)
      PROVE  NamesInv'
  BY <1>9 DEF RemoveOverUSB, NamesInv, NamesTypeOK
<1>12. ASSUME NEW name \in FileName, CreateOverUSB(name)
      PROVE  NamesInv'
  BY <1>12 DEF CreateOverUSB, Found, NamesInv, NamesTypeOK
<1>10. CASE ForgetName
  BY <1>10 DEF ForgetName, NamesInv, NamesTypeOK
<1> QED
  BY <1>1, <1>2, <1>3, <1>4, <1>5, <1>6, <1>7, <1>8, <1>9, <1>10,
     <1>11, <1>12
     DEF FSNext, ProgramStarts, ProgramEnds, FileCalls, DiskChanges, OpenGiven

LEMMA NamesInvariance == FSSpec => []NamesInv
<1>1. NamesInit => NamesInv
  BY FileNamesAssumption, NamesInitInv
<1>2. NamesInv /\ [FSNext]_<<vars, nameVars>> => NamesInv'
  BY FileNamesAssumption, NamesStep
<1> QED
  BY <1>1, <1>2, PTL DEF FSSpec, FSInit

\* Names, buffer and counter keep their types: the counter does not pass the last number.
THEOREM NamesAreTyped == FSSpec => []NamesTypeOK
<1>1. NamesInv => NamesTypeOK
  BY DEF NamesInv
<1> QED
  BY <1>1, NamesInvariance, PTL

\* No file is overwritten by a program that creates one with the name it was given, but
\* for the excuses of the property, wherever a screenshot comes in the search and in the
\* copy of the name, and whatever the USB host does (ds203_io.c:39-48).
THEOREM GivenNamesAreUnused == FSSpec => NothingIsOverwritten
<1>1. NamesInv /\ [FSNext]_<<vars, nameVars>>
        => [CreateFile => excused \/ given \intersect disk = {}]_nameVars
  BY DEF NamesInv
<1> QED
  BY <1>1, NamesInvariance, PTL DEF FSSpec, FSInit, NothingIsOverwritten

\* Looking for names and taking screenshots do not touch the table of files: the file
\* system as a whole does what Files says.
THEOREM FileSystemKeepsTable == FSSpec => Spec
<1>1. [FSNext]_<<vars, nameVars>> => [Next]_vars
  BY DEF FSNext, ProgramStarts, ProgramEnds, FileCalls, DiskChanges, OpenGiven, Next, Calls,
         vars
<1> QED
  BY <1>1, PTL DEF FSSpec, FSInit, Spec
-----------------------------------------------------------------------------
(* Memory, FPGA and pins *)

InUse == {"init", "restore", "ports", "register", "run", "configure"}

\* From the moment the file is read the fields of the AMX and the pool are those of the
\* header that was read.
LaidOut ==
  /\ pc # "select" => hdr \in Headers
  /\ pc \in InUse =>
       IF hdr.overlay
         THEN /\ data = hdr.cod
              /\ pool = [base |-> static_size(hdr), size |-> MEMORY - static_size(hdr)]
         ELSE data = hdr.dat /\ hdr.stp <= MEMORY

\* The flag tells whether the FPGA may have another image than the original one, also
\* while it is configured and after that has failed; the pins are inputs meanwhile.  Where
\* the flag is clear and the original image is not there, it could not be loaded.
FlagIsTrue ==
  /\ pc \notin {"restore", "configure"} /\ ~have_custom_image
       => image = IF unloaded THEN Blank ELSE Original
  /\ pc \in {"restore", "ports", "register"} => ~have_custom_image
  /\ pc \in {"restore", "configure"} =>
       image = Blank /\ (have_custom_image <=> source # Original)
  /\ pc = "configure" => outputs = {}
  /\ pc = "register" => outputs = default_pins

LoaderInv == LoaderTypeOK /\ LaidOut /\ FlagIsTrue /\ NoPinConflict

LEMMA HeaderFields ==
  ASSUME NEW h \in Headers
  PROVE  /\ h.overlay \in BOOLEAN /\ h.cod \in Nat /\ h.dat \in Nat /\ h.stp \in Nat
         /\ 0 < h.cod /\ h.cod <= h.dat /\ h.dat < h.stp
         /\ MEMORY \in Nat /\ static_size(h) \in Nat
BY LoaderAssumption DEF LoaderAssumption, static_size

LEMMA LoaderInitInv == LoaderInit => LoaderInv
<1> SUFFICES ASSUME LoaderInit
             PROVE  LoaderInv
  OBVIOUS
<1>1. LoaderTypeOK
  <2>1. outputs \subseteq Pins
    BY LoaderAssumption DEF LoaderAssumption, LoaderInit
  <2>2. pool.base \in Nat /\ pool.size \in Int /\ data \in Nat
    BY DEF LoaderInit, NoPool
  <2> QED
    BY <2>1, <2>2 DEF LoaderInit, LoaderTypeOK
<1>2. LaidOut /\ FlagIsTrue
  BY DEF LoaderInit, LaidOut, FlagIsTrue, InUse
<1>3. NoPinConflict
  BY LoaderAssumption DEF LoaderAssumption, LoaderInit, NoPinConflict
<1> QED
  BY <1>1, <1>2, <1>3 DEF LoaderInv

\* loadprogram does its part in the memory first.
LEMMA LoadingKeepsInv ==
  ASSUME LoaderInv, Loading
  PROVE  LoaderInv'
<1> USE DEF LoaderInv, memory
<1>1. ASSUME NEW h \in Headers, OpenProgram(h)
      PROVE  LoaderInv'
  BY <1>1 DEF OpenProgram, fpga, LoaderTypeOK, LaidOut, FlagIsTrue, NoPinConflict, InUse
<1>2. CASE OpenFails \/ LoadFails
  BY <1>2 DEF OpenFails, LoadFails, fpga, LoaderTypeOK, LaidOut, FlagIsTrue, NoPinConflict,
              InUse
<1>3. CASE DivideForOverlays
  <2>1. hdr \in Headers /\ hdr' = hdr /\ pc = "divide" /\ pc' = "init" /\ hdr.overlay
    BY <1>3 DEF DivideForOverlays, LaidOut
  <2>2. hdr.cod \in Nat /\ static_size(hdr) \in Nat /\ MEMORY - static_size(hdr) \in Int
    BY <2>1, HeaderFields
  <2>3. LoaderTypeOK'
    BY <1>3, <2>2 DEF DivideForOverlays, fpga, LoaderTypeOK
  <2>4. LaidOut'
    BY <1>3, <2>1 DEF DivideForOverlays, LaidOut, static_size
  <2>5. FlagIsTrue' /\ NoPinConflict'
    BY <1>3, <2>1 DEF DivideForOverlays, fpga, FlagIsTrue, NoPinConflict
  <2> QED
    BY <2>3, <2>4, <2>5
<1>4. CASE ReadWhole
  <2>1. hdr \in Headers /\ hdr' = hdr /\ pc = "divide" /\ pc' = "init" /\ ~hdr.overlay
    BY <1>4 DEF ReadWhole, LaidOut
  <2>2. hdr.dat \in Nat /\ hdr.stp \in Nat /\ MEMORY \in Nat
    BY <2>1, HeaderFields
  <2>3. LoaderTypeOK'
    BY <1>4, <2>2 DEF ReadWhole, fpga, LoaderTypeOK
  <2>4. LaidOut'
    BY <1>4, <2>1, <2>2 DEF ReadWhole, TooLarge, LaidOut
  <2>5. FlagIsTrue' /\ NoPinConflict'
    BY <1>4, <2>1 DEF ReadWhole, fpga, FlagIsTrue, NoPinConflict
  <2> QED
    BY <2>3, <2>4, <2>5
<1>5. CASE Restore
  BY <1>5, LoaderAssumption
     DEF LoaderAssumption, Restore, MustRestore, LoaderTypeOK, LaidOut, FlagIsTrue,
         NoPinConflict, InUse
<1>6. ASSUME NEW done \in BOOLEAN, Restored(done)
      PROVE  LoaderInv'
  BY <1>6 DEF Restored, Configure, LoaderTypeOK, LaidOut, FlagIsTrue, NoPinConflict, InUse
<1>7. CASE DefaultPorts
  <2>1. /\ image = IF unloaded THEN Blank ELSE Original
        /\ ~have_custom_image /\ pc \in {"init", "ports"}
    BY <1>7 DEF DefaultPorts, MustRestore, FlagIsTrue
  <2>2. NoPinConflict'
    BY <1>7, <2>1, LoaderAssumption DEF LoaderAssumption, DefaultPorts, NoPinConflict
  <2>3. LoaderTypeOK'
    BY <1>7, LoaderAssumption DEF LoaderAssumption, DefaultPorts, LoaderTypeOK
  <2>4. LaidOut' /\ FlagIsTrue'
    BY <1>7, <2>1 DEF DefaultPorts, LaidOut, FlagIsTrue, InUse
  <2> QED
    BY <2>2, <2>3, <2>4
<1>8. CASE Register(FALSE)
  BY <1>8 DEF Register, fpga, LoaderTypeOK, LaidOut, FlagIsTrue, NoPinConflict, InUse
<1> QED
  BY <1>1, <1>2, <1>3, <1>4, <1>5, <1>6, <1>7, <1>8 DEF Loading

\* A program changes image and pins, never its memory's layout.
LEMMA FPGACallsKeepInv ==
  ASSUME LoaderInv, FPGACalls
  PROVE  LoaderInv'
<1> USE DEF LoaderInv, memory
<1>1. CASE ImageMissing
  BY <1>1 DEF ImageMissing, InputsFirst, LoaderTypeOK, LaidOut, FlagIsTrue, NoPinConflict,
              InUse
<1>2. ASSUME NEW done \in BOOLEAN, Configured(done)
      PROVE  LoaderInv'
  <2>1. /\ pc = "configure" /\ pc' = "run" /\ outputs = {}
        /\ have_custom_image <=> source # Original
        /\ UNCHANGED <<hdr, data, pool, have_custom_image, source>>
    BY <1>2 DEF Configured, FlagIsTrue
  <2>2. CASE source = Original
    <3>1. /\ image' = IF done THEN Original ELSE Blank
          /\ unloaded' = ~done /\ outputs' = default_pins
      BY <1>2, <2>2 DEF Configured, Configure
    <3> QED
      BY <2>1, <2>2, <3>1, LoaderAssumption
         DEF LoaderAssumption, LoaderTypeOK, LaidOut, FlagIsTrue, NoPinConflict, InUse
  <2>3. CASE source # Original
    <3>1. image' \in {source, Blank} /\ unloaded' = unloaded /\ outputs' = {}
      BY <1>2, <2>1, <2>3 DEF Configured, Configure
    <3> QED
      BY <2>1, <2>3, <3>1 DEF LoaderTypeOK, LaidOut, FlagIsTrue, NoPinConflict, InUse
  <2> QED
    BY <2>2, <2>3
<1>3. ASSUME NEW pins \in SUBSET Pins, ConfigOutputs(pins)
      PROVE  LoaderInv'
  BY <1>3 DEF ConfigOutputs, LoaderTypeOK, LaidOut, FlagIsTrue, NoPinConflict, InUse
<1>4. ASSUME NEW file \in Images \union {Original}, LoadImage(file)
      PROVE  LoaderInv'
  BY <1>4 DEF LoadImage, InputsFirst, LoaderTypeOK, LaidOut, FlagIsTrue, NoPinConflict, InUse
<1> QED
  BY <1>1, <1>2, <1>3, <1>4 DEF FPGACalls

LEMMA LoaderStep ==
  ASSUME LoaderInv, [LoaderNext]_loaderVars
  PROVE  LoaderInv'
<1>1. CASE Register(TRUE) \/ End
  BY <1>1 DEF Register, End, memory, fpga, LoaderInv, LoaderTypeOK, LaidOut, FlagIsTrue,
              NoPinConflict, InUse
<1>2. CASE UNCHANGED loaderVars
  BY <1>2 DEF loaderVars, memory, fpga, LoaderInv, LoaderTypeOK, LaidOut, FlagIsTrue,
              NoPinConflict
<1> QED
  BY <1>1, <1>2, LoadingKeepsInv, FPGACallsKeepInv DEF LoaderNext

LEMMA LoaderInvariance == LoaderSpec => []LoaderInv
<1>1. LoaderInit => LoaderInv
  BY LoaderInitInv
<1>2. LoaderInv /\ [LoaderNext]_loaderVars => LoaderInv'
  BY LoaderStep
<1> QED
  BY <1>1, <1>2, PTL DEF LoaderSpec

\* The parts of vm_data do not overlap when they are laid out as loadprogram does.
LEMMA LayoutDivides ==
  ASSUME LoaderInv
  PROVE  MemoryIsDivided
<1> SUFFICES ASSUME pc \in {"run", "configure"}, LeavesAPool(hdr)
             PROVE  /\ HeaderPart \union DataPart \union CodePart \subseteq 0 .. MEMORY - 1
                    /\ HeaderPart \intersect DataPart = {}
                    /\ HeaderPart \intersect CodePart = {}
                    /\ DataPart \intersect CodePart = {}
  BY DEF MemoryIsDivided
<1>1. /\ hdr \in Headers
      /\ IF hdr.overlay
           THEN /\ data = hdr.cod
                /\ pool = [base |-> static_size(hdr), size |-> MEMORY - static_size(hdr)]
           ELSE data = hdr.dat /\ hdr.stp <= MEMORY
  BY DEF LoaderInv, LaidOut, InUse
<1>2. /\ hdr.cod \in Nat /\ hdr.dat \in Nat /\ hdr.stp \in Nat /\ MEMORY \in Nat
      /\ 0 < hdr.cod /\ hdr.cod <= hdr.dat /\ hdr.dat < hdr.stp
  BY <1>1, HeaderFields
<1>3. ARENA \in Nat
  BY LoaderAssumption DEF LoaderAssumption
<1>4. CASE hdr.overlay
  <2>1. /\ HeaderPart = 0 .. hdr.cod - 1
        /\ DataPart = hdr.cod .. hdr.cod + (hdr.stp - hdr.dat) - 1
        /\ CodePart = (hdr.stp - hdr.dat) + hdr.cod .. MEMORY - 1
    BY <1>1, <1>2, <1>4 DEF HeaderPart, DataPart, CodePart, static_size
  <2>2. (hdr.stp - hdr.dat) + hdr.cod + ARENA <= MEMORY
    BY <1>4 DEF LeavesAPool
  <2> QED
    BY <1>2, <1>3, <2>1, <2>2
<1>5. CASE ~hdr.overlay
  <2>1. /\ HeaderPart = 0 .. hdr.cod - 1
        /\ DataPart = hdr.dat .. hdr.stp - 1
        /\ CodePart = hdr.cod .. hdr.dat - 1
        /\ hdr.stp <= MEMORY
    BY <1>1, <1>2, <1>5 DEF HeaderPart, DataPart, CodePart
  <2> QED
    BY <1>2, <2>1
<1> QED
  BY <1>4, <1>5

-----------------------------------------------------------------------------
(* Programs one after the other *)

\* The session is both what Loader and what FileSystem say, at the same time, and the
\* table of files belongs to the program that runs.
LEMMA SessionSteps ==
  ASSUME [SessionNext]_sessionVars
  PROVE  [FSNext]_<<vars, nameVars>> /\ [LoaderNext]_loaderVars
<1>1. CASE LoadProgram
  BY <1>1 DEF LoadProgram, LoaderNext, fileVars
<1>2. CASE StartProgram
  BY <1>2 DEF StartProgram, LoaderNext, FSNext
<1>3. CASE CallFiles
  BY <1>3 DEF CallFiles, FSNext
<1>4. CASE CallFPGA
  BY <1>4 DEF CallFPGA, LoaderNext, fileVars
<1>5. CASE EndProgram
  BY <1>5 DEF EndProgram, LoaderNext, FSNext
<1>6. CASE DiskChanges /\ UNCHANGED loaderVars
  BY <1>6 DEF FSNext
<1>7. CASE UNCHANGED sessionVars
  BY <1>7 DEF sessionVars, fileVars
<1> QED
  BY <1>1, <1>2, <1>3, <1>4, <1>5, <1>6, <1>7 DEF SessionNext

\* A session of programs loads and ends each of them as loadprogram, main() and
\* amx_fpga.c say, whatever the programs do with files in between.
THEOREM SessionLoads == SessionSpec => LoaderSpec
<1>1. SessionInit => LoaderInit
  BY DEF SessionInit
<1>2. [SessionNext]_sessionVars => [LoaderNext]_loaderVars
  BY SessionSteps
<1> QED
  BY <1>1, <1>2, PTL DEF SessionSpec, LoaderSpec

\* ... and keeps the table of files and finds names as amx_file.c and ds203_io.c say,
\* whatever programs are loaded.
THEOREM SessionKeepsFiles == SessionSpec => FSSpec
<1>1. SessionInit => FSInit
  BY DEF SessionInit
<1>2. [SessionNext]_sessionVars => [FSNext]_<<vars, nameVars>>
  BY SessionSteps
<1> QED
  BY <1>1, <1>2, PTL DEF SessionSpec, FSSpec

\* loadprogram's variables keep their types, for every memory, header and image.
THEOREM LoaderTypeCorrect == SessionSpec => []LoaderTypeOK
<1>1. LoaderInv => LoaderTypeOK
  BY DEF LoaderInv
<1> QED
  BY <1>1, SessionLoads, LoaderInvariance, PTL

\* For every size of vm_data and every header that the compiler writes, header, code or
\* pool, and data with heap and stack do not overlap and do not leave vm_data, unless the
\* program has overlays and leaves no room for the pool (main.c:122-152).
THEOREM MemoryIsAlwaysDivided == SessionSpec => []MemoryIsDivided
<1>1. LoaderInv => MemoryIsDivided
  BY LayoutDivides
<1> QED
  BY <1>1, SessionLoads, LoaderInvariance, PTL

\* Whatever pins the images drive, and whatever programs load, fail to load or
\* configure, no pin is driven by both sides but in the step of amxinit_fpga that the
\* property excepts (amx_fpga.c:49-83, 159-165).
THEOREM PinsNeverConflict == SessionSpec => []NoPinConflict
<1>1. LoaderInv => NoPinConflict
  BY DEF LoaderInv
<1> QED
  BY <1>1, SessionLoads, LoaderInvariance, PTL

\* A program runs when main() has loaded it and not yet cleaned up after it.
RunningIsRunning == running <=> pc \in {"run", "configure"}

LEMMA RunningStep ==
  ASSUME TableInv, RunningIsRunning, [SessionNext]_sessionVars
  PROVE  RunningIsRunning'
<1>1. CASE LoadProgram
  BY <1>1 DEF LoadProgram, Loading, OpenProgram, OpenFails, DivideForOverlays, ReadWhole,
              LoadFails, Restore, Restored, DefaultPorts, Register, fileVars, vars,
              RunningIsRunning
<1>2. CASE StartProgram \/ EndProgram
  BY <1>2 DEF StartProgram, EndProgram, Register, End, ProgramStarts, ProgramEnds, InitFiles,
              CleanUp, RunningIsRunning
<1>3. CASE CallFiles
  <2>1. running' = running
    BY <1>3 DEF CallFiles, FileCalls, Calls, OpenGiven, OpenRefused, Open, Access, Truncate,
                Close, Forget, vars
  <2> QED
    BY <1>3, <2>1 DEF CallFiles, loaderVars, RunningIsRunning
<1>4. CASE CallFPGA
  BY <1>4 DEF CallFPGA, FPGACalls, ImageMissing, Configured, ConfigOutputs, LoadImage,
              fileVars, vars, RunningIsRunning
<1>5. CASE DiskChanges /\ UNCHANGED loaderVars
  BY <1>5 DEF DiskChanges, vars, loaderVars, RunningIsRunning
<1>6. CASE UNCHANGED sessionVars
  BY <1>6 DEF sessionVars, fileVars, vars, loaderVars, RunningIsRunning
<1> QED
  BY <1>1, <1>2, <1>3, <1>4, <1>5, <1>6 DEF SessionNext

\* However a program ended, and however many could not be loaded after it, the next one
\* finds neither its image nor its pin directions nor its open files; the FPGA is blank
\* only after a load of the original image that has failed (amx_fpga.c:159-165,
\* main.c:403-404).
THEOREM ProgramsInheritNothing == SessionSpec => NothingIsInherited
<1>1. LoaderInv /\ TableInv /\ RunningIsRunning
        => [ pc = "register" /\ pc' = "run" =>
               /\ image = IF unloaded THEN Blank ELSE Original
               /\ outputs = default_pins
               /\ FreeEntries = Entries /\ \A v \in Variables : held[v] = NoHandle
           ]_sessionVars
  BY DEF LoaderInv, FlagIsTrue, TableInv, NoneLeft, NoneUsed, RunningIsRunning
<1>2. SessionInit => RunningIsRunning
  BY DEF SessionInit, FSInit, Init, LoaderInit, RunningIsRunning
<1>3. TableInv /\ RunningIsRunning /\ [SessionNext]_sessionVars => RunningIsRunning'
  BY RunningStep
<1>4. SessionSpec => []LoaderInv /\ []TableInv
  BY SessionLoads, SessionKeepsFiles, FileSystemKeepsTable, LoaderInvariance,
     TableInvariance, PTL
<1> QED
  BY <1>1, <1>2, <1>3, <1>4, PTL DEF SessionSpec, NothingIsInherited
=============================================================================
