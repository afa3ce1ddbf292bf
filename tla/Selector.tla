------------------------------ MODULE Selector ------------------------------
(***************************************************************************)
(* Runtime/file_selector.c: the screen on which the user picks a program.  *)
(* It shows a page of the scripts in the root directory and a cursor; the  *)
(* page and the cursor's index are static, so they outlive the call.  The  *)
(* directory is read anew for each drawing and for each choice, and may    *)
(* change at any time: the disk is a USB drive, and programs write files.  *)
(*                                                                         *)
(* A directory is its scripts in order, and whether another file follows   *)
(* the last of them: files between scripts make no difference.  One that   *)
(* cannot be read to its end looks like a shorter one.                     *)
(***************************************************************************)
EXTENDS Integers, Sequences

CONSTANTS
  SLOTS,        \* ICONS_ON_SCREEN (12), in rows of ROW (4)
  ROW,
  Names,        \* names of scripts
  Directories,  \* directories the disk may have
  MaxPage       \* bound on the pages the user scrolls to

ASSUME SelectorAssumption ==
  /\ ROW \in Nat \ {0} /\ SLOTS \in Nat /\ SLOTS >= ROW + 2
  /\ Directories \subseteq [scripts : Seq(Names), trailing : BOOLEAN]
  /\ MaxPage \in Nat

VARIABLES
  dir,              \* the root directory
  pc,               \* "menu": in select_file; "program": a program was chosen
  page, index,      \* static: the page shown and the slot of the cursor on it
  maxindex,         \* slots the cursor may go to
  rerender,
  screen,           \* the scripts drawn in the slots
  cursors,          \* the slots with a rectangle around them
  chosen,           \* the last name given to the supervisor, with the index
  seen,             \* ghost: the page was found when it was drawn, and the
                    \* directory is still the same
  homing            \* ghost: from now on the user only presses SCROLL1_LEFT

static == <<page, index>>
vars == <<dir, pc, static, maxindex, rerender, screen, cursors, chosen, seen, homing>>

Scrolls == {"SCROLL1_LEFT", "SCROLL1_RIGHT", "SCROLL2_LEFT", "SCROLL2_RIGHT"}
Keys == Scrolls \union {"BUTTON1", "BUTTON2", "BUTTON4"}

Lower(a, b) == IF a <= b THEN a ELSE b

-----------------------------------------------------------------------------
(* The directory *)

\* (Names ending in _BugN are faulty variants of the definition after them;
\* README.md says which property notices each.)

\* seek_dir: true if the scripts of all pages before this one can be skipped.
Seek(p) == p * SLOTS <= Len(dir.scripts)

\* The scripts render_screen draws once it has found the page.
Page_Bug1(p) == SubSeq(dir.scripts, p * ROW + 1, Lower(p * ROW + SLOTS, Len(dir.scripts)))
Page(p) == SubSeq(dir.scripts, p * SLOTS + 1, Lower((p + 1) * SLOTS, Len(dir.scripts)))

OnPage(p) == Lower(SLOTS, Len(dir.scripts) - p * SLOTS)

\* Whether one more entry can be read after a full page.
More_Bug1(p) == TRUE
More(p) == \/ (p + 1) * SLOTS < Len(dir.scripts)
           \/ (p + 1) * SLOTS = Len(dir.scripts) /\ dir.trailing

\* *maxindex after render_screen; it is left alone if the page is not found.
Rendered(p, m) == IF ~Seek(p) THEN m
                  ELSE IF More(p) THEN OnPage(p) + 1 ELSE OnPage(p)

Drawn(p) == IF Seek(p) THEN Page(p) ELSE <<>>

\* get_name: the script with this number among those after the pages skipped.
Position(p, i) == p * SLOTS + i
Found(p, i) == Seek(p) /\ Position(p, i) < Len(dir.scripts)

-----------------------------------------------------------------------------
(* One turn of select_file's loop, with the keys get_keys() finds in it *)

Init ==
  /\ dir \in Directories
  /\ pc = "menu" /\ page = 0 /\ index = 0 /\ maxindex = 0 /\ rerender = TRUE
  /\ screen = <<>> /\ cursors = {} /\ chosen = [name |-> "none", at |-> 0]
  /\ seen = FALSE /\ homing = FALSE

\* BUTTON1, and get_name finds the script.
Choose ==
  /\ pc = "menu" /\ index >= 0 /\ Found(page, index) /\ ~homing
  /\ chosen' = [name |-> dir.scripts[Position(page, index) + 1], at |-> index]
  /\ pc' = "program"
  /\ UNCHANGED <<dir, static, maxindex, rerender, screen, cursors, seen, homing>>

\* How far the scroll keys move the index.
Moved(K) ==
  (IF "SCROLL1_RIGHT" \in K THEN ROW ELSE 0) - (IF "SCROLL1_LEFT" \in K THEN ROW ELSE 0)
  + (IF "SCROLL2_RIGHT" \in K THEN 1 ELSE 0) - (IF "SCROLL2_LEFT" \in K THEN 1 ELSE 0)

\* The page before, drawn at once, if the index is now before this one.
BackTo_Bug1(i) ==
  IF i >= 0 THEN [page |-> page, index |-> i, max |-> maxindex]
  ELSE IF page > 0 /\ Seek(page)
       THEN [page |-> page - 1, index |-> i + SLOTS, max |-> Rendered(page - 1, maxindex)]
       ELSE [page |-> page, index |-> 0, max |-> maxindex]
BackTo(i) ==
  IF i >= 0 THEN [page |-> page, index |-> i, max |-> maxindex]
  ELSE IF page > 0
       THEN [page |-> page - 1, index |-> i + SLOTS, max |-> Rendered(page - 1, maxindex)]
       ELSE [page |-> page, index |-> 0, max |-> maxindex]

\* The next page, to be drawn later, if the index is beyond this one.
OnTo_Bug1(at) ==
  IF at.index >= at.max /\ at.max > SLOTS
  THEN [at EXCEPT !.page = @ + 1, !.index = 0]
  ELSE [at EXCEPT !.index = IF @ >= at.max THEN at.max - 1 ELSE @]
OnTo(at) ==
  IF at.index >= at.max /\ at.max >= SLOTS
  THEN [at EXCEPT !.page = @ + 1, !.index = @ - SLOTS]
  ELSE [at EXCEPT !.index = IF @ >= at.max THEN at.max - 1 ELSE @]

Scrolled(K) ==
  IF K \intersect Scrolls = {} THEN [page |-> page, index |-> index, max |-> maxindex]
  ELSE OnTo(BackTo(index + Moved(K)))

\* show_cursor
Mark(i) == IF i >= 0 THEN {i} ELSE {}

\* "Clear old cursor": the one at the index, wherever one was drawn before.
Unmarked_Bug1 == cursors
Unmarked == cursors \ Mark(index)

\* Whether the turn ends with a drawing: BUTTON1 in vain, BUTTON2, the message of
\* BUTTON4, and a new page ask for it.
Redraws(K, at) ==
  \/ rerender \/ "BUTTON2" \in K \/ "BUTTON4" \in K
  \/ "BUTTON1" \in K /\ index >= 0
  \/ at.page > page
  \/ at.page = page /\ index + Moved(K) < 0 /\ page > 0

\* The last lines of the loop draw the cursor first and then correct the index.
Corrected(i, m) == IF i >= m THEN m - 1 ELSE i

Turn(K) ==
  LET at == Scrolled(K)
      m == Rendered(at.page, at.max)
      old == IF K \intersect Scrolls = {} THEN cursors
             ELSE (IF at.page < page THEN {} ELSE Unmarked) \union Mark(at.index)
  IN
  /\ pc = "menu"
  /\ "BUTTON1" \in K /\ index >= 0 => ~Found(page, index)
  /\ homing => K \in {{}, {"SCROLL1_LEFT"}}
  /\ at.page <= MaxPage
  /\ page' = at.page
  /\ rerender' = FALSE
  /\ IF Redraws(K, at)
     THEN /\ maxindex' = m
          /\ index' = Corrected(at.index, m)
          /\ screen' = Drawn(at.page) /\ cursors' = Mark(at.index)
          /\ seen' = Seek(at.page)
     ELSE /\ maxindex' = at.max
          /\ index' = at.index
          /\ screen' = IF at.page < page THEN Drawn(at.page) ELSE screen
          /\ cursors' = old
          /\ seen' = IF at.page < page THEN Seek(at.page) ELSE seen
  /\ UNCHANGED <<dir, pc, chosen, homing>>

-----------------------------------------------------------------------------
(* Around it *)

\* The supervisor calls select_file again: its locals are new, and the screen is
\* the program's.
Call ==
  /\ pc = "program" /\ pc' = "menu"
  /\ maxindex' = 0 /\ rerender' = TRUE
  /\ screen' = <<>> /\ cursors' = {} /\ seen' = FALSE
  /\ UNCHANGED <<dir, static, chosen, homing>>

Change ==
  /\ ~homing
  /\ dir' \in Directories \ {dir}
  /\ seen' = FALSE
  /\ UNCHANGED <<pc, static, maxindex, rerender, screen, cursors, chosen, homing>>

GoHome ==
  /\ pc = "menu" /\ ~homing /\ homing' = TRUE
  /\ UNCHANGED <<dir, pc, static, maxindex, rerender, screen, cursors, chosen, seen>>

Next == Choose \/ (\E K \in SUBSET Keys : Turn(K)) \/ Call \/ Change \/ GoHome

Spec == Init /\ [][Next]_vars

\* The loop goes on, and a user who wants back to the beginning keeps scrolling.
Fairness == WF_vars(homing /\ Turn({"SCROLL1_LEFT"}))

FairSpec == Spec /\ Fairness
-----------------------------------------------------------------------------
(* Properties *)

TypeOK ==
  /\ dir \in Directories /\ pc \in {"menu", "program"}
  /\ page \in 0 .. MaxPage /\ index \in -1 .. SLOTS /\ maxindex \in 0 .. SLOTS + 1
  /\ rerender \in BOOLEAN /\ seen \in BOOLEAN /\ homing \in BOOLEAN
  /\ screen \in Seq(Names) /\ Len(screen) <= SLOTS
  /\ cursors \subseteq 0 .. SLOTS
  /\ chosen.at \in 0 .. SLOTS

\* Scrolling walks the list of scripts as one list, across pages, full last pages and
\* the entry after them that is no script: the script BUTTON1 would choose moves by as
\* many places as the keys say, and stops at the first and the last one, or at the
\* place behind the last, where there is nothing to choose
\* (file_selector.c:227-259, 271).  On the empty page behind a full last one the index is
\* -1, which counts as the place of the last script.
Goes(from, by, to) ==
  LET n == Len(dir.scripts)
  IN  IF n = 0 THEN to = -1
      ELSE IF from + by < 0 THEN to = 0
      ELSE IF from + by < n THEN to = from + by
      ELSE to \in {n - 1, n}

ScrollWalksTheList ==
  [][ \A K \in (SUBSET Scrolls) \ {{}} :
        seen /\ Turn(K) => Goes(Position(page, index), Moved(K), Position(page, index)') ]_vars

\* As long as the directory stays the same, scrolling never leads to a page that is
\* not there, on which nothing would be drawn and maxindex not be set, and every page it
\* leads to has scripts on it (file_selector.c:96-100, 249-254).  The exception is the
\* page right behind an exactly full last one (behind 12, 24, ... scripts): it is empty
\* and asks for files to be copied (lines 137-140), and BUTTON1 has nothing to choose.
NoPageIsMissing ==
  [][ seen /\ dir' = dir /\ pc = "menu"
        => /\ seen'
           /\ screen' = <<>> => page' * SLOTS = Len(dir.scripts) /\ index' = -1 ]_vars

\* The program started is the one drawn in the slot of the index, although get_name
\* reads the directory a second time (file_selector.c:147-171); not if it has changed
\* since the page was drawn.  The one slot that may not be on the screen is the one
\* behind a full page: it starts the first script of the next page, which is not shown.
ChosenIsOnScreen ==
  pc = "program" /\ seen
    => \/ chosen.at < Len(screen) /\ chosen.name = screen[chosen.at + 1]
       \/ chosen.at = SLOTS

\* No rectangle is drawn around a script that is not the one BUTTON1 would choose:
\* neither is an old cursor left behind on one (file_selector.c:225, 262), nor the index
\* corrected away from one (lines 268-272).
CursorsMarkTheIndex ==
  pc = "menu" => \A c \in cursors : c < Len(screen) => c = index

Home == page = 0 /\ index <= 0

\* Whatever the user scrolled over before, with SCROLL1_LEFT alone there is no way but
\* towards the first script: each press goes back by at least a row, or arrives, and the
\* corrections of the index in between never undo it (file_selector.c:239-247, 268-272).
LeftMakesProgress ==
  [][ homing => \/ Home'
                \/ /\ Position(page, index)' <= Position(page, index)
                   /\ Turn({"SCROLL1_LEFT"})
                        => Position(page, index)' <= Position(page, index) - ROW ]_vars

\* Wherever changes of the directory have left the selector, on a page far beyond its
\* end too, scrolling left leads back to the first script.
LeftLeadsHome == homing ~> Home
=============================================================================
