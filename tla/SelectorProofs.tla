--------------------------- MODULE SelectorProofs ---------------------------
(* Theorems about module Selector, for every directory and every size of a page. *)
EXTENDS Selector, TLAPS

\* While the page on the screen is that of the present directory, maxindex is what
\* render_screen computes for it and the index is below.
PageIsKnown ==
  seen => /\ Seek(page)
          /\ maxindex = Rendered(page, 0)
          /\ index < maxindex
          /\ ~rerender

\* The screen shows that page, and the script that was chosen is the one at the index.
ScreenIsKnown == seen => screen = Page(page)

ChosenIsKnown ==
  pc = "program" =>
    /\ chosen.at = index /\ index >= 0
    /\ seen => /\ Position(page, index) < Len(dir.scripts)
               /\ chosen.name = dir.scripts[Position(page, index) + 1]

Bounds ==
  /\ dir \in Directories /\ pc \in {"menu", "program"}
  /\ page \in 0 .. MaxPage /\ index \in -1 .. SLOTS /\ maxindex \in 0 .. SLOTS + 1
  /\ rerender \in BOOLEAN /\ seen \in BOOLEAN /\ homing \in BOOLEAN

SelectorInv ==
  TypeOK /\ PageIsKnown /\ ScreenIsKnown /\ ChosenIsKnown /\ CursorsMarkTheIndex

LEMMA Constants ==
  /\ ROW \in Nat \ {0} /\ SLOTS \in Nat /\ SLOTS >= ROW + 2
  /\ Directories \subseteq [scripts : Seq(Names), trailing : BOOLEAN]
  /\ MaxPage \in Nat
BY SelectorAssumption

\* The first positions of neighbouring pages are SLOTS apart.
LEMMA Pages ==
  ASSUME NEW p \in Int
  PROVE  /\ p * SLOTS \in Int
         /\ (p + 1) * SLOTS = p * SLOTS + SLOTS
         /\ (p - 1) * SLOTS = p * SLOTS - SLOTS
         /\ p \in Nat => p * SLOTS \in Nat
BY Constants

LEMMA DirectoryType ==
  ASSUME dir \in Directories
  PROVE  /\ dir.scripts \in Seq(Names) /\ dir.trailing \in BOOLEAN
         /\ Len(dir.scripts) \in Nat
BY Constants

LEMMA MovedType ==
  ASSUME NEW K
  PROVE  Moved(K) \in -(ROW + 1) .. ROW + 1
BY Constants DEF Moved

\* render_screen sets maxindex to the number of scripts on the page, or one more.
LEMMA RenderedType ==
  ASSUME NEW p \in Nat, NEW m \in 0 .. SLOTS + 1, dir \in Directories
  PROVE  /\ Rendered(p, m) \in 0 .. SLOTS + 1
         /\ Seek(p) => Rendered(p, m) = Rendered(p, 0)
         /\ Seek(p) /\ Rendered(p, m) >= SLOTS => Seek(p + 1)
<1> DEFINE b == p * SLOTS
<1>1. b \in Nat /\ (p + 1) * SLOTS = b + SLOTS
  BY Pages
<1>2. Len(dir.scripts) \in Nat
  BY DirectoryType
<1> HIDE DEF b
<1>3. /\ Seek(p) <=> b <= Len(dir.scripts)
      /\ Seek(p + 1) <=> b + SLOTS <= Len(dir.scripts)
      /\ OnPage(p) = Lower(SLOTS, Len(dir.scripts) - b)
      /\ More(p) <=> \/ b + SLOTS < Len(dir.scripts)
                     \/ b + SLOTS = Len(dir.scripts) /\ dir.trailing
  BY <1>1 DEF Seek, OnPage, More, b
<1> QED BY <1>1, <1>2, <1>3, Constants DEF Rendered, Lower

\* What render_screen draws on a page that is there.
LEMMA DrawnType ==
  ASSUME NEW p \in Nat, dir \in Directories
  PROVE  Drawn(p) \in Seq(Names) /\ Len(Drawn(p)) <= SLOTS
<1> DEFINE b == p * SLOTS
           e == Lower((p + 1) * SLOTS, Len(dir.scripts))
<1>1. b \in Nat /\ (p + 1) * SLOTS = b + SLOTS
  BY Pages
<1>2. dir.scripts \in Seq(Names) /\ Len(dir.scripts) \in Nat
  BY DirectoryType
<1> HIDE DEF b
<1>3. e \in Nat /\ e <= b + SLOTS /\ e <= Len(dir.scripts)
  BY <1>1, <1>2, Constants DEF Lower
<1> HIDE DEF e
<1>4. CASE ~Seek(p)
  BY <1>4, Constants DEF Drawn
<1>5. CASE Seek(p)
  <2>1. Drawn(p) = SubSeq(dir.scripts, b + 1, e)
    BY <1>5 DEF Drawn, Page, b, e
  <2>2. b <= Len(dir.scripts)
    BY <1>5 DEF Seek, b
  <2>3. SubSeq(dir.scripts, b + 1, e) \in Seq(Names)
    BY <1>1, <1>2, <1>3, <2>2
  <2>4. Len(SubSeq(dir.scripts, b + 1, e)) <= SLOTS
    BY <1>1, <1>2, <1>3, <2>2, Constants
  <2> QED BY <2>1, <2>3, <2>4
<1> QED BY <1>4, <1>5

\* A page that is there shows the scripts that are left, up to SLOTS, and maxindex is
\* as many, or one more.
LEMMA PageLength ==
  ASSUME NEW p \in Nat, NEW m \in 0 .. SLOTS + 1, dir \in Directories, Seek(p)
  PROVE  /\ Len(Page(p)) = OnPage(p) /\ OnPage(p) \in 0 .. SLOTS
         /\ Rendered(p, m) \in {OnPage(p), OnPage(p) + 1}
         /\ p * SLOTS + OnPage(p) <= Len(dir.scripts)
         /\ Rendered(p, m) = OnPage(p) + 1 => OnPage(p) = SLOTS
         /\ \A i \in Nat : i < OnPage(p) => Page(p)[i + 1] = dir.scripts[p * SLOTS + i + 1]
<1> DEFINE b == p * SLOTS
           e == Lower((p + 1) * SLOTS, Len(dir.scripts))
<1>1. b \in Nat /\ (p + 1) * SLOTS = b + SLOTS
  BY Pages
<1>2. dir.scripts \in Seq(Names) /\ Len(dir.scripts) \in Nat
  BY DirectoryType
<1>3. Page(p) = SubSeq(dir.scripts, b + 1, e)
  BY DEF Page
<1>4. OnPage(p) = Lower(SLOTS, Len(dir.scripts) - b)
  BY DEF OnPage
<1>5. Rendered(p, m) = IF \/ b + SLOTS < Len(dir.scripts)
                          \/ b + SLOTS = Len(dir.scripts) /\ dir.trailing
                       THEN OnPage(p) + 1 ELSE OnPage(p)
  BY <1>1 DEF Rendered, More
<1>6. b <= Len(dir.scripts)
  BY DEF Seek
<1>e. e = IF b + SLOTS <= Len(dir.scripts) THEN b + SLOTS ELSE Len(dir.scripts)
  BY <1>1 DEF Lower
<1>w. p * SLOTS = b
  OBVIOUS
<1> HIDE DEF b, e
<1>7. e \in Nat /\ e <= Len(dir.scripts) /\ b <= e /\ OnPage(p) = e - b
      /\ OnPage(p) \in 0 .. SLOTS
  BY <1>1, <1>2, <1>4, <1>6, <1>e, Constants DEF Lower
<1>8. Len(Page(p)) = e - b
  BY <1>1, <1>2, <1>3, <1>6, <1>7
<1>9. ASSUME NEW i \in Nat, i < OnPage(p)
      PROVE  Page(p)[i + 1] = dir.scripts[b + i + 1]
  <2>1. i + 1 \in 1 .. (e - b)
    BY <1>7, <1>9, <1>1
  <2> QED BY <1>1, <1>2, <1>3, <1>6, <1>7, <2>1
<1>10. /\ Rendered(p, m) \in {OnPage(p), OnPage(p) + 1}
       /\ b + OnPage(p) <= Len(dir.scripts)
       /\ Rendered(p, m) = OnPage(p) + 1 => OnPage(p) = SLOTS
  BY <1>1, <1>2, <1>4, <1>5, <1>7, Constants DEF Lower
<1> QED BY <1>7, <1>8, <1>9, <1>10, <1>w

-----------------------------------------------------------------------------
(* One turn *)

\* Where a turn goes: within the bounds, and to a page that is there if this one is.
LEMMA ScrolledType ==
  ASSUME Bounds, NEW K
  PROVE  LET at == Scrolled(K)
         IN  /\ at = [page |-> at.page, index |-> at.index, max |-> at.max]
             /\ at.page \in Nat /\ at.index \in -1 .. SLOTS /\ at.max \in 0 .. SLOTS + 1
<1> DEFINE i == index + Moved(K)
           back == BackTo(i)
<1>1. i \in Int /\ i >= -(ROW + 2) /\ i <= SLOTS + ROW + 1
  BY MovedType, Constants DEF Bounds
<1> HIDE DEF i
<1>2. /\ back = [page |-> back.page, index |-> back.index, max |-> back.max]
      /\ back.page \in Nat
      /\ back.index \in 0 .. (SLOTS + ROW + 1)
      /\ back.max \in 0 .. SLOTS + 1
  <2>1. CASE i >= 0
    BY <1>1, <2>1, Constants DEF BackTo, Bounds
  <2>2. CASE i < 0 /\ page > 0
    <3>1. page - 1 \in Nat
      BY <2>2, Constants DEF Bounds
    <3>2. Rendered(page - 1, maxindex) \in 0 .. SLOTS + 1
      BY <3>1, RenderedType DEF Bounds
    <3> QED BY <1>1, <2>2, <3>1, <3>2, Constants DEF BackTo
  <2>3. CASE i < 0 /\ ~(page > 0)
    BY <1>1, <2>3, Constants DEF BackTo, Bounds
  <2> QED BY <1>1, <2>1, <2>2, <2>3
<1> HIDE DEF back
<1>3. CASE K \intersect Scrolls = {}
  BY <1>3, Constants DEF Scrolled, Bounds
<1>4. CASE K \intersect Scrolls # {}
  <2>1. Scrolled(K) = OnTo(back)
    BY <1>4 DEF Scrolled, back, i
  <2>2. CASE back.index >= back.max /\ back.max >= SLOTS
    <3>1. OnTo(back) = [page |-> back.page + 1, index |-> back.index - SLOTS, max |-> back.max]
      BY <1>2, <2>2 DEF OnTo
    <3> QED BY <1>2, <2>1, <2>2, <3>1, Constants
  <2>3. CASE ~(back.index >= back.max /\ back.max >= SLOTS)
    <3>1. OnTo(back) = [page |-> back.page,
                        index |-> IF back.index >= back.max THEN back.max - 1 ELSE back.index,
                        max |-> back.max]
      BY <1>2, <2>3 DEF OnTo
    <3> QED BY <1>2, <2>1, <2>3, <3>1, Constants
  <2> QED BY <2>2, <2>3
<1> QED BY <1>3, <1>4

\* In a directory that stays the same, a turn only leads to pages that are there, with
\* the right maxindex, unless it redraws.
LEMMA ScrolledKnown ==
  ASSUME Bounds, PageIsKnown, seen, NEW K
  PROVE  LET at == Scrolled(K)
         IN  /\ Seek(at.page)
             /\ ~Redraws(K, at) => at.max = Rendered(at.page, 0) /\ at.index < at.max
<1> DEFINE i == index + Moved(K)
           back == BackTo(i)
           at == Scrolled(K)
<1>1. i \in Int /\ i >= -(ROW + 2) /\ i <= SLOTS + ROW + 1
  BY MovedType, Constants DEF Bounds
<1>p. /\ page \in Nat /\ index \in Int /\ maxindex \in 0 .. SLOTS + 1 /\ dir \in Directories
      /\ maxindex = Rendered(page, 0) /\ index < maxindex /\ Seek(page)
  BY Constants DEF Bounds, PageIsKnown
<1>2. /\ back = [page |-> back.page, index |-> back.index, max |-> back.max]
      /\ back.page \in Nat /\ back.index \in Int /\ back.max \in 0 .. SLOTS + 1
      /\ back.page = IF i < 0 /\ page > 0 THEN page - 1 ELSE page
      /\ Seek(back.page) /\ back.max = Rendered(back.page, 0)
  <2>1. CASE i >= 0
    BY <1>1, <1>p, <2>1, Constants DEF BackTo
  <2>2. CASE i < 0 /\ page > 0
    <3>1. page - 1 \in Nat
      BY <1>p, <2>2
    <3>2. Seek(page - 1)
      BY <1>p, <3>1, Pages, Constants, DirectoryType DEF Seek
    <3>3. /\ Rendered(page - 1, maxindex) \in 0 .. SLOTS + 1
          /\ Rendered(page - 1, maxindex) = Rendered(page - 1, 0)
      BY <1>p, <3>1, <3>2, RenderedType
    <3> QED BY <1>1, <1>p, <2>2, <3>1, <3>2, <3>3, Constants DEF BackTo
  <2>3. CASE i < 0 /\ ~(page > 0)
    BY <1>1, <1>p, <2>3, Constants DEF BackTo
  <2> QED BY <1>1, <2>1, <2>2, <2>3
<1> HIDE DEF back
<1>3. CASE K \intersect Scrolls = {}
  BY <1>3, <1>p DEF Scrolled
<1>4. CASE K \intersect Scrolls # {}
  <2>1. at = OnTo(back)
    BY <1>4 DEF Scrolled, back, i
  <2>2. CASE back.index >= back.max /\ back.max >= SLOTS
    <3>1. at.page = back.page + 1 /\ at.page \in Nat
      BY <1>2, <2>1, <2>2 DEF OnTo
    <3>2. Seek(at.page)
      BY <1>2, <1>p, <2>2, <3>1, RenderedType, Constants
    <3>3. Redraws(K, at)
      <4>1. at.page > page \/ (at.page = page /\ i < 0 /\ page > 0)
        BY <1>p, <1>1, <1>2, <3>1
      <4> QED BY <4>1 DEF Redraws, i
    <3> QED BY <3>2, <3>3
  <2>3. CASE ~(back.index >= back.max /\ back.max >= SLOTS)
    <3>1. /\ at.page = back.page /\ at.max = back.max
          /\ at.index = IF back.index >= back.max THEN back.max - 1 ELSE back.index
      BY <1>2, <2>1, <2>3 DEF OnTo
    <3>2. at.index < at.max
      BY <1>2, <3>1, Constants
    <3> QED BY <1>2, <3>1, <3>2
  <2> QED BY <2>2, <2>3
<1> QED BY <1>3, <1>4

\* The same for a turn back, from whatever page.
LEMMA ScrolledBack ==
  ASSUME Bounds, NEW K, Scrolled(K).page < page, Seek(Scrolled(K).page)
  PROVE  LET at == Scrolled(K)
         IN  at.max = Rendered(at.page, 0) /\ at.index < at.max
<1> DEFINE i == index + Moved(K)
           back == BackTo(i)
           at == Scrolled(K)
<1>1. i \in Int
  BY MovedType, Constants DEF Bounds
<1>p. /\ page \in Nat /\ maxindex \in 0 .. SLOTS + 1 /\ dir \in Directories
      /\ at.page < page /\ Seek(at.page)
  BY Constants DEF Bounds
<1> HIDE DEF i
<1>2. K \intersect Scrolls # {}
  BY <1>p DEF Scrolled
<1>3. at = OnTo(back)
  BY <1>2 DEF Scrolled, i
<1> HIDE DEF at
<1>4. CASE i < 0 /\ page > 0
  <2>1. page - 1 \in Nat
    BY <1>p, <1>4
  <2>2. back = [page |-> page - 1, index |-> i + SLOTS, max |-> Rendered(page - 1, maxindex)]
    BY <1>1, <1>4 DEF BackTo
  <2>3. Rendered(page - 1, maxindex) \in 0 .. SLOTS + 1
    BY <1>p, <2>1, RenderedType
  <2>4. CASE back.index >= back.max /\ back.max >= SLOTS
    <3>1. at.page = page
      BY <1>3, <1>p, <2>2, <2>4 DEF OnTo
    <3> QED BY <3>1, <1>p
  <2>5. CASE ~(back.index >= back.max /\ back.max >= SLOTS)
    <3>1. /\ at.page = page - 1 /\ at.max = Rendered(page - 1, maxindex)
          /\ at.index = IF back.index >= back.max THEN back.max - 1 ELSE back.index
      BY <1>3, <2>2, <2>5 DEF OnTo
    <3>2. at.max = Rendered(page - 1, 0)
      BY <1>p, <2>1, <3>1, RenderedType
    <3>3. at.index < at.max
      BY <1>1, <2>2, <2>3, <3>1, Constants
    <3> QED BY <3>1, <3>2, <3>3 DEF at
  <2> QED BY <2>4, <2>5
<1>5. CASE ~(i < 0 /\ page > 0)
  <2>1. back.page = page /\ back = [page |-> back.page, index |-> back.index, max |-> back.max]
    BY <1>1, <1>5, <1>p DEF BackTo
  <2>2. at.page \in {page, page + 1}
    BY <1>3, <2>1 DEF OnTo
  <2> QED BY <2>2, <1>p
<1> QED BY <1>4, <1>5

-----------------------------------------------------------------------------
(* The invariant *)

LEMMA BoundsOfType == TypeOK => Bounds
BY DEF TypeOK, Bounds

LEMMA InitInv == ASSUME Init PROVE SelectorInv
<1>1. screen \in Seq(Names) /\ Len(screen) = 0
  BY DEF Init
<1>2. chosen.at \in 0 .. SLOTS
  BY Constants DEF Init
<1>3. page \in 0 .. MaxPage /\ index \in -1 .. SLOTS /\ maxindex \in 0 .. SLOTS + 1
      /\ 0 \in 0 .. SLOTS
  BY Constants DEF Init
<1>4. TypeOK
  <2>1. cursors \subseteq 0 .. SLOTS /\ rerender \in BOOLEAN
        /\ seen \in BOOLEAN /\ homing \in BOOLEAN /\ dir \in Directories
        /\ pc \in {"menu", "program"}
    BY DEF Init
  <2>2. Len(screen) <= SLOTS
    BY <1>1, Constants
  <2> QED BY <1>1, <1>2, <1>3, <2>1, <2>2 DEF TypeOK
<1>5. ~seen /\ pc # "program" /\ cursors = {}
  BY DEF Init
<1>6. PageIsKnown /\ ScreenIsKnown
  BY <1>5 DEF PageIsKnown, ScreenIsKnown
<1>7. ChosenIsKnown
  BY <1>5 DEF ChosenIsKnown
<1>8. CursorsMarkTheIndex
  BY <1>5 DEF CursorsMarkTheIndex
<1> QED BY <1>4, <1>6, <1>7, <1>8 DEF SelectorInv

\* get_name finds the script that is drawn at the index.
LEMMA ChooseInv == ASSUME SelectorInv, Choose PROVE SelectorInv'
<1>1. TypeOK'
  BY Constants DEF SelectorInv, Choose, TypeOK, static
<1>2. PageIsKnown' /\ ScreenIsKnown'
  BY DEF SelectorInv, Choose, PageIsKnown, ScreenIsKnown, static, Seek, Rendered, More,
         OnPage, Lower, Page
<1>3. ChosenIsKnown'
  BY DEF Choose, ChosenIsKnown, static, Found, Position
<1>4. CursorsMarkTheIndex'
  BY DEF Choose, CursorsMarkTheIndex
<1> QED BY <1>1, <1>2, <1>3, <1>4 DEF SelectorInv

\* A turn of the loop that draws the page.
LEMMA RedrawnInv ==
  ASSUME SelectorInv, NEW K, Turn(K), Redraws(K, Scrolled(K))
  PROVE  SelectorInv'
<1> DEFINE at == Scrolled(K)
           m == Rendered(at.page, at.max)
<1>b. Bounds
  BY BoundsOfType DEF SelectorInv
<1>1. /\ at.page \in Nat /\ at.index \in -1 .. SLOTS /\ at.max \in 0 .. SLOTS + 1
      /\ dir \in Directories
  BY <1>b, ScrolledType DEF Bounds
<1>2. /\ at.page <= MaxPage /\ page' = at.page /\ rerender' = FALSE /\ maxindex' = m
      /\ index' = Corrected(at.index, m) /\ screen' = Drawn(at.page)
      /\ cursors' = Mark(at.index) /\ seen' = Seek(at.page)
      /\ pc = "menu" /\ dir' = dir /\ pc' = pc /\ chosen' = chosen /\ homing' = homing
  BY DEF Turn
<1> HIDE DEF at
<1>3. /\ m \in 0 .. SLOTS + 1
      /\ Seek(at.page) => m = Rendered(at.page, 0)
  BY <1>1, RenderedType
<1>4. Drawn(at.page) \in Seq(Names) /\ Len(Drawn(at.page)) <= SLOTS
  BY <1>1, DrawnType
<1> HIDE DEF m
<1>5. /\ index' \in -1 .. SLOTS /\ index' < m
      /\ index' = IF at.index >= m THEN m - 1 ELSE at.index
  BY <1>1, <1>2, <1>3, Constants DEF Corrected
<1>6. TypeOK'
  <2>1. cursors' \subseteq 0 .. SLOTS
    BY <1>1, <1>2, Constants DEF Mark
  <2>2. page' \in 0 .. MaxPage
    BY <1>1, <1>2, Constants
  <2>3. seen' \in BOOLEAN
    BY <1>2 DEF Seek
  <2> QED BY <1>1, <1>2, <1>3, <1>4, <1>5, <2>1, <2>2, <2>3 DEF SelectorInv, TypeOK
<1>7. PageIsKnown'
  <2> SUFFICES ASSUME seen' PROVE Seek(page)' /\ (maxindex = Rendered(page, 0))' /\ index' < maxindex'
    BY <1>2 DEF PageIsKnown
  <2>1. Seek(page)'
    BY <1>2 DEF Seek
  <2>2. (maxindex = Rendered(page, 0))'
    BY <1>2, <1>3 DEF Rendered, Seek, More, OnPage, Lower
  <2> QED BY <2>1, <2>2, <1>2, <1>5
<1>8. ScreenIsKnown'
  BY <1>2 DEF ScreenIsKnown, Drawn, Page, Seek, Lower
<1>9. ChosenIsKnown'
  BY <1>2 DEF ChosenIsKnown
<1>10. CursorsMarkTheIndex'
  <2> SUFFICES ASSUME NEW c \in cursors', c < Len(screen')
               PROVE  c = index'
    BY DEF CursorsMarkTheIndex
  <2>1. c = at.index /\ at.index >= 0
    BY <1>2, <1>1 DEF Mark
  <2>2. CASE Seek(at.page)
    <3>1. Len(screen') <= m
      BY <1>1, <1>2, <2>2, PageLength DEF Drawn, m
    <3>2. Len(screen') \in Nat
      BY <1>2, <1>4
    <3> QED BY <1>1, <1>3, <1>5, <2>1, <3>1, <3>2
  <2>3. CASE ~Seek(at.page)
    BY <1>1, <1>2, <2>1, <2>3 DEF Drawn
  <2> QED BY <2>2, <2>3
<1> QED BY <1>6, <1>7, <1>8, <1>9, <1>10 DEF SelectorInv

\* A turn that does not: the cursor moves on the page, or BackTo has drawn another.
LEMMA MovedInv ==
  ASSUME SelectorInv, NEW K, Turn(K), ~Redraws(K, Scrolled(K))
  PROVE  SelectorInv'
<1> DEFINE at == Scrolled(K)
           old == IF K \intersect Scrolls = {} THEN cursors
                  ELSE (IF at.page < page THEN {} ELSE Unmarked) \union Mark(at.index)
<1>b. Bounds
  BY BoundsOfType DEF SelectorInv
<1>1. /\ at.page \in Nat /\ at.index \in -1 .. SLOTS /\ at.max \in 0 .. SLOTS + 1
      /\ dir \in Directories /\ page \in Nat
  BY <1>b, ScrolledType, Constants DEF Bounds
<1>2. /\ at.page <= MaxPage /\ page' = at.page /\ rerender' = FALSE /\ maxindex' = at.max
      /\ index' = at.index
      /\ screen' = IF at.page < page THEN Drawn(at.page) ELSE screen
      /\ cursors' = old
      /\ seen' = IF at.page < page THEN Seek(at.page) ELSE seen
      /\ pc = "menu" /\ dir' = dir /\ pc' = pc /\ chosen' = chosen /\ homing' = homing
  BY DEF Turn
<1>3. ~(at.page > page)
  BY DEF Redraws
<1>4. Drawn(at.page) \in Seq(Names) /\ Len(Drawn(at.page)) <= SLOTS
  BY <1>1, DrawnType
<1>5. seen' => Seek(at.page) /\ at.max = Rendered(at.page, 0) /\ at.index < at.max
  <2>1. CASE at.page < page
    BY <1>b, <1>2, <2>1, ScrolledBack
  <2>2. CASE ~(at.page < page)
    BY <1>b, <1>2, <2>2, ScrolledKnown DEF SelectorInv
  <2> QED BY <2>1, <2>2
<1>6. K \intersect Scrolls = {} => at.page = page /\ at.index = index
  BY DEF Scrolled
<1> HIDE DEF at
<1>7. TypeOK'
  <2>1. cursors' \subseteq 0 .. SLOTS
    <3>1. Mark(at.index) \subseteq 0 .. SLOTS /\ cursors \subseteq 0 .. SLOTS
      BY <1>1, Constants DEF Mark, SelectorInv, TypeOK
    <3>2. Unmarked \subseteq cursors
      BY DEF Unmarked
    <3>3. cursors' \subseteq cursors \union Mark(at.index)
      BY <1>2, <3>2
    <3> QED BY <3>1, <3>3
  <2>2. page' \in 0 .. MaxPage
    BY <1>1, <1>2, Constants
  <2>3. seen' \in BOOLEAN
    <3>1. Seek(at.page) \in BOOLEAN /\ seen \in BOOLEAN
      BY DEF Seek, SelectorInv, TypeOK
    <3> QED BY <1>2, <3>1
  <2>4. screen' \in Seq(Names) /\ Len(screen') <= SLOTS
    BY <1>2, <1>4 DEF SelectorInv, TypeOK
  <2> QED BY <1>1, <1>2, <2>1, <2>2, <2>3, <2>4 DEF SelectorInv, TypeOK
<1>8. PageIsKnown'
  BY <1>2, <1>5 DEF PageIsKnown, Rendered, Seek, More, OnPage, Lower
<1>9. ScreenIsKnown'
  <2>1. CASE at.page < page
    BY <1>2, <2>1 DEF ScreenIsKnown, Drawn, Page, Lower
  <2>2. CASE ~(at.page < page)
    BY <1>1, <1>2, <1>3, <2>2 DEF SelectorInv, ScreenIsKnown, Page, Lower
  <2> QED BY <2>1, <2>2
<1>10. ChosenIsKnown'
  BY <1>2 DEF ChosenIsKnown
<1>11. CursorsMarkTheIndex'
  <2> SUFFICES ASSUME NEW c \in cursors', c < Len(screen')
               PROVE  c = index'
    BY DEF CursorsMarkTheIndex
  <2>1. CASE c \in Mark(at.index)
    BY <1>2, <2>1 DEF Mark
  <2>2. CASE c \notin Mark(at.index)
    <3>1. c \in cursors /\ ~(at.page < page) /\ (K \intersect Scrolls # {} => c \in Unmarked)
      <4>1. CASE K \intersect Scrolls = {}
        <5>1. cursors' = cursors /\ ~(at.page < page)
          BY <1>1, <1>2, <1>6, <4>1
        <5> QED BY <4>1, <5>1
      <4>2. CASE K \intersect Scrolls # {}
        <5>1. c \in (IF at.page < page THEN {} ELSE Unmarked) \union Mark(at.index)
          BY <1>2, <4>2
        <5>2. c \in Unmarked /\ ~(at.page < page)
          BY <2>2, <5>1
        <5> QED BY <5>2 DEF Unmarked
      <4> QED BY <4>1, <4>2
    <3>2. screen' = screen
      BY <1>2, <3>1
    <3>3. c = index /\ c \in 0 .. SLOTS
      <4>1. c < Len(screen)
        BY <3>2
      <4>2. c = index
        BY <1>2, <3>1, <4>1 DEF SelectorInv, CursorsMarkTheIndex
      <4> QED BY <3>1, <4>2 DEF SelectorInv, TypeOK
    <3>4. index \in Mark(index)
      BY <3>3, Constants DEF Mark
    <3>5. K \intersect Scrolls = {}
      BY <3>1, <3>3, <3>4 DEF Unmarked
    <3> QED BY <1>2, <1>6, <3>3, <3>5
  <2> QED BY <2>1, <2>2
<1> QED BY <1>7, <1>8, <1>9, <1>10, <1>11 DEF SelectorInv

LEMMA CallInv == ASSUME SelectorInv, Call PROVE SelectorInv'
<1>1. screen' \in Seq(Names) /\ Len(screen') = 0
  BY DEF Call
<1>2. TypeOK'
  <2>1. cursors' = {} /\ maxindex' = 0 /\ rerender' = TRUE /\ seen' = FALSE /\ pc' = "menu"
        /\ Len(screen') <= SLOTS /\ 0 \in 0 .. SLOTS + 1
    BY <1>1, Constants DEF Call
  <2>2. dir' = dir /\ page' = page /\ index' = index /\ chosen' = chosen /\ homing' = homing
    BY DEF Call, static
  <2>3. /\ dir \in Directories /\ page \in 0 .. MaxPage /\ index \in -1 .. SLOTS
        /\ homing \in BOOLEAN /\ chosen.at \in 0 .. SLOTS
    BY DEF SelectorInv, TypeOK
  <2> QED BY <1>1, <2>1, <2>2, <2>3 DEF TypeOK
<1>3. ~seen' /\ pc' # "program" /\ cursors' = {}
  BY DEF Call
<1>4. PageIsKnown' /\ ScreenIsKnown'
  BY <1>3 DEF PageIsKnown, ScreenIsKnown
<1>5. ChosenIsKnown'
  BY <1>3 DEF ChosenIsKnown
<1>6. CursorsMarkTheIndex'
  BY <1>3 DEF CursorsMarkTheIndex
<1> QED BY <1>2, <1>4, <1>5, <1>6 DEF SelectorInv

\* From now on nothing is known of the page.
LEMMA ChangeInv == ASSUME SelectorInv, Change PROVE SelectorInv'
<1>1. TypeOK'
  BY DEF SelectorInv, Change, TypeOK, static
<1>2. PageIsKnown' /\ ScreenIsKnown' /\ ChosenIsKnown' /\ CursorsMarkTheIndex'
  BY DEF SelectorInv, Change, static, PageIsKnown, ScreenIsKnown, ChosenIsKnown,
         CursorsMarkTheIndex
<1> QED BY <1>1, <1>2 DEF SelectorInv

LEMMA RestInv ==
  ASSUME SelectorInv, GoHome \/ UNCHANGED vars
  PROVE  SelectorInv'
<1>0. UNCHANGED <<dir, pc, page, index, maxindex, rerender, screen, cursors, chosen, seen>>
  BY DEF GoHome, vars, static
<1>1. TypeOK'
  BY <1>0 DEF GoHome, vars, SelectorInv, TypeOK
<1>2. PageIsKnown' /\ ScreenIsKnown' /\ ChosenIsKnown' /\ CursorsMarkTheIndex'
  BY <1>0 DEF SelectorInv, PageIsKnown, ScreenIsKnown, ChosenIsKnown, Seek, Rendered, More,
     OnPage, Lower, Page, Position, CursorsMarkTheIndex
<1> QED BY <1>1, <1>2 DEF SelectorInv

LEMMA NextInv == SelectorInv /\ [Next]_vars => SelectorInv'
<1> SUFFICES ASSUME SelectorInv, [Next]_vars PROVE SelectorInv'
  OBVIOUS
<1>1. CASE Choose
  BY <1>1, ChooseInv
<1>2. CASE \E K \in SUBSET Keys : Turn(K)
  BY <1>2, RedrawnInv, MovedInv
<1>3. CASE Call
  BY <1>3, CallInv
<1>4. CASE Change
  BY <1>4, ChangeInv
<1>5. CASE GoHome \/ UNCHANGED vars
  BY <1>5, RestInv
<1> QED BY <1>1, <1>2, <1>3, <1>4, <1>5 DEF Next

LEMMA Invariant == Spec => []SelectorInv
<1>1. Init => SelectorInv
  BY InitInv
<1> QED BY <1>1, NextInv, PTL DEF Spec

\* Where scrolling leads, by the page it ends on.
LEMMA ScrollStep ==
  ASSUME SelectorInv, seen, NEW K \in SUBSET Scrolls, K # {}, Turn(K)
  PROVE  Goes(Position(page, index), Moved(K), Position(page, index)')
<1> DEFINE n == Len(dir.scripts)
           b == page * SLOTS
           i == index + Moved(K)
           back == BackTo(i)
           at == Scrolled(K)
           to == Position(page, index)'
<1>1. /\ page \in Nat /\ index \in -1 .. SLOTS /\ maxindex \in 0 .. SLOTS + 1
      /\ dir \in Directories /\ Seek(page) /\ ~rerender
      /\ maxindex = Rendered(page, 0) /\ index < maxindex
  BY Constants DEF SelectorInv, TypeOK, PageIsKnown
<1>2. b \in Nat /\ n \in Nat /\ b <= n /\ i \in Int /\ Moved(K) \in Int
      /\ i >= -(ROW + 2) /\ i <= SLOTS + ROW + 1 /\ i <= maxindex + ROW
  BY <1>1, Pages, DirectoryType, MovedType, Constants DEF Seek
<1>3. /\ OnPage(page) = Lower(SLOTS, n - b) /\ OnPage(page) \in 0 .. SLOTS
      /\ maxindex \in {OnPage(page), OnPage(page) + 1}
      /\ maxindex = OnPage(page) + 1 => OnPage(page) = SLOTS
  <2>1. 0 \in 0 .. SLOTS + 1
    BY Constants
  <2> QED BY <1>1, <2>1, PageLength DEF OnPage
<1>4. at = OnTo(back)
  BY DEF Scrolled
<1>5. Redraws(K, at) <=> at.page > page \/ (at.page = page /\ i < 0 /\ page > 0)
  BY <1>1 DEF Redraws, Scrolls
<1>6. to = page' * SLOTS + index'
  BY DEF Position
<1>7. SUFFICES IF n = 0 THEN to = -1
               ELSE IF b + i < 0 THEN to = 0
               ELSE IF b + i < n THEN to = b + i
               ELSE to \in {n - 1, n}
  <2>1. Position(page, index) + Moved(K) = b + i
    BY <1>1, <1>2 DEF Position
  <2> QED BY <2>1 DEF Goes
<1>8. /\ page' = at.page
      /\ index' = IF Redraws(K, at) THEN Corrected(at.index, Rendered(at.page, at.max))
                  ELSE at.index
  BY DEF Turn
<1> HIDE DEF n, b, i, at, to
<1>9. CASE i >= 0 /\ i < maxindex
  <2>1. at = [page |-> page, index |-> i, max |-> maxindex]
    BY <1>1, <1>2, <1>4, <1>9 DEF BackTo, OnTo
  <2>2. page' = page /\ index' = i /\ to = b + i
    BY <1>1, <1>2, <1>5, <1>6, <1>8, <1>9, <2>1 DEF b
  <2> QED BY <1>1, <1>2, <1>3, <1>9, <2>2, Constants DEF Lower
<1>10. CASE i >= 0 /\ i >= maxindex /\ maxindex >= SLOTS
  <2>1. back = [page |-> page, index |-> i, max |-> maxindex]
    BY <1>10 DEF BackTo
  <2>2. at.page = page + 1 /\ at.index = i - SLOTS /\ at.max = maxindex
    BY <1>1, <1>2, <1>4, <1>10, <2>1 DEF OnTo
  <2>3. page + 1 \in Nat /\ (page + 1) * SLOTS = b + SLOTS
    BY <1>1, Pages DEF b
  <2>4. b + SLOTS <= n /\ Seek(page + 1)
    BY <1>1, <1>2, <1>3, <1>10, <2>3, Constants DEF Lower, Seek, n
  <2> DEFINE m == Rendered(page + 1, maxindex)
             o == OnPage(page + 1)
  <2>5. /\ o = Lower(SLOTS, n - (b + SLOTS)) /\ o \in 0 .. SLOTS /\ m \in {o, o + 1}
        /\ m = o + 1 => o = SLOTS
    BY <1>1, <2>3, <2>4, PageLength DEF OnPage, n
  <2>6. page' = page + 1 /\ index' = Corrected(i - SLOTS, m)
    BY <1>1, <1>5, <1>8, <2>2
  <2> HIDE DEF m, o
  <2>7. CASE i - SLOTS >= m
    <3>1. index' = m - 1
      BY <2>6, <2>7 DEF Corrected
    <3>2. to = b + SLOTS + m - 1
      BY <1>2, <1>6, <2>3, <2>5, <2>6, <3>1, Constants
    <3>3. o < SLOTS /\ m = o
      BY <1>1, <1>2, <2>5, <2>7, Constants
    <3>4. m = n - (b + SLOTS)
      BY <1>2, <2>5, <3>3, Constants DEF Lower
    <3> QED BY <1>2, <2>4, <2>7, <3>2, <3>4, Constants
  <2>8. CASE ~(i - SLOTS >= m)
    <3>1. to = b + i
      BY <1>2, <1>6, <2>3, <2>6, <2>8, Constants DEF Corrected
    <3> QED BY <1>2, <1>10, <2>4, <2>5, <2>8, <3>1, Constants DEF Lower
  <2> QED BY <2>7, <2>8
<1>11. CASE i >= 0 /\ i >= maxindex /\ ~(maxindex >= SLOTS)
  <2>1. back = [page |-> page, index |-> i, max |-> maxindex]
    BY <1>11 DEF BackTo
  <2>2. at.page = page /\ at.index = maxindex - 1
    BY <1>1, <1>2, <1>4, <1>11, <2>1 DEF OnTo
  <2>3. page' = page /\ index' = maxindex - 1 /\ to = b + maxindex - 1
    BY <1>1, <1>2, <1>5, <1>6, <1>8, <1>11, <2>2 DEF b
  <2>4. maxindex = OnPage(page) /\ OnPage(page) < SLOTS
    BY <1>1, <1>3, <1>11, Constants
  <2>5. maxindex = n - b
    BY <1>2, <1>3, <2>4, Constants DEF Lower
  <2>6. to = n - 1 /\ b + i >= n
    <3>1. i >= maxindex /\ i \in Int /\ maxindex \in Int /\ b \in Int /\ n \in Int
      BY <1>1, <1>2, <1>11, Constants
    <3> QED BY <2>3, <2>5, <3>1
  <2> QED BY <1>2, <2>6
<1>12. CASE i < 0 /\ ~(page > 0)
  <2>1. back = [page |-> page, index |-> 0, max |-> maxindex] /\ page = 0 /\ b = 0
    BY <1>1, <1>2, <1>12, Constants DEF BackTo, b
  <2>2. at.page = page /\ at.index = IF 0 >= maxindex THEN maxindex - 1 ELSE 0
    BY <1>1, <1>4, <2>1, Constants DEF OnTo
  <2>3. page' = page /\ index' = at.index /\ to = at.index
    BY <1>1, <1>5, <1>6, <1>8, <1>12, <2>1, <2>2, Constants
  <2> QED BY <1>1, <1>2, <1>3, <1>12, <2>1, <2>2, <2>3, Constants DEF Lower
<1>13. CASE i < 0 /\ page > 0
  <2> DEFINE m == Rendered(page - 1, maxindex)
  <2>1. page - 1 \in Nat /\ (page - 1) * SLOTS = b - SLOTS
    BY <1>1, <1>13, Pages DEF b
  <2>2. Seek(page - 1)
    BY <1>2, <2>1, Constants DEF Seek, n
  <2>3. OnPage(page - 1) = SLOTS /\ m \in {SLOTS, SLOTS + 1}
    <3>1. OnPage(page - 1) = Lower(SLOTS, n - (b - SLOTS))
      BY <2>1 DEF OnPage, n
    <3>2. OnPage(page - 1) = SLOTS
      BY <1>2, <3>1, Constants DEF Lower
    <3> QED BY <1>1, <2>1, <2>2, <3>2, PageLength
  <2>4. back = [page |-> page - 1, index |-> i + SLOTS, max |-> m]
    BY <1>2, <1>13 DEF BackTo
  <2> HIDE DEF m
  <2>5. at.page = page - 1 /\ at.index = i + SLOTS
    BY <1>2, <1>4, <1>13, <2>3, <2>4, Constants DEF OnTo
  <2>6. page' = page - 1 /\ index' = i + SLOTS
    BY <1>1, <1>5, <1>8, <2>5
  <2>7. to = b + i
    BY <1>2, <1>6, <2>1, <2>6, Constants
  <2>8. b >= SLOTS
    BY <1>2, <2>1, <1>1, Pages, Constants
  <2> QED BY <1>2, <1>13, <2>7, <2>8, Constants
<1> QED BY <1>1, <1>2, <1>9, <1>10, <1>11, <1>12, <1>13

\* What a turn does to the page and the index, whichever of the two drawings it ends
\* with: the correction only lowers the index.
LEMMA TurnLowers ==
  ASSUME SelectorInv, NEW K \in SUBSET Keys, Turn(K),
         Scrolled(K).page \in Nat, Scrolled(K).index \in Int,
         Scrolled(K).max \in 0 .. SLOTS + 1
  PROVE  page' = Scrolled(K).page /\ index' \in Int /\ index' <= Scrolled(K).index
<1> DEFINE at == Scrolled(K)
           m == Rendered(at.page, at.max)
<1>1. m \in Int
  <2>1. dir \in Directories
    BY DEF SelectorInv, TypeOK
  <2>2. m \in 0 .. SLOTS + 1
    BY <2>1, RenderedType
  <2> QED BY <2>2, Constants
<1>2. /\ page' = at.page
      /\ index' = IF Redraws(K, at) THEN Corrected(at.index, m) ELSE at.index
  BY DEF Turn
<1> HIDE DEF at, m
<1>3. at.index \in Int
  BY DEF at
<1>4. index' \in Int /\ index' <= at.index
  BY <1>1, <1>2, <1>3 DEF Corrected
<1> QED BY <1>2, <1>4 DEF at

\* Where SCROLL1_LEFT alone leads.
LEMMA LeftStep ==
  ASSUME SelectorInv, Turn({"SCROLL1_LEFT"})
  PROVE  Home' \/ Position(page, index)' <= Position(page, index) - ROW
<1> DEFINE K == {"SCROLL1_LEFT"}
           at == Scrolled(K)
           i == index - ROW
           b == page * SLOTS
<1>1. /\ page \in Nat /\ index \in -1 .. SLOTS /\ maxindex \in 0 .. SLOTS + 1
      /\ dir \in Directories /\ i \in Int /\ i < SLOTS /\ b \in Nat
  BY Constants, Pages DEF SelectorInv, TypeOK
<1>2. K \in SUBSET Keys /\ K \intersect Scrolls # {}
  BY DEF Keys, Scrolls
<1>3. at = OnTo(BackTo(i))
  <2>1. Moved(K) = -ROW
    BY Constants DEF Moved
  <2>2. index + Moved(K) = i
    BY <1>1, <2>1, Constants
  <2> QED BY <1>2, <2>2 DEF Scrolled
<1>4. Turn(K)
  OBVIOUS
<1> HIDE DEF K, at, i, b
<1>5. Position(page, index) - ROW = b + i
  BY <1>1, Constants DEF Position, b, i
<1>6. Position(page, index)' = page' * SLOTS + index'
  BY DEF Position
<1>7. CASE i >= 0
  <2>1. BackTo(i) = [page |-> page, index |-> i, max |-> maxindex]
    BY <1>7 DEF BackTo
  <2>2. at.page = page /\ at.index \in Int /\ at.index <= i /\ at.max = maxindex
    BY <1>1, <1>3, <2>1, Constants DEF OnTo
  <2>3. page' = page /\ index' \in Int /\ index' <= at.index
    BY <1>1, <1>2, <1>4, <2>2, TurnLowers DEF at
  <2> QED BY <1>1, <1>5, <1>6, <2>2, <2>3 DEF b
<1>8. CASE i < 0 /\ page > 0
  <2> DEFINE m == Rendered(page - 1, maxindex)
  <2>1. page - 1 \in Nat /\ (page - 1) * SLOTS = b - SLOTS
    BY <1>1, <1>8, Pages DEF b
  <2>2. m \in 0 .. SLOTS + 1
    BY <1>1, <2>1, RenderedType
  <2>3. BackTo(i) = [page |-> page - 1, index |-> i + SLOTS, max |-> m]
    BY <1>1, <1>8 DEF BackTo
  <2> HIDE DEF m
  <2>4. at.page = page - 1 /\ at.index \in Int /\ at.index <= i + SLOTS /\ at.max = m
    BY <1>1, <1>3, <1>8, <2>2, <2>3, Constants DEF OnTo
  <2>5. page' = page - 1 /\ index' \in Int /\ index' <= at.index
    BY <1>2, <1>4, <2>1, <2>2, <2>4, TurnLowers DEF at
  <2>6. Position(page, index)' = b - SLOTS + index'
    BY <1>6, <2>1, <2>5
  <2> QED BY <1>1, <1>5, <2>4, <2>5, <2>6, Constants
<1>9. CASE i < 0 /\ ~(page > 0)
  <2>1. BackTo(i) = [page |-> page, index |-> 0, max |-> maxindex] /\ page = 0
    BY <1>1, <1>9 DEF BackTo
  <2>2. at.page = page /\ at.index \in Int /\ at.index <= 0 /\ at.max = maxindex
    BY <1>1, <1>3, <2>1, Constants DEF OnTo
  <2>3. page' = 0 /\ index' \in Int /\ index' <= at.index
    BY <1>1, <1>2, <1>4, <2>1, <2>2, TurnLowers DEF at
  <2>4. Home'
    BY <2>2, <2>3 DEF Home
  <2> QED BY <2>4
<1> QED BY <1>1, <1>7, <1>8, <1>9

\* A turn without a key may correct the index, and only downwards.
LEMMA IdleStep ==
  ASSUME SelectorInv, Turn({})
  PROVE  Position(page, index)' <= Position(page, index)
<1>1. /\ page \in Nat /\ index \in Int /\ maxindex \in 0 .. SLOTS + 1
      /\ page * SLOTS \in Nat
  BY Constants, Pages DEF SelectorInv, TypeOK
<1>2. Scrolled({}) = [page |-> page, index |-> index, max |-> maxindex]
  BY DEF Scrolled
<1>3. page' = page /\ index' \in Int /\ index' <= index
  <2>1. {} \in SUBSET Keys
    OBVIOUS
  <2> QED BY <1>1, <1>2, <2>1, TurnLowers
<1> QED BY <1>1, <1>3 DEF Position

-----------------------------------------------------------------------------
(* The theorems *)

\* The selector's state stays within its bounds: the index between -1 and the slot behind
\* a full page, and nothing but names of scripts on the screen.
THEOREM SelectorIsTyped == Spec => []TypeOK
<1>1. SelectorInv => TypeOK
  BY DEF SelectorInv
<1> QED BY <1>1, Invariant, PTL

\* The script the supervisor is given is the one drawn in the slot of the index.
THEOREM TheScriptOnTheScreenIsStarted == Spec => []ChosenIsOnScreen
<1>1. SelectorInv => ChosenIsOnScreen
  <2> SUFFICES ASSUME SelectorInv, pc = "program", seen
               PROVE  \/ chosen.at < Len(screen) /\ chosen.name = screen[chosen.at + 1]
                      \/ chosen.at = SLOTS
    BY DEF ChosenIsOnScreen
  <2>1. /\ page \in Nat /\ index \in Int /\ index >= 0 /\ chosen.at = index
        /\ page * SLOTS + index < Len(dir.scripts) /\ index < Rendered(page, 0)
        /\ chosen.name = dir.scripts[page * SLOTS + index + 1]
        /\ screen = Page(page) /\ dir \in Directories /\ Seek(page) /\ 0 \in 0 .. SLOTS + 1
    BY Constants DEF SelectorInv, TypeOK, ChosenIsKnown, ScreenIsKnown, PageIsKnown, Position
  <2>2. /\ Len(screen) = OnPage(page) /\ OnPage(page) \in 0 .. SLOTS
        /\ Rendered(page, 0) \in {OnPage(page), OnPage(page) + 1}
        /\ Rendered(page, 0) = OnPage(page) + 1 => OnPage(page) = SLOTS
        /\ \A i \in Nat : i < OnPage(page) => screen[i + 1] = dir.scripts[page * SLOTS + i + 1]
    BY <2>1, PageLength
  <2>3. CASE index < OnPage(page)
    BY <2>1, <2>2, <2>3
  <2>4. CASE ~(index < OnPage(page))
    BY <2>1, <2>2, <2>4, Constants
  <2> QED BY <2>3, <2>4
<1> QED BY <1>1, Invariant, PTL

\* No rectangle is left around a script that is not the one at the index.
THEOREM TheCursorIsAtTheIndex == Spec => []CursorsMarkTheIndex
<1>1. SelectorInv => CursorsMarkTheIndex
  BY DEF SelectorInv
<1> QED BY <1>1, Invariant, PTL

\* Only the page behind an exactly full last one is empty, and the index is -1 on it.
LEMMA EmptyPage ==
  ASSUME SelectorInv, seen, screen = <<>>
  PROVE  page * SLOTS = Len(dir.scripts) /\ index = -1
<1>1. /\ page \in Nat /\ index \in -1 .. SLOTS /\ dir \in Directories /\ Seek(page)
      /\ maxindex = Rendered(page, 0) /\ index < maxindex /\ screen = Page(page)
      /\ 0 \in 0 .. SLOTS + 1
  BY Constants DEF SelectorInv, TypeOK, PageIsKnown, ScreenIsKnown
<1>2. /\ Len(Page(page)) = OnPage(page)
      /\ Rendered(page, 0) \in {OnPage(page), OnPage(page) + 1}
      /\ Rendered(page, 0) = OnPage(page) + 1 => OnPage(page) = SLOTS
  BY <1>1, PageLength
<1>3. OnPage(page) = 0
  BY <1>1, <1>2
<1>4. index = -1
  BY <1>1, <1>2, <1>3, Constants
<1>5. page * SLOTS \in Nat /\ Len(dir.scripts) \in Nat
  <2>1. page * SLOTS \in Nat
    BY <1>1, Pages
  <2> QED BY <1>1, <2>1, DirectoryType
<1>6. page * SLOTS = Len(dir.scripts)
  BY <1>1, <1>3, <1>5, Constants DEF Seek, OnPage, Lower
<1> QED BY <1>4, <1>6

\* In a directory that stays the same no key leads to a page that is not there, nor to
\* one without scripts, but for the page behind an exactly full last one.
THEOREM NoPageIsMissed == Spec => NoPageIsMissing
<1>1. ASSUME SelectorInv, Next, seen, dir' = dir, pc = "menu" PROVE seen'
  <2>1. CASE \E K \in SUBSET Keys : Turn(K)
    <3>1. PICK K \in SUBSET Keys : Turn(K)
      BY <2>1
    <3>2. Seek(Scrolled(K).page)
      BY <1>1, ScrolledKnown, BoundsOfType DEF SelectorInv
    <3> QED BY <1>1, <3>1, <3>2 DEF Turn
  <2>2. CASE Choose \/ GoHome
    BY <1>1, <2>2 DEF Choose, GoHome
  <2>3. CASE Call \/ Change
    BY <1>1, <2>3 DEF Call, Change, SelectorInv, TypeOK
  <2> QED BY <1>1, <2>1, <2>2, <2>3 DEF Next
<1>2. (SelectorInv /\ seen /\ screen = <<>>
         => page * SLOTS = Len(dir.scripts) /\ index = -1)'
  BY EmptyPage, PTL
<1>3. SelectorInv /\ SelectorInv' /\ [Next]_vars
        => [ seen /\ dir' = dir /\ pc = "menu"
               => /\ seen'
                  /\ screen' = <<>> => page' * SLOTS = Len(dir.scripts) /\ index' = -1 ]_vars
  BY <1>1, <1>2
<1> QED BY <1>3, Invariant, PTL DEF Spec, NoPageIsMissing

\* The scroll keys walk the list of scripts as one list, whatever the size of the pages.
THEOREM TheListIsWalked == Spec => ScrollWalksTheList
<1>1. ASSUME SelectorInv, NEW K \in (SUBSET Scrolls) \ {{}}
      PROVE  seen /\ Turn(K)
               => Goes(Position(page, index), Moved(K), Position(page, index)')
  <2> SUFFICES ASSUME seen, Turn(K)
               PROVE  Goes(Position(page, index), Moved(K), Position(page, index)')
    OBVIOUS
  <2>1. K \in SUBSET Scrolls /\ K # {}
    BY <1>1
  <2> QED BY <1>1, <2>1, ScrollStep
<1>2. SelectorInv /\ [Next]_vars =>
        [ \A K \in (SUBSET Scrolls) \ {{}} :
            seen /\ Turn(K) => Goes(Position(page, index), Moved(K), Position(page, index)') ]_vars
  BY <1>1
<1> QED BY <1>2, Invariant, PTL DEF Spec, ScrollWalksTheList

\* A user who only scrolls left is brought nearer to the first script by every press,
\* in every directory and from every page: the measure on which LeftLeadsHome rests.
THEOREM LeftIsProgress == Spec => LeftMakesProgress
<1>1. SelectorInv /\ [Next]_vars =>
        [ homing => \/ Home'
                    \/ /\ Position(page, index)' <= Position(page, index)
                       /\ Turn({"SCROLL1_LEFT"})
                            => Position(page, index)' <= Position(page, index) - ROW ]_vars
  <2> SUFFICES ASSUME SelectorInv, Next, homing, ~Home'
               PROVE  /\ Position(page, index)' <= Position(page, index)
                      /\ Turn({"SCROLL1_LEFT"})
                           => Position(page, index)' <= Position(page, index) - ROW
    OBVIOUS
  <2>1. Turn({"SCROLL1_LEFT"}) => Position(page, index)' <= Position(page, index) - ROW
    BY LeftStep
  <2>2. Position(page, index) \in Int
    BY Constants, Pages DEF SelectorInv, TypeOK, Position
  <2>3. Position(page, index)' <= Position(page, index)
    <3>1. CASE \E K \in SUBSET Keys : Turn(K)
      <4>1. Turn({}) \/ Turn({"SCROLL1_LEFT"})
        BY <3>1 DEF Turn
      <4>2. CASE Turn({})
        BY <4>2, IdleStep
      <4>3. CASE Turn({"SCROLL1_LEFT"})
        <5>1. Position(page, index)' \in Int
          <6>1. SelectorInv'
            BY NextInv
          <6>2. page' \in Int /\ index' \in Int
            BY <6>1, Constants DEF SelectorInv, TypeOK
          <6>3. page' * SLOTS \in Int
            BY <6>2, Pages
          <6> QED BY <6>2, <6>3 DEF Position
        <5> QED BY <2>1, <2>2, <4>3, <5>1, Constants
      <4> QED BY <4>1, <4>2, <4>3
    <3>2. CASE Call
      <4>1. Position(page, index)' = Position(page, index)
        BY <3>2 DEF Call, static, Position
      <4> QED BY <2>2, <4>1
    <3>3. CASE Choose \/ Change \/ GoHome
      BY <3>3 DEF Choose, Change, GoHome
    <3> QED BY <3>1, <3>2, <3>3 DEF Next
  <2> QED BY <2>1, <2>3
<1> QED BY <1>1, Invariant, PTL DEF Spec, LeftMakesProgress
=============================================================================
