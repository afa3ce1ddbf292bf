------------------------- MODULE OverlayPoolProofs -------------------------
(***************************************************************************)
(* Proofs about OverlayPool: the blocks always tile the pool, an eviction  *)
(* always has a block to free, no overlay is in the pool twice, and the    *)
(* block used last is the last to go.  They assume that the halfword       *)
(* behind the pool is not -1.                                              *)
(*                                                                         *)
(* The inductive invariant is PoolInv.  Its last conjuncts say why the use *)
(* counters order the blocks (CountsBounded) and that a pending request    *)
(* can be met by an empty pool (RequestFits).                              *)
(***************************************************************************)
EXTENDS PoolHistory, FiniteSetTheorems, TLAPS

\* What the proofs assume of the memory behind the pool.
NothingBehind == "free" \notin EndWords

USE PoolAssumption DEF PoolAssumption, Free

-----------------------------------------------------------------------------
(* Lemmas about the operations on an arena *)

\* Joining block b with the block behind it keeps the tiling (amxpool.c:105, 118).
LEMMA MergeTiles ==
  ASSUME NEW a, Typed(a), Tiled(a), NEW b \in DOMAIN a, End(a, b) \in DOMAIN a
  PROVE  LET m == Merge(a, b, End(a, b))
         IN  /\ Typed(m) /\ Tiled(m)
             /\ DOMAIN m = DOMAIN a \ {End(a, b)}
             /\ \A c \in DOMAIN m : /\ m[c].index = a[c].index /\ m[c].lru = a[c].lru
                                    /\ c # b => End(m, c) = End(a, c)
             /\ End(m, b) = End(a, End(a, b))
<1> DEFINE n == End(a, b)
           m == Merge(a, b, n)
<1> HIDE DEF m
<1>1. /\ DOMAIN a \subseteq Nat
      /\ \A c \in DOMAIN a : /\ a[c].size \in Nat /\ a[c].index \in Indices \union {Free}
                             /\ a[c].lru \in 0 .. PROTECT_LRU
                             /\ a[c] = [size |-> a[c].size, index |-> a[c].index,
                                        lru |-> a[c].lru]
  BY DEF Typed, Header
<1>2. DOMAIN m = DOMAIN a \ {n}
  BY DEF m, Merge
<1>3. \A c \in DOMAIN a : End(a, c) \in Nat /\ c < End(a, c)
  BY <1>1 DEF End
<1>4. b \in DOMAIN m
  BY <1>2, <1>3, <1>1
<1>5. \A c \in DOMAIN m : m[c] = IF c = b THEN [a[b] EXCEPT !.size = a[b].size + a[n].size + ARENA]
                                         ELSE a[c]
  BY <1>2 DEF m, Merge, Joined
<1>6. \A c \in DOMAIN m : m[c].index = a[c].index /\ m[c].lru = a[c].lru
  BY <1>5, <1>2, <1>1
<1>7. m[b].size = a[b].size + a[n].size + ARENA
  BY <1>4, <1>5, <1>1
<1>8. \A c \in DOMAIN m : c # b => End(m, c) = End(a, c)
  BY <1>5, <1>2 DEF End
<1>9. End(m, b) = End(a, n)
  BY <1>7, <1>1 DEF End
<1>10. Typed(m)
  <2>1. \A c \in DOMAIN m : m[c] \in Header
    <3>1. m[b] \in Header
      BY <1>4, <1>5, <1>1 DEF Header
    <3>2. QED
      BY <3>1, <1>5, <1>2 DEF Typed
  <2>2. QED
    BY <2>1, <1>2 DEF Typed
<1>11. Tiled(m)
  <2>1. 0 \in DOMAIN m
    BY <1>1, <1>2, <1>3 DEF Tiled
  <2>2. ASSUME NEW c \in DOMAIN m PROVE End(m, c) \in DOMAIN m \union {PoolSize}
    <3>1. CASE c = b
      <4>1. End(a, n) # n
        BY <1>3, <1>1
      <4>2. QED
        BY <4>1, <3>1, <1>9, <1>2 DEF Tiled
    <3>2. CASE c # b
      <4>1. c \in DOMAIN a /\ c # n
        BY <1>2
      <4>2. End(a, c) # n
        BY <4>1, <3>2, <1>1, <1>3 DEF Tiled
      <4>3. QED
        BY <4>1, <4>2, <3>2, <1>8, <1>2 DEF Tiled
    <3>3. QED
      BY <3>1, <3>2
  <2>3. ASSUME NEW c \in DOMAIN m, NEW d \in DOMAIN m, c < d PROVE End(m, c) <= d
    <3>1. c \in DOMAIN a /\ d \in DOMAIN a /\ d # n /\ c # n
      BY <1>2
    <3>2. CASE c = b
      <4>1. n < d
        BY <3>1, <3>2, <2>3, <1>1, <1>3 DEF Tiled
      <4>2. QED
        BY <4>1, <3>1, <3>2, <1>9 DEF Tiled
    <3>3. CASE c # b
      BY <3>1, <3>3, <2>3, <1>8 DEF Tiled
    <3>4. QED
      BY <3>2, <3>3
  <2>4. QED
    BY <2>1, <2>2, <2>3 DEF Tiled
<1>12. QED
  BY <1>2, <1>3, <1>6, <1>8, <1>9, <1>10, <1>11 DEF m

\* Marking a block free moves nothing.
LEMMA ReleaseTiles ==
  ASSUME NEW a, Typed(a), Tiled(a), NEW b \in DOMAIN a
  PROVE  LET r == Release(a, b)
         IN  /\ Typed(r) /\ Tiled(r) /\ DOMAIN r = DOMAIN a
             /\ r[b].index = Free /\ r[b].lru = a[b].lru
             /\ \A c \in DOMAIN a : End(r, c) = End(a, c) /\ (c # b => r[c] = a[c])
<1> DEFINE r == Release(a, b)
<1> HIDE DEF r
<1>1. /\ DOMAIN r = DOMAIN a
      /\ \A c \in DOMAIN a : c # b => r[c] = a[c]
      /\ r[b] = [a[b] EXCEPT !.index = Free]
  BY DEF r, Release
<1>2. a[b] \in Header
  BY DEF Typed
<1>3. /\ r[b] \in Header /\ r[b].index = Free
      /\ r[b].size = a[b].size /\ r[b].lru = a[b].lru
  BY <1>1, <1>2 DEF Header
<1>4. \A c \in DOMAIN a : End(r, c) = End(a, c)
  BY <1>1, <1>3 DEF End
<1>5. Typed(r)
  BY <1>1, <1>3 DEF Typed
<1>6. Tiled(r)
  BY <1>1, <1>4 DEF Tiled
<1>7. QED
  BY <1>1, <1>3, <1>4, <1>5, <1>6 DEF r

\* The free blocks of a have no free neighbour, but for block b.
SeparatedBut(a, b) ==
  \A c \in DOMAIN a : c # b /\ IsFree(a, c) /\ End(a, c) # b => ~IsFree(a, End(a, c))

Separated(a) == \A c \in DOMAIN a : IsFree(a, c) => ~IsFree(a, End(a, c))

\* An arena m that differs from a by what freeing block b does: b is free or part
\* of the block before it, and every other block in use is where it was.
Without(a, m, b) ==
  /\ DOMAIN m \subseteq DOMAIN a
  /\ \A c \in DOMAIN m : /\ m[c].index = IF c = b THEN Free ELSE a[c].index
                         /\ m[c].lru = a[c].lru
  /\ \A c \in DOMAIN a \ DOMAIN m : c = b \/ IsFree(a, c)
  /\ \A c \in DOMAIN m : c = b \/ IsFree(a, c) \/ End(m, c) = End(a, c)

\* After joining the block behind, block b is free and the block behind it is not.
LEMMA JoinNextSeparates ==
  ASSUME NEW a, Typed(a), Tiled(a), NEW b \in DOMAIN a, IsFree(a, b), SeparatedBut(a, b)
  PROVE  LET m == JoinNext(a, b)
         IN  /\ Typed(m) /\ Tiled(m) /\ b \in DOMAIN m /\ IsFree(m, b)
             /\ \A c \in DOMAIN m : IsFree(m, c) /\ End(m, c) # b => ~IsFree(m, End(m, c))
             /\ Without(a, m, b)
<1> DEFINE n == End(a, b)
           m == JoinNext(a, b)
<1> HIDE DEF m
<1>1. CASE ~IsFree(a, n)
  <2>1. m = a
    BY <1>1 DEF JoinNext, m
  <2>2. QED
    BY <2>1, <1>1 DEF SeparatedBut, Without, IsFree, m
<1>2. CASE IsFree(a, n)
  <2>1. n \in DOMAIN a /\ m = Merge(a, b, n)
    BY <1>2 DEF JoinNext, IsFree, m
  <2>2. /\ Typed(m) /\ Tiled(m)
        /\ DOMAIN m = DOMAIN a \ {n}
        /\ \A c \in DOMAIN m : /\ m[c].index = a[c].index /\ m[c].lru = a[c].lru
                               /\ c # b => End(m, c) = End(a, c)
        /\ End(m, b) = End(a, n)
    BY <2>1, MergeTiles
  <2>3. b # n /\ b < n /\ b \in DOMAIN m /\ b \in Nat
    <3>1. b \in Nat /\ a[b].size \in Nat
      BY DEF Typed, Header
    <3>2. b # n /\ b < n
      BY <3>1 DEF End
    <3>3. QED
      BY <3>1, <3>2, <2>2
  <2>4. IsFree(m, b)
    BY <2>2, <2>3 DEF IsFree
  <2>5. b < End(a, n)
    BY <2>2, <2>3, <2>1 DEF End, Typed, Header
  <2>6. ~IsFree(a, End(a, n))
    BY <2>5, <2>3, <1>2, <2>1 DEF SeparatedBut
  <2>7. ASSUME NEW c \in DOMAIN m, IsFree(m, c), End(m, c) # b
        PROVE  ~IsFree(m, End(m, c))
    <3>1. CASE c = b
      BY <3>1, <2>2, <2>6 DEF IsFree
    <3>2. CASE c # b
      <4>1. c \in DOMAIN a /\ IsFree(a, c) /\ End(a, c) # b
        BY <2>7, <3>2, <2>2 DEF IsFree
      <4>2. ~IsFree(a, End(a, c))
        BY <4>1, <3>2 DEF SeparatedBut
      <4>3. QED
        BY <4>2, <3>2, <2>2 DEF IsFree
    <3>3. QED
      BY <3>1, <3>2
  <2>8. Without(a, m, b)
    BY <2>2, <1>2 DEF Without, IsFree
  <2>9. QED
    BY <2>2, <2>3, <2>4, <2>7, <2>8 DEF m
<1>3. QED
  BY <1>1, <1>2

\* After joining the block before as well, no two free blocks are neighbours.
LEMMA JoinPreviousSeparates ==
  ASSUME NEW a, Typed(a), Tiled(a), NEW b \in DOMAIN a, IsFree(a, b),
         \A c \in DOMAIN a : IsFree(a, c) /\ End(a, c) # b => ~IsFree(a, End(a, c)),
         NEW m \in JoinPrevious(a, b)
  PROVE  Typed(m) /\ Tiled(m) /\ Separated(m) /\ Without(a, m, b)
<1>1. CASE ~ \E p \in DOMAIN a : End(a, p) = b /\ IsFree(a, p)
  <2>1. m = a
    BY <1>1 DEF JoinPrevious
  <2>2. QED
    BY <2>1, <1>1 DEF Separated, Without, IsFree
<1>2. CASE \E p \in DOMAIN a : End(a, p) = b /\ IsFree(a, p)
  <2>1. PICK p \in DOMAIN a : End(a, p) = b /\ IsFree(a, p)
    BY <1>2
  <2>2. \A q \in DOMAIN a : End(a, q) \in Nat /\ q \in Nat /\ q < End(a, q)
    BY DEF Typed, Header, End
  <2>3. \A q \in DOMAIN a : End(a, q) = b => q = p
    BY <2>1, <2>2 DEF Tiled
  <2>4. m = Merge(a, p, b)
    BY <1>2, <2>1, <2>3 DEF JoinPrevious
  <2>5. /\ Typed(m) /\ Tiled(m)
        /\ DOMAIN m = DOMAIN a \ {b}
        /\ \A c \in DOMAIN m : /\ m[c].index = a[c].index /\ m[c].lru = a[c].lru
                               /\ c # p => End(m, c) = End(a, c)
        /\ End(m, p) = End(a, b)
    BY <2>1, <2>4, MergeTiles
  <2>6. ~IsFree(a, End(a, b))
    BY <2>2
  <2>7. ASSUME NEW c \in DOMAIN m, IsFree(m, c)
        PROVE  ~IsFree(m, End(m, c))
    <3>1. CASE c = p
      BY <3>1, <2>5, <2>6 DEF IsFree
    <3>2. CASE c # p
      <4>1. c \in DOMAIN a /\ IsFree(a, c) /\ End(a, c) # b
        BY <2>7, <3>2, <2>5, <2>3 DEF IsFree
      <4>2. QED
        BY <4>1, <3>2, <2>5 DEF IsFree
    <3>3. QED
      BY <3>1, <3>2
  <2>8. Without(a, m, b)
    BY <2>1, <2>5 DEF Without
  <2>9. QED
    BY <2>5, <2>7, <2>8 DEF Separated
<1>3. QED
  BY <1>1, <1>2

\* amx_poolfree as a whole.
LEMMA FreedSeparates ==
  ASSUME NothingBehind, Typed(arena), Tiling, NoFreeNeighbours,
         NEW b \in Blocks, NEW m \in Freed(b)
  PROVE  Typed(m) /\ Tiled(m) /\ Separated(m) /\ Without(arena, m, b)
<1> DEFINE r == Release(arena, b)
           j == JoinNext(r, b)
<1> HIDE DEF r, j
<1>1. m \in JoinPrevious(j, b)
  BY DEF NothingBehind, Freed, r, j
<1>2. /\ Typed(r) /\ Tiled(r) /\ DOMAIN r = Blocks
      /\ r[b].index = Free /\ r[b].lru = arena[b].lru
      /\ \A c \in Blocks : End(r, c) = End(arena, c) /\ (c # b => r[c] = arena[c])
  BY ReleaseTiles DEF Tiling, Blocks, r
<1>3. IsFree(r, b) /\ b \in DOMAIN r
  BY <1>2 DEF IsFree
<1>4. SeparatedBut(r, b)
  BY <1>2 DEF SeparatedBut, NoFreeNeighbours, IsFree, After, Blocks
<1>5. /\ Typed(j) /\ Tiled(j) /\ b \in DOMAIN j /\ IsFree(j, b)
      /\ \A c \in DOMAIN j : IsFree(j, c) /\ End(j, c) # b => ~IsFree(j, End(j, c))
      /\ Without(r, j, b)
  BY <1>2, <1>3, <1>4, JoinNextSeparates DEF j
<1>6. Typed(m) /\ Tiled(m) /\ Separated(m) /\ Without(j, m, b)
  BY <1>1, <1>5, JoinPreviousSeparates
<1>7. Without(arena, m, b)
  BY <1>2, <1>5, <1>6 DEF Without, IsFree, Blocks
<1>8. QED
  BY <1>6, <1>7

\* Touching block b changes use counters only; that of b becomes the highest, as
\* far as no block in use was counted past pool_lru.
LEMMA TouchCounts ==
  ASSUME NEW a, Typed(a), NEW b \in DOMAIN a, pool_lru \in 0 .. PROTECT_LRU - 1,
         \A c \in DOMAIN a : c # b /\ a[c].index # Free => a[c].lru <= pool_lru
  PROVE  LET t == Touched(a, b)
             top == IF Wraps THEN 1 ELSE pool_lru + 1
         IN  /\ Typed(t) /\ DOMAIN t = DOMAIN a /\ top \in 0 .. PROTECT_LRU - 1
             /\ \A c \in DOMAIN a : /\ t[c].index = a[c].index
                                    /\ t[c].size = a[c].size
             /\ t[b].lru = top
             /\ \A c \in DOMAIN a : c # b /\ a[c].index # Free => t[c].lru < top
<1> DEFINE t == Touched(a, b)
           top == IF Wraps THEN 1 ELSE pool_lru + 1
<1> HIDE DEF t, top
<1>1. \A c \in DOMAIN a : /\ a[c] \in Header
                          /\ a[c].size \in Nat /\ a[c].index \in Indices \union {Free}
                          /\ a[c].lru \in 0 .. PROTECT_LRU
  BY DEF Typed, Header
<1>2. top \in 0 .. PROTECT_LRU - 1 /\ top \in Nat
  BY DEF Wraps, top
<1>3. DOMAIN t = DOMAIN a
  BY DEF t, Touched
<1>4. \A c \in DOMAIN a :
        t[c] = IF c = b THEN [a[c] EXCEPT !.lru = top]
               ELSE IF Wraps THEN [a[c] EXCEPT !.lru = 0] ELSE a[c]
  BY DEF t, Touched, top
<1>5. ASSUME NEW c \in DOMAIN a
      PROVE  /\ t[c] \in Header
             /\ t[c].index = a[c].index /\ t[c].size = a[c].size
             /\ t[c].lru = IF c = b THEN top ELSE IF Wraps THEN 0 ELSE a[c].lru
  <2>1. \A x \in 0 .. PROTECT_LRU :
          LET h == [a[c] EXCEPT !.lru = x]
          IN  h \in Header /\ h.index = a[c].index /\ h.size = a[c].size /\ h.lru = x
    BY <1>1 DEF Header
  <2>2. CASE c = b
    <3>1. t[c] = [a[c] EXCEPT !.lru = top]
      BY <2>2, <1>4, Zenon
    <3>2. top \in 0 .. PROTECT_LRU
      BY <1>2
    <3>3. QED
      BY <3>1, <3>2, <2>1, <2>2
  <2>3. CASE c # b /\ Wraps
    <3>1. t[c] = [a[c] EXCEPT !.lru = 0]
      BY <2>3, <1>4, Zenon
    <3>2. 0 \in 0 .. PROTECT_LRU
      OBVIOUS
    <3>3. QED
      BY <3>1, <3>2, <2>1, <2>3
  <2>4. CASE c # b /\ ~Wraps
    <3>1. t[c] = a[c]
      BY <2>4, <1>4
    <3>2. QED
      BY <3>1, <1>1, <2>4
  <2>5. QED
    BY <2>2, <2>3, <2>4
<1>6. Typed(t)
  BY <1>3, <1>5 DEF Typed
<1>7. \A c \in DOMAIN a : c # b /\ a[c].index # Free => t[c].lru < top
  BY <1>1, <1>5 DEF top
<1>8. QED
  BY <1>2, <1>3, <1>5, <1>6, <1>7 DEF t, top

\* What amx_poolalloc is asked for is at least a byte, and the overlays' sizes are
\* rounded up.
LEMMA NeedIsPositive == ASSUME NEW i \in Indices PROVE Need(i) \in Nat \ {0}
<1>1. SizeOf[i] \in Nat \ {0}
  OBVIOUS
<1>2. SizeOf[i] % CELL \in 0 .. CELL - 1
  BY <1>1
<1>3. QED
  BY <1>1, <1>2 DEF Need, AlignUp

\* Cutting the requested block from a free block keeps the tiling, and what stays
\* free has no free neighbour.
LEMMA PlacedTiles ==
  ASSUME TypeOK, Tiling, NoFreeNeighbours, request # Free, NEW b \in Fits(request)
  PROVE  LET p == Placed(b)
         IN  /\ Typed(p) /\ Tiled(p) /\ Separated(p) /\ Blocks \subseteq DOMAIN p
             /\ p[b].index = request /\ p[b].size >= Need(request)
             /\ \A c \in Blocks : c # b => p[c] = arena[c]
             /\ \A c \in DOMAIN p \ Blocks : p[c].index = Free
<1> DEFINE p == Placed(b)
           n == Need(request)
           r == b + n + ARENA
<1> HIDE DEF p
<1>1. request \in Indices /\ n \in Nat \ {0} /\ n = Need(request)
  BY NeedIsPositive DEF TypeOK
<1> HIDE DEF n, r
<1>2. b \in Blocks /\ b \in Nat /\ IsFree(arena, b) /\ arena[b].size >= n
  BY DEF Fits, IsFree, TypeOK, Typed, Blocks, n
<1>3. \A c \in Blocks : /\ c \in Nat /\ arena[c] \in Header /\ arena[c].size \in Nat
                        /\ arena[c].lru \in 0 .. PROTECT_LRU
                        /\ End(arena, c) \in Nat /\ c < End(arena, c)
  BY DEF TypeOK, Typed, Header, Blocks, End
<1>4. /\ 0 \in Blocks
      /\ \A c \in Blocks : End(arena, c) \in Blocks \union {PoolSize}
      /\ \A c, d \in Blocks : c < d => End(arena, c) <= d
  BY DEF Tiling, Tiled, Blocks
<1>5. \A c \in Blocks : IsFree(arena, c) => ~IsFree(arena, End(arena, c))
  BY DEF NoFreeNeighbours, After
<1>6. CASE ~(arena[b].size > n + MIN_BLOCKSIZE + ARENA)
  <2>1. p = [arena EXCEPT ![b].index = request]
    BY <1>6 DEF p, Placed, n
  <2>2. /\ DOMAIN p = Blocks
        /\ \A c \in Blocks : c # b => p[c] = arena[c]
        /\ p[b] = [arena[b] EXCEPT !.index = request]
    BY <2>1, <1>2 DEF Blocks
  <2>3. p[b] \in Header /\ p[b].index = request /\ p[b].size = arena[b].size
    BY <2>2, <1>1, <1>2, <1>3 DEF Header
  <2>4. \A c \in Blocks : End(p, c) = End(arena, c)
    BY <2>2, <2>3 DEF End
  <2>5. Typed(p)
    BY <2>2, <2>3, <1>3 DEF Typed, TypeOK, Blocks
  <2>6. Tiled(p)
    BY <2>2, <2>4, <1>4 DEF Tiled
  <2>7. Separated(p)
    BY <2>2, <2>3, <2>4, <1>5 DEF Separated, IsFree, Blocks
  <2>8. QED
    BY <2>2, <2>3, <2>5, <2>6, <2>7, <1>1, <1>2 DEF p
<1>7. CASE arena[b].size > n + MIN_BLOCKSIZE + ARENA
  <2> DEFINE block == [size |-> n, index |-> request, lru |-> arena[b].lru]
             tail == [size |-> arena[b].size - n - ARENA, index |-> Free, lru |-> 0]
  <2>1. p = [c \in Blocks \union {r} |->
               IF c = b THEN block ELSE IF c = r THEN tail ELSE arena[c]]
    BY <1>7 DEF p, Placed, n, r
  <2>2. /\ block \in Header /\ tail \in Header
        /\ r + tail.size + ARENA = End(arena, b)
    BY <1>7, <1>1, <1>2, <1>3 DEF Header, End, r
  <2>10. /\ b < r /\ r \in Nat
         /\ r < End(arena, b) /\ End(arena, b) <= PoolSize /\ r + ARENA <= PoolSize
    <3>1. End(arena, b) <= PoolSize
      BY <1>2, <1>3, <1>4 DEF TypeOK, Typed, Blocks
    <3>2. b < r /\ r \in Nat /\ r + ARENA <= End(arena, b)
      BY <1>7, <1>1, <1>2, <1>3 DEF End, r
    <3>3. QED
      BY <3>1, <3>2, <1>2, <1>3
  <2>3. r \notin Blocks
    BY <2>10, <1>2, <1>3, <1>4
  <2>4. /\ DOMAIN p = Blocks \union {r}
        /\ p[b] = block /\ p[r] = tail
        /\ \A c \in Blocks : c # b => p[c] = arena[c]
    BY <2>1, <2>10, <2>3, <1>2
  <2>5. /\ End(p, b) = r /\ End(p, r) = End(arena, b)
        /\ \A c \in Blocks : c # b => End(p, c) = End(arena, c)
    BY <2>2, <2>4 DEF End, r
  <2> HIDE DEF block, tail
  <2>6. Typed(p)
    <3>1. r \in 0 .. PoolSize - ARENA
      BY <2>10
    <3>2. QED
      BY <3>1, <2>2, <2>4, <1>3 DEF Typed, TypeOK, Blocks
  <2>7. Tiled(p)
    <3>1. \A c \in DOMAIN p : End(p, c) \in DOMAIN p \union {PoolSize}
      BY <2>4, <2>5, <1>2, <1>4
    <3>2. ASSUME NEW c \in DOMAIN p, NEW d \in DOMAIN p, c < d
          PROVE  End(p, c) <= d
      <4>1. CASE c = b /\ d = r
        BY <4>1, <2>10, <2>5
      <4>2. CASE c \in {b, r} /\ d # r
        <5>1. d \in Blocks /\ b < d
          <6>1. d \in Blocks /\ d \in Nat
            BY <4>2, <2>4, <1>3
          <6>2. QED
            BY <6>1, <4>2, <3>2, <2>10, <1>2
        <5>2. End(arena, b) <= d
          BY <5>1, <1>2, <1>4
        <5>3. QED
          BY <5>1, <5>2, <4>2, <2>10, <2>5, <1>2, <1>3
      <4>3. CASE c \notin {b, r} /\ d = r
        <5>1. c \in Blocks /\ c < b
          <6>1. c \in Blocks /\ c \in Nat /\ c < r /\ c # b
            BY <4>3, <3>2, <2>4, <1>3
          <6>2. ~(b < c)
            BY <6>1, <2>10, <1>2, <1>3, <1>4
          <6>3. QED
            BY <6>1, <6>2, <1>2
        <5>2. QED
          BY <5>1, <4>3, <2>10, <2>5, <1>2, <1>3, <1>4
      <4>4. CASE c \notin {b, r} /\ d # r
        BY <4>4, <3>2, <2>4, <2>5, <1>4
      <4>5. QED
        BY <4>1, <4>2, <4>3, <4>4, <3>2, <2>10
    <3>3. QED
      BY <3>1, <3>2, <2>4, <1>4 DEF Tiled
  <2>8. Separated(p)
    <3>1. ASSUME NEW c \in DOMAIN p, IsFree(p, c) PROVE ~IsFree(p, End(p, c))
      <4>1. c # b
        BY <3>1, <2>4, <1>1 DEF IsFree, block
      <4>2. CASE c = r
        <5>1. ~IsFree(arena, End(arena, b)) /\ End(arena, b) \notin {b, r}
          BY <1>2, <1>3, <1>5, <2>10
        <5>2. End(p, c) = End(arena, b)
          BY <4>2, <2>5
        <5>3. \A d \in Blocks : d # b => p[d] = arena[d]
          BY <2>4
        <5>4. DOMAIN p = Blocks \union {r}
          BY <2>4
        <5>5. QED
          BY <5>1, <5>2, <5>3, <5>4 DEF IsFree, Blocks
      <4>3. CASE c # r
        <5>1. c \in Blocks /\ IsFree(arena, c) /\ End(p, c) = End(arena, c)
          BY <4>1, <4>3, <3>1, <2>4, <2>5 DEF IsFree, Blocks
        <5>2. End(arena, c) # r
          BY <5>1, <1>3, <1>4, <2>10, <2>3 DEF TypeOK, Typed, Blocks
        <5>3. p[b].index # Free
          BY <2>4, <1>1 DEF block
        <5>4. ~IsFree(arena, End(arena, c))
          BY <5>1, <1>5
        <5>5. QED
          BY <5>1, <5>2, <5>3, <5>4, <2>4 DEF IsFree, Blocks
      <4>4. QED
        BY <4>2, <4>3
    <3>2. QED
      BY <3>1 DEF Separated
  <2>9. QED
    BY <2>4, <2>6, <2>7, <2>8, <1>1 DEF p, block, tail
<1>8. QED
  BY <1>6, <1>7

-----------------------------------------------------------------------------
(* The inductive invariant *)

\* No block in use was counted past pool_lru: a touch makes its block the highest.
CountsBounded == \A b \in Used : arena[b].lru <= pool_lru

\* A request in progress fits an empty pool and is not in the pool yet.
RequestFits ==
  request # Free => Need(request) + ARENA <= PoolSize /\ ~Resident(request)

PoolInv ==
  /\ TypeOK /\ Tiling /\ NoFreeNeighbours /\ OneBlockPerIndex
  /\ MostRecentIsHighest /\ CountsBounded /\ RequestFits

LEMMA EmptyPool == Typed(Empty) /\ Tiled(Empty) /\ Separated(Empty)
<1>1. /\ DOMAIN Empty = {0}
      /\ Empty[0] = [size |-> PoolSize - ARENA, index |-> Free, lru |-> 0]
  BY DEF Empty
<1>2. Typed(Empty)
  BY <1>1 DEF Typed, Header
<1>3. End(Empty, 0) = PoolSize
  BY <1>1 DEF End
<1>4. Tiled(Empty) /\ Separated(Empty)
  BY <1>1, <1>3 DEF Tiled, Separated, IsFree
<1>5. QED
  BY <1>2, <1>4

LEMMA InitInv == Init => PoolInv
<1> SUFFICES ASSUME arena = Empty, pool_lru = 0, request = Free, mru = Free
             PROVE  PoolInv
  BY DEF Init
<1>1. TypeOK /\ Tiling /\ NoFreeNeighbours
  BY EmptyPool DEF TypeOK, Tiling, NoFreeNeighbours, Separated, After, Blocks
<1>2. Used = {}
  BY DEF Used, Blocks, Empty
<1>3. QED
  BY <1>1, <1>2 DEF PoolInv, OneBlockPerIndex, MostRecentIsHighest, CountsBounded,
                    RequestFits

\* An eviction keeps the invariant: the blocks in use afterwards were in use before
\* with the same counts.
LEMMA EvictKeepsInv == ASSUME NothingBehind, PoolInv, PoolEvict PROVE PoolInv'
<1>1. PICK b \in Victims : arena' \in Freed(b)
  BY DEF PoolEvict
<1>2. b \in Blocks
  BY DEF PoolInv, Victims, LowestCount, Used, Tiling, Tiled, Blocks
<1>3. Typed(arena') /\ Tiled(arena') /\ Separated(arena') /\ Without(arena, arena', b)
  BY <1>1, <1>2, FreedSeparates DEF PoolInv, TypeOK
<1>4. pool_lru' = pool_lru /\ request' = request /\ mru' = mru
  BY DEF PoolEvict
<1>5. TypeOK'
  BY <1>3, <1>4 DEF PoolInv, TypeOK, Typed
<1>6. Tiling' /\ NoFreeNeighbours'
  BY <1>3 DEF Tiling, Tiled, NoFreeNeighbours, Separated, IsFree, After, End, Blocks
<1>7. \A c \in Used' : c \in Used /\ arena'[c].index = arena[c].index
                                  /\ arena'[c].lru = arena[c].lru
  BY <1>3 DEF Used, Blocks, Without
<1>8. OneBlockPerIndex' /\ MostRecentIsHighest' /\ CountsBounded'
  BY <1>4, <1>7 DEF PoolInv, OneBlockPerIndex, MostRecentIsHighest, CountsBounded
<1>9. RequestFits'
  <2>1. ASSUME request # Free PROVE ~Resident(request)'
    BY <2>1, <1>3, <1>4 DEF PoolInv, RequestFits, Resident, Find, Blocks, Without
  <2>2. QED
    BY <2>1, <1>4 DEF PoolInv, RequestFits
<1>10. QED
  BY <1>5, <1>6, <1>8, <1>9 DEF PoolInv

\* Touching block b of an arena a that is well formed makes PoolInv true again.
LEMMA TouchKeepsInv ==
  ASSUME NEW a, Typed(a), Tiled(a), Separated(a), NEW b \in DOMAIN a,
         pool_lru \in 0 .. PROTECT_LRU - 1,
         a[b].index \in Indices,
         \A c \in DOMAIN a : c # b /\ a[c].index # Free =>
            a[c].lru <= pool_lru /\ a[c].index # a[b].index,
         \A c, d \in DOMAIN a : a[c].index # Free /\ a[c].index = a[d].index => c = d,
         arena' = Touched(a, b), CountTouch, mru' = a[b].index, request' = Free
  PROVE  PoolInv'
<1> DEFINE top == IF Wraps THEN 1 ELSE pool_lru + 1
<1>1. /\ Typed(arena') /\ DOMAIN arena' = DOMAIN a /\ top \in 0 .. PROTECT_LRU - 1
      /\ \A c \in DOMAIN a : /\ arena'[c].index = a[c].index
                             /\ arena'[c].size = a[c].size
      /\ arena'[b].lru = top
      /\ \A c \in DOMAIN a : c # b /\ a[c].index # Free => arena'[c].lru < top
  BY TouchCounts
<1>2. pool_lru' = top
  BY DEF CountTouch
<1> HIDE DEF top
<1>3. \A c \in DOMAIN a : End(arena', c) = End(a, c)
  BY <1>1 DEF End
<1>4. Tiled(arena')
  BY <1>1, <1>3 DEF Tiled
<1>5. Separated(arena')
  BY <1>1, <1>3 DEF Separated, IsFree
<1>6. TypeOK'
  BY <1>1, <1>2 DEF TypeOK, Typed
<1>7. Tiling' /\ NoFreeNeighbours'
  BY <1>4, <1>5 DEF Tiling, Tiled, NoFreeNeighbours, Separated, IsFree, After, End, Blocks
<1>8. \A c \in Used' : c \in DOMAIN a /\ a[c].index # Free /\ arena'[c].index = a[c].index
  BY <1>1 DEF Used, Blocks
<1>9. OneBlockPerIndex'
  BY <1>8 DEF OneBlockPerIndex
<1>10. MostRecentIsHighest'
  BY <1>1, <1>8 DEF MostRecentIsHighest
<1>11. CountsBounded'
  <2>1. \A c \in DOMAIN a : arena'[c].lru \in Nat
    BY <1>1 DEF Typed, Header
  <2>2. QED
    BY <2>1, <1>1, <1>2, <1>8 DEF CountsBounded
<1>12. RequestFits'
  BY DEF RequestFits
<1>13. QED
  BY <1>6, <1>7, <1>9, <1>10, <1>11, <1>12 DEF PoolInv

LEMMA FindKeepsInv == ASSUME NEW i \in Indices, PoolInv, PoolFind(i) PROVE PoolInv'
<1>1. PICK b \in Find(i) : arena' = Touched(arena, b)
  BY DEF PoolFind
<1>2. b \in Blocks /\ arena[b].index = i
  BY <1>1 DEF Find
<1>3. i # Free
  OBVIOUS
<1>4. \A c, d \in Blocks : arena[c].index # Free /\ arena[c].index = arena[d].index => c = d
  BY DEF PoolInv, OneBlockPerIndex, Used
<1>5. \A c \in Blocks : c # b /\ arena[c].index # Free =>
        arena[c].lru <= pool_lru /\ arena[c].index # arena[b].index
  BY <1>2, <1>4 DEF PoolInv, CountsBounded, Used
<1>6. Typed(arena) /\ Tiled(arena) /\ Separated(arena) /\ pool_lru \in 0 .. PROTECT_LRU - 1
  BY DEF PoolInv, TypeOK, Tiling, NoFreeNeighbours, Separated, After, Blocks
<1>7. CountTouch /\ mru' = i /\ request' = Free
  BY DEF PoolFind
<1>8. QED
  BY <1>1, <1>2, <1>4, <1>5, <1>6, <1>7, TouchKeepsInv DEF Blocks

LEMMA PlaceKeepsInv == ASSUME PoolInv, PoolPlace PROVE PoolInv'
<1>1. PICK b \in Fits(request) : arena' = Touched(Placed(b), b)
  BY DEF PoolPlace
<1> DEFINE p == Placed(b)
<1> HIDE DEF p
<1>2. request # Free /\ request \in Indices /\ CountTouch /\ mru' = request /\ request' = Free
  BY DEF PoolPlace, PoolInv, TypeOK
<1>3. /\ Typed(p) /\ Tiled(p) /\ Separated(p) /\ Blocks \subseteq DOMAIN p
      /\ p[b].index = request
      /\ \A c \in Blocks : c # b => p[c] = arena[c]
      /\ \A c \in DOMAIN p \ Blocks : p[c].index = Free
  BY <1>2, PlacedTiles DEF PoolInv, p
<1>4. b \in Blocks
  BY DEF Fits
<1>5. \A c \in Blocks : arena[c].index # request
  BY <1>2 DEF PoolInv, RequestFits, Resident, Find
<1>6. \A c, d \in Blocks : arena[c].index # Free /\ arena[c].index = arena[d].index => c = d
  BY DEF PoolInv, OneBlockPerIndex, Used
<1>7. \A c \in DOMAIN p : c # b /\ p[c].index # Free =>
        c \in Blocks /\ p[c] = arena[c] /\ p[c].lru <= pool_lru /\ p[c].index # p[b].index
  BY <1>3, <1>5 DEF PoolInv, CountsBounded, Used
<1>8. \A c, d \in DOMAIN p : p[c].index # Free /\ p[c].index = p[d].index => c = d
  BY <1>3, <1>6, <1>7
<1>9. b \in DOMAIN p /\ pool_lru \in 0 .. PROTECT_LRU - 1
  BY <1>3, <1>4 DEF PoolInv, TypeOK
<1>10. arena' = Touched(p, b)
  BY <1>1 DEF p
<1>11. QED
  BY <1>2, <1>3, <1>7, <1>8, <1>9, <1>10, TouchKeepsInv

LEMMA NextKeepsInv == ASSUME NothingBehind, PoolInv, [Next]_poolVars PROVE PoolInv'
<1>1. CASE UNCHANGED poolVars
  BY <1>1 DEF poolVars, PoolInv, TypeOK, Typed, Tiling, Tiled, NoFreeNeighbours, IsFree,
              After, End, OneBlockPerIndex, MostRecentIsHighest, CountsBounded,
              RequestFits, Resident, Find, Used, Blocks
<1>2. ASSUME NEW i \in Indices, PoolFind(i) PROVE PoolInv'
  BY <1>2, FindKeepsInv
<1>3. ASSUME NEW i \in Indices, PoolAllocFails(i) PROVE PoolInv'
  BY <1>1, <1>3 DEF PoolAllocFails
<1>4. ASSUME NEW i \in Indices, PoolAllocCall(i) PROVE PoolInv'
  BY <1>4 DEF PoolAllocCall, PoolInv, TypeOK, Typed, Tiling, Tiled, NoFreeNeighbours,
              IsFree, After, End, OneBlockPerIndex, MostRecentIsHighest, CountsBounded,
              RequestFits, Resident, Find, Used, Blocks
<1>5. CASE PoolInit
  <2>1. arena' = Empty /\ pool_lru' = 0 /\ request' = Free /\ mru' = Free
    BY <1>5 DEF PoolInit
  <2>2. TypeOK' /\ Tiling' /\ NoFreeNeighbours'
    BY <2>1, EmptyPool DEF TypeOK, Typed, Tiling, Tiled, NoFreeNeighbours, Separated,
                           IsFree, After, End, Blocks
  <2>3. Used' = {}
    BY <2>1 DEF Used, Blocks, Empty
  <2>4. QED
    BY <2>1, <2>2, <2>3 DEF PoolInv, OneBlockPerIndex, MostRecentIsHighest,
                            CountsBounded, RequestFits
<1>6. CASE PoolEvict
  BY <1>6, EvictKeepsInv
<1>7. CASE PoolPlace
  BY <1>7, PlaceKeepsInv
<1>8. QED
  BY <1>1, <1>2, <1>3, <1>4, <1>5, <1>6, <1>7 DEF Next

-----------------------------------------------------------------------------
(* Theorems *)

LEMMA InvHolds == ASSUME NothingBehind PROVE Spec => []PoolInv
<1>1. PoolInv /\ [Next]_poolVars => PoolInv'
  BY NextKeepsInv
<1>2. QED
  BY <1>1, InitInv, PTL DEF Spec

\* The variables of the pool stay in their ranges; the use counter never reaches
\* the value that marks a protected block (amxpool.c:246).
THEOREM PoolTypeCorrect == ASSUME NothingBehind PROVE Spec => []TypeOK
<1>1. PoolInv => TypeOK
  BY DEF PoolInv
<1>2. QED
  BY <1>1, InvHolds, PTL

\* For every pool and every set of overlays, the blocks tile the pool: no scan of the
\* allocator leaves it (the assertions sz<=pool_size of amxpool.c).
THEOREM PoolIsTiled == ASSUME NothingBehind PROVE Spec => []Tiling
<1>1. PoolInv => Tiling
  BY DEF PoolInv
<1>2. QED
  BY <1>1, InvHolds, PTL

\* amx_poolfree joins free blocks whatever the order they are freed in.
THEOREM FreeBlocksAreJoined == ASSUME NothingBehind PROVE Spec => []NoFreeNeighbours
<1>1. PoolInv => NoFreeNeighbours
  BY DEF PoolInv
<1>2. QED
  BY <1>1, InvHolds, PTL

\* An overlay is never in the pool twice (amxpool.c:128, 147).
THEOREM OverlaysAreUnique == ASSUME NothingBehind PROVE Spec => []OneBlockPerIndex
<1>1. PoolInv => OneBlockPerIndex
  BY DEF PoolInv
<1>2. QED
  BY <1>1, InvHolds, PTL

\* The overlay used last has the highest count, also after the counter has wrapped.
THEOREM MostRecentCountsHighest == ASSUME NothingBehind PROVE Spec => []MostRecentIsHighest
<1>1. PoolInv => MostRecentIsHighest
  BY DEF PoolInv
<1>2. QED
  BY <1>1, InvHolds, PTL

\* When the allocator comes to evict there is a block in use: the assertion
\* hdrlru->index!=-1 (amxpool.c:180).  Otherwise block 0 would be free and fill the
\* pool, and the request would fit.
THEOREM EvictionFindsABlock == ASSUME NothingBehind PROVE Spec => []EvictionFreesABlock
<1>1. ASSUME PoolInv PROVE EvictionFreesABlock
  <2> SUFFICES ASSUME request # Free, Used = {} PROVE Fits(request) # {}
    BY DEF EvictionFreesABlock
  <2>1. \A b \in Blocks : arena[b].index = Free /\ arena[b].size \in Nat /\ b \in Nat
    BY <1>1 DEF Used, Blocks, PoolInv, TypeOK, Typed, Header
  <2>2. 0 \in Blocks /\ After(0) \in Blocks \union {PoolSize}
    BY <1>1 DEF PoolInv, Tiling, Tiled, Blocks, After
  <2>3. After(0) \notin Blocks
    BY <1>1, <2>1, <2>2 DEF PoolInv, NoFreeNeighbours, IsFree, Blocks
  <2>4. arena[0].size = PoolSize - ARENA
    BY <2>1, <2>2, <2>3 DEF After, End
  <2>5. Need(request) + ARENA <= PoolSize /\ Need(request) \in Nat
    BY <1>1, NeedIsPositive DEF PoolInv, RequestFits, TypeOK
  <2>6. 0 \in Fits(request)
    BY <2>1, <2>2, <2>4, <2>5 DEF Fits
  <2>7. QED
    BY <2>6
<1>2. PoolInv => EvictionFreesABlock
  BY <1>1
<1>3. QED
  BY <1>2, InvHolds, PTL

\* The allocator evicts the block used last only when no other block is in use.
THEOREM MostRecentIsEvictedLast == ASSUME NothingBehind PROVE Spec => MostRecentIsKept
<1>1. ASSUME PoolInv, PoolEvict, mru # Free, Used \ Find(mru) # {}, NEW b \in Find(mru)
      PROVE  b \in DOMAIN arena' /\ arena'[b].index = mru
  <2>1. PICK v \in Victims : arena' \in Freed(v)
    BY <1>1 DEF PoolEvict
  <2>2. b \in Used /\ arena[b].index = mru
    BY <1>1 DEF Find, Used
  <2>3. v # b
    <3>1. PICK c \in Used : c \notin Find(mru)
      BY <1>1
    <3>2. c # b /\ arena[c].lru < arena[b].lru
      BY <1>1, <2>2, <3>1 DEF PoolInv, MostRecentIsHighest
    <3>3. arena[b].lru \in Nat /\ arena[c].lru \in Nat
      BY <1>1, <2>2, <3>1 DEF Used, Blocks, PoolInv, TypeOK, Typed, Header
    <3>4. b \notin LowestCount
      BY <3>1, <3>2, <3>3 DEF LowestCount
    <3>5. QED
      BY <2>1, <2>2, <3>4 DEF Victims
  <2>4. v \in Blocks
    BY <1>1, <2>1 DEF Victims, LowestCount, Used, PoolInv, Tiling, Tiled, Blocks
  <2>5. Without(arena, arena', v)
    BY <1>1, <2>1, <2>4, FreedSeparates DEF PoolInv, TypeOK
  <2>6. b \in DOMAIN arena'
    BY <2>2, <2>3, <2>5, <1>1 DEF Without, IsFree, Used, Blocks
  <2>7. QED
    BY <2>2, <2>3, <2>5, <2>6 DEF Without
<1>2. PoolInv /\ [Next]_poolVars =>
        [ PoolEvict /\ mru # Free /\ Used \ Find(mru) # {}
          => \A b \in Find(mru) : b \in DOMAIN arena' /\ arena'[b].index = mru ]_poolVars
  BY <1>1
<1>3. QED
  BY <1>2, InvHolds, PTL DEF Spec, MostRecentIsKept

-----------------------------------------------------------------------------
(* The pool implements Allocator *)

BlockAt(b) == [index |-> arena[b].index, at |-> b, size |-> arena[b].size]

LEMMA BlocksOfPool == AllocatedBlocks = {BlockAt(b) : b \in Used}
BY DEF AllocatedBlocks, BlockAt

\* The allocated blocks are the same if the blocks in use, their indices and their
\* sizes are.
LEMMA SameBlocks ==
  ASSUME DOMAIN arena' = Blocks,
         \A c \in Blocks : arena'[c].index = arena[c].index /\ arena'[c].size = arena[c].size
  PROVE  AllocatedBlocks' = AllocatedBlocks
<1>1. Used' = Used
  BY DEF Used, Blocks
<1>2. \A c \in Used : BlockAt(c)' = BlockAt(c)
  BY DEF Used, BlockAt
<1>3. QED
  BY <1>1, <1>2 DEF AllocatedBlocks, BlockAt

\* An eviction takes one block of the allocated ones away, and not the one used last
\* while there is another.
LEMMA EvictIsEvict ==
  ASSUME NothingBehind, PoolInv, EvictionFreesABlock, PoolEvict
  PROVE  \E b \in AllocatedBlocks : Pool!Evict(b)
<1>1. PICK v \in Victims : arena' \in Freed(v)
  BY DEF PoolEvict
<1>2. v \in LowestCount /\ v \in Used /\ v \in Blocks
  BY DEF PoolEvict, EvictionFreesABlock, Victims, LowestCount, Used
<1>3. Typed(arena') /\ Without(arena, arena', v)
  BY <1>1, <1>2, FreedSeparates DEF PoolInv, TypeOK
<1>4. Used' = Used \ {v}
  <2>1. ASSUME NEW c \in Used' PROVE c \in Used \ {v}
    BY <2>1, <1>3 DEF Used, Blocks, Without
  <2>2. ASSUME NEW c \in Used, c # v PROVE c \in Used'
    BY <2>2, <1>3 DEF Used, Blocks, Without, IsFree
  <2>3. QED
    BY <2>1, <2>2, <1>3 DEF Used, Blocks, Without
<1>5. \A c \in Used' : BlockAt(c)' = BlockAt(c)
  <2> SUFFICES ASSUME NEW c \in Used' PROVE BlockAt(c)' = BlockAt(c)
    OBVIOUS
  <2>1. /\ c \in Used /\ c # v /\ c \in DOMAIN arena /\ c \in DOMAIN arena'
        /\ c \in Nat /\ arena[c].size \in Nat /\ arena'[c].size \in Nat
    BY <1>3, <1>4 DEF Used, Blocks, PoolInv, TypeOK, Typed, Header
  <2>2. arena'[c].index = arena[c].index /\ End(arena', c) = End(arena, c)
    BY <2>1, <1>3 DEF Without, IsFree, Used
  <2>3. arena'[c].size = arena[c].size
    BY <2>1, <2>2 DEF End
  <2>4. QED
    BY <2>2, <2>3 DEF BlockAt
<1>6. AllocatedBlocks' = AllocatedBlocks \ {BlockAt(v)}
  <2>1. \A c \in Used : c # v => BlockAt(c) # BlockAt(v)
    BY DEF BlockAt
  <2>2. AllocatedBlocks' = {BlockAt(c) : c \in Used \ {v}}
    BY <1>4, <1>5 DEF AllocatedBlocks, BlockAt
  <2>3. QED
    BY <2>1, <2>2, BlocksOfPool
<1>7. ASSUME BlockAt(v).index = mru PROVE AllocatedBlocks = {BlockAt(v)}
  <2>1. arena[v].index = mru
    BY <1>7 DEF BlockAt
  <2>2. \A c \in Used : c # v => arena[c].lru < arena[v].lru
    BY <2>1, <1>2 DEF PoolInv, MostRecentIsHighest
  <2>3. \A c \in Used : arena[v].lru <= arena[c].lru
    BY <1>2 DEF LowestCount
  <2>4. \A c \in Used : arena[c].lru \in Nat
    BY DEF Used, Blocks, PoolInv, TypeOK, Typed, Header
  <2>5. Used = {v}
    BY <2>2, <2>3, <2>4, <1>2
  <2>6. QED
    BY <2>5, BlocksOfPool
<1>8. request # Pool!None /\ request' = request /\ mru' = mru
  BY DEF PoolEvict, Pool!None
<1>9. Pool!Evict(BlockAt(v))
  BY <1>6, <1>7, <1>8 DEF Pool!Evict
<1>10. QED
  BY <1>9, <1>2, BlocksOfPool

\* The block placed lies in the pool and apart from all others, because the blocks
\* still tile the pool.
LEMMA PlaceIsPlace ==
  ASSUME PoolInv, PoolInv', PoolPlace
  PROVE  \E b \in Pool!Block(request) : Pool!Place(b)
<1>1. PICK b \in Fits(request) : arena' = Touched(Placed(b), b)
  BY DEF PoolPlace
<1> DEFINE p == Placed(b)
<1> HIDE DEF p
<1>2. request # Free /\ request \in Indices /\ mru' = request /\ request' = Free
  BY DEF PoolPlace, PoolInv, TypeOK
<1>3. /\ Typed(p) /\ Tiled(p) /\ Blocks \subseteq DOMAIN p
      /\ p[b].index = request /\ p[b].size >= Need(request)
      /\ \A c \in Blocks : c # b => p[c] = arena[c]
      /\ \A c \in DOMAIN p \ Blocks : p[c].index = Free
  BY <1>2, PlacedTiles DEF PoolInv, p
<1>4. b \in Blocks /\ b \in DOMAIN p /\ arena[b].index = Free
  BY <1>3 DEF Fits
<1>5. /\ DOMAIN arena' = DOMAIN p
      /\ \A c \in DOMAIN p : arena'[c].index = p[c].index /\ arena'[c].size = p[c].size
  <2>1. \A c \in DOMAIN p : c # b /\ p[c].index # Free => p[c].lru <= pool_lru
    BY <1>3 DEF PoolInv, CountsBounded, Used
  <2>2. pool_lru \in 0 .. PROTECT_LRU - 1 /\ arena' = Touched(p, b)
    BY <1>1 DEF PoolInv, TypeOK, p
  <2>3. QED
    BY <1>3, <1>4, <2>1, <2>2, TouchCounts
<1>6. Used' = Used \union {b} /\ b \notin Used
  <2>1. \A c : c \in Used' <=> c \in DOMAIN p /\ p[c].index # Free
    BY <1>5 DEF Used, Blocks
  <2>2. QED
    BY <2>1, <1>2, <1>3, <1>4 DEF Used, Blocks
<1>7. \A c \in Used : BlockAt(c)' = BlockAt(c)
  BY <1>3, <1>5, <1>6 DEF BlockAt, Used
<1>8. AllocatedBlocks' = AllocatedBlocks \union {BlockAt(b)'}
  <2>1. AllocatedBlocks' = {BlockAt(c)' : c \in Used \union {b}}
    BY <1>6 DEF AllocatedBlocks, BlockAt
  <2>2. QED
    BY <2>1, <1>7, BlocksOfPool
<1>9. \A c \in Used' : /\ c \in DOMAIN arena' /\ c \in 0 .. PoolSize - ARENA
                       /\ arena'[c].size \in Nat
                       /\ c + ARENA + arena'[c].size = End(arena', c)
  BY DEF PoolInv, TypeOK, Typed, Header, Used, Blocks, End
<1>10. b \in Used'
  BY <1>6
<1>11. End(arena', b) <= PoolSize
  BY <1>9, <1>10 DEF PoolInv, Tiling, Tiled, TypeOK, Typed
<1> DEFINE new == [index |-> request, at |-> b, size |-> arena'[b].size]
<1>12. BlockAt(b)' = new
  BY <1>3, <1>4, <1>5 DEF BlockAt
<1>13. new \in Pool!Block(request)
  <2>2. b \in 0 .. PoolSize - 1
    BY <1>9, <1>10
  <2>3. arena'[b].size \in Need(request) .. PoolSize
    <3>1. arena'[b].size >= Need(request) /\ Need(request) \in Nat
      BY <1>2, <1>3, <1>4, <1>5, NeedIsPositive
    <3>2. QED
      BY <3>1, <1>9, <1>10, <1>11
  <2>4. QED
    BY <2>2, <2>3, <1>2 DEF Pool!Block
<1>14. Pool!EndOf(new) <= PoolSize
  BY <1>9, <1>10, <1>11 DEF Pool!EndOf
<1>15. ASSUME NEW c \in AllocatedBlocks PROVE Pool!Apart(new, c)
  <2>1. PICK d \in Used : c = BlockAt(d)'
    BY <1>7, BlocksOfPool
  <2>2. d \in Used' /\ d # b
    BY <1>6, <2>1
  <2>3. d < b \/ b < d
    BY <2>2, <1>9, <1>10
  <2>4. End(arena', d) <= b \/ End(arena', b) <= d
    BY <2>2, <2>3, <1>9, <1>10 DEF PoolInv, Tiling, Tiled
  <2>5. Pool!EndOf(c) = End(arena', d) /\ Pool!EndOf(new) = End(arena', b)
    BY <2>1, <2>2, <1>9, <1>10 DEF Pool!EndOf, BlockAt
  <2>6. c.at = d /\ new.at = b
    BY <2>1 DEF BlockAt
  <2>7. QED
    BY <2>4, <2>5, <2>6 DEF Pool!Apart
<1>16. Pool!Place(new)
  BY <1>2, <1>8, <1>12, <1>14, <1>15 DEF Pool!Place, Pool!None
<1>17. QED
  BY <1>13, <1>16

\* Each step of the pool is one of the allocator, or none.
LEMMA PoolStep ==
  ASSUME NothingBehind, PoolInv, EvictionFreesABlock, PoolInv', [Next]_poolVars
  PROVE  Pool!AlNext \/ UNCHANGED Pool!alVars
<1>1. ASSUME NEW i \in Indices, PoolFind(i) PROVE Pool!Use(i)
  <2>1. PICK b \in Find(i) : arena' = Touched(arena, b)
    BY <1>1 DEF PoolFind
  <2>2. b \in Used /\ arena[b].index = i /\ b \in Blocks
    BY <2>1 DEF Find, Used
  <2>3. \A c \in Blocks : c # b /\ arena[c].index # Free => arena[c].lru <= pool_lru
    BY DEF PoolInv, CountsBounded, Used
  <2>4. AllocatedBlocks' = AllocatedBlocks
    <3>1. /\ DOMAIN arena' = Blocks
          /\ \A c \in Blocks : /\ arena'[c].index = arena[c].index
                               /\ arena'[c].size = arena[c].size
      BY <2>1, <2>2, <2>3, TouchCounts DEF PoolInv, TypeOK, Blocks
    <3>2. QED
      BY <3>1, SameBlocks
  <2>5. BlockAt(b) \in AllocatedBlocks /\ BlockAt(b).index = i
    BY <2>2, BlocksOfPool DEF BlockAt
  <2>6. QED
    BY <1>1, <2>4, <2>5 DEF PoolFind, Pool!Use, Pool!Resident, Pool!None
<1>2. ASSUME NEW i \in Indices, PoolAllocCall(i) PROVE Pool!Ask(i)
  <2>1. ~Pool!Resident(i)
    <3>1. ASSUME NEW b \in Used PROVE BlockAt(b).index # i
      BY <1>2 DEF PoolAllocCall, Resident, Find, Used, BlockAt
    <3>2. QED
      BY <3>1, BlocksOfPool DEF Pool!Resident
  <2>2. AllocatedBlocks' = AllocatedBlocks
    BY <1>2, SameBlocks DEF PoolAllocCall, Blocks
  <2>3. ARENA + Need(i) <= PoolSize
    BY <1>2, NeedIsPositive DEF PoolAllocCall
  <2>4. QED
    BY <1>2, <2>1, <2>2, <2>3 DEF PoolAllocCall, Pool!Ask, Pool!None
<1>3. CASE PoolInit
  <2>1. Used' = {}
    BY <1>3 DEF PoolInit, Used, Blocks, Empty
  <2>2. QED
    BY <1>3, <2>1 DEF PoolInit, Pool!AlNext, Pool!Clear, Pool!None, AllocatedBlocks
<1>4. CASE PoolEvict
  BY <1>4, EvictIsEvict DEF Pool!AlNext
<1>5. CASE PoolPlace
  BY <1>5, PlaceIsPlace DEF Pool!AlNext, Pool!None, PoolPlace
<1>6. CASE UNCHANGED poolVars
  BY <1>6, SameBlocks DEF poolVars, Pool!alVars, Blocks
<1>7. ASSUME NEW i \in Indices, PoolAllocFails(i) PROVE UNCHANGED poolVars
  BY <1>7 DEF PoolAllocFails
<1>8. QED
  BY <1>1, <1>2, <1>3, <1>4, <1>5, <1>6, <1>7 DEF Next, Pool!AlNext

\* amx_poolalloc, amx_poolfind and amx_poolinit implement the abstract allocator, for
\* every pool, every set of overlays and every order of requests.
THEOREM PoolImplementsAllocator == ASSUME NothingBehind PROVE Spec => AllocatesBlocks
<1>1. Init => Pool!AlInit
  <2> SUFFICES ASSUME Init PROVE Pool!AlInit
    OBVIOUS
  <2>1. Used = {}
    BY DEF Init, Used, Blocks, Empty
  <2>2. QED
    BY <2>1 DEF Init, Pool!AlInit, Pool!None, AllocatedBlocks
<1>2. PoolInv /\ EvictionFreesABlock /\ PoolInv' /\ [Next]_poolVars
        => [Pool!AlNext]_(Pool!alVars)
  BY PoolStep
<1>3. QED
  BY <1>1, <1>2, InvHolds, EvictionFindsABlock, PTL
  DEF Spec, AllocatesBlocks, Pool!AlSpec

\* Each turn of the eviction loop takes one block away: there are finitely many, and as
\* long as the request does not fit there is one (EvictionFindsABlock).
THEOREM RequestsComeToAnEnd == ASSUME NothingBehind PROVE Spec => RequestsMakeProgress
<1>1. ASSUME PoolInv PROVE IsFiniteSet(AllocatedBlocks)
  <2>1. Used \subseteq 0 .. PoolSize
    BY <1>1 DEF Used, Blocks, PoolInv, TypeOK, Typed
  <2>2. IsFiniteSet(0 .. PoolSize)
    BY FS_Interval
  <2>3. IsFiniteSet(Used)
    BY <2>1, <2>2, FS_Subset
  <2> DEFINE f == [b \in Used |-> BlockAt(b)]
  <2>4. f \in Surjection(Used, AllocatedBlocks)
    <3>1. f \in [Used -> AllocatedBlocks]
      BY BlocksOfPool
    <3>2. \A c \in AllocatedBlocks : \E b \in Used : f[b] = c
      BY BlocksOfPool
    <3>3. QED
      BY <3>1, <3>2 DEF Surjection
  <2>5. QED
    BY <2>3, <2>4, FS_Surjection
<1>2. ASSUME PoolInv, EvictionFreesABlock, PoolEvict
      PROVE  Cardinality(AllocatedBlocks') < Cardinality(AllocatedBlocks)
  <2>1. PICK b \in AllocatedBlocks : AllocatedBlocks' = AllocatedBlocks \ {b}
    BY <1>2, EvictIsEvict DEF Pool!Evict
  <2>2. Cardinality(AllocatedBlocks \ {b}) = Cardinality(AllocatedBlocks) - 1
    BY <1>1, <1>2, <2>1, FS_RemoveElement
  <2>3. Cardinality(AllocatedBlocks) \in Nat
    BY <1>1, <1>2, FS_CardinalityType
  <2>4. QED
    BY <2>1, <2>2, <2>3
<1>3. PoolInv /\ EvictionFreesABlock /\ [Next]_poolVars =>
        [ request # Free
          => request' = Free \/ Cardinality(AllocatedBlocks') < Cardinality(AllocatedBlocks)
        ]_poolVars
  <2> SUFFICES ASSUME PoolInv, EvictionFreesABlock, Next, request # Free, request' # Free,
                      ~(UNCHANGED poolVars)
               PROVE  Cardinality(AllocatedBlocks') < Cardinality(AllocatedBlocks)
    OBVIOUS
  <2>1. PoolEvict
    BY DEF Next, PoolFind, PoolAllocFails, PoolAllocCall, PoolInit, PoolPlace
  <2>2. QED
    BY <1>2, <2>1
<1>4. QED
  BY <1>3, InvHolds, EvictionFindsABlock, PTL DEF Spec, RequestsMakeProgress

-----------------------------------------------------------------------------
(* The pool implements OverlayStore *)

\* While room is made for an overlay, it was not in the pool that was last seen, and
\* what is left of that has not moved.
HistInv ==
  /\ rest \in [Offsets -> Indices \union {Free}]
  /\ request = Free => rest = Shown
  /\ request # Free => /\ \A a \in Offsets : rest[a] # request
                       /\ \A a \in Offsets : Shown[a] # Free => Shown[a] = rest[a]

\* What is shown are the allocated blocks.
ShowsBlocks ==
  /\ Shown \in [Offsets -> Indices \union {Free}]
  /\ \A a \in Offsets : Shown[a] # Free =>
       \E c \in AllocatedBlocks : c.at = a /\ c.index = Shown[a]
  /\ \A c \in AllocatedBlocks : /\ c.at \in Offsets /\ c.size \in Nat
                                /\ c.index \in Indices /\ Shown[c.at] = c.index

LEMMA ShownBlocks == PoolInv => ShowsBlocks
<1> SUFFICES ASSUME PoolInv PROVE ShowsBlocks
  OBVIOUS
<1>1. \A b \in Used : /\ b \in Offsets /\ arena[b].index \in Indices
                      /\ arena[b].size \in Nat
  BY DEF Used, Blocks, PoolInv, TypeOK, Typed, Header, Offsets
<1>2. Shown \in [Offsets -> Indices \union {Free}]
  BY <1>1 DEF Shown
<1>3. ASSUME NEW a \in Offsets, Shown[a] # Free
      PROVE  \E c \in AllocatedBlocks : c.at = a /\ c.index = Shown[a]
  <2>1. a \in Used /\ Shown[a] = arena[a].index
    BY <1>3 DEF Shown
  <2>2. BlockAt(a) \in AllocatedBlocks
    BY <2>1, BlocksOfPool
  <2>3. QED
    BY <2>1, <2>2 DEF BlockAt
<1>4. ASSUME NEW c \in AllocatedBlocks
      PROVE  /\ c.at \in Offsets /\ c.size \in Nat
             /\ c.index \in Indices /\ Shown[c.at] = c.index
  <2>1. PICK b \in Used : c = BlockAt(b)
    BY BlocksOfPool
  <2>2. QED
    BY <1>1, <2>1 DEF BlockAt, Shown
<1>5. QED
  BY <1>2, <1>3, <1>4 DEF ShowsBlocks

LEMMA ShownBlocksNext == PoolInv' => ShowsBlocks'
BY ShownBlocks, PTL

\* If the blocks are the same, what is shown is.
LEMMA ShownStays ==
  ASSUME ShowsBlocks, ShowsBlocks', AllocatedBlocks' = AllocatedBlocks
  PROVE  Shown' = Shown
<1>1. ASSUME NEW a \in Offsets PROVE Shown'[a] = Shown[a]
  <2>1. CASE Shown[a] # Free
    BY <2>1 DEF ShowsBlocks
  <2>2. CASE Shown[a] = Free /\ Shown'[a] # Free
    BY <2>2 DEF ShowsBlocks
  <2>3. QED
    BY <2>1, <2>2
<1>2. QED
  BY <1>1 DEF ShowsBlocks

\* A block of one overlay is placed: seen from outside, the overlay is loaded.
LEMMA PlaceIsLoad ==
  ASSUME ShowsBlocks, ShowsBlocks', HistInv, request # Free, rest' = Shown',
         NEW new \in Pool!Block(request), Pool!Place(new)
  PROVE  Store!Load(request)
<1> DEFINE keep == {a \in Offsets : Shown[a] # Free}
<1>1. /\ new.index = request /\ new.at \in Offsets
      /\ AllocatedBlocks' = AllocatedBlocks \union {new}
  BY DEF Pool!Block, Pool!Place, Offsets
<1>2. Shown'[new.at] = request
  BY <1>1 DEF ShowsBlocks
<1>3. Shown[new.at] = Free
  <2>1. \A c \in AllocatedBlocks : c.at # new.at
    <3>1. new.size \in Nat
      BY <1>1 DEF ShowsBlocks
    <3>2. \A c \in AllocatedBlocks : Pool!Apart(new, c) /\ c.at \in Nat /\ c.size \in Nat
      BY DEF ShowsBlocks, Pool!Place, Offsets
    <3>3. QED
      BY <1>1, <3>1, <3>2 DEF Pool!Apart, Pool!EndOf, Offsets
  <2>2. QED
    BY <1>1, <2>1 DEF ShowsBlocks
<1>4. ASSUME NEW a \in Offsets, a # new.at PROVE Shown'[a] = Shown[a]
  <2>1. CASE Shown[a] # Free
    <3>1. PICK c \in AllocatedBlocks : c.at = a /\ c.index = Shown[a]
      BY <2>1 DEF ShowsBlocks
    <3>2. c \in AllocatedBlocks'
      BY <1>1, <3>1
    <3>3. QED
      BY <3>1, <3>2 DEF ShowsBlocks
  <2>2. CASE Shown[a] = Free /\ Shown'[a] # Free
    <3>1. PICK c \in AllocatedBlocks' : c.at = a /\ c.index = Shown'[a]
      BY <2>2 DEF ShowsBlocks
    <3>2. c \in AllocatedBlocks
      BY <1>1, <1>4, <3>1
    <3>3. QED
      BY <2>2, <3>1, <3>2 DEF ShowsBlocks
  <2>3. QED
    BY <2>1, <2>2
<1>5. \A a \in keep : rest[a] = Shown[a] /\ rest[a] # Free
  BY DEF HistInv
<1>6. <<keep, new.at>> \in Store!Placements
  BY <1>1, <1>3, <1>5 DEF Store!Placements, Store!Free
<1>7. rest' = Store!Placed(request, keep, new.at)
  <2>1. Shown' \in [Offsets -> Indices \union {Free}]
    BY DEF ShowsBlocks
  <2>2. \A a \in Offsets :
          Shown'[a] = IF a = new.at THEN request ELSE IF a \in keep THEN rest[a] ELSE Free
    BY <1>2, <1>4, <1>5
  <2> HIDE DEF keep
  <2>3. QED
    BY <2>1, <2>2 DEF Store!Placed, Store!Free
<1>8. \A a \in Offsets : rest[a] # request
  BY DEF HistInv
<1>9. QED
  BY <1>6, <1>7, <1>8 DEF Store!Load

LEMMA HistStep ==
  ASSUME NothingBehind, PoolInv, PoolInv', EvictionFreesABlock, HistInv,
         [HistNext]_histVars
  PROVE  HistInv' /\ (Store!StoreNext \/ UNCHANGED rest)
<1> ShowsBlocks /\ ShowsBlocks'
  BY ShownBlocks, ShownBlocksNext
<1>1. CASE UNCHANGED histVars
  <2>1. Shown' = Shown
    BY <1>1 DEF histVars, poolVars, Shown, Used, Blocks
  <2>2. QED
    BY <1>1, <2>1 DEF histVars, poolVars, HistInv
<1>2. CASE HistNext
  <2>1. Next /\ rest' = IF request' = Free THEN Shown' ELSE rest
    BY <1>2 DEF HistNext
  <2>2. Pool!AlNext \/ UNCHANGED Pool!alVars
    BY <2>1, PoolStep
  <2>3. Shown' \in [Offsets -> Indices \union {Free}]
    BY DEF ShowsBlocks
  <2>4. CASE AllocatedBlocks' = AllocatedBlocks /\ request' = request
    <3>1. Shown' = Shown
      BY <2>4, ShownStays
    <3>2. rest' = rest
      BY <2>1, <2>4, <3>1 DEF HistInv
    <3>3. QED
      BY <2>4, <3>1, <3>2 DEF HistInv
  <2>5. CASE Pool!Clear
    <3>1. request' = Free /\ AllocatedBlocks' = {}
      BY <2>5 DEF Pool!Clear, Pool!None
    <3>2. rest' = Shown' /\ \A a \in Offsets : Shown'[a] = Free
      BY <2>1, <3>1 DEF ShowsBlocks
    <3>3. Store!Clear
      BY <2>3, <3>2 DEF Store!Clear, Store!Nothing, Store!Free
    <3>4. HistInv'
      BY <2>3, <3>1, <3>2 DEF HistInv
    <3>5. QED
      BY <3>3, <3>4 DEF Store!StoreNext
  <2>6. ASSUME NEW i \in Indices, Pool!Ask(i)
        PROVE  HistInv' /\ UNCHANGED rest
    <3>1. /\ request = Free /\ request' = i /\ i # Free
          /\ AllocatedBlocks' = AllocatedBlocks /\ ~Pool!Resident(i)
      BY <2>6 DEF Pool!Ask, Pool!None
    <3>2. Shown' = Shown /\ rest = Shown /\ rest' = rest
      BY <2>1, <3>1, ShownStays DEF HistInv
    <3>3. \A a \in Offsets : Shown[a] # i
      BY <3>1 DEF ShowsBlocks, Pool!Resident
    <3>4. QED
      BY <3>1, <3>2, <3>3 DEF HistInv
  <2>7. ASSUME NEW b \in AllocatedBlocks, Pool!Evict(b)
        PROVE  HistInv' /\ UNCHANGED rest
    <3>1. /\ request # Free /\ request' = request /\ rest' = rest
          /\ AllocatedBlocks' \subseteq AllocatedBlocks
      BY <2>1, <2>7 DEF Pool!Evict, Pool!None
    <3>2. ASSUME NEW a \in Offsets, Shown'[a] # Free PROVE Shown'[a] = Shown[a]
      <4>1. PICK c \in AllocatedBlocks' : c.at = a /\ c.index = Shown'[a]
        BY <3>2 DEF ShowsBlocks
      <4>2. QED
        BY <3>1, <4>1 DEF ShowsBlocks
    <3>3. \A a \in Offsets : Shown'[a] # Free => Shown'[a] = rest[a]
      BY <3>1, <3>2 DEF HistInv
    <3>4. QED
      BY <3>1, <3>3 DEF HistInv
  <2>8. ASSUME request # Free, NEW b \in Pool!Block(request), Pool!Place(b)
        PROVE  HistInv' /\ Store!StoreNext
    <3>1. request' = Free /\ rest' = Shown'
      BY <2>1, <2>8 DEF Pool!Place, Pool!None
    <3>2. request \in Indices
      BY <2>8 DEF PoolInv, TypeOK
    <3>3. Store!Load(request)
      BY <2>8, <3>1, PlaceIsLoad
    <3>4. QED
      BY <2>3, <3>1, <3>2, <3>3 DEF HistInv, Store!StoreNext
  <2>9. ASSUME NEW i \in Indices, Pool!Use(i) \/ UNCHANGED Pool!alVars
        PROVE  AllocatedBlocks' = AllocatedBlocks /\ request' = request
    BY <2>9 DEF Pool!Use, Pool!alVars
  <2>10. QED
    BY <2>2, <2>4, <2>5, <2>6, <2>7, <2>8, <2>9 DEF Pool!AlNext, Pool!None, Pool!alVars
<1>3. QED
  BY <1>1, <1>2

\* amx_poolfind and amx_poolalloc, with all their evictions, splits and joins, are to
\* overlay_callback a store into which an overlay is loaded in one step: for every pool,
\* every set of overlays and every order of requests.
THEOREM PoolImplementsStore == ASSUME NothingBehind PROVE HistSpec => LoadsInOneStep
<1>1. HistInit => HistInv /\ Store!StoreInit
  <2> SUFFICES ASSUME HistInit PROVE HistInv /\ Store!StoreInit
    OBVIOUS
  <2>1. Used = {} /\ request = Free /\ rest = Shown
    BY DEF HistInit, Init, Used, Blocks, Empty
  <2>2. rest = [a \in Offsets |-> Free]
    BY <2>1 DEF Shown
  <2>3. QED
    BY <2>1, <2>2 DEF HistInv, Store!StoreInit, Store!Nothing, Store!Free
<1>2. PoolInv /\ PoolInv' /\ EvictionFreesABlock /\ HistInv /\ [HistNext]_histVars
        => HistInv' /\ [Store!StoreNext]_rest
  BY HistStep
<1>3. HistSpec => Spec
  <2>1. [HistNext]_histVars => [Next]_poolVars
    BY DEF HistNext, histVars
  <2>2. QED
    BY <2>1, PTL DEF HistSpec, HistInit, Spec
<1>4. QED
  BY <1>1, <1>2, <1>3, InvHolds, EvictionFindsABlock, PTL
  DEF HistSpec, LoadsInOneStep, Store!StoreSpec
=============================================================================
