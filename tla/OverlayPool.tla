---------------------------- MODULE OverlayPool ----------------------------
(***************************************************************************)
(* Runtime/amx/amxpool.c: the memory pool that holds the overlays of the   *)
(* running program.  The pool is a row of blocks, each behind an arena     *)
(* header.  `arena' maps the offset of every header to its fields, and the *)
(* size of a block leads from its header to the next, as in the source.    *)
(*                                                                         *)
(* The allocator frees least recently used blocks until the request fits:  *)
(* each turn of that loop is a step.                                       *)
(***************************************************************************)
EXTENDS Integers, FiniteSets

CONSTANTS
  PoolSize,        \* pool_size, in bytes
  ARENA,           \* sizeof(ARENA)
  CELL,            \* sizeof(cell)
  MIN_BLOCKSIZE,
  PROTECT_LRU,     \* the wrap of the use counter (USHRT_MAX)
  Indices,         \* overlay indices
  SizeOf,          \* the size of each overlay
  EndWords         \* what the halfword behind the pool may hold where the
                   \* index of one more header would be: "other" or "free"

\* Free blocks have index -1.
Free == -1

ASSUME PoolAssumption ==
  /\ PoolSize \in Nat /\ ARENA \in Nat \ {0} /\ ARENA < PoolSize
  /\ CELL \in Nat \ {0} /\ MIN_BLOCKSIZE \in Nat
  /\ PROTECT_LRU \in Nat /\ PROTECT_LRU > 2
  /\ Indices \subseteq Nat
  /\ SizeOf \in [Indices -> Nat \ {0}]
  /\ EndWords \subseteq {"other", "free"}

VARIABLES
  arena,           \* header offset -> [size, index, lru]
  pool_lru,        \* the use counter
  request,         \* the overlay amx_poolalloc is making room for, or Free
  mru              \* ghost: the overlay used last, or Free

poolVars == <<arena, pool_lru, request, mru>>

Blocks == DOMAIN arena
Header == [size : Nat, index : Indices \union {Free}, lru : 0 .. PROTECT_LRU]

\* Where block b ends: the offset of the next header, or PoolSize.
End(a, b) == b + a[b].size + ARENA
After(b)  == End(arena, b)

\* The offset of the block with an index, if there is one.
Find(i) == {b \in Blocks : arena[b].index = i}
Used    == {b \in Blocks : arena[b].index # Free}

Resident_Bug1(i) == \E b \in Find(i) : After(b) # PoolSize   \* stops one block early
Resident(i) == Find(i) # {}

\* "align the size to a cell boundary"
AlignUp(n) == IF n % CELL = 0 THEN n ELSE n + (CELL - (n % CELL))
Need(i) == AlignUp(SizeOf[i])

\* One free block: what amx_poolfree(NULL) leaves.
Empty == [b \in {0} |-> [size |-> PoolSize - ARENA, index |-> Free, lru |-> 0]]

Init == arena = Empty /\ pool_lru = 0 /\ request = Free /\ mru = Free

\* amx_poolinit, when the next program is loaded
PoolInit ==
  /\ request = Free
  /\ arena' = Empty /\ pool_lru' = 0 /\ mru' = Free
  /\ UNCHANGED request

-----------------------------------------------------------------------------
(* touchblock *)

Wraps == pool_lru + 1 >= PROTECT_LRU

\* The arena a after its block b has been touched.  When the counter wraps, the
\* counts of all blocks start again at 0 and that of b at 1.
Touched_Bug1(a, b) ==   \* no special case for the wrap
  [a EXCEPT ![b].lru = IF Wraps THEN 0 ELSE pool_lru + 1]
Touched(a, b) ==
  IF Wraps
    THEN [c \in DOMAIN a |-> [a[c] EXCEPT !.lru = IF c = b THEN 1 ELSE 0]]
    ELSE [a EXCEPT ![b].lru = pool_lru + 1]

CountTouch == pool_lru' = IF Wraps THEN 1 ELSE pool_lru + 1

\* amx_poolfind, when it finds the block
PoolFind(i) ==
  /\ request = Free
  /\ \E b \in Find(i) : arena' = Touched(arena, b)
  /\ CountTouch
  /\ mru' = i
  /\ UNCHANGED request

-----------------------------------------------------------------------------
(* amx_poolfree *)

\* The size of a block joined with the block behind it.
Joined_Bug1(size, next) == size + next   \* the header between them is forgotten
Joined(size, next) == size + next + ARENA

\* The arena a with block n, which lies behind block b, made part of b.
Merge(a, b, n) ==
  [c \in DOMAIN a \ {n} |->
     IF c = b THEN [a[b] EXCEPT !.size = Joined(a[b].size, a[n].size)] ELSE a[c]]

IsFree(a, b) == b \in DOMAIN a /\ a[b].index = Free

\* The arena a with the free block b joined to the block after it if that is free.
JoinNext(a, b) ==
  IF IsFree(a, End(a, b)) THEN Merge(a, b, End(a, b)) ELSE a

\* The arenas that joining block b to the block before it if that is free gives.
JoinPrevious_Bug1(a, b) == {a}
JoinPrevious(a, b) ==
  IF \E p \in DOMAIN a : End(a, p) = b /\ IsFree(a, p)
    THEN {Merge(a, p, b) : p \in {q \in DOMAIN a : End(a, q) = b}}
    ELSE {a}

Release(a, b) == [a EXCEPT ![b].index = Free]

\* The halfword tested behind the last block is not in the pool.  If it happens
\* to be -1 the block grows beyond the end.
Overrun(a, b) == [a EXCEPT ![b].size = Joined(@, 0)]

Freed(b) ==
  LET a == Release(arena, b)
  IN  JoinPrevious(JoinNext(a, b), b) \union
      (IF After(b) = PoolSize /\ "free" \in EndWords
         THEN JoinPrevious(Overrun(a, b), b) ELSE {})

-----------------------------------------------------------------------------
(* amx_poolalloc *)

Fits_Bug1(i) == {b \in Blocks : arena[b].index = Free /\ arena[b].size > Need(i)}
Fits(i) == {b \in Blocks : arena[b].index = Free /\ arena[b].size >= Need(i)}

\* The request cannot be met at all.
PoolAllocFails(i) ==
  /\ request = Free /\ ~Resident(i)
  /\ Need(i) + ARENA > PoolSize
  /\ UNCHANGED poolVars

PoolAllocCall(i) ==
  /\ request = Free /\ ~Resident(i)
  /\ Need(i) + ARENA <= PoolSize
  /\ request' = i
  /\ UNCHANGED <<arena, pool_lru, mru>>

\* The block the scan remembers as least recently used: the first of those with
\* the lowest count, or the first block of all if none is in use.
LowestCount_Bug1 ==   \* the comparison turned round
  {b \in Used : \A c \in Used : arena[b].lru >= arena[c].lru}
LowestCount ==
  {b \in Used : \A c \in Used : arena[b].lru <= arena[c].lru}
Victims ==
  IF Used = {} THEN {0} ELSE {b \in LowestCount : \A c \in LowestCount : b <= c}

PoolEvict ==
  /\ request # Free /\ Fits(request) = {}
  /\ \E b \in Victims : arena' \in Freed(b)
  /\ UNCHANGED <<pool_lru, request, mru>>

\* The arena with request's block cut from free block b; the rest stays free if it
\* is worth a header.
Placed(b) ==
  LET n == Need(request)
      block == [size |-> n, index |-> request, lru |-> arena[b].lru]
  IN  IF arena[b].size > n + MIN_BLOCKSIZE + ARENA
        THEN [c \in Blocks \union {b + n + ARENA} |->
                IF c = b THEN block
                ELSE IF c = b + n + ARENA
                  THEN [size |-> arena[b].size - n - ARENA, index |-> Free, lru |-> 0]
                  ELSE arena[c]]
        ELSE [arena EXCEPT ![b].index = request]

PoolPlace ==
  /\ request # Free
  /\ \E b \in Fits(request) :
       /\ \A c \in Fits(request) : b <= c
       /\ arena' = Touched(Placed(b), b)
  /\ CountTouch
  /\ mru' = request /\ request' = Free

-----------------------------------------------------------------------------
Next ==
  \/ \E i \in Indices : PoolFind(i) \/ PoolAllocFails(i) \/ PoolAllocCall(i)
  \/ PoolInit \/ PoolEvict \/ PoolPlace

Spec == Init /\ [][Next]_poolVars

\* amx_poolalloc is a loop without a wait.
FairSpec == Spec /\ WF_poolVars(PoolEvict) /\ WF_poolVars(PoolPlace)

-----------------------------------------------------------------------------
(* Properties *)

Typed(a) ==
  /\ DOMAIN a \subseteq 0 .. PoolSize - ARENA
  /\ \A b \in DOMAIN a : a[b] \in Header

TypeOK ==
  /\ Typed(arena)
  /\ pool_lru \in 0 .. PROTECT_LRU - 1
  /\ request \in Indices \union {Free} /\ mru \in Indices \union {Free}

\* The blocks tile the pool: the first header is at its start, each block ends
\* where the next header or the end of the pool is, and none reaches into
\* another.  It is what the assertions sz<=pool_size of every scan say.
Tiled(a) ==
  /\ 0 \in DOMAIN a
  /\ \A b \in DOMAIN a : End(a, b) \in DOMAIN a \union {PoolSize}
  /\ \A b, c \in DOMAIN a : b < c => End(a, b) <= c
Tiling == Tiled(arena)

\* amx_poolalloc, with its evictions, joins and splits, does what Allocator promises to
\* overlay_callback: the blocks of other overlays stay where they are and as long as
\* they are while room is made for one, none is evicted in vain, the one used last not
\* before the others, and the new block lies in the pool and apart from them.
AllocatedBlocks == {[index |-> arena[b].index, at |-> b, size |-> arena[b].size] : b \in Used}

Pool == INSTANCE Allocator WITH
          Size <- PoolSize, HEADER <- ARENA, Overlays <- Indices,
          Length <- [i \in Indices |-> Need(i)],
          blocks <- AllocatedBlocks, last <- mru
AllocatesBlocks == Pool!AlSpec

\* No two free blocks are neighbours (amxpool.c:102-119) ...
NoFreeNeighbours == \A b \in Blocks : IsFree(arena, b) => ~IsFree(arena, After(b))

\* ... so the allocator never comes to evict with nothing left to evict: the
\* assertion hdrlru->index!=-1 (amxpool.c:180).  By then the pool is one free block.
EvictionFreesABlock == request # Free /\ Fits(request) = {} => Used # {}

\* "The block with the specified index should not already exist in the pool"
\* (amxpool.c:128): no overlay is in the pool twice.
OneBlockPerIndex ==
  \A b, c \in Used : arena[b].index = arena[c].index => b = c

\* The block used last has the highest count, also when the counter has wrapped
\* (amxpool.c:243-268) ...
MostRecentIsHighest ==
  \A b, c \in Used : arena[b].index = mru /\ c # b => arena[c].lru < arena[b].lru

\* ... and so the allocator does not evict it while there is another.
MostRecentIsKept ==
  [][ PoolEvict /\ mru # Free /\ Used \ Find(mru) # {}
      => \A b \in Find(mru) : b \in DOMAIN arena' /\ arena'[b].index = mru ]_poolVars

\* While room is made, each step leaves fewer overlays in the pool or is the last:
\* nothing that was evicted comes back, so there is an end to it (amxpool.c:160-199).
RequestsMakeProgress ==
  [][ request # Free
      => request' = Free \/ Cardinality(AllocatedBlocks') < Cardinality(AllocatedBlocks) ]_poolVars

\* Every allocation ends: evicting makes room sooner or later.
AllocationEnds == (request # Free) ~> (request = Free)
=============================================================================
