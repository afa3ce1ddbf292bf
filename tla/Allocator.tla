----------------------------- MODULE Allocator -----------------------------
(***************************************************************************)
(* What the overlay pool promises to those who load overlays: a set of     *)
(* blocks, each with an overlay in it.  A request evicts blocks until its  *)
(* own can be placed, and touches no other.  How the free memory is kept,  *)
(* and which block is the least recently used one, is not said here.       *)
(***************************************************************************)
EXTENDS Integers

CONSTANTS
  Size,        \* bytes in the pool
  HEADER,      \* bytes before each block
  Overlays,    \* indices of overlays
  Length       \* the bytes each needs

VARIABLES
  blocks,      \* a set of [index, at, size]: overlay, first byte, length
  request,     \* the overlay room is being made for, or None
  last         \* the overlay used last, or None

alVars == <<blocks, request, last>>

None == -1

Block(i) == [index : {i}, at : 0 .. Size - 1, size : Length[i] .. Size]

Resident(i) == \E b \in blocks : b.index = i

EndOf(b) == b.at + HEADER + b.size
Apart(b, c) == EndOf(b) <= c.at \/ EndOf(c) <= b.at

AlInit == blocks = {} /\ request = None /\ last = None

\* A new program
Clear == request = None /\ blocks' = {} /\ last' = None /\ UNCHANGED request

Use(i) == request = None /\ Resident(i) /\ last' = i /\ UNCHANGED <<blocks, request>>

Ask(i) ==
  /\ request = None /\ ~Resident(i)
  /\ HEADER + Length[i] <= Size
  /\ request' = i /\ UNCHANGED <<blocks, last>>

\* One block goes, only on request, and that of the overlay used last only if it is
\* the last one left.
Evict(b) ==
  /\ request # None /\ blocks' = blocks \ {b}
  /\ b.index = last => blocks = {b}
  /\ UNCHANGED <<request, last>>

\* The new block lies in the pool and apart from all others.
Place(b) ==
  /\ request # None
  /\ EndOf(b) <= Size /\ \A c \in blocks : Apart(b, c)
  /\ blocks' = blocks \union {b}
  /\ request' = None /\ last' = request

AlNext ==
  \/ Clear
  \/ \E i \in Overlays : Use(i) \/ Ask(i)
  \/ \E b \in blocks : Evict(b)
  \/ request # None /\ \E b \in Block(request) : Place(b)

AlSpec == AlInit /\ [][AlNext]_alVars
=============================================================================
