---------------------------- MODULE OverlayStore ----------------------------
(***************************************************************************)
(* What overlay_callback sees of the pool: addresses, with an overlay at   *)
(* some of them.  To load an overlay is one step, in which any others may  *)
(* go.  Module PoolHistory implements it; Overlays is written against it.  *)
(***************************************************************************)
EXTENDS Integers

CONSTANTS
  Addresses,   \* where in the pool a block may begin
  Overlays     \* the indices of overlays

VARIABLE pool  \* address -> the overlay whose block begins there, or Free

Free == -1

Nothing == [a \in Addresses |-> Free]

\* Blocks are evicted, and the new block begins where none of those kept does.
Placed(i, keep, a) ==
  [b \in Addresses |-> IF b = a THEN i ELSE IF b \in keep THEN pool[b] ELSE Free]
Placements ==
  {p \in (SUBSET {b \in Addresses : pool[b] # Free}) \X Addresses : p[2] \notin p[1]}

StoreInit == pool = Nothing

\* amx_poolinit
Clear == pool' = Nothing

\* amx_poolalloc, for an overlay that amx_poolfind has not found
Load(i) ==
  /\ \A a \in Addresses : pool[a] # i
  /\ \E p \in Placements : pool' = Placed(i, p[1], p[2])

StoreNext == Clear \/ \E i \in Overlays : Load(i)

StoreSpec == StoreInit /\ [][StoreNext]_pool
=============================================================================
