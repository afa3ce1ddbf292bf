---------------------------- MODULE PoolHistory ----------------------------
(***************************************************************************)
(* OverlayPool as its caller knows it.  amx_poolalloc frees blocks one by  *)
(* one until its own fits, but nobody looks at the pool before it returns: *)
(* a history variable keeps what was last there to be seen.                *)
(***************************************************************************)
EXTENDS OverlayPool

VARIABLE rest   \* ghost: the overlays in the pool when no request was last pending

histVars == <<poolVars, rest>>

Offsets == 0 .. PoolSize - 1

\* The overlay whose block begins at each offset.
Shown == [a \in Offsets |-> IF a \in Used THEN arena[a].index ELSE Free]

HistInit == Init /\ rest = Shown

HistNext == Next /\ rest' = IF request' = Free THEN Shown' ELSE rest

HistSpec == HistInit /\ [][HistNext]_histVars

FairHistSpec == HistSpec /\ WF_poolVars(PoolEvict) /\ WF_poolVars(PoolPlace)

-----------------------------------------------------------------------------
(* Properties *)

Store == INSTANCE OverlayStore WITH
           Addresses <- Offsets, Overlays <- Indices, pool <- rest

\* For overlay_callback, which calls amx_poolfind and amx_poolalloc, an overlay is
\* loaded in one step: it is then in the pool exactly once, and whatever has been
\* evicted, split and joined for it, each block that is left holds the overlay it has
\* held before (amxpool.c:140-199, amx_overlays.c:23-38).
LoadsInOneStep == Store!StoreSpec
=============================================================================
