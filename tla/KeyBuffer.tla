----------------------------- MODULE KeyBuffer -----------------------------
(***************************************************************************)
(* What the key buffer of the runtime promises its readers, whatever the   *)
(* timer interrupt does meanwhile: a set of pending key presses to which   *)
(* the interrupt adds, from which a reader takes keys in one atomic step,  *)
(* and at which a reader may look without taking.  Module Keys implements  *)
(* it; the event loop of module Supervisor is written against it.          *)
(***************************************************************************)
CONSTANT Keys          \* the buttons and scroller directions of ALL_KEYS

VARIABLES pending,     \* presses nobody has taken yet
          out          \* what the last completed get_keys or peek_keys returned

kbVars == <<pending, out>>

KBInit == pending = {} /\ out = {}

\* The interrupt notices presses.
Press(ks) == pending' = pending \union ks /\ UNCHANGED out

\* get_keys(mask): the presses it returns are exactly the ones it removes.
Take(mask) ==
  /\ out' = pending \intersect mask
  /\ pending' = pending \ mask

\* peek_keys(mask)
Look(mask) == out' = pending \intersect mask /\ UNCHANGED pending

KBNext ==
  \/ \E ks \in SUBSET Keys : Press(ks)
  \/ \E mask \in SUBSET Keys : Take(mask) \/ Look(mask)

KBSpec == KBInit /\ [][KBNext]_kbVars
=============================================================================
