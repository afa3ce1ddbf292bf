------------------------------ MODULE MCSession ------------------------------
(* Session with programs, with overlays and without, that just fit a memory *)
(* of eight bytes, that are one too large, and that leave most of it.       *)
EXTENDS Session, TLC

\* With overlays 5 .. 9 need 3 .. 7 bytes and the header of the pool; 10 leaves none.
MCHeaders ==
  {[overlay |-> o, cod |-> 1, dat |-> 3, hea |-> 4, stp |-> s] :
     o \in BOOLEAN, s \in {5, 8, 9, 10, 12}}

\* The original image drives PB0, the file's image PB1, which is an output by default.
MCDriven == [i \in Images \union {Original, Blank} |->
               IF i = Original THEN {"PB0"} ELSE IF i = Blank THEN {} ELSE {"PB1"}]
=============================================================================
