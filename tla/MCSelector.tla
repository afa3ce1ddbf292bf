---------------------------- MODULE MCSelector ----------------------------
(* Small instances of Selector for TLC. *)
EXTENDS Selector

MCNames == {"a", "b", "c", "d", "e", "f", "g", "h", "i"}

Dir(scripts, trailing) == [scripts |-> scripts, trailing |-> trailing]

\* No script; part of a page; a full page, with and without another file behind it;
\* two pages, full and not; part of a third.
MCDirectories ==
  {Dir(<<>>, TRUE), Dir(<<"b", "d", "e">>, FALSE),
   Dir(<<"a", "b", "c", "d">>, FALSE), Dir(<<"a", "c", "d", "f">>, TRUE),
   Dir(<<"a", "b", "d", "e", "f">>, FALSE),
   Dir(<<"a", "b", "c", "d", "e", "f", "g", "h">>, TRUE),
   Dir(<<"a", "b", "c", "d", "e", "f", "g", "h", "i">>, FALSE)}
=============================================================================
