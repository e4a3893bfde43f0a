----------------------------- MODULE MCGraphPages -----------------------------
(* GraphPages for TLC. *)
EXTENDS GraphPages, TLC

MCUnitSeconds == ("s" :> 1) @@ ("m" :> 2)

\* 0m1s.
MCWindow == << <<0, "m">>, <<1, "s">> >>

\* 1m1x, and no part at all: the default is taken.
MCBadWindows == {<< <<1, "m">>, <<1, "x">> >>, <<>>}

MCWindows == {MCWindow} \cup MCBadWindows

ASSUME BadWindowsAssumption ==
  \A window \in MCBadWindows : Duration(window) = Default

MCQuery(window, start, stop) == [window |-> window, start |-> start, stop |-> stop]

\* Either bound; both, of a part of the same range; neither, for the one there is
\* is no time; a window beside bounds.  Other ranges with both bounds come from
\* permalinks and options forms.
MCQueries ==
  {MCQuery(None, 1, None), MCQuery(None, None, 3), MCQuery(None, 1, 1),
   MCQuery(None, None, Invalid), MCQuery(MCWindow, 1, 3)}
=============================================================================
