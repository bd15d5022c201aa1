--------------------------- MODULE MCSchwabClient ---------------------------
(* Values for TLC: days of four instants, New York one behind, windows with *)
(* whole days, parts of days and inverted ones.                             *)
EXTENDS SchwabClient

SomeIntervals == {0, 1, 3}
Windows == [s : {-1, 0, 5, 13}, e : {0, 3, 8, 11}]
Days    == 0..1
Bodies  == {<<>>, <<0>>, <<0, 1, 0>>, <<1, None>>, <<None, None>>}
=============================================================================
