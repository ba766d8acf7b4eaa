--------------------------- MODULE MCScreenQueue ----------------------------
(***************************************************************************)
(* Two different lines of different length.                                *)
(***************************************************************************)
EXTENDS ScreenQueue

LinesValue == {<<"a">>, <<"b", "c">>}
=============================================================================
