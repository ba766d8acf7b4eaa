----------------------------- MODULE MCPlayPool -----------------------------
(***************************************************************************)
(* Two sounds of different length, three IDs for at most three plays: all  *)
(* IDs can be taken when a fourth play is asked for.                       *)
(***************************************************************************)
EXTENDS PlayPool

SizeValue == [s \in Sounds |-> IF s = "key" THEN 2 ELSE 3]
=============================================================================
