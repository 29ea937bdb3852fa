------------------------------- MODULE MCLife -------------------------------
(***************************************************************************)
(* The arena of the program itself: a screen of 80 columns and 25 rows.    *)
(***************************************************************************)
EXTENDS Life
=============================================================================
