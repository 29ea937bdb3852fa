------------------------------- MODULE MCTerm -------------------------------
(***************************************************************************)
(* Small instances of the terminals: a screen of two lines of two symbols. *)
(***************************************************************************)
EXTENDS Term

TwoTexts == {<<Backspace>>, <<Plain, Carriage, Newline>>}
OneText == {<<Plain>>}
=============================================================================
