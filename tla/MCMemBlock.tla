----------------------------- MODULE MCMemBlock -----------------------------
(***************************************************************************)
(* A small instance of the pool: up to four blocks of three items.         *)
(***************************************************************************)
EXTENDS MemBlock
=============================================================================
