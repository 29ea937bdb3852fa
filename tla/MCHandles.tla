------------------------------ MODULE MCHandles ------------------------------
(***************************************************************************)
(* Small instances of handles and files: two programs, the kernel's        *)
(* terminal, and room for few more.                                        *)
(***************************************************************************)
EXTENDS Handles, TLC

TaskSymmetry == Permutations(Tasks)
=============================================================================
