------------------------------ MODULE MCSched ------------------------------
(***************************************************************************)
(* Small instances of the scheduler: two or three programs besides the     *)
(* shell, delays of one tick and of three.                                 *)
(***************************************************************************)
EXTENDS Sched
=============================================================================
