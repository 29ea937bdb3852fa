------------------------------ MODULE MCMutex ------------------------------
(***************************************************************************)
(* A small instance of mutexes: two tasks, which also open files, and one  *)
(* name.                                                                   *)
(***************************************************************************)
EXTENDS Mutex
=============================================================================
