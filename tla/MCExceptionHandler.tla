------------------------- MODULE MCExceptionHandler -------------------------
(***************************************************************************)
(* ExceptionHandler for TLC.  Threads are interchangeable in the runs that *)
(* give every thread the same roles and check invariants only.             *)
(***************************************************************************)
EXTENDS ExceptionHandler, TLC

ThreadSymmetry == Permutations(Threads)
=============================================================================
