----------------------------- MODULE MCSpoolLog -----------------------------
(***************************************************************************)
(* Small instances of the spool log.                                       *)
(***************************************************************************)
EXTENDS SpoolLogChecks, TLC

CONSTANTS w1, w2

Interchangeable == Permutations(Worker)
=============================================================================
