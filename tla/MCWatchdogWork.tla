----------------------------- MODULE MCWatchdogWork -----------------------------
(***************************************************************************)
(* Two dogs with one external and one shared action.  The dogs are         *)
(* interchangeable, the actions are not.                                   *)
(***************************************************************************)
EXTENDS WatchdogWork, TLC

CONSTANTS d1, d2

Symmetry == Permutations(Dogs)
================================================================================
