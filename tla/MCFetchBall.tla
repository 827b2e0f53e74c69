------------------------------- MODULE MCFetchBall -------------------------------
(***************************************************************************)
(* The work channel with the constants of the configurations.              *)
(***************************************************************************)
EXTENDS FetchBall
================================================================================
