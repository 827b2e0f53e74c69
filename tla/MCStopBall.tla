------------------------------- MODULE MCStopBall -------------------------------
(***************************************************************************)
(* Cancellation over two jobs and two requests.                            *)
(***************************************************************************)
EXTENDS StopBall
================================================================================
