------------------------------- MODULE MCOneFile -------------------------------
(***************************************************************************)
(* The WATCHDOG gives a job up while the FETCHER stores its result, both   *)
(* fenced (job_reaper.py, ball_pipeline.py), among others who move and     *)
(* write the same FETCH_BALL.                                              *)
(***************************************************************************)
EXTENDS OneFile

MCPlan ==
  [w \in Walks |->
     [from |-> "CHEW", to |-> "GONE", actor |-> Watchdog, fenced |-> TRUE,
      operation |-> "job1", generation |-> 1]]

MCWritePlan ==
  [c \in Writes |->
     [state |-> "RETURNING", actor |-> Fetcher, local |-> "sound", fenced |-> TRUE,
      body |-> [operation |-> "job1", generation |-> 1, text |-> "result"],
      operation |-> "job1", generation |-> 1]]
================================================================================
