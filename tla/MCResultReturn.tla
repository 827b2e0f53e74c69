----------------------------- MODULE MCResultReturn -----------------------------
(***************************************************************************)
(* The return of one job, through the Google adapter.                      *)
(***************************************************************************)
EXTENDS ResultReturn

MCPlan ==
  [w \in Walks |->
     IF w = Returning THEN JobWalk("CHEW", "RETURNING") ELSE JobWalk("RETURNING", "DONE")]
================================================================================
