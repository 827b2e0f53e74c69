------------------------------ MODULE MCLeadership ------------------------------
(* Two dogs, one of which may found the role.                                   *)
EXTENDS Leadership

CONSTANTS d1, d2
================================================================================
