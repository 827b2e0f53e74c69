------------------------------ MODULE JobLifecycle ------------------------------
(***************************************************************************)
(* What the work channel promises to everybody who only sees its name and  *)
(* generation (docs/FETCH_BALL.md): it moves along the edges of the        *)
(* registry, a generation is offered, claimed and executed at most once,   *)
(* in this order, and a job returns only when its execution is over.  A    *)
(* job may be given up, GONE, before or while it is executing, and the     *)
(* execution may outlast the whole generation.                             *)
(***************************************************************************)
EXTENDS StateMachines, Integers

CONSTANTS MaxGeneration     \* bound: generations COACH publishes

ASSUME GenerationAssumption == MaxGeneration \in Nat

VARIABLES state,        \* of FETCH_BALL, spelled in its name
          generation,   \* in its body
          running,      \* generation the FETCHER is executing, 0 if none
          claimed,      \* generations that have been in CHEW
          executed      \* generations that have been executed

jobVars == <<state, generation, running, claimed, executed>>

Init ==
  /\ state = "READY" /\ generation = 0
  /\ running = 0 /\ claimed = {} /\ executed = {}

Move ==
  /\ \E edge \in Edges("FETCH_BALL") :
       /\ state = edge[1] /\ state' = edge[2]
       /\ edge[2] \in {"TOSS", "CHEW"} => generation \notin claimed \cup {0}
       /\ edge[2] = "RETURNING" =>
            edge[1] = "CHEW" /\ generation \in executed /\ running # generation
  /\ claimed' = IF state' = "CHEW" THEN claimed \cup {generation} ELSE claimed
  /\ UNCHANGED <<generation, running, executed>>

Publish ==
  /\ state = "LOADING" /\ generation < MaxGeneration
  /\ generation' = generation + 1
  /\ UNCHANGED <<state, running, claimed, executed>>

Execute ==
  /\ running = 0
  /\ \E g \in claimed \ executed :
       running' = g /\ executed' = executed \cup {g}
  /\ UNCHANGED <<state, generation, claimed>>

Stop ==
  /\ running # 0 /\ running' = 0
  /\ UNCHANGED <<state, generation, claimed, executed>>

Next == Move \/ Publish \/ Execute \/ Stop
Spec == Init /\ [][Next]_jobVars
================================================================================
