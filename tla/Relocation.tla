------------------------------ MODULE Relocation ------------------------------
(***************************************************************************)
(* What a reconfiguration promises, whoever leads it and however often it   *)
(* is interrupted: the files go to the new root one after the other while   *)
(* no daemon runs, the address follows when all are there, the park is      *)
(* opened either where it was or where it went, and one daemon at a time    *)
(* works there.                                                             *)
(***************************************************************************)
EXTENDS Integers, FiniteSets

CONSTANTS Dogs, Last

VARIABLES moved,      \* the objects in the new root
          route,      \* the root the shared document names
          phase, running

vars == <<moved, route, phase, running>>

Objects == 1 .. Last

Init == moved = {} /\ route = "old" /\ phase = "MAINTENANCE" /\ running = {}

Move ==
  /\ phase = "MAINTENANCE" /\ route = "old"
  /\ \E index \in 0 .. Last - 1 : moved = 1 .. index /\ moved' = 1 .. index + 1
  /\ UNCHANGED <<route, phase, running>>

Rebind ==
  /\ phase = "MAINTENANCE" /\ moved = Objects /\ route' = "new"
  /\ UNCHANGED <<moved, phase, running>>

Publish ==
  /\ phase = "MAINTENANCE" /\ phase' = "ACTIVE"
  /\ moved = {} \/ route = "new"
  /\ UNCHANGED <<moved, route, running>>

Change ==
  /\ phase = "ACTIVE" /\ running' \in {{}} \cup {{dog} : dog \in Dogs}
  /\ UNCHANGED <<moved, route, phase>>

Next == Move \/ Rebind \/ Publish \/ Change
Spec == Init /\ [][Next]_vars

-----------------------------------------------------------------------------
(* No daemon works while the files are on their way: where one runs, the files  *)
(* are all in the root the shared document names                                *)
(* (reconfiguration_admission.py:64, _current and _prove).                      *)
NobodyWorksBetween ==
  running # {} => \/ moved = {} /\ route = "old"
                  \/ moved = Objects /\ route = "new"
=============================================================================
