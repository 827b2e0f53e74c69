------------------------------- MODULE AtomicWalk -------------------------------
(***************************************************************************)
(* What StateWalker.walk promises its callers, without the requests it is  *)
(* made of: each call renames the file at most once, in one step, and only *)
(* while the file is in the expected state and under the caller's fence;   *)
(* it reports once.  A report of failure excludes the rename, before and   *)
(* after; only UNCONFIRMED leaves open whether the rename is yet to come.  *)
(***************************************************************************)
EXTENDS Channel

CONSTANTS Walks, Plan

VARIABLES file,     \* the file as it is: its state and its body
          moved,    \* the calls whose rename has taken effect
          outcome   \* what each call has reported

vars == <<file, moved, outcome>>

Undecided == "undecided"
NoEffect == {"FAILURE", "STALE_FENCE", "IDEMPOTENT_SUCCESS"}

Init ==
  /\ file \in FirstSnapshots /\ StartsIn(file)
  /\ moved = {}
  /\ outcome = [w \in Walks |-> Undecided]

Owns(w) ==
  /\ file.state = Plan[w].from
  /\ Plan[w].fenced => /\ file.body.operation = Plan[w].operation
                       /\ file.body.generation = Plan[w].generation

Move(w) ==
  /\ w \notin moved
  /\ outcome[w] \in {Undecided, "UNCONFIRMED"}
  /\ ValidateTransition(Object, Plan[w].from, Plan[w].to, Plan[w].actor) = "LEGAL"
  /\ Owns(w)
  /\ file' = [file EXCEPT !.state = Plan[w].to]
  /\ moved' = moved \cup {w}
  /\ UNCHANGED outcome

Answer(w) ==
  /\ outcome[w] = Undecided
  /\ \E result \in {"NEW_SUCCESS", "STATE_CONFLICT", "UNCONFIRMED"} \cup NoEffect :
       /\ w \in moved => result \notin NoEffect
       /\ outcome' = [outcome EXCEPT ![w] = result]
  /\ UNCHANGED <<file, moved>>

Others ==
  /\ file' \in OtherSnapshots(file)
  /\ UNCHANGED <<moved, outcome>>

Next == (\E w \in Walks : Move(w) \/ Answer(w)) \/ Others

Spec == Init /\ [][Next]_vars
================================================================================
