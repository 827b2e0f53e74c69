-------------------------------- MODULE Channel --------------------------------
(***************************************************************************)
(* What a stateful control file holds - a state, spelled in its name, and  *)
(* a body - and what the other clients of the file may turn it into: the   *)
(* registry's edges walked by their owners, and bodies replaced by the     *)
(* writers of the state (protocol/state-machines.yaml).                    *)
(***************************************************************************)
EXTENDS StateMachines, Fencing

CONSTANTS Object,       \* the logical object, one of Objects
          Operations,   \* operation identifiers COACH may issue
          Texts         \* the rest of a body, as far as it is told apart

ASSUME ChannelAssumption == Object \in Objects /\ Texts # {}

NoOperation == "no operation"    \* the body of an idle channel

Body == [operation : Operations \cup {NoOperation}, generation : Nat, text : Texts]
Snapshot == [state : States(Object), body : Body]

(* A snapshot the channel can be found in: an idle body under READY, a job's   *)
(* body in every other state.                                                  *)
FirstSnapshots ==
  {[state |-> state,
    body |-> [operation |-> operation, generation |-> 1, text |-> text]] :
      state \in States(Object), operation \in Operations \cup {NoOperation},
      text \in Texts}

StartsIn(s) ==
  /\ s \in FirstSnapshots
  /\ (s.state = "READY") <=> (s.body.operation = NoOperation)

Renamed(s) ==
  {[state |-> e[2], body |-> s.body] : e \in {x \in Edges(Object) : x[1] = s.state}}

(* COACH publishes a job under a new generation and clears the job out again    *)
(* under the same one; a job's own reports keep both.                           *)
Published(s) ==
  IF s.state = "LOADING"
    THEN [operation : Operations, generation : {s.body.generation + 1}, text : Texts]
    ELSE {}
Cleared(s) ==
  IF s.state = "RECYCLING"
    THEN [operation : {NoOperation}, generation : {s.body.generation}, text : Texts]
    ELSE {}
Reported(s) ==
  IF BodyWriters(Object, s.state) \ {Coach} # {}
    THEN [operation : {s.body.operation}, generation : {s.body.generation}, text : Texts]
    ELSE {}

Rewritten(s) ==
  {[state |-> s.state, body |-> body] :
     body \in Published(s) \cup Cleared(s) \cup Reported(s)}

OtherSnapshots(s) == Renamed(s) \cup Rewritten(s)
================================================================================
