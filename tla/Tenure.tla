--------------------------------- MODULE Tenure ---------------------------------
(***************************************************************************)
(* What the leadership records promise to everyone who reads them          *)
(* (docs/NATIVE_LEADERSHIP.md): epochs follow each other, each has one     *)
(* owner and one acquisition; a leader is replaced only when its lease has *)
(* lapsed or by the dog whose request it has had before it; a renewal      *)
(* changes the heartbeat alone, and never under a pending request.         *)
(***************************************************************************)
EXTENDS Integers

CONSTANTS Dogs, Nobody

VARIABLES leader,    \* owner, epoch, acquisition and last transition
          request,   \* who asks for the next epoch
          lapsed     \* has the lease time passed since the last heartbeat?

tenureVars == <<leader, request, lapsed>>

Vacant == [owner |-> Nobody, epoch |-> 0, acquisition |-> 0, transition |-> 0]
NoRequest == [by |-> Nobody, id |-> 0]

Init == leader = Vacant /\ request = NoRequest /\ lapsed = FALSE

(* The next epoch begins; what was asked of the last one is void.               *)
Succeed(dog) ==
  /\ leader'.owner = dog
  /\ leader'.epoch = leader.epoch + 1
  /\ leader'.acquisition \notin {leader.acquisition, leader.transition}
  /\ leader'.transition = leader'.acquisition
  /\ request' = NoRequest
  /\ lapsed' \in BOOLEAN

Found(dog) == leader = Vacant /\ Succeed(dog)
TakeOver(dog) == leader # Vacant /\ lapsed /\ Succeed(dog)
Claim(dog) == request.by = dog /\ Succeed(dog) /\ leader'.acquisition = request.id

Renew ==
  /\ leader # Vacant /\ request = NoRequest
  /\ leader' = [leader EXCEPT !.transition = leader'.transition]
  /\ leader'.transition # leader.transition
  /\ lapsed' \in BOOLEAN
  /\ UNCHANGED request

Ask(dog) ==
  /\ leader # Vacant /\ leader.owner # dog /\ request = NoRequest
  /\ request'.by = dog
  /\ UNCHANGED <<leader, lapsed>>

Withdraw == request # NoRequest /\ request' = NoRequest /\ UNCHANGED <<leader, lapsed>>
Lapse == leader # Vacant /\ lapsed' = TRUE /\ UNCHANGED <<leader, request>>

Next ==
  \/ \E dog \in Dogs : Found(dog) \/ TakeOver(dog) \/ Claim(dog) \/ Ask(dog)
  \/ Renew \/ Withdraw \/ Lapse

Spec == Init /\ [][Next]_tenureVars
================================================================================
