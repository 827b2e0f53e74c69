--------------------------------- MODULE Health ---------------------------------
(***************************************************************************)
(* DOG_SHIT, the one global fault register, and the WATCHDOG's two         *)
(* procedures on it (watchdog/health.py): report raises a blocking fault,  *)
(* revalidate_reviewed resolves one that COACH has reviewed.  Both move    *)
(* the name first and the body afterwards, unfenced, in the one thread of  *)
(* the WATCHDOG; COACH reviews whenever it sees BLOCKING, and the world    *)
(* breaks and mends on its own.                                            *)
(*                                                                         *)
(* A walk and a verified write are one step each, as in FetchBall: the     *)
(* answer may be lost and the request may land later.  Counts and times in *)
(* the body are left out; nothing is decided by them.                      *)
(***************************************************************************)
EXTENDS StateMachines, Integers

CONSTANTS Faults,             \* fault codes of a blocking scope
          MaxCrashes,         \* bound: restarts of the WATCHDOG
          MaxLost,            \* bound: answers that are lost
          AtomicPrecondition  \* does a late request still check its version?

NoFault == "no fault"       \* the reset body: scope NONE, fault_code null
Register == [state : States("WATCHDOG_FAULT"), fault : Faults \cup {NoFault}]
DogStage == {"rest", "raise", "record", "revalidate", "lower", "reset"}

VARIABLES register,   \* the DOG_SHIT file
          broken,     \* the faults the world has now
          dog,        \* where the WATCHDOG stands
          source,     \* state the walk in progress starts from
          signal,     \* fault being reported, or read from the reviewed body
          asked,      \* has the request in progress gone unanswered?
          pending,    \* requests the provider may still apply
          standing,   \* was a fault reported and verified, and no check has passed since?
          crashes, lost

vars == <<register, broken, dog, source, signal, asked, pending, standing, crashes, lost>>
world == <<broken, crashes, lost>>

Init ==
  /\ register = [state |-> "CLEAN", fault |-> NoFault]
  /\ broken = {} /\ pending = {}
  /\ dog = "rest" /\ source = "CLEAN" /\ signal = NoFault /\ asked = FALSE
  /\ standing = FALSE
  /\ crashes = 0 /\ lost = 0

Mutates(change) ==
  /\ register' = change
  /\ pending' = IF AtomicPrecondition THEN {} ELSE pending

-----------------------------------------------------------------------------
(* The request of each stage: the state it must find, and what it makes of it.  *)
RequestFrom ==
  CASE dog = "raise" -> source [] dog = "record" -> "BLOCKING"
    [] dog = "lower" -> "REVIEWED" [] dog = "reset" -> "CLEAN"
Applied(request) ==
  CASE request = "raise" -> [register EXCEPT !.state = "BLOCKING"]
    [] request = "lower" -> [register EXCEPT !.state = "CLEAN"]
    [] request = "reset" -> [register EXCEPT !.fault = NoFault]
    [] OTHER -> [register EXCEPT !.fault = request]
Request == IF dog = "record" THEN signal ELSE dog
Requesting == dog \in {"raise", "record", "lower", "reset"}

Done ==
  CASE dog = "raise" -> register.state = "BLOCKING"
    [] dog = "record" -> register.state = "BLOCKING" /\ register.fault = signal
    [] dog = "lower" -> register.state = "CLEAN"
    [] dog = "reset" -> register.state = "CLEAN" /\ register.fault = NoFault

(* The stage's walk or write is reported successful: applied to the state it was *)
(* meant for, or, unanswered, seen to be in place.                               *)
Succeeds(stage) ==
  /\ dog = stage
  /\ \/ ~asked /\ register.state = RequestFrom /\ Mutates(Applied(Request))
     \/ asked /\ Done /\ UNCHANGED <<register, pending>>
  /\ asked' = FALSE

Unanswered ==
  /\ Requesting /\ ~asked /\ register.state = RequestFrom
  /\ lost < MaxLost /\ lost' = lost + 1
  /\ asked' = TRUE
  /\ pending' \in {pending, pending \cup {Request}}
  /\ UNCHANGED <<register, broken, dog, source, signal, standing, crashes>>

Land ==
  /\ \E late \in pending :
       /\ register' = Applied(late)
       /\ pending' = IF AtomicPrecondition THEN {} ELSE pending \ {late}
  /\ UNCHANGED <<world, dog, source, signal, asked, standing>>

-----------------------------------------------------------------------------
(* report: the name is read (with the prior body), then walked to BLOCKING unless  *)
(* it is there, then the body is written.                                          *)
Report(fault) ==
  /\ dog = "rest" /\ fault \in broken
  /\ dog' = IF register.state = "BLOCKING" THEN "record" ELSE "raise"
  /\ source' = register.state /\ signal' = fault
  /\ UNCHANGED <<world, register, pending, asked, standing>>

Raise ==
  /\ Succeeds("raise") /\ dog' = "record"
  /\ UNCHANGED <<world, source, signal, standing>>

Record ==
  /\ Succeeds("record") /\ dog' = "rest"
  /\ standing' = TRUE
  /\ UNCHANGED <<world, source, signal>>

(* revalidate_reviewed: the body read names the fault to look into again.          *)
Revalidate ==
  /\ dog = "rest" /\ register.state = "REVIEWED"
  /\ dog' = "revalidate" /\ source' = "REVIEWED" /\ signal' = register.fault
  /\ UNCHANGED <<world, register, pending, asked, standing>>

InvariantHolds_Trusted ==
  /\ dog = "revalidate"
  /\ dog' = "lower"
  /\ UNCHANGED <<world, register, pending, source, signal, asked, standing>>
InvariantHolds ==
  /\ dog = "revalidate" /\ signal \notin broken
  /\ dog' = "lower" /\ standing' = FALSE
  /\ UNCHANGED <<world, register, pending, source, signal, asked>>

(* A body that names no fault raises ValueError in FaultSignal.                     *)
InvariantFails ==
  /\ dog = "revalidate" /\ broken # {}
  /\ signal \in broken \cup {NoFault}
  /\ dog' = IF signal = NoFault THEN "rest" ELSE "raise"
  /\ UNCHANGED <<world, register, pending, source, signal, asked, standing>>

Lower ==
  /\ Succeeds("lower") /\ dog' = "reset"
  /\ UNCHANGED <<world, source, signal, standing>>

Reset ==
  /\ Succeeds("reset") /\ dog' = "rest"
  /\ UNCHANGED <<world, source, signal, standing>>

(* STATE_CONFLICT, UNCONFIRMED and FAILURE are reported to a scheduler that drops   *)
(* them; the procedure is over, wherever it stood.                                  *)
Refused ==
  /\ Requesting
  /\ asked \/ register.state # RequestFrom
  /\ dog' = "rest" /\ asked' = FALSE
  /\ UNCHANGED <<world, register, pending, source, signal, standing>>

Restart ==
  /\ dog # "rest" /\ crashes < MaxCrashes
  /\ dog' = "rest" /\ asked' = FALSE
  /\ crashes' = crashes + 1
  /\ UNCHANGED <<register, broken, source, signal, pending, standing, lost>>

-----------------------------------------------------------------------------
(* COACH acknowledges what it reads, whether or not the body has caught up.         *)
Review ==
  /\ register.state = "BLOCKING"
  /\ Mutates([register EXCEPT !.state = "REVIEWED"])
  /\ UNCHANGED <<world, dog, source, signal, asked, standing>>

Break(fault) ==
  /\ fault \notin broken /\ broken' = broken \cup {fault}
  /\ UNCHANGED <<register, dog, source, signal, asked, pending, standing, crashes, lost>>
Mend(fault) ==
  /\ fault \in broken /\ broken' = broken \ {fault}
  /\ UNCHANGED <<register, dog, source, signal, asked, pending, standing, crashes, lost>>

ReportStep == (\E fault \in Faults : Report(fault)) \/ Raise \/ Record \/ Refused
RevalidateStep == Revalidate \/ InvariantHolds \/ InvariantFails \/ Lower \/ Reset
Environment == Review \/ Land \/ Unanswered \/ Restart \/ \E f \in Faults : Break(f) \/ Mend(f)

Next == ReportStep \/ RevalidateStep \/ Environment
Spec == Init /\ [][Next]_vars

-----------------------------------------------------------------------------
TypeOK ==
  /\ register \in Register
  /\ broken \subseteq Faults
  /\ dog \in DogStage /\ source \in States("WATCHDOG_FAULT")
  /\ signal \in Faults \cup {NoFault}
  /\ asked \in BOOLEAN /\ pending \subseteq {"raise", "lower", "reset"} \cup Faults
  /\ standing \in BOOLEAN
  /\ crashes \in 0 .. MaxCrashes /\ lost \in 0 .. MaxLost

(* A fault that was reported and verified keeps the register from CLEAN until a    *)
(* check of the reviewed fault has passed - whatever COACH acknowledged meanwhile, *)
(* and whatever an earlier clearance left on its way (WATCHDOG_STATES.md:86-88).   *)
StandingFaultBlocks == standing => register.state # "CLEAN"
================================================================================
