-------------------------------- MODULE WakeBone --------------------------------
(***************************************************************************)
(* The wake channel of one target: COACH asks, and the WATCHDOG makes the  *)
(* target's FETCHER ready - Wake-on-LAN for a sleeping host, one SSH       *)
(* command for a stopped service - and answers once it has seen a fresh    *)
(* pulse, or has given up (watchdog/wake_manager.py, wake_check in         *)
(* watchdog/runtime.py, watchdog/ssh_bootstrap.py, watchdog/wol.py).       *)
(*                                                                         *)
(* Host, service and pulse move on their own between any two steps.  Walks *)
(* and verified body writes are one step each, compared inside the         *)
(* mutation; an unanswered one may land later, as in FetchBall.            *)
(***************************************************************************)
EXTENDS StateMachines, Integers

CONSTANTS MaxGeneration,   \* bound: generations COACH publishes
          StartModes,      \* what COACH may ask of the FETCHER's service
          MaxCrashes,      \* bound: deaths of the WATCHDOG
          MaxLost          \* bound: answers that are lost

ASSUME WakeAssumption ==
  /\ MaxGeneration \in Nat /\ MaxCrashes \in Nat /\ MaxLost \in Nat
  /\ StartModes \subseteq {"IF_NEEDED", "REQUIRE_START", "DO_NOT_START"}

Generations == 0 .. MaxGeneration
NoOperation == 0           \* operation_id None; a request's is its generation
NoMode == "no mode"
NoResult == "no result"
Answer == Terminal("WAKE_BONE")

Body == [generation : Generations, operation : Generations, mode : StartModes \cup {NoMode},
         started : BOOLEAN, result : Answer \cup {NoResult}]
Bone == [state : States("WAKE_BONE"), body : Body]

IdleBody(g) ==
  [generation |-> g, operation |-> NoOperation, mode |-> NoMode, started |-> FALSE, result |-> NoResult]
RequestBody(g, mode) ==
  [generation |-> g, operation |-> g, mode |-> mode, started |-> FALSE, result |-> NoResult]

DogStage == {"watch", "read", "decide", "expire", "explain", "claim", "start",
             "pulse", "probe", "throw", "settle", "ensure", "knock", "listen",
             "loop", "look", "scratch", "sleep", "record", "publish"}
AtWork == {"pulse", "probe", "throw", "settle", "ensure", "knock", "listen",
           "loop", "look", "scratch", "sleep"}
CoachStage == {"rest", "publish", "toss", "clear", "free"}

VARIABLES bone,       \* the WAKE_BONE file
          host,       \* the target machine: is it up?
          service,    \* its FETCHER service: is it running?
          pulse,      \* is its DOG_PULSE fresh?
          expired,    \* generations whose expires_at has passed
          dog,        \* where process_toss stands
          request,    \* the body it read
          overdue,    \* has the deadline of the claimed request passed?
          attempted,  \* bootstrap_attempted, fetcher_started_at
          answer,     \* the result_code it is about to publish
          asked,      \* has the request in progress gone unanswered?
          pending,    \* requests the provider may still apply
          coach,      \* where COACH stands
          heard,      \* generations for which a fresh pulse was read
          thrown,     \* generations to throws: Wake-on-LAN packets sent, or tried to
          started,    \* generations to start commands sent, answered or not
          confirmed,  \* generations for which one was reported STARTED
          crashes, lost

target == <<host, service, pulse>>
manager == <<dog, request, overdue, attempted, answer>>
record == <<heard, thrown, started, confirmed>>
budget == <<crashes, lost>>
vars == <<bone, target, expired, manager, asked, pending, coach, record, budget>>

Init ==
  /\ bone = [state |-> "READY", body |-> IdleBody(0)]
  /\ host \in BOOLEAN /\ service = FALSE /\ pulse \in BOOLEAN
  /\ expired = {}
  /\ dog = "watch" /\ request = IdleBody(0) /\ answer = NoResult
  /\ overdue = FALSE /\ attempted = FALSE
  /\ asked = FALSE /\ pending = {}
  /\ coach = "rest"
  /\ heard = {} /\ confirmed = {}
  /\ thrown = [g \in Generations |-> 0] /\ started = [g \in Generations |-> 0]
  /\ crashes = 0 /\ lost = 0

-----------------------------------------------------------------------------
(* Mutants of definitions below, each a bug this code could have, are named        *)
(* <definition>_<bug>.                                                             *)
(* The request in progress: the change it asks for, fenced by state, operation and *)
(* generation of the body that was read.                                           *)
Asks == {"expire", "explain", "claim", "start", "record", "publish"}
From ==
  CASE dog \in {"expire", "claim"} -> "TOSS"
    [] dog = "explain" -> "FAILED"
    [] OTHER -> "CHEW"
Applied ==
  CASE dog = "expire" -> [bone EXCEPT !.state = "FAILED"]
    [] dog = "explain" -> [bone EXCEPT !.body = [request EXCEPT !.result = "FAILED"]]
    [] dog = "claim" -> [bone EXCEPT !.state = "CHEW"]
    [] dog = "start" -> [bone EXCEPT !.body = [request EXCEPT !.started = TRUE]]
    [] dog = "record" -> [bone EXCEPT !.body = [request EXCEPT !.result = answer]]
    [] dog = "publish" -> [bone EXCEPT !.state = answer]

Owned ==
  /\ bone.state = From
  /\ bone.body.operation = request.operation /\ bone.body.generation = request.generation

(* What the question of an unanswered request is answered by: the file as it      *)
(* would have it.                                                                  *)
InPlace ==
  CASE dog \in {"expire", "claim", "publish"} -> bone.state = Applied.state
    [] OTHER -> Owned /\ bone = Applied

Succeeds(stage) ==
  /\ dog = stage
  /\ \/ ~asked /\ Owned /\ bone' = Applied
     \/ asked /\ InPlace /\ UNCHANGED bone
  /\ asked' = FALSE

Unanswered ==
  /\ dog \in Asks /\ ~asked /\ Owned
  /\ lost < MaxLost /\ lost' = lost + 1
  /\ asked' = TRUE
  /\ pending' \in {pending, pending \cup {[against |-> bone, applied |-> Applied]}}
  /\ UNCHANGED <<bone, target, expired, manager, coach, record, crashes>>

Lands(one) == bone' = IF bone = one.against THEN one.applied ELSE bone
Land ==
  /\ \E one \in pending : Lands(one) /\ pending' = pending \ {one}
  /\ UNCHANGED <<target, expired, manager, asked, coach, record, budget>>

-----------------------------------------------------------------------------
(* wake_check and process_toss.                                                    *)
Goto(stage) == dog' = stage /\ UNCHANGED <<request, overdue, attempted, answer>>

(* _finish: result body first, terminal state second.                              *)
Finish(result) ==
  dog' = "record" /\ answer' = result /\ UNCHANGED <<request, overdue, attempted>>

Bounded_Never(stage) == Goto(stage)
Bounded(stage) == IF overdue THEN Finish("FAILED") ELSE Goto(stage)

(* _fresh_pulse: a pulse that is stale or cannot be read is none.                   *)
Hears(stage) ==
  \/ pulse /\ heard' = heard \cup {request.generation} /\ Finish("DONE")
  \/ UNCHANGED heard /\ Goto(stage)

(* What the steps of the manager leave alone: those that only look, those that act  *)
(* on the target, and those that ask the drive.                                     *)
Looking == <<bone, target, expired, asked, pending, coach, thrown, started, confirmed, budget>>
Acting == <<bone, host, pulse, expired, asked, pending, coach, heard, budget>>
Asking == <<target, expired, pending, coach, record, budget>>

Notice ==
  /\ dog = "watch" /\ bone.state = "TOSS" /\ Goto("read")
  /\ UNCHANGED <<Looking, heard>>

Expired(body) == body.operation = NoOperation \/ body.generation \in expired

ReadRequest ==
  /\ dog = "read" /\ dog' = "decide" /\ request' = bone.body
  /\ UNCHANGED <<Looking, heard, overdue, attempted, answer>>

Decide ==
  /\ dog = "decide"
  /\ Goto(CASE bone.state # "TOSS" -> "watch"
            [] bone.state = "TOSS" /\ Expired(request) -> "expire"
            [] OTHER -> "claim")
  /\ UNCHANGED <<Looking, heard>>

Expire == Succeeds("expire") /\ Goto("explain") /\ UNCHANGED Asking
Explain == Succeeds("explain") /\ Goto("watch") /\ UNCHANGED Asking
Claim == Succeeds("claim") /\ Goto("start") /\ UNCHANGED Asking

(* The deadline is the earliest of run limit, wake deadline and expires_at.          *)
Start ==
  /\ Succeeds("start") /\ dog' = "pulse"
  /\ request' = [request EXCEPT !.started = TRUE]
  /\ overdue' = Expired(request) /\ attempted' = FALSE
  /\ UNCHANGED <<Asking, answer>>

FirstPulse == dog = "pulse" /\ Hears("probe") /\ UNCHANGED Looking

(* A probe that fails counts as one that found nobody.                               *)
Probe ==
  /\ dog = "probe" /\ ((host /\ Goto("ensure")) \/ Goto("throw"))
  /\ UNCHANGED <<Looking, heard>>

(* A packet that cannot be sent, or is sent short, ends the request.                  *)
Throw ==
  /\ dog = "throw" /\ thrown' = [thrown EXCEPT ![request.generation] = @ + 1]
  /\ Goto("settle") \/ Finish("FAILED")
  /\ UNCHANGED <<Acting, service, started, confirmed>>

Settle == dog = "settle" /\ Bounded("loop") /\ UNCHANGED <<Looking, heard>>

(* DoorScratcher.scratch: is the service active, start it, is it active now?  Each    *)
(* of the three commands may fail or go unanswered; once the second is sent, the       *)
(* service may have started whatever is reported.                                      *)
SshFailure == {"UNREACHABLE", "AUTH_ERROR", "START_ERROR", "LOCAL_ERROR"}
Scratched(outcome) ==
  \/ /\ \/ outcome = "ALREADY_RUNNING" /\ service
        \/ outcome \in SshFailure \cup {"NOT_CAPABLE", "INVALID_TARGET"}
     /\ UNCHANGED <<service, started, confirmed>>
  \/ /\ host /\ ~service /\ outcome \in SshFailure \cup {"STARTED"}
     /\ service' \in IF outcome = "STARTED" THEN {TRUE} ELSE BOOLEAN
     /\ started' = [started EXCEPT ![request.generation] = @ + 1]
     /\ confirmed' = confirmed \cup (IF outcome = "STARTED" THEN {request.generation} ELSE {})
Outcome == SshFailure \cup {"ALREADY_RUNNING", "STARTED", "NOT_CAPABLE", "INVALID_TARGET"}

(* _ensure_fetcher_or_wait                                                            *)
Ensure ==
  /\ dog = "ensure"
  /\ Hears(IF request.mode = "DO_NOT_START" THEN "loop" ELSE "knock")
  /\ UNCHANGED Looking

Knock_TrustsService ==
  /\ dog = "knock"
  /\ \E outcome \in Outcome :
       /\ Scratched(outcome)
       /\ IF outcome = "STARTED" THEN Finish("DONE") ELSE Goto("listen")
  /\ UNCHANGED <<Acting, thrown>>
Knock_Forgets ==
  /\ dog = "knock" /\ Goto("listen")
  /\ \E outcome \in Outcome : Scratched(outcome)
  /\ UNCHANGED <<Acting, thrown>>
Knock ==
  /\ dog = "knock" /\ dog' = "listen"
  /\ \E outcome \in Outcome : Scratched(outcome) /\ attempted' = (outcome = "STARTED")
  /\ UNCHANGED <<Acting, thrown, request, overdue, answer>>

Listen == dog = "listen" /\ Hears("loop") /\ UNCHANGED Looking

Loop ==
  /\ dog = "loop" /\ ((host /\ Bounded("look")) \/ Bounded("sleep"))
  /\ UNCHANGED <<Looking, heard>>

Look ==
  /\ dog = "look"
  /\ Hears(IF request.mode # "DO_NOT_START" /\ ~attempted THEN "scratch" ELSE "sleep")
  /\ UNCHANGED Looking

Scratch ==
  /\ dog = "scratch" /\ attempted' = TRUE
  /\ \E outcome \in Outcome :
       /\ Scratched(outcome)
       /\ IF \/ outcome \in {"AUTH_ERROR", "START_ERROR", "LOCAL_ERROR"}
             \/ outcome = "NOT_CAPABLE" /\ request.mode = "REQUIRE_START"
            THEN dog' = "record" /\ answer' = "FAILED"
            ELSE dog' = "sleep" /\ UNCHANGED answer
  /\ UNCHANGED <<Acting, thrown, request, overdue>>

Sleep == dog = "sleep" /\ Bounded("loop") /\ UNCHANGED <<Looking, heard>>

Record == Succeeds("record") /\ Goto("publish") /\ UNCHANGED Asking
Publish == Succeeds("publish") /\ Goto("watch") /\ UNCHANGED Asking

(* A walk or write that does not succeed ends process_toss, reported or raised.      *)
Abandons == Goto("watch") /\ asked' = FALSE
Refused ==
  /\ dog \in Asks /\ (asked \/ ~Owned) /\ Abandons
  /\ UNCHANGED <<bone, Asking>>

(* So does a restart, a failing read and anything else that raises.                  *)
Crash ==
  /\ dog # "watch" /\ crashes < MaxCrashes /\ crashes' = crashes + 1
  /\ Abandons
  /\ UNCHANGED <<bone, target, expired, pending, coach, record, lost>>

-----------------------------------------------------------------------------
(* The target, and time.                                                             *)
Channel == <<bone, manager, asked, pending, coach, record, budget>>

PowerOn == ~host /\ host' = TRUE /\ UNCHANGED <<Channel, service, pulse, expired>>
PowerOff == host /\ host' = FALSE /\ service' = FALSE /\ UNCHANGED <<Channel, pulse, expired>>
ServiceStarts == host /\ ~service /\ service' = TRUE /\ UNCHANGED <<Channel, host, pulse, expired>>
ServiceStops == service /\ service' = FALSE /\ UNCHANGED <<Channel, host, pulse, expired>>
Beat == service /\ ~pulse /\ pulse' = TRUE /\ UNCHANGED <<Channel, host, service, expired>>
Fade == pulse /\ pulse' = FALSE /\ UNCHANGED <<Channel, host, service, expired>>

RequestExpires ==
  /\ bone.state \in {"TOSS", "CHEW"} /\ bone.body.generation \notin expired
  /\ expired' = expired \cup {bone.body.generation}
  /\ overdue' = (overdue \/ dog \in AtWork)
  /\ UNCHANGED <<bone, target, dog, request, attempted, answer, asked, pending, coach, record, budget>>

DeadlinePasses ==
  /\ dog \in AtWork /\ ~overdue /\ overdue' = TRUE
  /\ UNCHANGED <<bone, target, expired, dog, request, attempted, answer, asked, pending, coach, record, budget>>

-----------------------------------------------------------------------------
(* COACH: toss_wake, and recycling along the edges of the registry.                   *)
OfCoach == <<target, expired, manager, asked, pending, record, budget>>

CoachMoves(stage, from, to, next) ==
  /\ coach = stage /\ bone.state = from
  /\ bone' = [bone EXCEPT !.state = to] /\ coach' = next
  /\ UNCHANGED OfCoach

Reserve == bone.body.generation < MaxGeneration /\ CoachMoves("rest", "READY", "LOADING", "publish")
WriteRequest ==
  /\ coach = "publish" /\ bone.state = "LOADING" /\ coach' = "toss"
  /\ \E mode \in StartModes :
       bone' = [bone EXCEPT !.body = RequestBody(@.generation + 1, mode)]
  /\ UNCHANGED OfCoach
Toss == CoachMoves("toss", "LOADING", "TOSS", "rest")
Consume == \E result \in Answer : CoachMoves("rest", result, "RECYCLING", "clear")
Clear ==
  /\ coach = "clear" /\ bone.state = "RECYCLING" /\ coach' = "free"
  /\ bone' = [bone EXCEPT !.body = IdleBody(@.generation)]
  /\ UNCHANGED OfCoach
Free == CoachMoves("free", "RECYCLING", "READY", "rest")

-----------------------------------------------------------------------------
DogStep ==
  \/ Notice \/ ReadRequest \/ Decide \/ Expire \/ Explain \/ Claim \/ Start
  \/ FirstPulse \/ Probe \/ Throw \/ Settle \/ Ensure \/ Knock \/ Listen
  \/ Loop \/ Look \/ Scratch \/ Sleep \/ Record \/ Publish \/ Refused
TargetStep == PowerOn \/ PowerOff \/ ServiceStarts \/ ServiceStops \/ Beat \/ Fade
CoachStep == Reserve \/ WriteRequest \/ Toss \/ Consume \/ Clear \/ Free

Next ==
  \/ DogStep \/ Unanswered \/ Land \/ Crash
  \/ TargetStep \/ RequestExpires \/ DeadlinePasses
  \/ CoachStep
Spec == Init /\ [][Next]_vars

(* The scheduler comes back to the channel, and the deadline of a request in work     *)
(* is a monotonic clock's.  Nothing is assumed of the target or of COACH.             *)
FairSpec == Spec /\ WF_vars(DogStep) /\ WF_vars(DeadlinePasses)

-----------------------------------------------------------------------------
TypeOK ==
  /\ bone \in Bone
  /\ host \in BOOLEAN /\ service \in BOOLEAN /\ pulse \in BOOLEAN
  /\ expired \subseteq Generations /\ heard \subseteq Generations
  /\ dog \in DogStage /\ request \in Body
  /\ overdue \in BOOLEAN /\ attempted \in BOOLEAN /\ asked \in BOOLEAN
  /\ answer \in IF dog \in {"record", "publish"} THEN Answer ELSE Answer \cup {NoResult}
  /\ pending \subseteq [against : Bone, applied : Bone]
  /\ coach \in CoachStage
  /\ thrown \in [Generations -> Nat] /\ started \in [Generations -> Nat]
  /\ confirmed \subseteq Generations
  /\ crashes \in 0 .. MaxCrashes /\ lost \in 0 .. MaxLost

(* DONE is a fresh pulse of the target, read for this very request - never an        *)
(* answered ping, a packet that was sent or a start command that returned zero       *)
(* (WAKE_BONE.md, DONE).                                                             *)
DoneMeansHeard == bone.state = "DONE" => bone.body.generation \in heard

(* Whatever is retried, lost or restarted, a request throws one packet at most, and    *)
(* sends no start command once one has been reported STARTED: only a start whose       *)
(* answer was lost, or was an error, is followed by a second, and that one by none.    *)
(* If COACH said DO_NOT_START, none is sent.                                           *)
Sparing ==
  /\ \A g \in Generations : thrown[g] <= 1 /\ started[g] <= 2
  /\ bone.body.mode = "DO_NOT_START" => started[bone.body.generation] = 0
WakesSparingly ==
  []Sparing /\ [][\A g \in confirmed : started'[g] = started[g]]_vars

(* Every request is answered, however often the target comes and goes, unless the      *)
(* WATCHDOG dies or loses an answer.                                                   *)
RequestsAreAnswered == (bone.state = "TOSS") ~> (bone.state \in Answer \/ crashes + lost > 0)
================================================================================
