-------------------------------- MODULE FetchBall --------------------------------
(***************************************************************************)
(* The work channel of one target: COACH tosses a job, FETCHER claims it,  *)
(* executes it and returns its result, WATCHDOG gives it up when the       *)
(* FETCHER has stopped pulsing, COACH recycles the channel                 *)
(* (fetcher/ball_pipeline.py, fetcher/runtime.py, watchdog/job_reaper.py,  *)
(* fetcher/return_recovery.py, testing/simulation.py for COACH).           *)
(*                                                                         *)
(* A walk and a verified body write are steps of their own here: one       *)
(* owned, atomic change and a report, as AtomicWalk and BodyKeeper have    *)
(* it.  What is left of the network is an answer that is lost: the request *)
(* may then land later, while the worker waits or after it has died.       *)
(***************************************************************************)
EXTENDS StateMachines, Integers

CONSTANTS MaxGeneration,      \* bound: generations COACH publishes
          MaxCrashes,         \* bound: spontaneous deaths of FETCHER or WATCHDOG
          MaxLost,            \* bound: answers that are lost
          AtomicPrecondition  \* does a late request still check its version?

ASSUME ChannelAssumption ==
  /\ MaxGeneration \in Nat /\ MaxCrashes \in Nat /\ MaxLost \in Nat
  /\ AtomicPrecondition \in BOOLEAN

Generations == 0 .. MaxGeneration
NoOperation == 0                     \* operation_id None; a job's is its generation
NoResult == "no result"
Result == ResultStates \cup {"GONE", NoResult}

Body == [generation : Generations, operation : Generations, started : BOOLEAN, result : Result]
Ball == [state : States("FETCH_BALL"), body : Body]

IdleBody(g) == [generation |-> g, operation |-> NoOperation, started |-> FALSE, result |-> NoResult]
JobBody(g, started, result) ==
  [generation |-> g, operation |-> g, started |-> started, result |-> result]

FetcherStage == {"down", "left", "poll", "claim", "start", "execute", "running", "return", "store", "publish"}
ReaperStage == {"watch", "inspect", "listen", "reap", "bury"}
CoachStage == {"rest", "publish", "toss", "clear", "free"}
Worker == {"fetcher", "reaper"}

VARIABLES ball,        \* the FETCH_BALL file
          expired,     \* generations whose expires_at has passed
          pulse,       \* DOG_PULSE: fresh, stale, or beyond stale_after + grace
          fetcher,     \* where the FETCHER process stands
          job,         \* generation process_one works on
          verdict,     \* what judge_result made of its execution
          reaper,      \* where JobReaper.check_once stands
          victim,      \* generation it read from the body
          coach,       \* where COACH stands
          asked,       \* workers whose request went unanswered
          pending,     \* requests the provider may still apply
          executions,  \* how often each generation has been executed
          heardLost,   \* generations in CHEW when the reaper found the pulse lost
          crashes,     \* spontaneous deaths so far
          lost         \* answers lost so far

fetcherVars == <<fetcher, job, verdict>>
reaperVars == <<reaper, victim, heardLost>>
budget == <<crashes, lost>>
vars == <<ball, expired, pulse, fetcherVars, reaperVars, coach, asked, pending, executions, budget>>

Init ==
  /\ ball = [state |-> "READY", body |-> IdleBody(0)]
  /\ expired = {}
  /\ pulse \in {"fresh", "lost"}
  /\ fetcher = "down" /\ job = 0 /\ verdict = NoResult
  /\ reaper = "watch" /\ victim = 0 /\ heardLost = {}
  /\ coach = "rest"
  /\ asked = {} /\ pending = {}
  /\ executions = [g \in Generations |-> 0]
  /\ crashes = 0 /\ lost = 0

-----------------------------------------------------------------------------
(* Mutants of definitions below, each a bug this code could have, are named      *)
(* <definition>_<bug>.                                                           *)
(* Requests.  A worker's walk or body write is fenced by state, operation and  *)
(* generation.                                                                 *)
Owned_AnyGeneration(state, g) == ball.state = state
Owned(state, g) ==
  ball.state = state /\ ball.body.operation = g /\ ball.body.generation = g

(* The walk succeeds: the rename is applied to the file the worker owns, or,    *)
(* after an unanswered one, the target state is seen.                           *)
Walked(w, from, to, g) ==
  \/ /\ w \notin asked /\ Owned(from, g)
     /\ ball' = [ball EXCEPT !.state = to]
     /\ UNCHANGED asked
  \/ /\ w \in asked /\ ball.state = to
     /\ asked' = asked \ {w}
     /\ UNCHANGED ball

(* The body write is verified: sent body read back and fence still held.        *)
Stored(w, state, body, g) ==
  \/ /\ w \notin asked /\ Owned(state, g)
     /\ ball' = [ball EXCEPT !.body = body]
     /\ UNCHANGED asked
  \/ /\ w \in asked /\ Owned(state, g) /\ ball.body = body
     /\ asked' = asked \ {w}
     /\ UNCHANGED ball

(* What each worker asks for next: a state or a body, from a file in a state.    *)
FetcherRequest ==
  CASE fetcher = "claim" -> [from |-> "TOSS", state |-> "CHEW"]
    [] fetcher = "start" -> [from |-> "CHEW", body |-> JobBody(job, TRUE, NoResult)]
    [] fetcher = "return" -> [from |-> "CHEW", state |-> "RETURNING"]
    [] fetcher = "store" -> [from |-> "RETURNING", body |-> JobBody(job, TRUE, verdict)]
    [] fetcher = "publish" -> [from |-> "RETURNING", state |-> verdict]
ReaperRequest ==
  CASE reaper = "reap" -> [from |-> "CHEW", state |-> "GONE"]
    [] reaper = "bury" -> [from |-> "GONE", body |-> JobBody(victim, TRUE, "GONE")]

FetcherAsks == fetcher \in {"claim", "start", "return", "store", "publish"}
ReaperAsks == reaper \in {"reap", "bury"}

Applied(request) ==
  IF "state" \in DOMAIN request THEN [ball EXCEPT !.state = request.state]
                                ELSE [ball EXCEPT !.body = request.body]

(* No answer: the request is lost, or on its way with the version it was sent   *)
(* against.  A worker never repeats it.                                         *)
Unanswered(w, request, g) ==
  /\ w \notin asked /\ Owned(request.from, g)
  /\ lost < MaxLost /\ lost' = lost + 1
  /\ asked' = asked \cup {w}
  /\ pending' \in {pending, pending \cup {[request |-> request, against |-> ball]}}
  /\ UNCHANGED <<ball, expired, pulse, fetcherVars, reaperVars, coach, executions, crashes>>

FetcherUnanswered == FetcherAsks /\ Unanswered("fetcher", FetcherRequest, job)
ReaperUnanswered == ReaperAsks /\ Unanswered("reaper", ReaperRequest, victim)

Land ==
  /\ \E late \in pending :
       /\ pending' = pending \ {late}
       /\ ball' = IF AtomicPrecondition => ball = late.against
                    THEN Applied(late.request) ELSE ball
  /\ UNCHANGED <<expired, pulse, fetcherVars, reaperVars, coach, asked, executions, budget>>

-----------------------------------------------------------------------------
(* FETCHER: FetcherRuntime.run and BallPipeline.process_one.                    *)
Elsewise == <<expired, pulse, reaperVars, coach, pending, budget>>

(* A TOSS that has not expired is taken up.                                     *)
Poll ==
  /\ fetcher = "poll" /\ ball.state = "TOSS" /\ ball.body.generation \notin expired
  /\ fetcher' = "claim" /\ job' = ball.body.generation
  /\ UNCHANGED <<Elsewise, ball, verdict, asked, executions>>

Claim ==
  /\ fetcher = "claim" /\ Walked("fetcher", "TOSS", "CHEW", job)
  /\ fetcher' = "start"
  /\ UNCHANGED <<Elsewise, job, verdict, executions>>

MarkStarted ==
  /\ fetcher = "start" /\ Stored("fetcher", "CHEW", JobBody(job, TRUE, NoResult), job)
  /\ fetcher' = "execute"
  /\ UNCHANGED <<Elsewise, job, verdict, executions>>

Execute ==
  /\ fetcher = "execute" /\ fetcher' = "running"
  /\ executions' = [executions EXCEPT ![job] = @ + 1]
  /\ UNCHANGED <<Elsewise, ball, job, verdict, asked>>

Judge ==
  /\ fetcher = "running" /\ fetcher' = "return"
  /\ verdict' \in ResultStates
  /\ UNCHANGED <<Elsewise, ball, job, asked, executions>>

Return_WithoutBody ==
  /\ fetcher = "return" /\ Walked("fetcher", "CHEW", "RETURNING", job)
  /\ fetcher' = "publish"
  /\ UNCHANGED <<Elsewise, job, verdict, executions>>
Return ==
  /\ fetcher = "return" /\ Walked("fetcher", "CHEW", "RETURNING", job)
  /\ fetcher' = "store"
  /\ UNCHANGED <<Elsewise, job, verdict, executions>>

StoreResult ==
  /\ fetcher = "store" /\ Stored("fetcher", "RETURNING", JobBody(job, TRUE, verdict), job)
  /\ fetcher' = "publish"
  /\ UNCHANGED <<Elsewise, job, verdict, executions>>

Publish ==
  /\ fetcher = "publish" /\ Walked("fetcher", "RETURNING", verdict, job)
  /\ fetcher' = "poll" /\ job' = 0 /\ verdict' = NoResult
  /\ UNCHANGED <<Elsewise, executions>>

Stops(next) ==
  /\ fetcher' = next /\ job' = 0 /\ verdict' = NoResult
  /\ asked' = asked \ {"fetcher"}

(* A walk or write that does not succeed ends process_one: a newer generation    *)
(* makes the worker STALE and it polls on, anything else raises and ends the     *)
(* process.                                                                      *)
FetcherRefused_Waits ==
  /\ FetcherAsks /\ "fetcher" \in asked
  /\ Stops("down")
  /\ UNCHANGED <<Elsewise, ball, executions>>
FetcherRefused ==
  /\ FetcherAsks
  /\ "fetcher" \in asked \/ ~Owned(FetcherRequest.from, job)
  /\ \/ Stops("down")
     \/ "fetcher" \notin asked /\ ball.body.generation > job /\ Stops("poll")
  /\ UNCHANGED <<Elsewise, ball, executions>>

Crash ==
  /\ fetcher \notin {"down", "left"} /\ crashes < MaxCrashes
  /\ Stops("down")
  /\ crashes' = crashes + 1
  /\ UNCHANGED <<ball, expired, pulse, reaperVars, coach, pending, executions, lost>>

(* startup_inspect publishes a pulse and touches nothing else: a CHEW or         *)
(* RETURNING found at startup is neither resumed nor repaired.                   *)
Restart_Resumes ==
  /\ fetcher = "down" /\ pulse' = "fresh"
  /\ IF ball.state = "CHEW" /\ ball.body.started
       THEN fetcher' = "execute" /\ job' = ball.body.generation
       ELSE fetcher' = "poll" /\ UNCHANGED job
  /\ UNCHANGED <<ball, expired, verdict, reaperVars, coach, asked, pending, executions, budget>>
Starts(from) ==
  /\ fetcher = from /\ fetcher' = "poll"
  /\ pulse' = "fresh"
  /\ UNCHANGED <<ball, expired, job, verdict, reaperVars, coach, asked, pending, executions, budget>>
Restart == Starts("down")

(* An ephemeral FETCHER leaves an idle channel and a stopped service leaves any,  *)
(* for good: the service manager only restarts failures.  A WAKE_BONE request    *)
(* or an operator brings it back.                                                *)
Leave ==
  /\ fetcher = "poll" /\ fetcher' = "left"
  /\ UNCHANGED <<Elsewise, ball, job, verdict, asked, executions>>

Wake == Starts("left")

(* Heartbeats: from the poll loop, and from their own thread during execution.   *)
Beat ==
  /\ fetcher \in {"poll", "running"} /\ pulse # "fresh"
  /\ pulse' = "fresh"
  /\ UNCHANGED <<ball, expired, fetcherVars, reaperVars, coach, asked, pending, executions, budget>>

(* RETURN_RECOVERY: with the pulse beyond its horizon a recorded, verified       *)
(* result is published as it stands.                                             *)
RecoverReturning ==
  /\ pulse = "lost" /\ ball.state = "RETURNING"
  /\ ball.body.started /\ ball.body.result \in ResultStates
  /\ ball' = [ball EXCEPT !.state = ball.body.result]
  /\ UNCHANGED <<Elsewise, fetcherVars, asked, executions>>

-----------------------------------------------------------------------------
(* WATCHDOG: JobReaper.check_once, whose three reads are steps of their own.     *)
OfReaper == <<expired, pulse, fetcherVars, coach, pending, executions, budget>>

ReadName ==
  /\ reaper = "watch" /\ ball.state = "CHEW"
  /\ reaper' = "inspect"
  /\ UNCHANGED <<OfReaper, ball, victim, heardLost, asked>>

ReadVictim ==
  /\ reaper = "inspect"
  /\ IF ball.body.started
       THEN reaper' = "listen" /\ victim' = ball.body.generation
       ELSE reaper' = "watch" /\ UNCHANGED victim
  /\ UNCHANGED <<OfReaper, ball, heardLost, asked>>

ReadPulse_NoGrace ==
  /\ reaper = "listen"
  /\ IF pulse # "fresh"
       THEN /\ reaper' = "reap"
            /\ heardLost' = IF pulse = "lost" THEN heardLost \cup {ball.body.generation} ELSE heardLost
            /\ UNCHANGED victim
       ELSE reaper' = "watch" /\ victim' = 0 /\ UNCHANGED heardLost
  /\ UNCHANGED <<OfReaper, ball, asked>>
ReadPulse_OnlyInGrace ==
  /\ reaper = "listen"
  /\ IF pulse = "stale"
       THEN reaper' = "reap" /\ UNCHANGED <<victim, heardLost>>
       ELSE reaper' = "watch" /\ victim' = 0 /\ UNCHANGED heardLost
  /\ UNCHANGED <<OfReaper, ball, asked>>
ReadPulse ==
  /\ reaper = "listen"
  /\ IF pulse = "lost"
       THEN /\ reaper' = "reap"
            /\ heardLost' = IF ball.state = "CHEW" THEN heardLost \cup {ball.body.generation}
                                                  ELSE heardLost
            /\ UNCHANGED victim
       ELSE /\ reaper' = "watch" /\ victim' = 0
            /\ UNCHANGED heardLost
  /\ UNCHANGED <<OfReaper, ball, asked>>

Reap ==
  /\ reaper = "reap" /\ Walked("reaper", "CHEW", "GONE", victim)
  /\ reaper' = "bury"
  /\ UNCHANGED <<OfReaper, victim, heardLost>>

Bury ==
  /\ reaper = "bury" /\ Stored("reaper", "GONE", JobBody(victim, TRUE, "GONE"), victim)
  /\ reaper' = "watch" /\ victim' = 0
  /\ UNCHANGED <<OfReaper, heardLost>>

ReaperRefused ==
  /\ ReaperAsks
  /\ "reaper" \in asked \/ ~Owned(ReaperRequest.from, victim)
  /\ reaper' = "watch" /\ victim' = 0 /\ asked' = asked \ {"reaper"}
  /\ UNCHANGED <<OfReaper, ball, heardLost>>

ReaperCrash ==
  /\ reaper # "watch" /\ crashes < MaxCrashes
  /\ reaper' = "watch" /\ victim' = 0 /\ asked' = asked \ {"reaper"}
  /\ crashes' = crashes + 1
  /\ UNCHANGED <<ball, expired, pulse, fetcherVars, heardLost, coach, pending, executions, lost>>

-----------------------------------------------------------------------------
(* COACH: toss_job and recycle_job, unfenced walks and body writes.              *)
OfCoach == <<pulse, fetcherVars, reaperVars, asked, pending, executions, budget>>

CoachWalks(from, to) == ball.state = from /\ ball' = [ball EXCEPT !.state = to]

Reserve ==
  /\ coach = "rest" /\ ball.body.generation < MaxGeneration
  /\ CoachWalks("READY", "LOADING")
  /\ coach' = "publish"
  /\ UNCHANGED <<OfCoach, expired>>

WriteJob ==
  /\ coach = "publish" /\ ball.state = "LOADING"
  /\ ball' = [ball EXCEPT !.body = JobBody(ball.body.generation + 1, FALSE, NoResult)]
  /\ coach' = "toss"
  /\ UNCHANGED <<OfCoach, expired>>

Toss ==
  /\ coach = "toss" /\ CoachWalks("LOADING", "TOSS")
  /\ coach' = "rest"
  /\ UNCHANGED <<OfCoach, expired>>

Consume ==
  /\ coach = "rest" /\ ball.state \in Terminal("FETCH_BALL")
  /\ CoachWalks(ball.state, "RECYCLING")
  /\ coach' = "clear"
  /\ UNCHANGED <<OfCoach, expired>>

Clear ==
  /\ coach = "clear" /\ ball.state = "RECYCLING"
  /\ ball' = [ball EXCEPT !.body = IdleBody(ball.body.generation)]
  /\ coach' = "free"
  /\ UNCHANGED <<OfCoach, expired>>

Free ==
  /\ coach = "free" /\ CoachWalks("RECYCLING", "READY")
  /\ coach' = "rest"
  /\ UNCHANGED <<OfCoach, expired>>

-----------------------------------------------------------------------------
(* Time.                                                                         *)
Expire ==
  /\ ball.state = "TOSS" /\ ball.body.generation \notin expired
  /\ expired' = expired \cup {ball.body.generation}
  /\ UNCHANGED <<ball, OfCoach, coach>>

Fade ==
  /\ pulse' = CASE pulse = "fresh" -> "stale" [] OTHER -> "lost"
  /\ pulse # "lost"
  /\ UNCHANGED <<ball, expired, fetcherVars, reaperVars, coach, asked, pending, executions, budget>>

FetcherStep ==
  \/ Poll \/ Claim \/ MarkStarted \/ Execute \/ Judge \/ Return \/ StoreResult \/ Publish
  \/ FetcherRefused
ReaperStep == ReadName \/ ReadVictim \/ ReadPulse \/ Reap \/ Bury \/ ReaperRefused
CoachStep == Reserve \/ WriteJob \/ Toss \/ Consume \/ Clear \/ Free

Next ==
  \/ FetcherStep \/ FetcherUnanswered \/ Crash \/ Restart \/ Leave \/ Wake \/ Beat
  \/ RecoverReturning
  \/ ReaperStep \/ ReaperUnanswered \/ ReaperCrash
  \/ CoachStep
  \/ Land \/ Expire \/ Fade

Spec == Init /\ [][Next]_vars

(* A process that runs makes steps and pulses; the WATCHDOG checks on schedule;    *)
(* time passes.  COACH owes nothing, and nobody has to start a FETCHER that failed *)
(* or wake one that left.                                                          *)
Fairness ==
  /\ WF_vars(FetcherStep) /\ WF_vars(ReaperStep)
  /\ WF_vars(Beat) /\ WF_vars(Fade)
FairSpec == Spec /\ Fairness

-----------------------------------------------------------------------------
TypeOK ==
  /\ ball \in Ball
  /\ expired \subseteq Generations /\ pulse \in {"fresh", "stale", "lost"}
  /\ fetcher \in FetcherStage /\ job \in Generations /\ verdict \in Result
  /\ reaper \in ReaperStage /\ victim \in Generations /\ heardLost \subseteq Generations
  /\ coach \in CoachStage
  /\ asked \subseteq Worker
  /\ executions \in [Generations -> Nat]
  /\ crashes \in 0 .. MaxCrashes /\ lost \in 0 .. MaxLost

(* No generation is ever executed twice, whatever is lost, delayed, crashed or    *)
(* restarted (FAILURE_RECOVERY.md:38, "must not be blindly replayed").            *)
ExecutedOnce == \A g \in Generations : executions[g] <= 1

(* A published result is the stored verdict of an execution that happened: the    *)
(* body is written before the terminal state, and nothing later separates them    *)
(* (FETCH_BALL.md, RETURNING).  GONE may stand without its body, but never over   *)
(* a result.                                                                      *)
ResultsAreEvidence ==
  /\ ball.state \in ResultStates =>
       /\ ball.body.result = ball.state
       /\ executions[ball.body.generation] = 1
  /\ ball.state = "GONE" => ball.body.result \in {NoResult, "GONE"}

(* A job is given up only if the reaper found the pulse lost while that very job   *)
(* was in CHEW - never on what it saw of the job before.                           *)
OnlyLostJobsAreGone ==
  ball.state = "GONE" => ball.body.generation \in heardLost

(* A job that is tossed and does not expire unclaimed is ended - returned, or     *)
(* given up when its pulses were too late - as long as there is a FETCHER and no   *)
(* answer is lost: a FETCHER that lost its job to the reaper never hangs           *)
(* (runtime.py:105, ball_pipeline.py:230).                                         *)
JobsEnd ==
  (ball.state = "TOSS" /\ expired = {})
    ~> \/ ball.state \in Terminal("FETCH_BALL")
       \/ expired # {} \/ fetcher \in {"down", "left"} \/ crashes + lost > 0

(* A started job whose FETCHER stays down is given up.                              *)
LostJobsAreGone ==
  (ball.state = "CHEW" /\ ball.body.started /\ fetcher = "down")
    ~> (ball.state # "CHEW" \/ fetcher # "down")

(* All that other parts of the system may rely on: the channel's name and generation  *)
(* follow the documented lifecycle (JobLifecycle).                                    *)
Unclaimed ==
  IF ball.body.operation # NoOperation /\ ball.state \in {"LOADING", "TOSS"}
    THEN {ball.body.generation} ELSE {}
Lifecycle == INSTANCE JobLifecycle
               WITH state <- ball.state, generation <- ball.body.generation,
                    running <- IF fetcher = "running" THEN job ELSE 0,
                    claimed <- (1 .. ball.body.generation) \ Unclaimed,
                    executed <- {g \in Generations : executions[g] > 0}
ImplementsLifecycle == Lifecycle!Spec
================================================================================
