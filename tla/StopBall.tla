-------------------------------- MODULE StopBall --------------------------------
(***************************************************************************)
(* Cancellation: the STOP_BALL channel, the FETCHER that looks at it while *)
(* a job executes (fetcher/cancellation.py), and the supervisor of the     *)
(* job's process that acts on the answer (fetcher/subprocess_runner.py).   *)
(* Of the work channel it takes what FetchBall implements, JobLifecycle.   *)
(*                                                                         *)
(* While a job is running the supervisor looks at the process, asks        *)
(* whether to cancel - several Drive requests, during which the process    *)
(* may end, the job may be given up and COACH may withdraw the request -   *)
(* and terminates what it believes is still there.                         *)
(***************************************************************************)
EXTENDS JobLifecycle

CONSTANTS MaxRequests,    \* bound: cancellation requests COACH makes
          MaxFaults       \* bound: deaths of the FETCHER during an execution,
                          \* and requests without an answer

ASSUME StopAssumption == MaxRequests \in Nat /\ MaxFaults \in Nat

Generations == 0 .. MaxGeneration
Requests == 0 .. MaxRequests
NoRequest == 0
AckCode == {"CANCEL_SIGNALLED", "ALREADY_TERMINAL", "NO_MATCH"}
NoAck == "no ack"

(* operation_id, generation (the job's, and the channel's own fence) and ack_code. *)
StopBody == [request : Requests, job : Generations, ack : AckCode \cup {NoAck}]
StopFile == [state : States("STOP_BALL"), body : StopBody]
IdleStop == [request |-> NoRequest, job |-> 0, ack |-> NoAck]

Supervisor == {"none", "poll", "name", "acked", "body", "match", "claim", "record", "publish", "limit",
               "terminate", "finished"}
Child == {"none", "alive", "exited", "killed"}
Disposition == {"EXITED", "TIMED_OUT", "CANCELLED"}

VARIABLES stop,         \* the STOP_BALL file
          requests,     \* requests made so far
          lapsed,       \* requests whose expires_at has passed
          coachStop,    \* where COACH stands on the channel
          supervisor,   \* where the supervisor of the process stands
          child,        \* the process
          disposition,  \* what the supervisor will report of it
          read,         \* STOP_BALL body check_once has read
          answer,       \* ack code it has decided on
          latched,      \* StopBallCancellation.cancellation_latched
          stopping,     \* stop_event of the service
          withdrawn,    \* requests COACH took back unanswered
          acks,         \* acknowledged bodies there have been
          faults        \* so far

supervisorVars == <<supervisor, child, disposition, read, answer, latched, stopping>>
coachStopVars == <<requests, lapsed, coachStop, withdrawn>>
vars == <<jobVars, stop, acks, supervisorVars, coachStopVars, faults>>

InitStop ==
  /\ Init /\ faults = 0
  /\ stop = [state |-> "READY", body |-> IdleStop]
  /\ requests = 0 /\ lapsed = {} /\ coachStop = "rest" /\ withdrawn = {} /\ acks = {}
  /\ supervisor = "none" /\ child = "none" /\ disposition = "EXITED"
  /\ read = IdleStop /\ answer = NoAck /\ latched = FALSE /\ stopping = FALSE

-----------------------------------------------------------------------------
(* SubprocessRunner._run_argv.                                                   *)
Goto(next) == supervisor' = next
Unread == UNCHANGED <<read, answer>>
Returns == read' = IdleStop /\ answer' = NoAck    \* check_once returns
NoStopChange == UNCHANGED <<jobVars, stop, acks, coachStopVars, stopping, faults>>

Spawn ==
  /\ running # 0 /\ supervisor = "none"
  /\ Goto("poll") /\ child' = "alive"
  /\ UNCHANGED <<disposition, latched>> /\ Unread /\ NoStopChange

Exit ==
  /\ child = "alive" /\ child' = "exited"
  /\ UNCHANGED <<supervisor, disposition, latched>> /\ Unread /\ NoStopChange

(* The poll: over, or still alive and time to ask.  stop_event and a latched        *)
(* cancellation answer at once, otherwise check_once does.                          *)
PollChild ==
  /\ supervisor = "poll"
  /\ IF child = "exited"
       THEN Goto("finished") /\ disposition' = "EXITED"
       ELSE IF stopping \/ latched
              THEN Goto("terminate") /\ disposition' = "CANCELLED"
              ELSE Goto("name") /\ UNCHANGED disposition
  /\ UNCHANGED <<child, latched>> /\ Unread /\ NoStopChange

(* Not cancelled: the run limit may have been reached, or not.                      *)
CheckLimit ==
  /\ supervisor = "limit"
  /\ \/ Goto("poll") /\ UNCHANGED disposition
     \/ Goto("terminate") /\ disposition' = "TIMED_OUT"
  /\ UNCHANGED <<child, latched>> /\ Unread /\ NoStopChange

(* _terminate reports what was requested, also of a process that is gone already.   *)
Terminate ==
  /\ supervisor = "terminate"
  /\ Goto("finished")
  /\ child' = IF child = "alive" THEN "killed" ELSE child
  /\ UNCHANGED <<disposition, latched>> /\ Unread /\ NoStopChange

-----------------------------------------------------------------------------
(* StopBallCancellation.check_once.                                               *)
Matches(body) == body.job = running
Answered(result) == answer' = result /\ Goto("claim")

ReadStopName_OnlyAcks ==
  /\ supervisor = "name"
  /\ Goto(IF stop.state = "ACKNOWLEDGED" THEN "acked" ELSE "limit")
  /\ UNCHANGED <<child, disposition, latched>> /\ Unread /\ NoStopChange
ReadStopName ==
  /\ supervisor = "name"
  /\ Goto(CASE stop.state = "REQUESTED" -> "body"
            [] stop.state = "ACKNOWLEDGED" -> "acked"
            [] OTHER -> "limit")
  /\ UNCHANGED <<child, disposition, latched>> /\ Unread /\ NoStopChange

CancelIf(signalled) ==
  /\ latched' = signalled
  /\ IF signalled THEN Goto("terminate") /\ disposition' = "CANCELLED"
                  ELSE Goto("limit") /\ UNCHANGED disposition

ReadAck ==
  /\ supervisor = "acked"
  /\ CancelIf(Matches(stop.body) /\ stop.body.ack = "CANCEL_SIGNALLED")
  /\ UNCHANGED child /\ Returns /\ NoStopChange

ReadStopBody_AnyJob ==
  /\ supervisor = "body"
  /\ read' = stop.body
  /\ IF stop.body.request \in lapsed THEN Answered("NO_MATCH")
                                     ELSE Goto("match") /\ UNCHANGED answer
  /\ UNCHANGED <<child, disposition, latched>> /\ NoStopChange
ReadStopBody ==
  /\ supervisor = "body"
  /\ read' = stop.body
  /\ IF stop.body.request \in lapsed \/ ~Matches(stop.body)
       THEN Answered("NO_MATCH")
       ELSE Goto("match") /\ UNCHANGED answer
  /\ UNCHANGED <<child, disposition, latched>> /\ NoStopChange

ReadBallName ==
  /\ supervisor = "match"
  /\ Answered(CASE state = "CHEW" -> "CANCEL_SIGNALLED"
                [] state \in {"LOADING", "TOSS"} -> "NO_MATCH"
                [] OTHER -> "ALREADY_TERMINAL")
  /\ UNCHANGED <<child, disposition, latched, read>> /\ NoStopChange

(* _acknowledge: claim, record and publish, each fenced by state, operation and     *)
(* generation of the body that was read.                                            *)
OwnedStop_Unfenced(where) == stop.state = where
OwnedStop(where) ==
  stop.state = where /\ stop.body.request = read.request /\ stop.body.job = read.job

ClaimStop ==
  /\ supervisor = "claim" /\ OwnedStop("REQUESTED")
  /\ stop' = [stop EXCEPT !.state = "RETURNING"]
  /\ Goto("record")
  /\ UNCHANGED <<jobVars, acks, coachStopVars, child, disposition, latched, stopping, faults>> /\ Unread

RecordAck ==
  /\ supervisor = "record" /\ OwnedStop("RETURNING")
  /\ stop' = [stop EXCEPT !.body = [read EXCEPT !.ack = answer]]
  /\ Goto("publish")
  /\ UNCHANGED <<jobVars, acks, coachStopVars, child, disposition, latched, stopping, faults>> /\ Unread

PublishAck ==
  /\ supervisor = "publish" /\ OwnedStop("RETURNING")
  /\ stop' = [stop EXCEPT !.state = "ACKNOWLEDGED"]
  /\ acks' = acks \cup {stop.body}
  /\ CancelIf(answer = "CANCEL_SIGNALLED")
  /\ UNCHANGED <<jobVars, coachStopVars, child, stopping, faults>> /\ Returns

(* A claim, write or publication that does not succeed is a FAILURE, and no reason   *)
(* to cancel.  An unanswered request may or may not have been applied (against an    *)
(* atomic precondition it can be applied only while the channel stands still, so     *)
(* the instant of the question is as good as any later one).                         *)
StopRefused ==
  /\ supervisor \in {"claim", "record", "publish"}
  /\ LET from == IF supervisor = "claim" THEN "REQUESTED" ELSE "RETURNING"
         applied == CASE supervisor = "claim" -> [stop EXCEPT !.state = "RETURNING"]
                      [] supervisor = "record" -> [stop EXCEPT !.body = [read EXCEPT !.ack = answer]]
                      [] OTHER -> [stop EXCEPT !.state = "ACKNOWLEDGED"]
     IN \/ ~OwnedStop(from) /\ UNCHANGED <<stop, faults>>
        \/ /\ OwnedStop(from) /\ faults < MaxFaults /\ faults' = faults + 1
           /\ stop' \in {stop, applied}
  /\ acks' = IF stop'.state = "ACKNOWLEDGED" THEN acks \cup {stop'.body} ELSE acks
  /\ Goto("limit")
  /\ UNCHANGED <<jobVars, coachStopVars, child, disposition, latched, stopping>> /\ Returns

(* A read that fails is no reason to cancel either.                                   *)
ReadRefused ==
  /\ supervisor \in {"name", "match"} /\ faults < MaxFaults /\ faults' = faults + 1
  /\ Goto("limit")
  /\ UNCHANGED <<jobVars, stop, acks, coachStopVars, child, disposition, latched, stopping>> /\ Returns

-----------------------------------------------------------------------------
(* The work channel moves while the supervisor is at work.  A stopping service takes   *)
(* up no further job.                                                                 *)
Work ==
  /\ Move \/ Publish \/ (Execute /\ ~stopping)
  /\ UNCHANGED <<stop, acks, supervisorVars, coachStopVars, faults>>

(* The execution ends with the supervisor's report, or with the FETCHER: by a crash, a *)
(* STOP_BALL body that cannot be read, or a process that cannot be terminated.         *)
NoSupervisor ==
  /\ Stop
  /\ supervisor' = "none" /\ child' = "none" /\ disposition' = "EXITED"
  /\ read' = IdleStop /\ answer' = NoAck /\ latched' = FALSE
  /\ UNCHANGED <<stop, acks, coachStopVars, stopping>>

Deliver == supervisor = "finished" /\ NoSupervisor /\ UNCHANGED faults
Die == faults < MaxFaults /\ faults' = faults + 1 /\ NoSupervisor

Shutdown ==
  /\ ~stopping /\ stopping' = TRUE
  /\ UNCHANGED <<jobVars, stop, acks, coachStopVars, supervisor, child, disposition, read, answer, latched, faults>>
StartService ==
  /\ stopping /\ running = 0 /\ stopping' = FALSE
  /\ UNCHANGED <<jobVars, stop, acks, coachStopVars, supervisor, child, disposition, read, answer, latched, faults>>

-----------------------------------------------------------------------------
(* COACH on STOP_BALL, along the edges of the registry.                              *)
OfCoachStop == <<jobVars, supervisorVars, acks, faults>>

ReserveStop ==
  /\ coachStop = "rest" /\ stop.state = "READY" /\ requests < MaxRequests
  /\ stop' = [stop EXCEPT !.state = "LOADING"] /\ coachStop' = "publish"
  /\ UNCHANGED <<OfCoachStop, requests, lapsed, withdrawn>>

WriteRequest ==
  /\ coachStop = "publish" /\ stop.state = "LOADING" /\ generation > 0
  /\ requests' = requests + 1
  /\ stop' = [stop EXCEPT !.body = [request |-> requests + 1, job |-> generation, ack |-> NoAck]]
  /\ coachStop' = "request"
  /\ UNCHANGED <<OfCoachStop, lapsed, withdrawn>>

RequestStop ==
  /\ coachStop = "request" /\ stop.state = "LOADING"
  /\ stop' = [stop EXCEPT !.state = "REQUESTED"] /\ coachStop' = "rest"
  /\ UNCHANGED <<OfCoachStop, requests, lapsed, withdrawn>>

AbandonStop ==
  /\ coachStop \in {"publish", "request"} /\ stop.state = "LOADING"
  /\ stop' = [stop EXCEPT !.state = "RECYCLING"] /\ coachStop' = "clear"
  /\ UNCHANGED <<OfCoachStop, requests, lapsed, withdrawn>>

(* An acknowledgement is consumed; a request that has lapsed or names a job that is  *)
(* over is taken back.                                                               *)
TakeBack ==
  /\ coachStop = "rest"
  /\ \/ /\ stop.state = "ACKNOWLEDGED" /\ UNCHANGED withdrawn
     \/ /\ stop.state = "REQUESTED"
        /\ \/ stop.body.request \in lapsed
           \/ generation # stop.body.job \/ state \in Terminal("FETCH_BALL")
        /\ withdrawn' = withdrawn \cup {stop.body.request}
  /\ stop' = [stop EXCEPT !.state = "RECYCLING"] /\ coachStop' = "clear"
  /\ UNCHANGED <<OfCoachStop, requests, lapsed>>

ClearStop ==
  /\ coachStop = "clear" /\ stop.state = "RECYCLING"
  /\ stop' = [stop EXCEPT !.body = IdleStop] /\ coachStop' = "free"
  /\ UNCHANGED <<OfCoachStop, requests, lapsed, withdrawn>>

FreeStop ==
  /\ coachStop = "free" /\ stop.state = "RECYCLING"
  /\ stop' = [stop EXCEPT !.state = "READY"] /\ coachStop' = "rest"
  /\ UNCHANGED <<OfCoachStop, requests, lapsed, withdrawn>>

Lapse ==
  /\ stop.state = "REQUESTED" /\ stop.body.request \notin lapsed
  /\ lapsed' = lapsed \cup {stop.body.request}
  /\ UNCHANGED <<OfCoachStop, stop, requests, coachStop, withdrawn>>

-----------------------------------------------------------------------------
SupervisorStep ==
  \/ Spawn \/ PollChild \/ CheckLimit \/ Terminate
  \/ ReadStopName \/ ReadAck \/ ReadStopBody \/ ReadBallName
  \/ ClaimStop \/ RecordAck \/ PublishAck \/ StopRefused \/ ReadRefused
CoachStopStep ==
  \/ ReserveStop \/ WriteRequest \/ RequestStop \/ AbandonStop
  \/ TakeBack \/ ClearStop \/ FreeStop

NextStop ==
  \/ Work \/ Deliver \/ Die \/ Shutdown \/ StartService
  \/ SupervisorStep \/ Exit
  \/ CoachStopStep \/ Lapse
SpecStop == InitStop /\ [][NextStop]_vars

(* The supervisor's loop runs in the thread that executes the job.                    *)
FairSpecStop == SpecStop /\ WF_vars(SupervisorStep)

-----------------------------------------------------------------------------
TypeOKStop ==
  /\ stop \in StopFile
  /\ requests \in Requests /\ lapsed \subseteq Requests /\ withdrawn \subseteq Requests
  /\ coachStop \in {"rest", "publish", "request", "clear", "free"}
  /\ supervisor \in Supervisor /\ child \in Child /\ disposition \in Disposition
  /\ read \in StopBody /\ answer \in AckCode \cup {NoAck}
  /\ latched \in BOOLEAN /\ stopping \in BOOLEAN
  /\ acks \subseteq {body \in StopBody : body.ack # NoAck}
  /\ faults \in 0 .. MaxFaults

(* A job is cancelled by a request that named it and was acknowledged as such, or by  *)
(* the end of its service: a request for an earlier job of the channel, a newer one  *)
(* published between two reads, or one whose claim failed, cancels nothing           *)
(* (STOP_BALL.md:60).                                                                *)
CancelledByItsRequest ==
  disposition = "CANCELLED" =>
    stopping \/ \E ack \in acks : ack.job = running /\ ack.ack = "CANCEL_SIGNALLED"

(* COACH's withdrawal and FETCHER's claim exclude each other: a request taken back    *)
(* is never acknowledged (STOP_BALL.md:82).                                           *)
WithdrawnIsNeverAcknowledged == \A ack \in acks : ack.request \notin withdrawn

(* A request for the job that is executing is taken up, unless the job ends first or  *)
(* the supervisor failed to read the channel's name; and once taken up it is          *)
(* acknowledged: no job ends in the middle of an acknowledgement, unless its FETCHER   *)
(* dies or loses an answer.                                                           *)
RequestsAreFollowedUp ==
  /\ (stop.state = "REQUESTED" /\ stop.body.job = running /\ running # 0)
       ~> (stop.state # "REQUESTED" \/ supervisor \in {"none", "terminate", "finished"})
  /\ (stop.state = "RETURNING") ~> (stop.state = "ACKNOWLEDGED" \/ faults > 0)
================================================================================
