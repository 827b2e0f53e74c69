---------------------- MODULE StopBallAndRuntime_proofs ----------------------
(***************************************************************************)
(* Proofs about cancellation (StopBall), for any number of jobs, requests, *)
(* deaths and lost answers, over any work channel that keeps its lifecycle *)
(* (JobLifecycle, which FetchBall_proofs shows of the real one); and, in   *)
(* the second half, about the daemon that runs on one machine's one thread *)
(* (WatchdogRuntime), for any tasks, cadences and faults.                  *)
(***************************************************************************)
EXTENDS StopBall, WatchdogRuntime, TLAPS

(* The jobs the channel may name.                                                *)
Jobs ==
  /\ generation \in Generations /\ running \in Generations /\ claimed \subseteq Generations

(* A request that has been neither answered nor taken back.                      *)
Open(r) == r \notin withdrawn /\ \A ack \in acks : ack.request # r

(* What is on the channel, and what has been made of its requests so far.        *)
Channel ==
  /\ stop.body.request <= requests
  /\ \A r \in withdrawn : r <= requests
  /\ \A ack \in acks : ack.request <= requests
  /\ \A ack \in acks : ack.request \notin withdrawn
  /\ stop.state \in {"REQUESTED", "RETURNING"} => Open(stop.body.request)
  /\ stop.state = "LOADING" /\ coachStop = "request" => Open(stop.body.request)
  /\ coachStop = "publish" => requests < MaxRequests
  /\ stop.state = "ACKNOWLEDGED" => stop.body \in acks

(* Only a supervisor that is at work has read, decided or cancelled anything.    *)
Signalled == \E ack \in acks : ack.job = running /\ ack.ack = "CANCEL_SIGNALLED"
Supervised ==
  /\ running = 0 => supervisor = "none"
  /\ supervisor = "none" => disposition # "CANCELLED" /\ ~latched
  /\ latched => Signalled
  /\ disposition = "CANCELLED" => stopping \/ Signalled

(* What it knows between two of its requests: nobody but the supervisor that      *)
(* claimed a request touches the channel until it is acknowledged.               *)
Answering ==
  /\ supervisor = "acked" /\ stop.body.ack # NoAck => stop.body \in acks
  /\ supervisor = "match" => read.job = running
  /\ supervisor \in {"claim", "record", "publish"} =>
       answer \in AckCode /\ (answer = "CANCEL_SIGNALLED" => read.job = running)
  /\ supervisor = "record" => OwnedStop("RETURNING")
  /\ supervisor = "publish" =>
       stop.state = "RETURNING" /\ stop.body = [read EXCEPT !.ack = answer]

Inv == TypeOKStop /\ Jobs /\ Channel /\ Supervised /\ Answering

-----------------------------------------------------------------------------
(* Every state the channel's steps name is a state of the registry.              *)
LEMMA StatesNamed ==
  {"READY", "LOADING", "REQUESTED", "RETURNING", "ACKNOWLEDGED", "RECYCLING"}
    \subseteq States("STOP_BALL")
<1>1. Edges("STOP_BALL") =
         CoachEdges("REQUESTED", Terminal("STOP_BALL"))
           \cup {<<"REQUESTED", "RETURNING", Fetcher>>,
                 <<"REQUESTED", "RECYCLING", Coach>>,
                 <<"RETURNING", "ACKNOWLEDGED", Fetcher>>}
  BY DEF Edges
<1>2. /\ <<"READY", "LOADING", Coach>> \in Edges("STOP_BALL")
      /\ <<"REQUESTED", "RETURNING", Fetcher>> \in Edges("STOP_BALL")
      /\ <<"REQUESTED", "RECYCLING", Coach>> \in Edges("STOP_BALL")
      /\ <<"RETURNING", "ACKNOWLEDGED", Fetcher>> \in Edges("STOP_BALL")
  BY <1>1 DEF CoachEdges
<1>3. \A e \in Edges("STOP_BALL") : e[1] \in States("STOP_BALL") /\ e[2] \in States("STOP_BALL")
  BY DEF States
<1>. QED BY <1>2, <1>3

Renamed(to) == stop' = [stop EXCEPT !.state = to]
Rewritten(body) == stop' = [stop EXCEPT !.body = body]

(* A rename replaces the state, a body write the body, and nothing else.         *)
LEMMA RenameFields ==
  ASSUME TypeOKStop, NEW to \in States("STOP_BALL"), Renamed(to)
  PROVE  stop' \in StopFile /\ stop'.state = to /\ stop'.body = stop.body
BY DEF TypeOKStop, StopFile, Renamed

(* A content is replaced and the name stays.                                  *)
LEMMA RewriteFields ==
  ASSUME TypeOKStop, NEW body \in StopBody, Rewritten(body)
  PROVE  stop' \in StopFile /\ stop'.state = stop.state /\ stop'.body = body
BY DEF TypeOKStop, StopFile, Rewritten

(* An acknowledgement recorded in the body that was read.                        *)
LEMMA AckFields ==
  ASSUME TypeOKStop, answer \in AckCode
  PROVE  /\ [read EXCEPT !.ack = answer] \in StopBody
         /\ [read EXCEPT !.ack = answer].request = read.request
         /\ [read EXCEPT !.ack = answer].job = read.job
         /\ [read EXCEPT !.ack = answer].ack = answer
BY DEF TypeOKStop, StopBody

(* The types of what the parts of the channel are compared by.                   *)
LEMMA Typing ==
  ASSUME TypeOKStop, Jobs
  PROVE  /\ stop.body \in StopBody /\ stop.body.request \in Nat /\ read.request \in Nat
         /\ requests \in Nat /\ running \in Nat /\ generation \in Nat
         /\ acks \subseteq StopBody /\ \A ack \in acks : ack.request \in Nat /\ ack.ack # NoAck
         /\ withdrawn \subseteq Nat /\ IdleStop \in StopBody
         /\ IdleStop.request = 0 /\ IdleStop.ack = NoAck
BY StopAssumption, GenerationAssumption
   DEF TypeOKStop, Jobs, StopFile, StopBody, Requests, Generations, IdleStop, NoRequest

-----------------------------------------------------------------------------
(* The coach asks, reads, withdraws and lets time pass.                       *)
LEMMA CoachKeeps ==
  ASSUME Inv, CoachStopStep \/ Lapse
  PROVE  Inv'
<1>. USE DEF Inv
<1>1. /\ stop.body \in StopBody /\ stop.body.request \in Nat
      /\ requests \in Nat /\ generation \in Nat
      /\ acks \subseteq StopBody /\ \A ack \in acks : ack.request \in Nat
      /\ withdrawn \subseteq Nat /\ IdleStop \in StopBody
      /\ IdleStop.request = 0 /\ IdleStop.ack = NoAck
  BY Typing
<1>2. UNCHANGED <<generation, running, claimed, supervisor, child, disposition, read, answer,
                  latched, stopping, acks, faults>>
  BY DEF CoachStopStep, ReserveStop, WriteRequest, RequestStop, AbandonStop, TakeBack, ClearStop,
         FreeStop, Lapse, OfCoachStop, jobVars, supervisorVars
<1>3. Jobs' /\ Supervised'
  BY <1>2 DEF Jobs, Supervised, Signalled
<1>4. ASSUME stop' \in StopFile, requests' \in Requests, lapsed' \subseteq Requests,
             withdrawn' \subseteq Requests,
             coachStop' \in {"rest", "publish", "request", "clear", "free"}
      PROVE  TypeOKStop'
  BY <1>2, <1>4 DEF TypeOKStop
<1>5. ASSUME stop.state # "RETURNING", UNCHANGED stop \/ stop'.body = stop.body \/ stop'.body.ack = NoAck
      PROVE  Answering'
  <2>1. supervisor \notin {"record", "publish"}
    BY <1>5 DEF Answering, OwnedStop
  <2>2. supervisor = "acked" /\ stop'.body.ack # NoAck => stop'.body \in acks
    BY <1>5 DEF Answering
  <2>. QED BY <1>2, <2>1, <2>2 DEF Answering
<1>6. CASE ReserveStop
  <2>1. stop.state = "READY" /\ Renamed("LOADING") /\ coachStop' = "publish"
        /\ UNCHANGED <<requests, lapsed, withdrawn>>
    BY <1>6 DEF ReserveStop, Renamed
  <2>2. stop' \in StopFile /\ stop'.state = "LOADING" /\ stop'.body = stop.body
    BY <2>1, StatesNamed, RenameFields
  <2>3. TypeOKStop' /\ Answering'
    BY <1>4, <1>5, <2>1, <2>2 DEF TypeOKStop
  <2>4. requests < MaxRequests
    BY <1>6 DEF ReserveStop
  <2>5. Channel'
    BY <1>2, <2>1, <2>2, <2>4 DEF Channel
  <2>. QED BY <1>3, <2>3, <2>5
<1>7. CASE WriteRequest
  <2>. DEFINE body == [request |-> requests + 1, job |-> generation, ack |-> NoAck]
  <2>1. stop.state = "LOADING" /\ Rewritten(body) /\ coachStop' = "request"
        /\ requests' = requests + 1 /\ UNCHANGED <<lapsed, withdrawn>>
    BY <1>7 DEF WriteRequest, Rewritten
  <2>2. requests' \in Requests
    BY <1>1, <1>7, StopAssumption DEF WriteRequest, Channel, Requests
  <2>3. body \in StopBody /\ body.request = requests + 1 /\ body.ack = NoAck
    BY <2>1, <2>2 DEF StopBody, Jobs
  <2>. HIDE DEF body
  <2>4. stop' \in StopFile /\ stop'.state = "LOADING" /\ stop'.body = body
    BY <2>1, <2>3, RewriteFields
  <2>5. TypeOKStop' /\ Answering'
    BY <1>4, <1>5, <2>1, <2>2, <2>3, <2>4 DEF TypeOKStop
  <2>6. Open(requests + 1)
    BY <1>1 DEF Open, Channel
  <2>7. Channel'
    BY <1>1, <1>2, <2>1, <2>3, <2>4, <2>6 DEF Channel, Open
  <2>. QED BY <1>3, <2>5, <2>7
<1>8. CASE RequestStop
  <2>1. stop.state = "LOADING" /\ coachStop = "request" /\ Renamed("REQUESTED")
        /\ coachStop' = "rest" /\ UNCHANGED <<requests, lapsed, withdrawn>>
    BY <1>8 DEF RequestStop, Renamed
  <2>2. stop' \in StopFile /\ stop'.state = "REQUESTED" /\ stop'.body = stop.body
    BY <2>1, StatesNamed, RenameFields
  <2>3. TypeOKStop' /\ Answering'
    BY <1>4, <1>5, <2>1, <2>2 DEF TypeOKStop
  <2>4. Channel'
    BY <1>2, <2>1, <2>2 DEF Channel, Open
  <2>. QED BY <1>3, <2>3, <2>4
<1>9. CASE AbandonStop
  <2>1. stop.state = "LOADING" /\ Renamed("RECYCLING")
        /\ coachStop' = "clear" /\ UNCHANGED <<requests, lapsed, withdrawn>>
    BY <1>9 DEF AbandonStop, Renamed
  <2>2. stop' \in StopFile /\ stop'.state = "RECYCLING" /\ stop'.body = stop.body
    BY <2>1, StatesNamed, RenameFields
  <2>3. TypeOKStop' /\ Answering'
    BY <1>4, <1>5, <2>1, <2>2 DEF TypeOKStop
  <2>4. Channel'
    BY <1>2, <2>1, <2>2 DEF Channel
  <2>. QED BY <1>3, <2>3, <2>4
<1>10. CASE TakeBack
  <2>1. /\ Renamed("RECYCLING") /\ coachStop' = "clear" /\ UNCHANGED <<requests, lapsed>>
        /\ \/ stop.state = "ACKNOWLEDGED" /\ UNCHANGED withdrawn
           \/ stop.state = "REQUESTED" /\ withdrawn' = withdrawn \cup {stop.body.request}
    BY <1>10 DEF TakeBack, Renamed
  <2>2. stop' \in StopFile /\ stop'.state = "RECYCLING" /\ stop'.body = stop.body
    BY <2>1, StatesNamed, RenameFields
  <2>3. withdrawn' \subseteq Requests
    BY <2>1 DEF TypeOKStop, StopFile, StopBody
  <2>4. TypeOKStop' /\ Answering'
    BY <1>4, <1>5, <2>1, <2>2, <2>3 DEF TypeOKStop
  <2>5. Channel'
    <3>1. \A r \in withdrawn' : r <= requests
      BY <2>1 DEF Channel
    <3>2. \A ack \in acks : ack.request \notin withdrawn'
      BY <2>1 DEF Channel, Open
    <3>. QED BY <1>2, <2>1, <2>2, <3>1, <3>2 DEF Channel
  <2>. QED BY <1>3, <2>4, <2>5
<1>11. CASE ClearStop
  <2>1. stop.state = "RECYCLING" /\ Rewritten(IdleStop)
        /\ coachStop' = "free" /\ UNCHANGED <<requests, lapsed, withdrawn>>
    BY <1>11 DEF ClearStop, Rewritten
  <2>2. stop' \in StopFile /\ stop'.state = "RECYCLING" /\ stop'.body = IdleStop
    BY <1>1, <2>1, RewriteFields
  <2>3. TypeOKStop' /\ Answering'
    BY <1>1, <1>4, <1>5, <2>1, <2>2 DEF TypeOKStop
  <2>4. Channel'
    BY <1>1, <1>2, <2>1, <2>2 DEF Channel
  <2>. QED BY <1>3, <2>3, <2>4
<1>12. CASE FreeStop
  <2>1. stop.state = "RECYCLING" /\ Renamed("READY")
        /\ coachStop' = "rest" /\ UNCHANGED <<requests, lapsed, withdrawn>>
    BY <1>12 DEF FreeStop, Renamed
  <2>2. stop' \in StopFile /\ stop'.state = "READY" /\ stop'.body = stop.body
    BY <2>1, StatesNamed, RenameFields
  <2>3. TypeOKStop' /\ Answering'
    BY <1>4, <1>5, <2>1, <2>2 DEF TypeOKStop
  <2>4. Channel'
    BY <1>2, <2>1, <2>2 DEF Channel
  <2>. QED BY <1>3, <2>3, <2>4
<1>13. CASE Lapse
  <2>1. stop.state = "REQUESTED" /\ UNCHANGED <<stop, requests, coachStop, withdrawn>>
        /\ lapsed' = lapsed \cup {stop.body.request}
    BY <1>13 DEF Lapse
  <2>2. lapsed' \subseteq Requests
    BY <2>1 DEF TypeOKStop, StopFile, StopBody
  <2>3. TypeOKStop' /\ Answering'
    BY <1>4, <1>5, <2>1, <2>2 DEF TypeOKStop
  <2>4. Channel'
    BY <1>2, <2>1 DEF Channel, Open
  <2>. QED BY <1>3, <2>3, <2>4
<1>. QED
  BY <1>6, <1>7, <1>8, <1>9, <1>10, <1>11, <1>12, <1>13 DEF CoachStopStep

-----------------------------------------------------------------------------
(* A step of the supervisor that asks nothing of the channel.                    *)
LEMMA SupervisorThinks ==
  ASSUME Inv,
         \/ Spawn \/ Exit \/ PollChild \/ CheckLimit \/ Terminate
         \/ ReadStopName \/ ReadAck \/ ReadStopBody \/ ReadBallName \/ ReadRefused
  PROVE  Inv'
<1>. USE DEF Inv, Goto, Unread, Returns
<1>1. /\ stop.body \in StopBody /\ running \in Nat /\ IdleStop \in StopBody
  BY Typing
<1>2. UNCHANGED <<state, generation, running, claimed, stop, acks, requests, lapsed, coachStop,
                  withdrawn, stopping>>
  BY DEF Spawn, Exit, PollChild, CheckLimit, Terminate, ReadStopName, ReadAck, ReadStopBody,
         ReadBallName, ReadRefused, NoStopChange, jobVars, coachStopVars
<1>3. Jobs' /\ Channel' /\ (Signalled' <=> Signalled)
  BY <1>2 DEF Jobs, Channel, Open, Signalled
<1>4. ASSUME supervisor' \in Supervisor, child' \in Child, disposition' \in Disposition,
             read' \in StopBody, answer' \in AckCode \cup {NoAck}, latched' \in BOOLEAN,
             faults' \in 0 .. MaxFaults
      PROVE  TypeOKStop'
  BY <1>2, <1>4 DEF TypeOKStop
<1>5. /\ supervisor \in Supervisor /\ child \in Child /\ disposition \in Disposition
      /\ read \in StopBody /\ answer \in AckCode \cup {NoAck} /\ latched \in BOOLEAN
      /\ faults \in 0 .. MaxFaults
  BY DEF TypeOKStop
<1>6. ASSUME supervisor' \in {"poll", "name", "limit", "terminate", "finished"} PROVE Answering'
  BY <1>6 DEF Answering
<1>7. CASE Spawn
  <2>1. running # 0 /\ supervisor' = "poll" /\ child' = "alive"
        /\ UNCHANGED <<disposition, latched, read, answer, faults>>
    BY <1>7 DEF Spawn, NoStopChange
  <2>2. TypeOKStop' /\ Answering'
    BY <1>4, <1>5, <1>6, <2>1 DEF Supervisor, Child
  <2>3. Supervised'
    BY <1>2, <1>3, <2>1 DEF Supervised
  <2>. QED BY <1>3, <2>2, <2>3
<1>8. CASE Exit
  <2>1. child' = "exited" /\ UNCHANGED <<supervisor, disposition, latched, read, answer, faults>>
    BY <1>8 DEF Exit, NoStopChange
  <2>2. TypeOKStop'
    BY <1>4, <1>5, <2>1 DEF Child
  <2>3. Supervised' /\ Answering'
    BY <1>2, <1>3, <2>1 DEF Supervised, Answering, OwnedStop
  <2>. QED BY <1>3, <2>2, <2>3
<1>9. CASE PollChild
  <2>1. /\ supervisor = "poll" /\ UNCHANGED <<child, latched, read, answer, faults>>
        /\ \/ supervisor' = "finished" /\ disposition' = "EXITED"
           \/ supervisor' = "terminate" /\ disposition' = "CANCELLED" /\ (stopping \/ latched)
           \/ supervisor' = "name" /\ UNCHANGED disposition
    BY <1>9 DEF PollChild, NoStopChange
  <2>2. TypeOKStop' /\ Answering'
    BY <1>4, <1>5, <1>6, <2>1 DEF Supervisor, Disposition
  <2>3. Supervised'
    BY <1>2, <1>3, <2>1 DEF Supervised
  <2>. QED BY <1>3, <2>2, <2>3
<1>10. CASE CheckLimit
  <2>1. /\ supervisor = "limit" /\ UNCHANGED <<child, latched, read, answer, faults>>
        /\ \/ supervisor' = "poll" /\ UNCHANGED disposition
           \/ supervisor' = "terminate" /\ disposition' = "TIMED_OUT"
    BY <1>10 DEF CheckLimit, NoStopChange
  <2>2. TypeOKStop' /\ Answering'
    BY <1>4, <1>5, <1>6, <2>1 DEF Supervisor, Disposition
  <2>3. Supervised'
    BY <1>2, <1>3, <2>1 DEF Supervised
  <2>. QED BY <1>3, <2>2, <2>3
<1>11. CASE Terminate
  <2>1. /\ supervisor = "terminate" /\ supervisor' = "finished" /\ child' \in {"killed", child}
        /\ UNCHANGED <<disposition, latched, read, answer, faults>>
    BY <1>11 DEF Terminate, NoStopChange
  <2>2. TypeOKStop' /\ Answering'
    BY <1>4, <1>5, <1>6, <2>1 DEF Supervisor, Child
  <2>3. Supervised'
    BY <1>2, <1>3, <2>1 DEF Supervised
  <2>. QED BY <1>3, <2>2, <2>3
<1>12. CASE ReadStopName
  <2>1. /\ supervisor = "name" /\ UNCHANGED <<child, disposition, latched, read, answer, faults>>
        /\ supervisor' = CASE stop.state = "REQUESTED" -> "body"
                           [] stop.state = "ACKNOWLEDGED" -> "acked"
                           [] OTHER -> "limit"
    BY <1>12 DEF ReadStopName, NoStopChange
  <2>2. supervisor' \in {"body", "acked", "limit"} /\ (supervisor' = "acked" => stop.state = "ACKNOWLEDGED")
    BY <2>1
  <2>3. TypeOKStop'
    BY <1>4, <1>5, <2>1, <2>2 DEF Supervisor
  <2>4. Answering'
    BY <1>2, <2>2 DEF Answering, Channel
  <2>5. Supervised'
    BY <1>2, <1>3, <2>1, <2>2 DEF Supervised
  <2>. QED BY <1>3, <2>3, <2>4, <2>5
<1>13. CASE ReadAck
  <2>1. /\ supervisor = "acked" /\ UNCHANGED <<child, faults>>
        /\ read' = IdleStop /\ answer' = NoAck
        /\ \/ /\ stop.body.job = running /\ stop.body.ack = "CANCEL_SIGNALLED"
              /\ latched' = TRUE /\ supervisor' = "terminate" /\ disposition' = "CANCELLED"
           \/ latched' = FALSE /\ supervisor' = "limit" /\ UNCHANGED disposition
    BY <1>13 DEF ReadAck, CancelIf, Matches, NoStopChange
  <2>2. TypeOKStop' /\ Answering'
    BY <1>1, <1>4, <1>5, <1>6, <2>1 DEF Supervisor, Disposition
  <2>3. stop.body.ack = "CANCEL_SIGNALLED" => stop.body \in acks
    BY <2>1 DEF Answering, NoAck
  <2>4. Supervised'
    BY <1>2, <1>3, <2>1, <2>3 DEF Supervised, Signalled
  <2>. QED BY <1>3, <2>2, <2>4
<1>14. CASE ReadStopBody
  <2>1. /\ supervisor = "body" /\ UNCHANGED <<child, disposition, latched, faults>>
        /\ read' = stop.body
        /\ \/ answer' = "NO_MATCH" /\ supervisor' = "claim"
           \/ stop.body.job = running /\ supervisor' = "match" /\ UNCHANGED answer
    BY <1>14 DEF ReadStopBody, Answered, Matches, NoStopChange
  <2>2. TypeOKStop'
    BY <1>1, <1>4, <1>5, <2>1 DEF Supervisor, AckCode
  <2>3. Answering'
    BY <1>2, <2>1 DEF Answering, AckCode
  <2>4. Supervised'
    BY <1>2, <1>3, <2>1 DEF Supervised
  <2>. QED BY <1>3, <2>2, <2>3, <2>4
<1>15. CASE ReadBallName
  <2>1. /\ supervisor = "match" /\ supervisor' = "claim"
        /\ UNCHANGED <<child, disposition, latched, read, faults>>
    BY <1>15 DEF ReadBallName, Answered, NoStopChange
  <2>2. answer' \in AckCode
    BY <1>15 DEF ReadBallName, Answered, AckCode
  <2>3. TypeOKStop'
    BY <1>4, <1>5, <2>1, <2>2 DEF Supervisor
  <2>4. Answering'
    BY <1>2, <2>1, <2>2 DEF Answering
  <2>5. Supervised'
    BY <1>2, <1>3, <2>1 DEF Supervised
  <2>. QED BY <1>3, <2>3, <2>4, <2>5
<1>16. CASE ReadRefused
  <2>1. /\ supervisor \in {"name", "match"} /\ supervisor' = "limit" /\ faults < MaxFaults
        /\ faults' = faults + 1 /\ read' = IdleStop /\ answer' = NoAck
        /\ UNCHANGED <<child, disposition, latched>>
    BY <1>16 DEF ReadRefused
  <2>2. faults' \in 0 .. MaxFaults
    BY <1>5, <2>1, StopAssumption
  <2>3. TypeOKStop' /\ Answering'
    BY <1>1, <1>4, <1>5, <1>6, <2>1, <2>2 DEF Supervisor
  <2>4. Supervised'
    BY <1>2, <1>3, <2>1 DEF Supervised
  <2>. QED BY <1>3, <2>3, <2>4
<1>. QED BY <1>7, <1>8, <1>9, <1>10, <1>11, <1>12, <1>13, <1>14, <1>15, <1>16

-----------------------------------------------------------------------------
(* The three requests of an acknowledgement, whether or not they are answered.   *)
LEMMA ClaimChannel ==
  ASSUME Inv, OwnedStop("REQUESTED"), Renamed("RETURNING"),
         UNCHANGED <<requests, withdrawn, acks, coachStop>>
  PROVE  Channel' /\ stop' \in StopFile /\ stop'.state = "RETURNING" /\ stop'.body = stop.body
<1>1. stop.state = "REQUESTED"
  BY DEF OwnedStop
<1>2. stop' \in StopFile /\ stop'.state = "RETURNING" /\ stop'.body = stop.body
  BY StatesNamed, RenameFields DEF Inv
<1>. QED BY <1>1, <1>2 DEF Inv, Channel, Open

(* The supervisor saves its answer in the ball.                               *)
LEMMA RecordChannel ==
  ASSUME Inv, supervisor = "record", Rewritten([read EXCEPT !.ack = answer]),
         UNCHANGED <<requests, withdrawn, acks, coachStop>>
  PROVE  Channel' /\ stop' \in StopFile /\ stop'.state = "RETURNING"
         /\ stop'.body = [read EXCEPT !.ack = answer]
<1>. DEFINE body == [read EXCEPT !.ack = answer]
<1>1. stop.state = "RETURNING" /\ stop.body.request = read.request /\ answer \in AckCode
  BY DEF Inv, Answering, OwnedStop
<1>2. body \in StopBody /\ body.request = read.request
  BY <1>1, AckFields DEF Inv
<1>. HIDE DEF body
<1>3. stop' \in StopFile /\ stop'.state = "RETURNING" /\ stop'.body = body
  BY <1>1, <1>2, RewriteFields DEF Inv, body
<1>4. Channel'
  BY <1>1, <1>2, <1>3 DEF Inv, Channel, Open
<1>. QED BY <1>3, <1>4 DEF body

(* ... and publishes it.                                                      *)
LEMMA PublishChannel ==
  ASSUME Inv, supervisor = "publish", Renamed("ACKNOWLEDGED"), acks' = acks \cup {stop.body},
         UNCHANGED <<requests, withdrawn, coachStop>>
  PROVE  /\ Channel' /\ stop' \in StopFile /\ stop'.state = "ACKNOWLEDGED" /\ stop'.body = stop.body
         /\ stop.body \in StopBody /\ stop.body.ack = answer /\ stop.body.job = read.job
         /\ answer \in AckCode
<1>1. stop.state = "RETURNING" /\ stop.body = [read EXCEPT !.ack = answer] /\ answer \in AckCode
  BY DEF Inv, Answering
<1>2. stop.body \in StopBody /\ stop.body.ack = answer /\ stop.body.job = read.job
  BY <1>1, AckFields DEF Inv
<1>3. stop' \in StopFile /\ stop'.state = "ACKNOWLEDGED" /\ stop'.body = stop.body
  BY StatesNamed, RenameFields DEF Inv
<1>4. Open(stop.body.request) /\ stop.body.request <= requests
  BY <1>1 DEF Inv, Channel
<1>5. \A ack \in acks' : ack.request <= requests /\ ack.request \notin withdrawn
  BY <1>4 DEF Inv, Channel, Open
<1>6. Channel'
  BY <1>3, <1>4, <1>5 DEF Inv, Channel
<1>. QED BY <1>1, <1>2, <1>3, <1>6

(* Nothing the supervisor does to the ball breaks what is known of it.        *)
LEMMA SupervisorAnswers ==
  ASSUME Inv, ClaimStop \/ RecordAck \/ PublishAck \/ StopRefused
  PROVE  Inv'
<1>. USE DEF Inv, Goto, Unread, Returns
<1>1. /\ stop.body \in StopBody /\ running \in Nat /\ IdleStop \in StopBody
      /\ \A ack \in acks : ack.ack # NoAck
  BY Typing
<1>2. UNCHANGED <<state, generation, running, claimed, requests, lapsed, coachStop, withdrawn,
                  stopping, child>>
  BY DEF ClaimStop, RecordAck, PublishAck, StopRefused, jobVars, coachStopVars
<1>3. Jobs'
  BY <1>2 DEF Jobs
<1>4. ASSUME stop' \in StopFile, supervisor' \in Supervisor, disposition' \in Disposition,
             read' \in StopBody, answer' \in AckCode \cup {NoAck}, latched' \in BOOLEAN,
             faults' \in 0 .. MaxFaults, acks' \subseteq acks \cup {stop'.body},
             stop'.body \in acks' => stop'.body.ack # NoAck
      PROVE  TypeOKStop'
  <2>1. stop'.body \in StopBody
    BY <1>4 DEF StopFile
  <2>2. acks' \subseteq {body \in StopBody : body.ack # NoAck}
    BY <1>1, <1>4, <2>1 DEF TypeOKStop
  <2>. QED BY <1>2, <1>4, <2>2 DEF TypeOKStop
<1>5. /\ stop \in StopFile /\ supervisor \in Supervisor /\ disposition \in Disposition
      /\ read \in StopBody /\ answer \in AckCode \cup {NoAck} /\ latched \in BOOLEAN
      /\ faults \in 0 .. MaxFaults
  BY DEF TypeOKStop
<1>6. (Signalled => Signalled') /\ supervisor # "none" /\ running # 0
  BY <1>2 DEF Signalled, Supervised, ClaimStop, RecordAck, PublishAck, StopRefused
<1>7. CASE ClaimStop
  <2>1. /\ supervisor = "claim" /\ OwnedStop("REQUESTED") /\ Renamed("RETURNING")
        /\ supervisor' = "record" /\ UNCHANGED <<acks, disposition, latched, read, answer, faults>>
    BY <1>7 DEF ClaimStop, Renamed
  <2>2. Channel' /\ stop' \in StopFile /\ stop'.state = "RETURNING" /\ stop'.body = stop.body
    BY <1>2, <2>1, ClaimChannel
  <2>3. TypeOKStop'
    BY <1>1, <1>4, <1>5, <2>1, <2>2 DEF Supervisor
  <2>4. Answering'
    BY <1>2, <2>1, <2>2 DEF Answering, OwnedStop
  <2>5. Supervised'
    BY <1>2, <1>6, <2>1 DEF Supervised
  <2>. QED BY <1>3, <2>2, <2>3, <2>4, <2>5
<1>8. CASE RecordAck
  <2>1. /\ supervisor = "record" /\ Rewritten([read EXCEPT !.ack = answer])
        /\ supervisor' = "publish" /\ UNCHANGED <<acks, disposition, latched, read, answer, faults>>
    BY <1>8 DEF RecordAck, Rewritten
  <2>2. Channel' /\ stop' \in StopFile /\ stop'.state = "RETURNING"
        /\ stop'.body = [read EXCEPT !.ack = answer]
    BY <1>2, <2>1, RecordChannel
  <2>3. TypeOKStop'
    BY <1>1, <1>4, <1>5, <2>1, <2>2 DEF Supervisor
  <2>4. Answering'
    BY <1>2, <2>1, <2>2 DEF Answering
  <2>5. Supervised'
    BY <1>2, <1>6, <2>1 DEF Supervised
  <2>. QED BY <1>3, <2>2, <2>3, <2>4, <2>5
<1>9. CASE PublishAck
  <2>1. /\ supervisor = "publish" /\ Renamed("ACKNOWLEDGED") /\ acks' = acks \cup {stop.body}
        /\ read' = IdleStop /\ answer' = NoAck /\ UNCHANGED faults
        /\ \/ /\ answer = "CANCEL_SIGNALLED" /\ latched' = TRUE
              /\ supervisor' = "terminate" /\ disposition' = "CANCELLED"
           \/ latched' = FALSE /\ supervisor' = "limit" /\ UNCHANGED disposition
    BY <1>9 DEF PublishAck, Renamed, CancelIf
  <2>2. /\ Channel' /\ stop' \in StopFile /\ stop'.state = "ACKNOWLEDGED" /\ stop'.body = stop.body
        /\ stop.body \in StopBody /\ stop.body.ack = answer /\ stop.body.job = read.job
        /\ answer \in AckCode
    BY <1>2, <2>1, PublishChannel
  <2>3. TypeOKStop'
    BY <1>1, <1>4, <1>5, <2>1, <2>2 DEF Supervisor, Disposition, AckCode, NoAck
  <2>4. Answering'
    BY <2>1 DEF Answering
  <2>5. answer = "CANCEL_SIGNALLED" => Signalled'
    BY <1>2, <2>1, <2>2 DEF Answering, Signalled
  <2>6. Supervised'
    BY <1>2, <1>6, <2>1, <2>5 DEF Supervised
  <2>. QED BY <1>3, <2>2, <2>3, <2>4, <2>6
<1>10. CASE StopRefused
  <2>. DEFINE settled == acks' = IF stop'.state = "ACKNOWLEDGED" THEN acks \cup {stop'.body} ELSE acks
  <2>1. /\ supervisor' = "limit" /\ read' = IdleStop /\ answer' = NoAck
        /\ UNCHANGED <<disposition, latched>> /\ settled
    BY <1>10 DEF StopRefused
  <2>2. faults' \in 0 .. MaxFaults
    BY <1>5, <1>10, StopAssumption DEF StopRefused
  <2>3. Channel' /\ stop' \in StopFile /\ (stop'.body \in acks' => stop'.body.ack # NoAck)
    <3>1. CASE UNCHANGED stop
      <4>1. acks' = acks
        BY <2>1, <3>1 DEF Channel
      <4>. QED BY <1>1, <1>2, <1>5, <3>1, <4>1 DEF Channel, Open
    <3>2. CASE supervisor = "claim" /\ OwnedStop("REQUESTED") /\ Renamed("RETURNING")
      <4>1. stop'.state = "RETURNING"
        BY <3>2, StatesNamed, RenameFields
      <4>2. acks' = acks
        BY <2>1, <4>1
      <4>. QED BY <1>1, <1>2, <3>2, <4>2, ClaimChannel
    <3>3. CASE supervisor = "record" /\ Rewritten([read EXCEPT !.ack = answer])
      <4>1. stop.state = "RETURNING" /\ answer \in AckCode
        BY <3>3 DEF Answering, OwnedStop
      <4>2. stop'.state = "RETURNING"
        BY <3>3, <4>1, AckFields, RewriteFields
      <4>3. acks' = acks
        BY <2>1, <4>2
      <4>. QED BY <1>1, <1>2, <3>3, <4>3, RecordChannel
    <3>4. CASE supervisor = "publish" /\ Renamed("ACKNOWLEDGED")
      <4>1. stop'.state = "ACKNOWLEDGED" /\ stop'.body = stop.body
        BY <3>4, StatesNamed, RenameFields
      <4>2. acks' = acks \cup {stop.body}
        BY <2>1, <4>1
      <4>3. Channel' /\ stop' \in StopFile /\ stop.body.ack \in AckCode
        BY <1>2, <3>4, <4>2, PublishChannel
      <4>. QED BY <4>1, <4>3 DEF AckCode, NoAck
    <3>. QED BY <1>10, <3>1, <3>2, <3>3, <3>4 DEF StopRefused, Renamed, Rewritten
  <2>4. TypeOKStop'
    BY <1>1, <1>4, <1>5, <2>1, <2>2, <2>3 DEF Supervisor
  <2>5. Answering' /\ Supervised'
    BY <1>2, <1>6, <2>1 DEF Answering, Supervised
  <2>. QED BY <1>3, <2>3, <2>4, <2>5
<1>. QED BY <1>7, <1>8, <1>9, <1>10

-----------------------------------------------------------------------------
(* The work channel goes on, an execution ends, the service stops and starts.    *)
LEMMA WorkKeeps ==
  ASSUME Inv, Work \/ Deliver \/ Die \/ Shutdown \/ StartService
  PROVE  Inv'
<1>. USE DEF Inv
<1>1. UNCHANGED <<stop, acks, requests, lapsed, coachStop, withdrawn>>
  BY DEF Work, Deliver, Die, NoSupervisor, Shutdown, StartService, coachStopVars
<1>2. Channel'
  BY <1>1 DEF Channel, Open
<1>3. IdleStop \in StopBody /\ running \in Nat /\ generation \in Nat
  BY Typing
<1>4. CASE Work
  <2>1. UNCHANGED <<supervisor, child, disposition, read, answer, latched, stopping, faults>>
    BY <1>4 DEF Work, supervisorVars
  <2>2. Jobs' /\ (running' = running \/ running = 0)
    <3>1. CASE Move
      <4>1. claimed' \subseteq claimed \cup {generation} /\ UNCHANGED <<generation, running>>
        BY <3>1 DEF Move
      <4>. QED BY <4>1 DEF Jobs
    <3>2. CASE Publish
      BY <1>3, <3>2, GenerationAssumption DEF Publish, Jobs, Generations
    <3>3. CASE Execute
      BY <3>3 DEF Execute, Jobs
    <3>. QED BY <1>4, <3>1, <3>2, <3>3 DEF Work
  <2>3. TypeOKStop'
    BY <1>1, <2>1 DEF TypeOKStop
  <2>4. CASE running' = running
    BY <1>1, <1>2, <2>1, <2>2, <2>3, <2>4 DEF Supervised, Signalled, Answering, OwnedStop
  <2>5. CASE running = 0
    BY <1>1, <1>2, <2>1, <2>2, <2>3, <2>5 DEF Supervised, Signalled, Answering, OwnedStop
  <2>. QED BY <2>2, <2>4, <2>5
<1>5. CASE Deliver \/ Die
  <2>1. /\ supervisor' = "none" /\ child' = "none" /\ disposition' = "EXITED" /\ running' = 0
        /\ read' = IdleStop /\ answer' = NoAck /\ latched' = FALSE
        /\ UNCHANGED <<generation, claimed, stopping>>
    BY <1>5 DEF Deliver, Die, NoSupervisor, Stop
  <2>2. faults' \in 0 .. MaxFaults
    BY <1>5, StopAssumption DEF Deliver, Die, TypeOKStop
  <2>3. TypeOKStop'
    BY <1>1, <1>3, <2>1, <2>2 DEF TypeOKStop, Supervisor, Child, Disposition
  <2>4. Jobs'
    BY <2>1, GenerationAssumption DEF Jobs, Generations
  <2>5. Supervised' /\ Answering'
    BY <2>1 DEF Supervised, Answering
  <2>. QED BY <1>2, <2>3, <2>4, <2>5
<1>6. CASE Shutdown \/ StartService
  <2>1. /\ UNCHANGED <<generation, running, claimed, supervisor, child, disposition, read, answer,
                       latched, faults>>
        /\ stopping' = TRUE \/ (stopping' = FALSE /\ running = 0)
    BY <1>6 DEF Shutdown, StartService, jobVars
  <2>2. TypeOKStop'
    BY <1>1, <2>1 DEF TypeOKStop
  <2>3. Jobs' /\ Answering'
    BY <1>1, <2>1 DEF Jobs, Answering, OwnedStop
  <2>4. Supervised'
    BY <1>1, <2>1 DEF Supervised, Signalled
  <2>. QED BY <1>2, <2>2, <2>3, <2>4
<1>. QED BY <1>4, <1>5, <1>6

(* The invariant holds at first,                                              *)
LEMMA InitInv == InitStop => Inv
<1> SUFFICES ASSUME InitStop PROVE Inv
  OBVIOUS
<1>. USE StopAssumption, GenerationAssumption DEF InitStop, Init
<1>1. IdleStop \in StopBody /\ IdleStop.request = 0 /\ IdleStop.ack = NoAck
  BY DEF IdleStop, StopBody, Requests, Generations, NoRequest
<1>2. stop \in StopFile /\ stop.state = "READY" /\ stop.body = IdleStop
  BY <1>1, StatesNamed DEF StopFile
<1>3. TypeOKStop
  <2>1. /\ requests \in Requests /\ lapsed \subseteq Requests /\ withdrawn \subseteq Requests
        /\ acks \subseteq {body \in StopBody : body.ack # NoAck} /\ faults \in 0 .. MaxFaults
    BY DEF Requests
  <2>2. /\ supervisor \in Supervisor /\ child \in Child /\ disposition \in Disposition
        /\ read \in StopBody /\ answer \in AckCode \cup {NoAck}
        /\ latched \in BOOLEAN /\ stopping \in BOOLEAN
    BY <1>1 DEF Supervisor, Child, Disposition
  <2>. QED BY <1>2, <2>1, <2>2 DEF TypeOKStop
<1>4. Jobs
  BY DEF Jobs, Generations
<1>5. Channel
  BY <1>1, <1>2 DEF Channel
<1>6. Supervised /\ Answering
  BY DEF Supervised, Answering
<1>. QED BY <1>3, <1>4, <1>5, <1>6 DEF Inv

(* ... and always.                                                            *)
LEMMA InvHolds == SpecStop => []Inv
<1>1. Inv /\ [NextStop]_vars => Inv'
  <2> SUFFICES ASSUME Inv, [NextStop]_vars PROVE Inv'
    OBVIOUS
  <2>1. CASE UNCHANGED vars
    BY <2>1 DEF Inv, vars, jobVars, supervisorVars, coachStopVars, TypeOKStop, Jobs, Channel, Open,
                Supervised, Signalled, Answering, OwnedStop
  <2>. QED
    BY <2>1, CoachKeeps, SupervisorThinks, SupervisorAnswers, WorkKeeps DEF NextStop, SupervisorStep
<1>. QED BY InitInv, <1>1, PTL DEF SpecStop

(* The channel, the supervisor and the counters stay of their kinds.             *)
THEOREM StopTyped == SpecStop => []TypeOKStop
<1>1. Inv => TypeOKStop
  BY DEF Inv
<1>. QED BY <1>1, InvHolds, PTL

(* A job is reported cancelled only if its service is stopping or an acknowledged *)
(* request named that very job, whatever COACH withdraws and publishes between    *)
(* two reads of the supervisor (cancellation.py, check_once).                     *)
THEOREM CancelledJobsWereNamed == SpecStop => []CancelledByItsRequest
<1>1. Inv => CancelledByItsRequest
  BY DEF Inv, Supervised, Signalled, CancelledByItsRequest
<1>. QED BY <1>1, InvHolds, PTL

(* A request that COACH has taken back is never acknowledged, nor the other way   *)
(* round (cancellation.py, _acknowledge).                                         *)
THEOREM WithdrawalExcludesAcknowledgement == SpecStop => []WithdrawnIsNeverAcknowledged
<1>1. Inv => WithdrawnIsNeverAcknowledged
  BY DEF Inv, Channel, WithdrawnIsNeverAcknowledged
<1>. QED BY <1>1, InvHolds, PTL


-----------------------------------------------------------------------------
(***************************************************************************)
(* The daemon and its fault register (WatchdogRuntime)                     *)
(***************************************************************************)

FaultState == {"CLEAN", "BLOCKING", "REVIEWED"}
FaultRequest == {"raise", "lower", "reset"} \cup Faults

(* What the register and the requests on their way to it have to do with what was *)
(* reported: a clearance is on its way, or is being made, only after a check has  *)
(* passed, and only to the register that COACH reviewed.                          *)
RegisterKeeps ==
  /\ dog \in {"lower", "reset"} => ~standing
  /\ dog \in {"raise", "record"} => signal \in Faults
  /\ AtomicPrecondition =>
       /\ standing => register.state \in {"BLOCKING", "REVIEWED"}
       /\ "lower" \in pending => register.state = "REVIEWED" /\ ~standing

(* The one thread is in a procedure of the register or it is not; and between the  *)
(* look at the register and the answer to WAKE_BONE it is not.                     *)
WorkIsGated ==
  /\ thread \notin {"report", "review"} => dog = "rest"
  /\ AtomicPrecondition /\ thread \in {"look", "rouse", "process"} => ~standing

HealthInv == Health!TypeOK /\ RegisterKeeps

(* The registry's states of the register.                                          *)
LEMMA FaultStates == Health!States("WATCHDOG_FAULT") = FaultState
<1>1. Health!Edges("WATCHDOG_FAULT") =
         {<<"CLEAN", "BLOCKING", Health!Watchdog>>, <<"BLOCKING", "REVIEWED", Health!Coach>>,
          <<"REVIEWED", "BLOCKING", Health!Watchdog>>, <<"REVIEWED", "CLEAN", Health!Watchdog>>}
  BY DEF Health!Edges
<1>. DEFINE E == Health!Edges("WATCHDOG_FAULT")
<1>2. Health!States("WATCHDOG_FAULT") = {e[1] : e \in E} \cup {e[2] : e \in E}
  BY DEF Health!States
<1>3. \A e \in E : e[1] \in FaultState /\ e[2] \in FaultState
  BY <1>1 DEF FaultState
<1>4. ASSUME NEW s \in FaultState PROVE \E e \in E : s = e[1] \/ s = e[2]
  <2>1. /\ <<"CLEAN", "BLOCKING", Health!Watchdog>> \in E
        /\ <<"BLOCKING", "REVIEWED", Health!Coach>> \in E
    BY <1>1
  <2>. QED BY <2>1, <1>4 DEF FaultState
<1>. HIDE DEF E
<1>. QED BY <1>2, <1>3, <1>4

(* What Health's type says, with the states spelled out.                           *)
LEMMA HealthTyped ==
  Health!TypeOK <=>
    /\ register \in [state : FaultState, fault : Faults \cup {Health!NoFault}]
    /\ broken \subseteq Faults
    /\ dog \in Health!DogStage /\ source \in FaultState
    /\ signal \in Faults \cup {Health!NoFault}
    /\ asked \in BOOLEAN /\ pending \subseteq FaultRequest
    /\ standing \in BOOLEAN
    /\ crashes \in 0 .. MaxCrashes /\ lost \in 0 .. MaxLost
BY FaultStates DEF Health!TypeOK, Health!Register, FaultRequest

(* The same of the next state.                                                     *)
LEMMA HealthTypedNext ==
  Health!TypeOK' <=>
    /\ register' \in [state : FaultState, fault : Faults \cup {Health!NoFault}]
    /\ broken' \subseteq Faults
    /\ dog' \in Health!DogStage /\ source' \in FaultState
    /\ signal' \in Faults \cup {Health!NoFault}
    /\ asked' \in BOOLEAN /\ pending' \subseteq FaultRequest
    /\ standing' \in BOOLEAN
    /\ crashes' \in 0 .. MaxCrashes /\ lost' \in 0 .. MaxLost
BY FaultStates DEF Health!TypeOK, Health!Register, FaultRequest

(* What a request of either procedure makes of the register.                       *)
LEMMA AppliedRequest ==
  ASSUME Health!TypeOK, NEW request \in FaultRequest
  PROVE  /\ Health!Applied(request) \in [state : FaultState, fault : Faults \cup {Health!NoFault}]
         /\ request = "raise" => Health!Applied(request).state = "BLOCKING"
         /\ request \notin {"raise", "lower"} => Health!Applied(request).state = register.state
<1>1. register \in [state : FaultState, fault : Faults \cup {Health!NoFault}]
  BY HealthTyped
<1>2. CASE request = "raise"
  BY <1>1, <1>2 DEF Health!Applied, FaultState
<1>3. CASE request = "lower"
  BY <1>1, <1>3 DEF Health!Applied, FaultState
<1>4. CASE request = "reset"
  BY <1>1, <1>4 DEF Health!Applied
<1>5. CASE request \in Faults
  <2>1. Health!Applied(request) = [register EXCEPT !.fault = request]
    BY <1>5, WatchdogAssumption DEF Health!Applied
  <2>. QED BY <1>1, <1>5, <2>1, WatchdogAssumption
<1>. QED BY <1>2, <1>3, <1>4, <1>5 DEF FaultRequest

(* Its request is of this kind, and the state it must find is a state.             *)
LEMMA StageRequest ==
  ASSUME Health!TypeOK, Health!Requesting
  PROVE  /\ dog # "record" => Health!Request = dog /\ Health!Request \in FaultRequest
         /\ dog = "record" => Health!Request = signal
         /\ dog = "lower" => Health!RequestFrom = "REVIEWED"
         /\ dog = "record" => Health!RequestFrom = "BLOCKING"
         /\ dog = "reset" => Health!RequestFrom = "CLEAN"
BY DEF Health!Requesting, Health!Request, Health!RequestFrom, FaultRequest

(* A stage that succeeds leaves the register as its request makes it, and no other *)
(* request behind, if it was applied now.                                          *)
LEMMA StageSucceeds ==
  ASSUME HealthInv, NEW stage, stage \in {"raise", "record", "lower", "reset"},
         Health!Succeeds(stage)
  PROVE  /\ register' \in [state : FaultState, fault : Faults \cup {Health!NoFault}]
         /\ pending' \subseteq pending /\ dog = stage
         /\ AtomicPrecondition /\ "lower" \in pending' => register' = register
         /\ stage \in {"raise", "record"} => register'.state = "BLOCKING"
         /\ stage = "reset" => register'.state \in {register.state, "CLEAN"}
         /\ asked' = FALSE
<1>1. dog = stage /\ asked' = FALSE /\ Health!Requesting
  BY DEF Health!Succeeds, Health!Requesting
<1>2. CASE ~asked /\ register.state = Health!RequestFrom
              /\ Health!Mutates(Health!Applied(Health!Request))
  <2>1. /\ register' = Health!Applied(Health!Request)
        /\ pending' \subseteq pending /\ (AtomicPrecondition => pending' = {})
    BY <1>2 DEF Health!Mutates
  <2>2. Health!Request \in FaultRequest
    BY <1>1, StageRequest DEF HealthInv, RegisterKeeps, FaultRequest
  <2>3. stage # "record" => Health!Request = stage
    BY <1>1, StageRequest DEF HealthInv
  <2>4. stage = "record" => Health!Request \in Faults /\ register.state = "BLOCKING"
    BY <1>1, <1>2, StageRequest DEF HealthInv, RegisterKeeps
  <2>5. stage = "record" => Health!Request \notin {"raise", "lower"}
    BY <2>4, WatchdogAssumption
  <2>. QED BY <1>1, <2>1, <2>2, <2>3, <2>4, <2>5, AppliedRequest DEF HealthInv
<1>3. CASE asked /\ Health!Done /\ UNCHANGED <<register, pending>>
  BY <1>1, <1>3, HealthTyped DEF HealthInv, Health!Done
<1>. QED BY <1>2, <1>3 DEF Health!Succeeds

(* Health's own steps, and those that only let the world or the counters change.   *)
LEMMA RaiseKeeps ==
  ASSUME HealthInv, Health!Raise
  PROVE  HealthInv' /\ standing' = standing
<1>1. Health!Succeeds("raise") /\ dog' = "record"
      /\ UNCHANGED <<Health!world, source, signal, standing>>
  BY DEF Health!Raise
<1>2. RegisterKeeps'
  BY <1>1, StageSucceeds, HealthTyped DEF HealthInv, RegisterKeeps, FaultState
<1>3. Health!TypeOK'
  BY <1>1, StageSucceeds, HealthTyped, HealthTypedNext
     DEF HealthInv, Health!world, Health!DogStage
<1>. QED BY <1>1, <1>2, <1>3 DEF HealthInv

(* A recorded fault stands, and no clearance is on its way to the register.    *)
LEMMA RecordKeeps ==
  ASSUME HealthInv, Health!Record
  PROVE  HealthInv' /\ dog' = "rest"
<1>1. Health!Succeeds("record") /\ dog' = "rest" /\ standing' = TRUE
      /\ UNCHANGED <<Health!world, source, signal>>
  BY DEF Health!Record
<1>2. AtomicPrecondition => "lower" \notin pending'
  BY <1>1, StageSucceeds DEF HealthInv, RegisterKeeps
<1>3. RegisterKeeps'
  BY <1>1, <1>2, StageSucceeds DEF RegisterKeeps
<1>4. Health!TypeOK'
  BY <1>1, StageSucceeds, HealthTyped, HealthTypedNext
     DEF HealthInv, Health!world, Health!DogStage
<1>. QED BY <1>1, <1>3, <1>4 DEF HealthInv

(* The writes that clear the register keep what it says of the report.         *)
LEMMA LowerKeeps ==
  ASSUME HealthInv, Health!Lower \/ Health!Reset
  PROVE  HealthInv' /\ standing' = standing
<1>1. PICK stage \in {"lower", "reset"} :
        Health!Succeeds(stage) /\ dog' \in {"reset", "rest"}
          /\ UNCHANGED <<Health!world, source, signal, standing>>
  BY DEF Health!Lower, Health!Reset
<1>2. ~standing /\ dog \in {"lower", "reset"}
  BY <1>1, StageSucceeds DEF HealthInv, RegisterKeeps
<1>3. RegisterKeeps'
  BY <1>1, <1>2, StageSucceeds DEF HealthInv, RegisterKeeps
<1>4. Health!TypeOK'
  BY <1>1, StageSucceeds, HealthTyped, HealthTypedNext
     DEF HealthInv, Health!world, Health!DogStage
<1>. QED BY <1>1, <1>3, <1>4 DEF HealthInv

(* So do the decisions that lead to a write, and none makes a fault stand.     *)
LEMMA DecisionKeeps ==
  ASSUME HealthInv,
         \/ Health!Refused \/ Health!InvariantHolds \/ Health!InvariantFails
         \/ Health!Revalidate \/ \E fault \in Faults : Health!Report(fault)
  PROVE  HealthInv' /\ (standing' => standing)
<1>. USE HealthTyped DEF HealthInv
<1>1. CASE Health!Refused
  BY <1>1, HealthTypedNext DEF Health!Refused, RegisterKeeps, Health!world, Health!DogStage
<1>2. CASE Health!InvariantHolds
  BY <1>2, HealthTypedNext DEF Health!InvariantHolds, RegisterKeeps, Health!world, Health!DogStage
<1>3. CASE Health!InvariantFails
  BY <1>3, HealthTypedNext DEF Health!InvariantFails, RegisterKeeps, Health!world, Health!DogStage
<1>4. CASE Health!Revalidate
  <2>1. register.fault \in Faults \cup {Health!NoFault} /\ "REVIEWED" \in FaultState
    BY DEF FaultState
  <2>. QED BY <1>4, <2>1, HealthTypedNext
           DEF Health!Revalidate, RegisterKeeps, Health!world, Health!DogStage
<1>5. CASE \E fault \in Faults : Health!Report(fault)
  <2>1. PICK fault \in Faults : Health!Report(fault)
    BY <1>5
  <2>. QED BY <2>1, HealthTypedNext DEF Health!Report, RegisterKeeps, Health!world, Health!DogStage
<1>. QED BY <1>1, <1>2, <1>3, <1>4, <1>5

(* COACH, the provider and the world never touch what the thread is at.            *)
LEMMA WorldKeeps ==
  ASSUME HealthInv,
         \/ Health!Review \/ Health!Unanswered \/ Health!Land
         \/ \E fault \in Faults : Health!Break(fault) \/ Health!Mend(fault)
  PROVE  HealthInv' /\ dog' = dog /\ standing' = standing
<1>1. CASE Health!Review
  <2>1. /\ register' = [register EXCEPT !.state = "REVIEWED"]
        /\ pending' \subseteq pending /\ (AtomicPrecondition => pending' = {})
        /\ UNCHANGED <<Health!world, dog, source, signal, asked, standing>>
    BY <1>1 DEF Health!Review, Health!Mutates
  <2>2. register' \in [state : FaultState, fault : Faults \cup {Health!NoFault}]
        /\ register'.state = "REVIEWED"
    BY <2>1, HealthTyped DEF HealthInv, FaultState
  <2>3. Health!TypeOK'
    BY <2>1, <2>2, HealthTyped, HealthTypedNext DEF HealthInv, Health!world
  <2>. QED BY <2>1, <2>2, <2>3 DEF HealthInv, RegisterKeeps
<1>2. CASE Health!Unanswered
  <2>1. /\ Health!Requesting /\ register.state = Health!RequestFrom
        /\ lost < MaxLost /\ lost' = lost + 1 /\ asked' = TRUE
        /\ pending' \subseteq pending \cup {Health!Request}
        /\ UNCHANGED <<register, broken, dog, source, signal, standing, crashes>>
    BY <1>2 DEF Health!Unanswered
  <2>2. Health!Request \in FaultRequest
    BY <2>1, StageRequest DEF HealthInv, RegisterKeeps, FaultRequest, Health!Requesting
  <2>3. Health!Request = "lower" => dog = "lower" /\ register.state = "REVIEWED" /\ ~standing
    <3>1. CASE dog = "record"
      BY <2>1, <3>1, StageRequest, WatchdogAssumption DEF HealthInv, RegisterKeeps
    <3>2. CASE dog # "record"
      BY <2>1, <3>2, StageRequest DEF HealthInv, RegisterKeeps
    <3>. QED BY <3>1, <3>2
  <2>4. RegisterKeeps'
    BY <2>1, <2>3 DEF HealthInv, RegisterKeeps
  <2>5. lost' \in 0 .. MaxLost
    BY <2>1, HealthTyped, WatchdogAssumption DEF HealthInv
  <2>6. Health!TypeOK'
    BY <2>1, <2>2, <2>5, HealthTyped, HealthTypedNext DEF HealthInv
  <2>. QED BY <2>1, <2>4, <2>6 DEF HealthInv
<1>3. CASE Health!Land
  <2>1. PICK request \in pending :
          /\ register' = Health!Applied(request)
          /\ pending' \subseteq pending /\ (AtomicPrecondition => pending' = {})
    BY <1>3 DEF Health!Land
  <2>2. UNCHANGED <<Health!world, dog, source, signal, asked, standing>>
    BY <1>3 DEF Health!Land
  <2>3. request \in FaultRequest
    BY HealthTyped DEF HealthInv
  <2>4. register' \in [state : FaultState, fault : Faults \cup {Health!NoFault}]
    BY <2>1, <2>3, AppliedRequest DEF HealthInv
  <2>5. AtomicPrecondition /\ standing => register'.state \in {"BLOCKING", "REVIEWED"}
    <3>1. CASE request = "lower"
      BY <3>1 DEF HealthInv, RegisterKeeps
    <3>2. CASE request # "lower"
      BY <2>1, <2>3, <3>2, AppliedRequest DEF HealthInv, RegisterKeeps
    <3>. QED BY <3>1, <3>2
  <2>6. RegisterKeeps'
    BY <2>1, <2>2, <2>5 DEF HealthInv, RegisterKeeps
  <2>7. Health!TypeOK'
    BY <2>1, <2>2, <2>4, HealthTyped, HealthTypedNext DEF HealthInv, Health!world
  <2>. QED BY <2>2, <2>6, <2>7 DEF HealthInv
<1>4. CASE \E fault \in Faults : Health!Break(fault) \/ Health!Mend(fault)
  <2>1. UNCHANGED <<register, dog, source, signal, asked, pending, standing, crashes, lost>>
        /\ (broken \subseteq Faults => broken' \subseteq Faults)
    BY <1>4 DEF Health!Break, Health!Mend
  <2>. QED BY <2>1, HealthTyped, HealthTypedNext DEF HealthInv, RegisterKeeps
<1>. QED BY <1>1, <1>2, <1>3, <1>4

-----------------------------------------------------------------------------
(* The scheduler's arithmetic.                                                     *)

(* A deadline that was missed moves on by whole intervals to the first one ahead:  *)
(* never into the past, and never further off than the task's own interval.        *)
LEMMA NextDeadline ==
  ASSUME due \in [Tasks -> Int], NEW t \in Tasks, NEW m \in Modes
  PROVE  /\ Advanced(t, m) \in Int /\ Advanced(t, m) > 0
         /\ due[t] <= 0 => Advanced(t, m) <= Interval[t][m]
         /\ due[t] + Interval[t][m] > 0 => Advanced(t, m) = due[t] + Interval[t][m]
<1>. DEFINE I == Interval[t][m]
            n == due[t] + I
            q == (-n) \div I
<1>1. due[t] \in Int /\ I \in Nat /\ I > 0 /\ n \in Int
  BY WatchdogAssumption
<1>2. Advanced(t, m) = IF n > 0 THEN n ELSE n + (q + 1) * I
  BY DEF Advanced
<1>3. q \in Int /\ q * I <= -n /\ -n < (q + 1) * I /\ (q + 1) * I = q * I + I
  <2>. HIDE DEF n, I
  <2>. QED BY <1>1
<1>4. q * I \in Int /\ (q + 1) * I \in Int
  <2>. HIDE DEF n, I, q
  <2>. QED BY <1>1, <1>3
<1>. HIDE DEF q
<1>5. due[t] <= 0 => n <= I
  BY <1>1
<1>. QED BY <1>1, <1>2, <1>3, <1>4, <1>5

(* Time that passes leaves deadlines and lease of their types.                     *)
LEMMA PassedTyped ==
  ASSUME due \in [Tasks -> Int], awake \in 0 .. Lease, NEW ticks \in Nat, Passed(ticks)
  PROVE  due' \in [Tasks -> Int] /\ awake' \in 0 .. Lease
BY WatchdogAssumption DEF Passed

(* What a callback that returns leaves.                                            *)
LEMMA ReturnTyped ==
  ASSUME due \in [Tasks -> Int], mode \in Modes, NEW t \in Tasks, Return(t)
  PROVE  /\ due' \in [Tasks -> Int] /\ due'[t] > 0
         /\ thread' = "run" /\ UNCHANGED <<mode, awake>>
BY NextDeadline DEF Return

(* A change of the cadence gives every task a deadline.                            *)
LEMMA RebasedTyped ==
  ASSUME due \in [Tasks -> Int], NEW m \in Modes, NEW t \in Tasks
  PROVE  Rebased(m, t) \in [Tasks -> Int]
<1>1. \A u \in Tasks : Phase[u][m] \in Int
  BY WatchdogAssumption
<1>. QED BY <1>1 DEF Rebased

-----------------------------------------------------------------------------
(* The daemon                                                              *)

(* Everything of the daemon's own that has a type.                                 *)
RuntimeTyped ==
  /\ thread \in Threads /\ mode \in Modes /\ due \in [Tasks -> Int]
  /\ shown \in Modes /\ late \subseteq Modes /\ awake \in 0 .. Lease
  /\ tossed \in BOOLEAN /\ tosses \in 0 .. MaxTosses

(* Steps that leave the register, the requests to it and the procedure alone.      *)
HealthQuiet ==
  /\ UNCHANGED <<register, dog, source, signal, asked, pending, standing>>
  /\ broken' \subseteq broken
  /\ lost' \in {lost} \cup {lost + 1} /\ (lost' # lost => lost < MaxLost)
  /\ UNCHANGED crashes

(* A step that is none of the register's changes nothing about it.             *)
LEMMA QuietKeeps ==
  ASSUME HealthInv, HealthQuiet
  PROVE  HealthInv' /\ UNCHANGED <<dog, standing>>
<1>1. lost' \in 0 .. MaxLost
  BY HealthTyped, WatchdogAssumption DEF HealthInv, HealthQuiet
<1>. QED BY <1>1, HealthTyped, HealthTypedNext DEF HealthInv, HealthQuiet, RegisterKeeps

(* The walk of the mode's file, confirmed or not.                                  *)
LEMMA ModeFileTyped ==
  ASSUME RuntimeTyped, NEW m \in Modes, Show(m) \/ ShowFails(m)
  PROVE  /\ shown' \in Modes /\ late' \subseteq Modes
         /\ lost' \in {lost} \cup {lost + 1} /\ (lost' # lost => lost < MaxLost)
BY DEF RuntimeTyped, Show, ShowFails, modeFile

(* The scheduler's own steps.                                                      *)
LEMMA SchedulerKeeps ==
  ASSUME HealthInv, RuntimeTyped, WorkIsGated,
         Scheduler \/ ReviewDone
  PROVE  RuntimeTyped' /\ WorkIsGated' /\ HealthQuiet
<1>1. CASE \E t \in Tasks : Dispatch(t)
  <2>1. PICK t \in Tasks : Dispatch(t)
    BY <1>1
  <2>2. PICK ticks \in 0 .. MaxSlow : Passed(ticks)
    BY <2>1 DEF Dispatch
  <2>3. due' \in [Tasks -> Int] /\ awake' \in 0 .. Lease
    BY <2>2, PassedTyped, WatchdogAssumption DEF RuntimeTyped
  <2>4. thread' \in Threads /\ thread' \notin {"look", "rouse", "process"} /\ thread = "run"
    BY <2>1, WatchdogAssumption DEF Dispatch, Threads
  <2>. QED BY <2>1, <2>3, <2>4
           DEF Dispatch, RuntimeTyped, WorkIsGated, HealthQuiet, healthVars, modeFile, bone
<1>2. CASE Sleep
  BY <1>2 DEF Sleep, RuntimeTyped, WorkIsGated, HealthQuiet, healthVars, modeFile, bone, clock,
              Threads
<1>3. CASE Wakeup \/ ReviewDone
  <2>1. Passed(1) /\ thread' = "run"
        /\ thread \in {"sleep", "review"} /\ (thread = "review" => dog = "rest")
        /\ UNCHANGED <<mode, modeFile, bone, healthVars>>
    BY <1>3 DEF Wakeup, ReviewDone
  <2>2. due' \in [Tasks -> Int] /\ awake' \in 0 .. Lease
    BY <2>1, PassedTyped DEF RuntimeTyped
  <2>. QED BY <2>1, <2>2
           DEF RuntimeTyped, WorkIsGated, HealthQuiet, healthVars, modeFile, bone, Threads
<1>. QED BY <1>1, <1>2, <1>3 DEF Scheduler

(* wake_check: the register is looked at first, and no procedure of it runs until  *)
(* the request is answered.                                                        *)
LEMMA WakeCheckKeeps ==
  ASSUME HealthInv, RuntimeTyped, WorkIsGated, WakeCheck
  PROVE  RuntimeTyped' /\ WorkIsGated' /\ HealthQuiet
<1>. "wake" \in Tasks /\ {"AWAKE", "SNOOZE"} \subseteq Modes
  BY WatchdogAssumption DEF Modes
<1>1. CASE Gate
  <2>1. /\ thread = "wake" /\ UNCHANGED <<modeFile, bone, ReportVars>>
        /\ lost' \in {lost} \cup {lost + 1} /\ (lost' # lost => lost < MaxLost)
        /\ \/ register.state = "CLEAN" /\ thread' = "look" /\ UNCHANGED <<clock, awake>>
           \/ Return("wake")
    BY <1>1 DEF Gate
  <2>2. HealthQuiet
    BY <2>1 DEF HealthQuiet, ReportVars
  <2>3. RuntimeTyped'
    BY <2>1, ReturnTyped DEF RuntimeTyped, clock, modeFile, bone, Threads
  <2>4. WorkIsGated'
    BY <2>1, <2>2, ReturnTyped DEF HealthInv, RegisterKeeps, WorkIsGated, HealthQuiet, RuntimeTyped
  <2>. QED BY <2>2, <2>3, <2>4
<1>2. CASE Look
  <2>1. /\ thread = "look" /\ UNCHANGED <<modeFile, bone, healthVars>>
        /\ \/ thread' = "rouse" /\ awake' = Lease /\ UNCHANGED clock
           \/ Return("wake")
    BY <1>2 DEF Look
  <2>2. HealthQuiet
    BY <2>1 DEF HealthQuiet, healthVars
  <2>3. Lease \in 0 .. Lease
    BY WatchdogAssumption
  <2>4. RuntimeTyped'
    BY <2>1, <2>3, ReturnTyped DEF RuntimeTyped, clock, modeFile, bone, Threads
  <2>5. WorkIsGated'
    BY <2>1, <2>2, ReturnTyped DEF WorkIsGated, HealthQuiet, RuntimeTyped
  <2>. QED BY <2>2, <2>4, <2>5
<1>3. CASE Rouse
  <2>1. /\ thread = "rouse" /\ UNCHANGED <<bone, ReportVars>>
        /\ Show("AWAKE") \/ ShowFails("AWAKE")
        /\ \/ mode' = "AWAKE" /\ due' = Rebased("AWAKE", "wake")
                /\ thread' = "process" /\ UNCHANGED awake
           \/ Return("wake")
    BY <1>3 DEF Rouse
  <2>2. HealthQuiet /\ shown' \in Modes /\ late' \subseteq Modes
    BY <2>1, ModeFileTyped DEF HealthQuiet, ReportVars
  <2>3. RuntimeTyped'
    BY <2>1, <2>2, ReturnTyped, RebasedTyped DEF RuntimeTyped, bone, Threads
  <2>4. WorkIsGated'
    BY <2>1, <2>2, ReturnTyped DEF WorkIsGated, HealthQuiet, RuntimeTyped
  <2>. QED BY <2>2, <2>3, <2>4
<1>4. CASE Process
  <2>1. /\ thread = "process" /\ UNCHANGED <<tosses, modeFile, ReportVars>>
        /\ tossed' \in {tossed, FALSE} /\ Return("wake")
        /\ lost' \in {lost} \cup {lost + 1} /\ (lost' # lost => lost < MaxLost)
    BY <1>4 DEF Process
  <2>2. HealthQuiet
    BY <2>1 DEF HealthQuiet, ReportVars
  <2>3. RuntimeTyped'
    BY <2>1, ReturnTyped DEF RuntimeTyped, modeFile, Threads
  <2>4. WorkIsGated'
    BY <2>1, <2>2, ReturnTyped DEF WorkIsGated, HealthQuiet, RuntimeTyped
  <2>. QED BY <2>2, <2>3, <2>4
<1>. QED BY <1>1, <1>2, <1>3, <1>4 DEF WakeCheck

(* maybe_snooze.                                                                   *)
LEMMA SnoozeCheckKeeps ==
  ASSUME HealthInv, RuntimeTyped, WorkIsGated, SnoozeCheck
  PROVE  RuntimeTyped' /\ WorkIsGated' /\ HealthQuiet
<1>. DEFINE task == "dog-snooze-check"
<1>. task \in Tasks /\ "SNOOZE" \in Modes
  BY WatchdogAssumption DEF Modes
<1>1. /\ thread = task /\ UNCHANGED <<bone, ReportVars>>
      /\ (UNCHANGED <<modeFile, lost>> \/ Show("SNOOZE") \/ ShowFails("SNOOZE"))
      /\ \/ Return(task)
         \/ /\ mode' = "SNOOZE" /\ thread' = "run" /\ UNCHANGED awake
            /\ due' = [Rebased("SNOOZE", task) EXCEPT ![task] = Advanced(task, "SNOOZE")]
  BY DEF SnoozeCheck
<1>2. HealthQuiet /\ shown' \in Modes /\ late' \subseteq Modes
  BY <1>1, ModeFileTyped DEF HealthQuiet, ReportVars, modeFile, RuntimeTyped
<1>3. Advanced(task, "SNOOZE") \in Int
  BY NextDeadline DEF RuntimeTyped
<1>4. due' \in [Tasks -> Int] /\ mode' \in Modes /\ thread' = "run" /\ awake' = awake
  <2>1. CASE Return(task)
    BY <2>1, ReturnTyped DEF RuntimeTyped
  <2>2. CASE due' = [Rebased("SNOOZE", task) EXCEPT ![task] = Advanced(task, "SNOOZE")]
              /\ mode' = "SNOOZE" /\ thread' = "run" /\ UNCHANGED awake
    BY <2>2, <1>3, RebasedTyped DEF RuntimeTyped
  <2>. QED BY <1>1, <2>1, <2>2
<1>. QED BY <1>1, <1>2, <1>4 DEF RuntimeTyped, WorkIsGated, HealthQuiet, bone, Threads

(* The steps of Health that this thread takes: into a procedure, and within it.    *)
LEMMA ProcedureKeeps ==
  ASSUME HealthInv, RuntimeTyped, WorkIsGated,
         HealthStep \/ StartReview \/ (Audit /\ TreeFault \in broken)
  PROVE  HealthInv' /\ RuntimeTyped' /\ WorkIsGated'
<1>1. CASE HealthStep
  <2>1. HealthInv'
    BY <1>1, RaiseKeeps, RecordKeeps, LowerKeeps, DecisionKeeps DEF HealthStep
  <2>. QED BY <1>1, <2>1
           DEF HealthStep, RuntimeTyped, WorkIsGated, clock, modeFile, bone
<1>2. CASE StartReview
  <2>1. HealthInv'
    BY <1>2, DecisionKeeps DEF StartReview
  <2>. QED BY <1>2, <2>1
           DEF StartReview, RuntimeTyped, WorkIsGated, clock, modeFile, bone, Threads
<1>3. CASE Audit /\ TreeFault \in broken
  <2>1. Health!Report(TreeFault) /\ thread' = "report"
        /\ UNCHANGED <<clock, awake, modeFile, bone>>
    BY <1>3 DEF Audit
  <2>2. HealthInv'
    BY <2>1, DecisionKeeps, WatchdogAssumption
  <2>. QED BY <2>1, <2>2 DEF RuntimeTyped, WorkIsGated, clock, modeFile, bone, Threads
<1>. QED BY <1>1, <1>2, <1>3

(* An audit that finds nothing, and one whose report is over.                      *)
LEMMA AuditKeeps ==
  ASSUME HealthInv, RuntimeTyped, WorkIsGated,
         AuditReported \/ (Audit /\ TreeFault \notin broken)
  PROVE  RuntimeTyped' /\ WorkIsGated' /\ HealthQuiet
<1>1. "tree-audit" \in Tasks
  BY WatchdogAssumption
<1>2. /\ Return("tree-audit") /\ UNCHANGED <<modeFile, bone, healthVars>>
      /\ thread = "tree-audit" \/ (thread = "report" /\ dog = "rest")
  BY DEF AuditReported, Audit
<1>. QED BY <1>1, <1>2, ReturnTyped
         DEF RuntimeTyped, WorkIsGated, HealthQuiet, healthVars, modeFile, bone, Threads

(* The service starts.                                                             *)
LEMMA StartKeeps ==
  ASSUME HealthInv, RuntimeTyped, WorkIsGated, Start
  PROVE  RuntimeTyped' /\ WorkIsGated' /\ HealthQuiet
<1>1. "SNOOZE" \in Modes /\ \A t \in Tasks : Phase[t]["SNOOZE"] \in Int
  BY WatchdogAssumption DEF Modes
<1>2. /\ thread = "start" /\ thread' \in {"start", "run"}
      /\ RepairTree /\ Register
      /\ Show("SNOOZE") \/ PublishTagFails \/ ShowFails("SNOOZE")
      /\ UNCHANGED <<awake, bone, register, dog, source, signal, asked, pending, standing, crashes>>
  BY DEF Start
<1>3. /\ shown' \in Modes /\ late' \subseteq Modes
      /\ lost' \in {lost} \cup {lost + 1} /\ (lost' # lost => lost < MaxLost)
  BY <1>1, <1>2, ModeFileTyped DEF PublishTagFails, modeFile, RuntimeTyped
<1>4. due' \in [Tasks -> Int] /\ mode' \in Modes
  BY <1>1, <1>2 DEF Register
<1>5. HealthQuiet
  BY <1>2, <1>3 DEF HealthQuiet, RepairTree
<1>. QED BY <1>2, <1>3, <1>4, <1>5 DEF RuntimeTyped, WorkIsGated, HealthQuiet, bone, Threads

(* A crash leaves every procedure where it stood, and its thread at the start.     *)
LEMMA CrashKeeps ==
  ASSUME HealthInv, RuntimeTyped, WorkIsGated, Crash
  PROVE  HealthInv' /\ RuntimeTyped' /\ WorkIsGated'
<1>1. crashes' \in 0 .. MaxCrashes /\ 0 \in 0 .. Lease
  BY HealthTyped, WatchdogAssumption DEF HealthInv, Crash
<1>2. Health!TypeOK'
  BY <1>1, HealthTyped, HealthTypedNext DEF HealthInv, Crash, Health!DogStage
<1>. QED BY <1>1, <1>2
         DEF HealthInv, RegisterKeeps, Crash, RuntimeTyped, WorkIsGated, clock, modeFile, bone,
             Threads

(* What COACH, the provider and the world do leaves the thread where it is.        *)
LEMMA OthersKeep ==
  ASSUME HealthInv, RuntimeTyped, WorkIsGated, LandMode \/ Toss \/ World
  PROVE  HealthInv' /\ RuntimeTyped' /\ WorkIsGated'
<1>1. CASE LandMode
  <2>1. HealthQuiet
    BY <1>1 DEF LandMode, healthVars, HealthQuiet
  <2>. QED BY <1>1, <2>1, QuietKeeps
           DEF LandMode, healthVars, RuntimeTyped, WorkIsGated, clock, bone
<1>2. CASE Toss
  <2>1. HealthQuiet
    BY <1>2 DEF Toss, healthVars, HealthQuiet
  <2>2. tosses' \in 0 .. MaxTosses
    BY <1>2, WatchdogAssumption DEF Toss, RuntimeTyped
  <2>. QED BY <1>2, <2>1, <2>2, QuietKeeps
           DEF Toss, healthVars, RuntimeTyped, WorkIsGated, clock, modeFile
<1>3. CASE World
  <2>1. HealthInv' /\ dog' = dog /\ standing' = standing
    BY <1>3, WorldKeeps DEF World
  <2>. QED BY <1>3, <2>1 DEF World, RuntimeTyped, WorkIsGated, clock, modeFile, bone
<1>. QED BY <1>1, <1>2, <1>3

(* Every step of the daemon, its register and its world.                           *)
LEMMA RuntimeStep ==
  ASSUME HealthInv, RuntimeTyped, WorkIsGated, [RuntimeNext]_runtimeVars
  PROVE  HealthInv' /\ RuntimeTyped' /\ WorkIsGated'
<1>1. CASE Scheduler \/ ReviewDone
  BY <1>1, SchedulerKeeps, QuietKeeps
<1>2. CASE WakeCheck
  BY <1>2, WakeCheckKeeps, QuietKeeps
<1>3. CASE SnoozeCheck
  BY <1>3, SnoozeCheckKeeps, QuietKeeps
<1>4. CASE AuditTask
  BY <1>4, AuditKeeps, ProcedureKeeps, QuietKeeps DEF AuditTask
<1>5. CASE Start
  BY <1>5, StartKeeps, QuietKeeps
<1>6. CASE HealthStep \/ StartReview
  BY <1>6, ProcedureKeeps
<1>7. CASE Crash
  BY <1>7, CrashKeeps
<1>8. CASE LandMode \/ Toss \/ World
  BY <1>8, OthersKeep
<1>9. CASE UNCHANGED runtimeVars
  <2>1. HealthQuiet
    BY <1>9 DEF runtimeVars, healthVars, HealthQuiet
  <2>. QED BY <1>9, <2>1, QuietKeeps
           DEF runtimeVars, healthVars, RuntimeTyped, WorkIsGated, clock, modeFile, bone
<1>. QED BY <1>1, <1>2, <1>3, <1>4, <1>5, <1>6, <1>7, <1>8, <1>9 DEF RuntimeNext, Thread

(* The service starts with a clean register and nothing on its way to it.          *)
LEMMA RuntimeStart ==
  ASSUME RuntimeInit
  PROVE  HealthInv /\ RuntimeTyped /\ WorkIsGated
<1>1. \A t \in Tasks : Phase[t]["SNOOZE"] \in Int
  BY WatchdogAssumption DEF Modes
<1>2. 0 \in 0 .. Lease /\ 0 \in 0 .. MaxTosses /\ 0 \in 0 .. MaxCrashes /\ 0 \in 0 .. MaxLost
  BY WatchdogAssumption
<1>3. Health!Init
  BY DEF RuntimeInit
<1>4. Health!TypeOK
  BY <1>2, <1>3, HealthTyped DEF Health!Init, FaultState, Health!DogStage
<1>5. RegisterKeeps
  BY <1>3 DEF Health!Init, RegisterKeeps
<1>6. RuntimeTyped
  BY <1>1, <1>2 DEF RuntimeInit, RuntimeTyped, Threads, Modes
<1>7. WorkIsGated
  BY <1>3 DEF RuntimeInit, Health!Init, WorkIsGated
<1>. QED BY <1>4, <1>5, <1>6, <1>7 DEF HealthInv

(* Always.                                                                         *)
LEMMA RuntimeAlways == RuntimeSpec => [](HealthInv /\ RuntimeTyped /\ WorkIsGated)
<1>. DEFINE Kept == HealthInv /\ RuntimeTyped /\ WorkIsGated
<1>1. RuntimeInit => Kept
  BY RuntimeStart
<1>2. Kept /\ [RuntimeNext]_runtimeVars => Kept'
  BY RuntimeStep
<1>. QED BY <1>1, <1>2, PTL DEF RuntimeSpec

(* Deadlines, lease, names and the register stay what they are meant to be.        *)
THEOREM RuntimeTypeOK == RuntimeSpec => []TypeOK
<1>1. HealthInv /\ RuntimeTyped /\ WorkIsGated => TypeOK
  BY DEF HealthInv, RuntimeTyped, TypeOK
<1>. QED BY <1>1, RuntimeAlways, PTL

(* A fault that was reported keeps the register from CLEAN until a check of it has *)
(* passed, in the daemon that drives the register, whatever is on its way          *)
(* (health.py:145-220).                                                            *)
THEOREM RegisterHolds == AtomicPrecondition => (RuntimeSpec => []StandingFaultBlocks)
<1>. SUFFICES ASSUME AtomicPrecondition PROVE RuntimeSpec => []StandingFaultBlocks
  OBVIOUS
<1>1. HealthInv /\ RuntimeTyped /\ WorkIsGated => StandingFaultBlocks
  BY DEF HealthInv, RegisterKeeps, StandingFaultBlocks, Health!StandingFaultBlocks
<1>. QED BY <1>1, RuntimeAlways, PTL

(* No wake request is taken to COACH while a reported fault stands, although the   *)
(* register is read once and the mode, WAKE_BONE and the request come several      *)
(* requests later: the one thread reports nothing in between (runtime.py:517-525). *)
THEOREM NoWorkPastAFault == AtomicPrecondition => (RuntimeSpec => BlockedMeansNoWork)
<1>. DEFINE Kept == HealthInv /\ RuntimeTyped /\ WorkIsGated
<1>1. ASSUME AtomicPrecondition, Kept, [RuntimeNext]_runtimeVars PROVE tossed /\ ~tossed' => ~standing
  <2>1. SUFFICES ASSUME tossed, ~tossed' PROVE ~standing
    OBVIOUS
  <2>2. CASE Process
    BY <1>1, <2>2 DEF Process, WorkIsGated
  <2>3. CASE ~Process
    <3>1. UNCHANGED tossed \/ tossed'
      BY <1>1, <2>3 DEF RuntimeNext, Thread, Scheduler, WakeCheck, AuditTask, Start, Dispatch, Sleep,
            Wakeup, Gate, Look, Rouse, SnoozeCheck, Audit, AuditReported, ReviewDone,
            HealthStep, StartReview, Crash, LandMode, Toss, World, runtimeVars, bone
    <3>. QED BY <2>1, <3>1
  <2>. QED BY <2>2, <2>3
<1>. SUFFICES ASSUME AtomicPrecondition PROVE RuntimeSpec => BlockedMeansNoWork
  OBVIOUS
<1>2. Kept /\ [RuntimeNext]_runtimeVars => [tossed /\ ~tossed' => ~standing]_runtimeVars
  BY <1>1
<1>. QED BY <1>2, RuntimeAlways, PTL DEF RuntimeSpec, BlockedMeansNoWork

(* A callback that is over is not due again at once, however long it took and      *)
(* whatever it made of the cadence: missed intervals are skipped, never replayed   *)
(* as a burst (scheduler.py:141-142, _advance_deadline).                           *)
THEOREM MissedIntervalsAreSkipped == RuntimeSpec => NoBurst
<1>. DEFINE Kept == HealthInv /\ RuntimeTyped /\ WorkIsGated
            Waits == \A t \in Tasks : Running(t) /\ thread' = "run" => due'[t] > 0
<1>1. ASSUME Kept, RuntimeNext PROVE Waits
  <2>. SUFFICES ASSUME NEW t \in Tasks, Running(t), thread' = "run" PROVE due'[t] > 0
    OBVIOUS
  <2>. {"wake", "dog-snooze-check", "tree-audit"} = Tasks /\ "SNOOZE" \in Modes
    BY WatchdogAssumption DEF Modes
  <2>1. \/ t = "wake" /\ thread \in {"wake", "look", "rouse", "process"}
        \/ t = "tree-audit" /\ thread \in {"tree-audit", "report"}
        \/ t = "dog-snooze-check" /\ thread = "dog-snooze-check"
    BY DEF Running
  <2>2. CASE t = "wake"
    <3>1. Return("wake")
      BY <1>1, <2>1, <2>2 DEF RuntimeNext, Thread, Scheduler, WakeCheck, AuditTask, Start, Dispatch, Sleep,
            Wakeup, Gate, Look, Rouse, Process, SnoozeCheck, Audit, AuditReported, ReviewDone,
            HealthStep, StartReview, Crash, LandMode, Toss, World, runtimeVars
    <3>. QED BY <1>1, <2>2, <3>1, ReturnTyped DEF RuntimeTyped
  <2>3. CASE t = "tree-audit"
    <3>1. Return("tree-audit")
      BY <1>1, <2>1, <2>3 DEF RuntimeNext, Thread, Scheduler, WakeCheck, AuditTask, Start, Dispatch, Sleep,
            Wakeup, Gate, Look, Rouse, Process, SnoozeCheck, Audit, AuditReported, ReviewDone,
            HealthStep, StartReview, Crash, LandMode, Toss, World, runtimeVars
    <3>. QED BY <1>1, <2>3, <3>1, ReturnTyped DEF RuntimeTyped
  <2>4. CASE t = "dog-snooze-check"
    <3>1. SnoozeCheck
      BY <1>1, <2>1, <2>4 DEF RuntimeNext, Thread, Scheduler, WakeCheck, AuditTask, Start, Dispatch, Sleep,
            Wakeup, Gate, Look, Rouse, Process, Audit, AuditReported, ReviewDone,
            HealthStep, StartReview, Crash, LandMode, Toss, World, runtimeVars
    <3>2. CASE Return("dog-snooze-check")
      BY <1>1, <2>4, <3>2, ReturnTyped DEF RuntimeTyped
    <3>3. CASE due' = [Rebased("SNOOZE", "dog-snooze-check") EXCEPT
                         !["dog-snooze-check"] = Advanced("dog-snooze-check", "SNOOZE")]
      BY <1>1, <2>4, <3>3, NextDeadline, RebasedTyped DEF RuntimeTyped
    <3>. QED BY <3>1, <3>2, <3>3 DEF SnoozeCheck
  <2>. QED BY <2>1, <2>2, <2>3, <2>4
<1>2. Kept /\ [RuntimeNext]_runtimeVars => [Waits]_runtimeVars
  BY <1>1
<1>. QED BY <1>2, RuntimeAlways, PTL DEF RuntimeSpec, NoBurst
==============================================================================
