---------------------------- MODULE FetchBall_proofs ----------------------------
(***************************************************************************)
(* Proofs about the work channel, for any number of generations, deaths    *)
(* and lost answers, of a provider that applies a late request only to the *)
(* version it was sent against (AtomicPrecondition; without it the         *)
(* properties fail, see the runs).                                         *)
(***************************************************************************)
EXTENDS FetchBall, TLAPS

Current == ball.body.generation
Idle == /\ ball.body.operation = NoOperation
        /\ ~ball.body.started /\ ball.body.result = NoResult
Busy == ball.body.operation = Current /\ Current >= 1
Fresh == Busy /\ ~ball.body.started /\ ball.body.result = NoResult

(* The body in each state, as far as COACH has come with it.                   *)
Shape ==
  /\ ball.state = "READY" => Idle
  /\ ball.state = "LOADING" =>
       \/ coach = "publish" /\ Idle /\ Current < MaxGeneration
       \/ coach = "toss" /\ Fresh
  /\ ball.state = "RECYCLING" =>
       \/ coach = "clear" /\ Busy /\ ball.body.started
       \/ coach = "free" /\ Idle
  /\ ball.state = "TOSS" => Fresh
  /\ ball.state = "CHEW" => Busy /\ ball.body.result = NoResult
  /\ ball.state = "RETURNING" =>
       Busy /\ ball.body.started /\ ball.body.result \in ResultStates \cup {NoResult}
  /\ ball.state \in ResultStates =>
       Busy /\ ball.body.started /\ ball.body.result = ball.state
  /\ ball.state = "GONE" =>
       Busy /\ ball.body.started /\ ball.body.result \in {NoResult, "GONE"}

(* A generation whose start is on record, or that has been recycled since.      *)
Started(g) ==
  \/ g < Current
  \/ g = Current /\ (ball.body.started \/ ball.body.operation = NoOperation)

(* ... and that has left CHEW.                                                   *)
Returned(g) ==
  \/ g < Current
  \/ g = Current /\ (ball.body.operation = NoOperation
                     \/ ball.state \notin {"LOADING", "TOSS", "CHEW"})

Executions ==
  /\ \A g \in Generations : executions[g] <= 1 /\ (g > Current => executions[g] = 0)
  /\ (ball.body.operation # NoOperation /\ ~ball.body.started) => executions[Current] = 0
  /\ ball.state \in ResultStates \cup {"RETURNING"} => executions[Current] = 1

Heard == ball.state = "GONE" => Current \in heardLost

(* What the FETCHER knows of its job.                                            *)
Executing ==
  /\ fetcher \in {"claim", "start", "execute", "running", "return", "store", "publish"} =>
       job >= 1 /\ job <= Current
  /\ fetcher \in {"claim", "start", "execute"} => executions[job] = 0
  /\ fetcher \in {"running", "return", "store", "publish"} => executions[job] = 1
  /\ fetcher \in {"execute", "running", "return", "store", "publish"} => Started(job)
  /\ fetcher \in {"return", "store", "publish"} => verdict \in ResultStates
  /\ fetcher = "publish" =>
       /\ Returned(job)
       /\ Owned("RETURNING", job) => ball.body.result = verdict

(* What the reaper knows of its victim.                                          *)
Reaping ==
  /\ reaper \in {"listen", "reap", "bury"} => Started(victim)
  /\ reaper = "reap" => victim \in heardLost \/ Returned(victim)

(* A request on its way was owned by its sender when it was sent.                *)
LateRename(late, from, to) ==
  late.request = [from |-> from, state |-> to] /\ late.against.state = from
LateBody(late, from, body) ==
  late.request = [from |-> from, body |-> body] /\ late.against.state = from

Late(late) ==
  LET g == late.against.body.generation IN
  /\ late = [request |-> late.request, against |-> late.against]
  /\ late.against \in Ball /\ late.against.body.operation = g /\ 1 <= g /\ g <= Current
  /\ \/ LateRename(late, "TOSS", "CHEW")
     \/ LateBody(late, "CHEW", JobBody(g, TRUE, NoResult))
     \/ /\ LateRename(late, "CHEW", "RETURNING")
        /\ late.against.body.started /\ executions[g] = 1
        /\ fetcher = "running" => job # g
     \/ \E v \in ResultStates :
          /\ LateBody(late, "RETURNING", JobBody(g, TRUE, v))
          /\ executions[g] = 1
          /\ fetcher \in {"running", "return"} => job # g
          /\ fetcher \in {"store", "publish"} /\ job = g => v = verdict
     \/ /\ LateRename(late, "RETURNING", late.against.body.result)
        /\ late.against.body.result \in ResultStates
     \/ /\ LateRename(late, "CHEW", "GONE")
        /\ late.against.body.started /\ g \in heardLost
     \/ LateBody(late, "GONE", JobBody(g, TRUE, "GONE"))

Mail == \A late \in pending : Late(late)

Channel == TypeOK /\ Shape /\ Executions /\ Heard
Inv == Channel /\ Executing /\ Reaping /\ Mail

-----------------------------------------------------------------------------
(* The registry's moves of a FETCH_BALL that the channel makes.                  *)
Moves ==
  {<<"READY", "LOADING">>, <<"LOADING", "TOSS">>, <<"RECYCLING", "READY">>,
   <<"TOSS", "CHEW">>, <<"CHEW", "RETURNING">>, <<"CHEW", "GONE">>}
    \cup ({"RETURNING"} \X ResultStates)
    \cup ((ResultStates \cup {"GONE"}) \X {"RECYCLING"})

(* A move of the channel joins the ends of an edge the registry lists.           *)
LEMMA MovesAreEdges ==
  ASSUME NEW m \in Moves
  PROVE  \E edge \in Edges("FETCH_BALL") : edge[1] = m[1] /\ edge[2] = m[2]
<1>1. Edges("FETCH_BALL") =
         CoachEdges("TOSS", Terminal("FETCH_BALL"))
           \cup {<<"TOSS", "CHEW", Fetcher>>, <<"TOSS", "RETURNING", Watchdog>>,
                 <<"CHEW", "RETURNING", Fetcher>>, <<"CHEW", "GONE", Watchdog>>,
                 <<"RETURNING", "FAILED", Watchdog>>}
           \cup {<<"RETURNING", t, Fetcher>> : t \in ResultStates}
  BY DEF Edges
<1>2. Terminal("FETCH_BALL") = ResultStates \cup {"GONE"}
  BY DEF Terminal
<1>3. CASE m \in {"RETURNING"} \X ResultStates
  <2>1. <<"RETURNING", m[2], Fetcher>> \in Edges("FETCH_BALL")
    BY <1>1, <1>3
  <2>. QED BY <2>1, <1>3
<1>4. CASE m \in (ResultStates \cup {"GONE"}) \X {"RECYCLING"}
  <2>1. <<m[1], "RECYCLING", Coach>> \in Edges("FETCH_BALL")
    BY <1>1, <1>2, <1>4 DEF CoachEdges
  <2>. QED BY <2>1, <1>4
<1>5. CASE m \in {<<"READY", "LOADING">>, <<"LOADING", "TOSS">>, <<"RECYCLING", "READY">>}
  <2>1. <<m[1], m[2], Coach>> \in Edges("FETCH_BALL")
    BY <1>1, <1>5 DEF CoachEdges
  <2>. QED BY <2>1
<1>6. CASE m \in {<<"TOSS", "CHEW">>, <<"CHEW", "RETURNING">>}
  <2>1. <<m[1], m[2], Fetcher>> \in Edges("FETCH_BALL")
    BY <1>1, <1>6
  <2>. QED BY <2>1
<1>7. CASE m = <<"CHEW", "GONE">>
  <2>1. <<m[1], m[2], Watchdog>> \in Edges("FETCH_BALL")
    BY <1>1, <1>7
  <2>. QED BY <2>1
<1>. QED BY <1>3, <1>4, <1>5, <1>6, <1>7 DEF Moves

(* Every state the channel's steps name is a state of the registry.              *)
LEMMA StatesNamed ==
  {"READY", "LOADING", "TOSS", "CHEW", "RETURNING", "GONE", "RECYCLING"} \cup ResultStates
    \subseteq States("FETCH_BALL")
<1>1. ASSUME NEW m \in Moves PROVE m[1] \in States("FETCH_BALL") /\ m[2] \in States("FETCH_BALL")
  BY MovesAreEdges DEF States
<1>2. <<"READY", "LOADING">> \in Moves /\ <<"TOSS", "CHEW">> \in Moves
      /\ <<"CHEW", "RETURNING">> \in Moves /\ <<"GONE", "RECYCLING">> \in Moves
  BY DEF Moves
<1>3. \A t \in ResultStates : <<"RETURNING", t>> \in Moves
  BY DEF Moves
<1>4. \A t \in ResultStates : t \in States("FETCH_BALL")
  BY <1>1, <1>3
<1>. QED BY <1>1, <1>2, <1>4

-----------------------------------------------------------------------------
(* What the channel's effects have in common: the body stays one of its kind,    *)
(* the generation never falls, and a job that is started or has returned stays   *)
(* so.                                                                           *)
Advance ==
  /\ ball' \in Ball /\ Current <= Current'
  /\ \A g \in Generations : (Started(g) => Started(g)') /\ (Returned(g) => Returned(g)')

Effect == Shape' /\ Executions' /\ Heard' /\ Advance

Renamed(from, to) == ball.state = from /\ ball' = [ball EXCEPT !.state = to]
Rewritten(state, body) == ball.state = state /\ ball' = [ball EXCEPT !.body = body]

(* A rename replaces the state and nothing else.                                 *)
LEMMA RenameFields ==
  ASSUME TypeOK, NEW from, NEW to \in States("FETCH_BALL"), Renamed(from, to)
  PROVE  /\ ball' \in Ball /\ ball'.state = to /\ ball'.body = ball.body
         /\ Current' = Current /\ Current \in Generations
BY DEF TypeOK, Ball, Body, Renamed, Current

(* A body write replaces the body and nothing else.                              *)
LEMMA RewriteFields ==
  ASSUME TypeOK, NEW state, NEW body \in Body, Rewritten(state, body)
  PROVE  /\ ball' \in Ball /\ ball'.state = ball.state /\ ball'.body = body
         /\ Current' = body.generation /\ Current \in Generations
BY DEF TypeOK, Ball, Rewritten, Current, Body

(* The body of a job, field by field.                                            *)
LEMMA JobBodyFields ==
  ASSUME NEW g \in Generations, NEW started \in BOOLEAN, NEW result \in Result
  PROVE  /\ JobBody(g, started, result) \in Body
         /\ JobBody(g, started, result).generation = g
         /\ JobBody(g, started, result).operation = g
         /\ JobBody(g, started, result).started = started
         /\ JobBody(g, started, result).result = result
BY DEF JobBody, Body

(* The body of a job whose start is on record, field by field.                   *)
LEMMA StartedBodyFields ==
  ASSUME NEW g \in Generations, NEW result \in Result
  PROVE  /\ JobBody(g, TRUE, result) \in Body
         /\ JobBody(g, TRUE, result).generation = g
         /\ JobBody(g, TRUE, result).operation = g
         /\ JobBody(g, TRUE, result).started
         /\ JobBody(g, TRUE, result).result = result
BY DEF JobBody, Body

(* The body of an idle channel, field by field.                                  *)
LEMMA IdleBodyFields ==
  ASSUME NEW g \in Generations
  PROVE  /\ IdleBody(g) \in Body
         /\ IdleBody(g).generation = g
         /\ IdleBody(g).operation = NoOperation
         /\ ~IdleBody(g).started
         /\ IdleBody(g).result = NoResult
BY ChannelAssumption DEF IdleBody, Body, Generations, NoOperation, Result

(* A tossed job is claimed.                                                      *)
LEMMA ClaimEffect ==
  ASSUME Channel, Renamed("TOSS", "CHEW"), UNCHANGED <<coach, executions, heardLost>>
  PROVE  Effect
<1>1. "CHEW" \in States("FETCH_BALL") /\ ball.state = "TOSS"
  BY StatesNamed DEF Renamed
<1>2. /\ ball' \in Ball /\ ball'.state = "CHEW" /\ ball'.body = ball.body
      /\ Current' = Current /\ Current \in Generations
  BY <1>1, RenameFields DEF Channel
<1>3. Shape'
  BY <1>1, <1>2 DEF Channel, Shape, Busy, Fresh, ResultStates
<1>4. Executions' /\ Heard'
  BY <1>1, <1>2 DEF Channel, Executions, Heard, ResultStates
<1>5. Advance
  BY <1>1, <1>2 DEF Advance, Started, Returned, Current, Generations
<1>. QED BY <1>3, <1>4, <1>5 DEF Effect

(* The start of a claimed job is recorded.                                       *)
LEMMA StartEffect ==
  ASSUME Channel, Rewritten("CHEW", JobBody(Current, TRUE, NoResult)),
         UNCHANGED <<coach, executions, heardLost>>
  PROVE  Effect
<1>. DEFINE body == JobBody(Current, TRUE, NoResult)
<1>1. Current \in Generations /\ ball.state = "CHEW" /\ NoResult \in Result
  BY DEF Channel, TypeOK, Ball, Body, Current, Rewritten, Result
<1>2. /\ body \in Body /\ body.generation = Current /\ body.operation = Current
      /\ body.started /\ body.result = NoResult
  BY <1>1, StartedBodyFields
<1>. HIDE DEF body
<1>3. /\ ball' \in Ball /\ ball'.state = "CHEW" /\ ball'.body = body /\ Current' = Current
  BY <1>1, <1>2, RewriteFields DEF Channel, body
<1>4. Shape'
  BY <1>1, <1>2, <1>3 DEF Channel, Shape, Busy, ResultStates, Current
<1>5. Executions' /\ Heard'
  BY <1>1, <1>2, <1>3 DEF Channel, Executions, Heard, ResultStates
<1>6. ball.body.operation # NoOperation
  BY <1>1 DEF Channel, Shape, Busy, NoOperation
<1>7. Advance
  BY <1>1, <1>2, <1>3, <1>6 DEF Advance, Started, Returned, Current, Generations
<1>. QED BY <1>4, <1>5, <1>7 DEF Effect

(* An executed job is returned.                                                  *)
LEMMA ReturnEffect ==
  ASSUME Channel, Renamed("CHEW", "RETURNING"), ball.body.started, executions[Current] = 1,
         UNCHANGED <<coach, executions, heardLost>>
  PROVE  Effect
<1>1. "RETURNING" \in States("FETCH_BALL") /\ ball.state = "CHEW"
  BY StatesNamed DEF Renamed
<1>2. /\ ball' \in Ball /\ ball'.state = "RETURNING" /\ ball'.body = ball.body
      /\ Current' = Current /\ Current \in Generations
  BY <1>1, RenameFields DEF Channel
<1>3. Shape'
  BY <1>1, <1>2 DEF Channel, Shape, Busy, ResultStates
<1>4. Executions' /\ Heard'
  BY <1>1, <1>2 DEF Channel, Executions, Heard, ResultStates
<1>5. Advance
  BY <1>1, <1>2 DEF Advance, Started, Returned, Current, Generations
<1>. QED BY <1>3, <1>4, <1>5 DEF Effect

(* The verdict of a returned job is stored.                                      *)
LEMMA StoreEffect ==
  ASSUME Channel, NEW v \in ResultStates, Rewritten("RETURNING", JobBody(Current, TRUE, v)),
         UNCHANGED <<coach, executions, heardLost>>
  PROVE  Effect /\ ball'.body.result = v /\ ball'.state = "RETURNING" /\ Current' = Current
<1>. DEFINE body == JobBody(Current, TRUE, v)
<1>1. Current \in Generations /\ ball.state = "RETURNING" /\ v \in Result
  BY DEF Channel, TypeOK, Ball, Body, Current, Rewritten, Result
<1>2. /\ body \in Body /\ body.generation = Current /\ body.operation = Current
      /\ body.started /\ body.result = v
  BY <1>1, StartedBodyFields
<1>. HIDE DEF body
<1>3. /\ ball' \in Ball /\ ball'.state = "RETURNING" /\ ball'.body = body /\ Current' = Current
  BY <1>1, <1>2, RewriteFields DEF Channel, body
<1>4. Shape'
  BY <1>1, <1>2, <1>3 DEF Channel, Shape, Busy, ResultStates, Current
<1>5. Executions' /\ Heard'
  BY <1>1, <1>2, <1>3 DEF Channel, Executions, Heard, ResultStates
<1>6. Advance
  BY <1>1, <1>2, <1>3 DEF Advance, Started, Returned, Current, Generations
<1>. QED BY <1>2, <1>3, <1>4, <1>5, <1>6 DEF Effect

(* A stored verdict is published.                                                *)
LEMMA PublishEffect ==
  ASSUME Channel, Renamed("RETURNING", ball.body.result), ball.body.result \in ResultStates,
         UNCHANGED <<coach, executions, heardLost>>
  PROVE  Effect
<1>1. ball.body.result \in States("FETCH_BALL") /\ ball.state = "RETURNING"
  BY StatesNamed DEF Renamed
<1>2. /\ ball' \in Ball /\ ball'.state = ball.body.result /\ ball'.body = ball.body
      /\ Current' = Current /\ Current \in Generations
  BY <1>1, RenameFields DEF Channel
<1>3. Shape'
  BY <1>1, <1>2 DEF Channel, Shape, Busy, ResultStates
<1>4. Executions' /\ Heard'
  BY <1>1, <1>2 DEF Channel, Executions, Heard, ResultStates
<1>5. Advance
  BY <1>1, <1>2 DEF Advance, Started, Returned, Current, Generations, ResultStates
<1>. QED BY <1>3, <1>4, <1>5 DEF Effect

(* A job that was heard lost is given up.                                        *)
LEMMA ReapEffect ==
  ASSUME Channel, Renamed("CHEW", "GONE"), ball.body.started, Current \in heardLost,
         UNCHANGED <<coach, executions, heardLost>>
  PROVE  Effect
<1>1. "GONE" \in States("FETCH_BALL") /\ ball.state = "CHEW"
  BY StatesNamed DEF Renamed
<1>2. /\ ball' \in Ball /\ ball'.state = "GONE" /\ ball'.body = ball.body
      /\ Current' = Current /\ Current \in Generations
  BY <1>1, RenameFields DEF Channel
<1>3. Shape'
  BY <1>1, <1>2 DEF Channel, Shape, Busy, ResultStates
<1>4. Executions' /\ Heard'
  BY <1>1, <1>2 DEF Channel, Executions, Heard, ResultStates
<1>5. Advance
  BY <1>1, <1>2 DEF Advance, Started, Returned, Current, Generations
<1>. QED BY <1>3, <1>4, <1>5 DEF Effect

(* The body of a job that was given up says so.                                  *)
LEMMA BuryEffect ==
  ASSUME Channel, Rewritten("GONE", JobBody(Current, TRUE, "GONE")),
         UNCHANGED <<coach, executions, heardLost>>
  PROVE  Effect
<1>. DEFINE body == JobBody(Current, TRUE, "GONE")
<1>1. Current \in Generations /\ ball.state = "GONE" /\ "GONE" \in Result
  BY DEF Channel, TypeOK, Ball, Body, Current, Rewritten, Result
<1>2. /\ body \in Body /\ body.generation = Current /\ body.operation = Current
      /\ body.started /\ body.result = "GONE"
  BY <1>1, StartedBodyFields
<1>. HIDE DEF body
<1>3. /\ ball' \in Ball /\ ball'.state = "GONE" /\ ball'.body = body /\ Current' = Current
  BY <1>1, <1>2, RewriteFields DEF Channel, body
<1>4. Shape'
  BY <1>1, <1>2, <1>3 DEF Channel, Shape, Busy, ResultStates, Current
<1>5. Executions' /\ Heard'
  BY <1>1, <1>2, <1>3 DEF Channel, Executions, Heard, ResultStates
<1>6. Advance
  BY <1>1, <1>2, <1>3 DEF Advance, Started, Returned, Current, Generations
<1>. QED BY <1>4, <1>5, <1>6 DEF Effect

(* A returned or recovered channel is consumed, cleared and freed; a free one is  *)
(* reserved, written and tossed: COACH's six steps.                              *)
LEMMA CoachEffect ==
  ASSUME Channel, CoachStep
  PROVE  Effect
<1>. USE DEF Channel
<1>1. Current \in Generations /\ coach' \in CoachStage /\ UNCHANGED <<executions, heardLost>>
  BY DEF CoachStep, Reserve, WriteJob, Toss, Consume, Clear, Free, OfCoach, reaperVars,
         TypeOK, Ball, Body, Current, CoachStage
<1>2. CASE Reserve
  <2>1. Renamed("READY", "LOADING") /\ coach' = "publish" /\ Current < MaxGeneration
    BY <1>2 DEF Reserve, CoachWalks, Renamed, Current
  <2>2. /\ ball' \in Ball /\ ball'.state = "LOADING" /\ ball'.body = ball.body
        /\ Current' = Current /\ ball.state = "READY"
    BY <2>1, StatesNamed, RenameFields DEF Renamed
  <2>3. Shape'
    BY <1>1, <2>1, <2>2 DEF Shape, Idle, ResultStates
  <2>4. Executions' /\ Heard'
    BY <1>1, <2>2 DEF Executions, Heard, ResultStates
  <2>5. Idle
    BY <2>2 DEF Shape
  <2>6. Advance
    BY <1>1, <2>2, <2>5 DEF Advance, Started, Returned, Current, Generations, Idle
  <2>. QED BY <2>3, <2>4, <2>6 DEF Effect
<1>3. CASE WriteJob
  <2>. DEFINE body == JobBody(Current + 1, FALSE, NoResult)
  <2>1. Rewritten("LOADING", body) /\ coach' = "toss" /\ Idle /\ Current < MaxGeneration
    BY <1>3 DEF WriteJob, Rewritten, Shape, Current
  <2>2. Current + 1 \in Generations /\ Current + 1 >= 1
    BY <1>1, <2>1, ChannelAssumption DEF Generations
  <2>3. /\ body \in Body /\ body.generation = Current + 1 /\ body.operation = Current + 1
        /\ ~body.started /\ body.result = NoResult
    <3>1. NoResult \in Result
      BY DEF Result
    <3>2. body.started = FALSE /\ body \in Body /\ body.generation = Current + 1
          /\ body.operation = Current + 1 /\ body.result = NoResult
      BY <2>2, <3>1, JobBodyFields
    <3>. QED BY <3>2
  <2>. HIDE DEF body
  <2>4. /\ ball' \in Ball /\ ball'.state = "LOADING" /\ ball'.body = body /\ Current' = Current + 1
    BY <2>1, <2>3, RewriteFields DEF Rewritten
  <2>5. Shape'
    BY <2>1, <2>2, <2>3, <2>4 DEF Shape, Fresh, Busy, ResultStates
  <2>6. Executions'
    <3>1. \A g \in Generations : g > Current => executions[g] = 0
      BY DEF Executions
    <3>2. \A g \in Generations : executions'[g] <= 1 /\ (g > Current' => executions'[g] = 0)
      BY <1>1, <2>4 DEF Executions, Generations
    <3>3. executions'[Current'] = 0
      BY <1>1, <2>2, <2>4, <3>1 DEF Generations
    <3>. QED BY <2>4, <3>2, <3>3 DEF Executions, ResultStates
  <2>7. Heard'
    BY <2>4 DEF Heard
  <2>8. Advance
    BY <1>1, <2>2, <2>4 DEF Advance, Started, Returned, Generations
  <2>. QED BY <2>5, <2>6, <2>7, <2>8 DEF Effect
<1>4. CASE Toss
  <2>1. Renamed("LOADING", "TOSS") /\ coach = "toss"
    BY <1>4 DEF Toss, CoachWalks, Renamed
  <2>2. /\ ball' \in Ball /\ ball'.state = "TOSS" /\ ball'.body = ball.body
        /\ Current' = Current /\ ball.state = "LOADING"
    BY <2>1, StatesNamed, RenameFields DEF Renamed
  <2>3. Shape'
    BY <2>1, <2>2 DEF Shape, Busy, Fresh, ResultStates
  <2>4. Executions' /\ Heard'
    BY <1>1, <2>2 DEF Executions, Heard, ResultStates
  <2>5. Advance
    BY <1>1, <2>2 DEF Advance, Started, Returned, Current, Generations
  <2>. QED BY <2>3, <2>4, <2>5 DEF Effect
<1>5. CASE Consume
  <2>1. Renamed(ball.state, "RECYCLING") /\ coach' = "clear" /\ ball.state \in ResultStates \cup {"GONE"}
    BY <1>5 DEF Consume, CoachWalks, Renamed, Terminal
  <2>2. /\ ball' \in Ball /\ ball'.state = "RECYCLING" /\ ball'.body = ball.body
        /\ Current' = Current
    BY <2>1, StatesNamed, RenameFields
  <2>3. Shape'
    BY <2>1, <2>2 DEF Shape, Busy, ResultStates
  <2>4. Executions' /\ Heard'
    BY <1>1, <2>2 DEF Executions, Heard, ResultStates
  <2>5. Advance
    BY <1>1, <2>2 DEF Advance, Started, Returned, Current, Generations
  <2>. QED BY <2>3, <2>4, <2>5 DEF Effect
<1>6. CASE Clear
  <2>. DEFINE body == IdleBody(Current)
  <2>1. Rewritten("RECYCLING", body) /\ coach' = "free" /\ Busy /\ ball.body.started
    BY <1>6 DEF Clear, Rewritten, Shape, Current
  <2>2. /\ body \in Body /\ body.generation = Current /\ body.operation = NoOperation
        /\ ~body.started /\ body.result = NoResult
    BY <1>1, IdleBodyFields
  <2>. HIDE DEF body
  <2>3. /\ ball' \in Ball /\ ball'.state = "RECYCLING" /\ ball'.body = body /\ Current' = Current
    BY <2>1, <2>2, RewriteFields DEF Rewritten
  <2>4. Shape'
    BY <2>1, <2>2, <2>3 DEF Shape, Idle, ResultStates
  <2>5. Executions' /\ Heard'
    BY <1>1, <2>2, <2>3 DEF Executions, Heard, ResultStates
  <2>6. Advance
    BY <1>1, <2>2, <2>3 DEF Advance, Started, Returned, Generations
  <2>. QED BY <2>4, <2>5, <2>6 DEF Effect
<1>7. CASE Free
  <2>1. Renamed("RECYCLING", "READY") /\ coach = "free"
    BY <1>7 DEF Free, CoachWalks, Renamed
  <2>2. /\ ball' \in Ball /\ ball'.state = "READY" /\ ball'.body = ball.body
        /\ Current' = Current /\ ball.state = "RECYCLING"
    BY <2>1, StatesNamed, RenameFields DEF Renamed
  <2>3. Shape'
    BY <2>1, <2>2 DEF Shape, Idle, ResultStates
  <2>4. Executions' /\ Heard'
    BY <1>1, <2>2 DEF Executions, Heard, ResultStates
  <2>5. Advance
    BY <1>1, <2>2 DEF Advance, Started, Returned, Current, Generations
  <2>. QED BY <2>3, <2>4, <2>5 DEF Effect
<1>. QED BY <1>2, <1>3, <1>4, <1>5, <1>6, <1>7 DEF CoachStep

(* The channel does not change.                                                  *)
LEMMA StillEffect ==
  ASSUME Channel, UNCHANGED <<ball, coach, executions, heardLost>>
  PROVE  Effect
BY DEF Effect, Channel, Shape, Executions, Heard, Advance, Started, Returned, Current, Idle,
       Busy, Fresh, TypeOK, Ball, Body, Generations

-----------------------------------------------------------------------------
(* What a worker that waits goes on knowing while others act.                    *)
LEMMA FetcherWaits ==
  ASSUME Channel, Executing, Advance, UNCHANGED <<fetcherVars, executions>>,
         fetcher = "publish" /\ Owned("RETURNING", job)' => ball'.body.result = verdict
  PROVE  Executing'
<1>1. UNCHANGED <<fetcher, job, verdict>> /\ job \in Generations /\ Current \in Nat /\ Current' \in Nat
  BY DEF fetcherVars, Channel, TypeOK, Current, Ball, Body, Generations, Advance
<1>2. job <= Current => job <= Current'
  BY <1>1 DEF Advance, Generations
<1>3. (Started(job) => Started(job)') /\ (Returned(job) => Returned(job)')
  BY <1>1 DEF Advance, Started, Returned
<1>. QED BY <1>1, <1>2, <1>3 DEF Executing, Owned

(* What the reaper may do next stays right while others act.                  *)
LEMMA ReaperWaits ==
  ASSUME Channel, Reaping, Advance, UNCHANGED <<reaper, victim>>, heardLost \subseteq heardLost'
  PROVE  Reaping'
<1>1. victim \in Generations
  BY DEF Channel, TypeOK
<1>2. (Started(victim) => Started(victim)') /\ (Returned(victim) => Returned(victim)')
  BY <1>1 DEF Advance, Started, Returned
<1>. QED BY <1>2 DEF Reaping

(* The FETCHER goes on with the same job and verdict, or with none that is past   *)
(* its execution.                                                                *)
Onward ==
  \/ UNCHANGED fetcherVars
  \/ fetcher' \notin {"running", "return", "store", "publish"}
  \/ fetcher = "execute" /\ fetcher' = "running" /\ job' = job
  \/ fetcher = "running" /\ fetcher' = "return" /\ job' = job
  \/ fetcher \in {"return", "store"} /\ fetcher' \in {"store", "publish"} /\ UNCHANGED <<job, verdict>>

(* A request on its way stays one that was owned when it was sent.               *)
LEMMA LateWaits ==
  ASSUME Channel, Executing, Onward, NEW late, Late(late), Current <= Current',
         Current' \in Nat, heardLost \subseteq heardLost',
         \A g \in Generations : executions[g] = 1 => executions'[g] = 1
  PROVE  Late(late)'
<1>. DEFINE g == late.against.body.generation
<1>1. Current \in Nat
  BY DEF Channel, TypeOK, Current, Ball, Body, Generations
<1>2. /\ late = [request |-> late.request, against |-> late.against]
      /\ late.against \in Ball /\ late.against.body.operation = g /\ 1 <= g /\ g <= Current
  BY DEF Late
<1>3. g \in Generations
  BY <1>2 DEF Ball, Body
<1>. HIDE DEF g
<1>4. 1 <= g /\ g <= Current'
  BY <1>1, <1>2, <1>3 DEF Generations
<1>5. executions[g] = 1 => executions'[g] = 1 /\ (fetcher = "execute" => job # g)
  BY <1>3 DEF Executing
<1>6. CASE LateRename(late, "TOSS", "CHEW")
  BY <1>2, <1>4, <1>6 DEF Late, LateRename, g
<1>7. CASE LateBody(late, "CHEW", JobBody(g, TRUE, NoResult))
  BY <1>2, <1>4, <1>7 DEF Late, LateBody, g
<1>8. CASE /\ LateRename(late, "CHEW", "RETURNING")
           /\ late.against.body.started /\ executions[g] = 1
           /\ fetcher = "running" => job # g
  <2>1. fetcher' = "running" => job' # g
    BY <1>5, <1>8 DEF Onward, fetcherVars
  <2>. QED BY <1>2, <1>4, <1>5, <1>8, <2>1 DEF Late, LateRename, g
<1>9. ASSUME NEW v \in ResultStates,
             /\ LateBody(late, "RETURNING", JobBody(g, TRUE, v))
             /\ executions[g] = 1
             /\ fetcher \in {"running", "return"} => job # g
             /\ fetcher \in {"store", "publish"} /\ job = g => v = verdict
      PROVE  Late(late)'
  <2>1. fetcher' \in {"running", "return"} => job' # g
    BY <1>5, <1>9 DEF Onward, fetcherVars
  <2>2. fetcher' \in {"store", "publish"} /\ job' = g => v = verdict'
    BY <1>5, <1>9 DEF Onward, fetcherVars
  <2>. QED BY <1>2, <1>4, <1>5, <1>9, <2>1, <2>2 DEF Late, LateBody, g
<1>10. CASE /\ LateRename(late, "RETURNING", late.against.body.result)
            /\ late.against.body.result \in ResultStates
  BY <1>2, <1>4, <1>10 DEF Late, LateRename, g
<1>11. CASE /\ LateRename(late, "CHEW", "GONE")
            /\ late.against.body.started /\ g \in heardLost
  BY <1>2, <1>4, <1>11 DEF Late, LateRename, g
<1>12. CASE LateBody(late, "GONE", JobBody(g, TRUE, "GONE"))
  BY <1>2, <1>4, <1>12 DEF Late, LateBody, g
<1>. QED BY <1>6, <1>7, <1>8, <1>9, <1>10, <1>11, <1>12 DEF Late, g

(* So does what was sent and not yet applied.                                 *)
LEMMA MailWaits ==
  ASSUME Channel, Executing, Mail, Onward, Advance, pending' \subseteq pending,
         heardLost \subseteq heardLost',
         \A g \in Generations : executions[g] = 1 => executions'[g] = 1
  PROVE  Mail'
<1>1. Current <= Current' /\ Current' \in Nat
  BY DEF Advance, Current, Ball, Body, Generations
<1>2. ASSUME NEW late \in pending' PROVE Late(late)'
  BY <1>1, <1>2, LateWaits DEF Mail
<1>. QED BY <1>2 DEF Mail

-----------------------------------------------------------------------------
(* What a successful walk or write does, and what it tells.                      *)
LEMMA WalkCases ==
  ASSUME NEW w, NEW from, NEW to, NEW g, Walked(w, from, to, g)
  PROVE  /\ asked' \subseteq asked
         /\ \/ Owned(from, g) /\ Renamed(from, to)
            \/ ball.state = to /\ UNCHANGED ball
BY DEF Walked, Owned, Renamed

(* What a conditional write leaves: its own content, or the ball as it was.   *)
LEMMA WriteCases ==
  ASSUME NEW w, NEW state, NEW body, NEW g, Stored(w, state, body, g)
  PROVE  /\ asked' \subseteq asked /\ Owned(state, g)
         /\ \/ Rewritten(state, body)
            \/ ball.body = body /\ UNCHANGED ball
BY DEF Stored, Owned, Rewritten

(* The worker that owns the file by its generation owns the current one.         *)
LEMMA OwnedIsCurrent ==
  ASSUME NEW state, NEW g, Owned(state, g)
  PROVE  ball.state = state /\ g = Current /\ ball.body.operation = g
BY DEF Owned, Current

(* The state outside the channel after a step of the FETCHER.                    *)
LEMMA FetcherTyped ==
  ASSUME TypeOK, ball' \in Ball, asked' \subseteq asked, fetcher' \in FetcherStage,
         job' \in Generations, verdict' \in Result, UNCHANGED Elsewise,
         executions' \in [Generations -> Nat]
  PROVE  TypeOK'
BY DEF TypeOK, Elsewise, reaperVars, budget

(* FETCHER keeps the invariant's parts that speak of its job.                    *)
LEMMA FetcherActs ==
  ASSUME Channel, Executing, FetcherStep
  PROVE  Shape' /\ Executions' /\ Heard' /\ Advance /\ Onward /\ Executing' /\ TypeOK'
<1>. USE DEF Channel
<1>1. /\ job \in Generations /\ Current \in Generations /\ asked \subseteq Worker
      /\ verdict \in Result /\ ResultStates \subseteq Result /\ 0 \in Generations
      /\ NoResult \in Result /\ executions \in [Generations -> Nat] /\ ball \in Ball
  BY ChannelAssumption DEF TypeOK, Ball, Body, Current, Result, Generations
<1>2. CASE Poll
  <2>1. UNCHANGED <<ball, coach, executions, heardLost, asked>> /\ fetcher' = "claim"
        /\ job' = Current /\ verdict' = verdict /\ ball.state = "TOSS" /\ UNCHANGED Elsewise
    BY <1>2 DEF Poll, Elsewise, reaperVars, Current
  <2>2. Effect
    BY <2>1, StillEffect
  <2>3. Fresh /\ executions[Current] = 0
    BY <2>1 DEF Shape, Executions, Fresh, Busy, NoOperation
  <2>4. Executing'
    BY <1>1, <2>1, <2>3 DEF Executing, Fresh, Busy, Current, Generations
  <2>5. Onward
    BY <2>1 DEF Onward
  <2>6. TypeOK'
    BY <1>1, <2>1, FetcherTyped DEF FetcherStage
  <2>. QED BY <2>2, <2>4, <2>5, <2>6 DEF Effect
<1>3. CASE Claim
  <2>1. fetcher = "claim" /\ fetcher' = "start" /\ Walked("fetcher", "TOSS", "CHEW", job)
        /\ UNCHANGED <<job, verdict, coach, executions, heardLost>> /\ UNCHANGED Elsewise
    BY <1>3 DEF Claim, Elsewise, reaperVars
  <2>2. asked' \subseteq asked /\ (Renamed("TOSS", "CHEW") \/ UNCHANGED ball)
    BY <2>1, WalkCases
  <2>3. Effect
    BY <2>1, <2>2, ClaimEffect, StillEffect
  <2>4. Executing'
    BY <1>1, <2>1, <2>3 DEF Executing, Effect, Advance, Generations, Current, Ball, Body
  <2>5. Onward
    BY <2>1 DEF Onward
  <2>6. TypeOK'
    BY <1>1, <2>1, <2>2, <2>3, FetcherTyped DEF FetcherStage, Effect, Advance
  <2>. QED BY <2>3, <2>4, <2>5, <2>6 DEF Effect
<1>4. CASE MarkStarted
  <2>. DEFINE body == JobBody(job, TRUE, NoResult)
  <2>1. fetcher = "start" /\ fetcher' = "execute" /\ Stored("fetcher", "CHEW", body, job)
        /\ UNCHANGED <<job, verdict, coach, executions, heardLost>> /\ UNCHANGED Elsewise
    BY <1>4 DEF MarkStarted, Elsewise, reaperVars
  <2>2. body.generation = job /\ body.started
    BY <1>1, StartedBodyFields
  <2>. HIDE DEF body
  <2>3. asked' \subseteq asked /\ Owned("CHEW", job)
        /\ (Rewritten("CHEW", body) \/ (ball.body = body /\ UNCHANGED ball))
    BY <2>1, WriteCases
  <2>4. job = Current
    BY <2>3, OwnedIsCurrent
  <2>5. Effect
    BY <2>1, <2>3, <2>4, StartEffect, StillEffect DEF body
  <2>6. ball'.body = body
    BY <1>1, <2>3 DEF Rewritten, Ball
  <2>7. Started(job)' /\ Current' = job
    BY <2>1, <2>2, <2>6 DEF Started, Current
  <2>8. Executing'
    BY <1>1, <2>1, <2>7 DEF Executing, Generations
  <2>9. Onward
    BY <2>1 DEF Onward
  <2>10. TypeOK'
    BY <1>1, <2>1, <2>3, <2>5, FetcherTyped DEF FetcherStage, Effect, Advance
  <2>. QED BY <2>5, <2>8, <2>9, <2>10 DEF Effect
<1>5. CASE Execute
  <2>1. fetcher = "execute" /\ fetcher' = "running" /\ executions[job] = 0
        /\ executions' = [executions EXCEPT ![job] = @ + 1]
        /\ UNCHANGED <<ball, job, verdict, asked, coach, heardLost>> /\ UNCHANGED Elsewise
        /\ 1 <= job /\ job <= Current /\ Started(job)
    BY <1>5 DEF Execute, Elsewise, reaperVars, Executing
  <2>2. executions'[job] = 1 /\ executions' \in [Generations -> Nat]
        /\ \A g \in Generations : g # job => executions'[g] = executions[g]
    BY <1>1, <2>1
  <2>3. Shape' /\ Heard'
    BY <2>1 DEF Shape, Heard, Idle, Fresh, Busy, Current
  <2>4. Advance
    BY <1>1, <2>1 DEF Advance, Started, Returned, Current, Generations
  <2>5. Executions'
    <3>1. \A g \in Generations : executions'[g] <= 1 /\ (g > Current => executions'[g] = 0)
      BY <1>1, <2>1, <2>2 DEF Executions, Generations
    <3>2. job = Current => ball.body.started \/ ball.body.operation = NoOperation
      BY <1>1, <2>1 DEF Started, Generations
    <3>3. Current' = Current
      BY <2>1 DEF Current
    <3>4. (ball.body.operation # NoOperation /\ ~ball.body.started) => executions'[Current] = 0
      BY <1>1, <2>2, <3>2 DEF Executions
    <3>5. ball.state \in ResultStates \cup {"RETURNING"} => executions'[Current] = 1
      BY <1>1, <2>2 DEF Executions
    <3>. QED BY <2>1, <3>1, <3>3, <3>4, <3>5 DEF Executions
  <2>6. Started(job)'
    BY <2>1 DEF Started, Current
  <2>7. Executing'
    BY <1>1, <2>1, <2>2, <2>6 DEF Executing, Current
  <2>8. Onward
    BY <2>1 DEF Onward
  <2>9. TypeOK'
    BY <1>1, <2>1, <2>2, FetcherTyped DEF FetcherStage
  <2>. QED BY <2>3, <2>4, <2>5, <2>7, <2>8, <2>9
<1>6. CASE Judge
  <2>1. fetcher = "running" /\ fetcher' = "return" /\ verdict' \in ResultStates
        /\ UNCHANGED <<ball, job, asked, coach, executions, heardLost>> /\ UNCHANGED Elsewise
    BY <1>6 DEF Judge, Elsewise, reaperVars
  <2>2. Effect
    BY <2>1, StillEffect
  <2>3. Started(job)' <=> Started(job)
    BY <2>1 DEF Started, Current
  <2>4. Executing'
    BY <2>1, <2>3 DEF Executing, Current
  <2>5. Onward
    BY <2>1 DEF Onward
  <2>6. TypeOK'
    BY <1>1, <2>1, FetcherTyped DEF FetcherStage
  <2>. QED BY <2>2, <2>4, <2>5, <2>6 DEF Effect
<1>7. CASE Return
  <2>1. fetcher = "return" /\ fetcher' = "store" /\ Walked("fetcher", "CHEW", "RETURNING", job)
        /\ UNCHANGED <<job, verdict, coach, executions, heardLost>> /\ UNCHANGED Elsewise
    BY <1>7 DEF Return, Elsewise, reaperVars
  <2>2. 1 <= job /\ executions[job] = 1 /\ Started(job) /\ verdict \in ResultStates
    BY <2>1 DEF Executing
  <2>3. asked' \subseteq asked
        /\ ((Owned("CHEW", job) /\ Renamed("CHEW", "RETURNING")) \/ UNCHANGED ball)
    BY <2>1, WalkCases
  <2>4. Owned("CHEW", job) => ball.body.started /\ job = Current
    <3>1. Owned("CHEW", job) => job = Current /\ ball.body.operation # NoOperation
      BY <1>1, <2>2, OwnedIsCurrent DEF NoOperation, Generations
    <3>. QED BY <1>1, <2>2, <3>1 DEF Started, Generations
  <2>5. Effect
    BY <2>1, <2>2, <2>3, <2>4, ReturnEffect, StillEffect
  <2>6. Started(job)' /\ job <= Current'
    BY <1>1, <2>1, <2>2, <2>5 DEF Effect, Advance, Started, Executing, Generations, Current, Ball, Body
  <2>7. Executing'
    BY <2>1, <2>2, <2>6 DEF Executing
  <2>8. Onward
    BY <2>1 DEF Onward
  <2>9. TypeOK'
    BY <1>1, <2>1, <2>3, <2>5, FetcherTyped DEF FetcherStage, Effect, Advance
  <2>. QED BY <2>5, <2>7, <2>8, <2>9 DEF Effect
<1>8. CASE StoreResult
  <2>. DEFINE body == JobBody(job, TRUE, verdict)
  <2>1. fetcher = "store" /\ fetcher' = "publish" /\ Stored("fetcher", "RETURNING", body, job)
        /\ UNCHANGED <<job, verdict, coach, executions, heardLost>> /\ UNCHANGED Elsewise
    BY <1>8 DEF StoreResult, Elsewise, reaperVars
  <2>2. body.generation = job /\ body.started /\ body.result = verdict
    BY <1>1, StartedBodyFields
  <2>. HIDE DEF body
  <2>3. asked' \subseteq asked /\ Owned("RETURNING", job)
        /\ (Rewritten("RETURNING", body) \/ (ball.body = body /\ UNCHANGED ball))
    BY <2>1, WriteCases
  <2>4. job = Current /\ ball.state = "RETURNING" /\ 1 <= job /\ executions[job] = 1
        /\ verdict \in ResultStates
    BY <2>1, <2>3, OwnedIsCurrent DEF Executing
  <2>5. Effect
    BY <2>1, <2>3, <2>4, StoreEffect, StillEffect DEF body
  <2>6. ball'.body = body /\ ball'.state = "RETURNING"
    BY <1>1, <2>3, <2>4 DEF Rewritten, Ball
  <2>7. Started(job)' /\ Current' = job /\ Returned(job)'
    BY <2>1, <2>2, <2>6 DEF Started, Current, Returned
  <2>8. Executing'
    BY <1>1, <2>1, <2>2, <2>4, <2>6, <2>7 DEF Executing, Generations
  <2>9. Onward
    BY <2>1 DEF Onward
  <2>10. TypeOK'
    BY <1>1, <2>1, <2>3, <2>5, FetcherTyped DEF FetcherStage, Effect, Advance
  <2>. QED BY <2>5, <2>8, <2>9, <2>10 DEF Effect
<1>9. CASE Publish
  <2>1. fetcher = "publish" /\ fetcher' = "poll" /\ Walked("fetcher", "RETURNING", verdict, job)
        /\ job' = 0 /\ verdict' = NoResult
        /\ UNCHANGED <<coach, executions, heardLost>> /\ UNCHANGED Elsewise
    BY <1>9 DEF Publish, Elsewise, reaperVars
  <2>2. asked' \subseteq asked
        /\ ((Owned("RETURNING", job) /\ Renamed("RETURNING", verdict)) \/ UNCHANGED ball)
    BY <2>1, WalkCases
  <2>3. Owned("RETURNING", job) => ball.body.result = verdict /\ verdict \in ResultStates
    BY <2>1 DEF Executing
  <2>4. Effect
    BY <2>1, <2>2, <2>3, PublishEffect, StillEffect
  <2>5. Executing' /\ Onward
    BY <2>1 DEF Executing, Onward
  <2>6. TypeOK'
    BY <1>1, <2>1, <2>2, <2>4, FetcherTyped DEF FetcherStage, Effect, Advance
  <2>. QED BY <2>4, <2>5, <2>6 DEF Effect
<1>10. CASE FetcherRefused
  <2>1. fetcher' \in {"down", "poll"} /\ job' = 0 /\ verdict' = NoResult /\ asked' \subseteq asked
        /\ UNCHANGED <<ball, coach, executions, heardLost>> /\ UNCHANGED Elsewise
    BY <1>10 DEF FetcherRefused, Stops, Elsewise, reaperVars
  <2>2. Effect
    BY <2>1, StillEffect
  <2>3. Executing' /\ Onward
    BY <2>1 DEF Executing, Onward
  <2>4. TypeOK'
    BY <1>1, <2>1, FetcherTyped DEF FetcherStage
  <2>. QED BY <2>2, <2>3, <2>4 DEF Effect
<1>. QED BY <1>2, <1>3, <1>4, <1>5, <1>6, <1>7, <1>8, <1>9, <1>10 DEF FetcherStep

-----------------------------------------------------------------------------
(* The stored verdict stands as long as nobody else brings the file to RETURNING. *)
VerdictStands == fetcher = "publish" /\ Owned("RETURNING", job)' => ball'.body.result = verdict

(* Where nothing is published, what was heard of the verdict stands.          *)
LEMMA VerdictKept ==
  ASSUME Executing, UNCHANGED job, UNCHANGED ball \/ ball'.state # "RETURNING"
  PROVE  VerdictStands
BY DEF VerdictStands, Executing, Owned

(* The reaper keeps the invariant's parts that speak of its victim.              *)
LEMMA ReaperActs ==
  ASSUME Channel, Reaping, ReaperStep
  PROVE  /\ Effect /\ Reaping' /\ TypeOK' /\ heardLost \subseteq heardLost'
         /\ UNCHANGED <<fetcherVars, executions, pending>>
         /\ UNCHANGED ball \/ ball'.state # "RETURNING"
<1>. USE DEF Channel
<1>1. /\ victim \in Generations /\ Current \in Generations /\ asked \subseteq Worker
      /\ ball \in Ball /\ heardLost \subseteq Generations /\ 0 \in Generations
      /\ NoResult \in Result /\ "GONE" \in Result
  BY ChannelAssumption DEF TypeOK, Ball, Body, Current, Generations, Result
<1>. DEFINE Kept == /\ asked' \subseteq asked /\ reaper' \in ReaperStage /\ victim' \in Generations
                    /\ heardLost \subseteq heardLost' /\ heardLost' \subseteq Generations
                    /\ UNCHANGED OfReaper
<1>2. ASSUME Effect, Kept PROVE TypeOK' /\ UNCHANGED <<fetcherVars, executions, pending>>
  BY <1>2 DEF Effect, Advance, TypeOK, OfReaper, fetcherVars, budget
<1>3. CASE ReadName
  <2>1. reaper' = "inspect" /\ UNCHANGED <<ball, victim, heardLost, asked, coach, executions>>
        /\ UNCHANGED OfReaper
    BY <1>3 DEF ReadName, OfReaper
  <2>2. Effect /\ Kept
    BY <1>1, <2>1, StillEffect DEF ReaperStage
  <2>3. Reaping'
    BY <2>1 DEF Reaping
  <2>. QED BY <1>2, <2>1, <2>2, <2>3
<1>4. CASE ReadVictim
  <2>1. UNCHANGED <<ball, heardLost, asked, coach, executions>> /\ UNCHANGED OfReaper
        /\ \/ ball.body.started /\ reaper' = "listen" /\ victim' = Current
           \/ reaper' = "watch" /\ UNCHANGED victim
    BY <1>4 DEF ReadVictim, OfReaper, Current
  <2>2. Effect /\ Kept
    BY <1>1, <2>1, StillEffect DEF ReaperStage
  <2>3. reaper' = "listen" => Started(victim)'
    BY <2>1 DEF Started, Current
  <2>4. Reaping'
    BY <2>1, <2>3 DEF Reaping
  <2>. QED BY <1>2, <2>1, <2>2, <2>4
<1>5. CASE ReadPulse
  <2>1. reaper = "listen" /\ UNCHANGED <<ball, asked, coach, executions>> /\ UNCHANGED OfReaper
        /\ \/ /\ reaper' = "reap" /\ UNCHANGED victim
              /\ heardLost' = IF ball.state = "CHEW" THEN heardLost \cup {Current} ELSE heardLost
           \/ reaper' = "watch" /\ victim' = 0 /\ UNCHANGED heardLost
    BY <1>5 DEF ReadPulse, OfReaper, Current
  <2>2. heardLost \subseteq heardLost' /\ heardLost' \subseteq Generations
    BY <1>1, <2>1
  <2>3. Kept
    BY <1>1, <2>1, <2>2 DEF ReaperStage
  <2>4. Effect
    <3>1. Shape' /\ Executions' /\ Advance
      BY <1>1, <2>1 DEF Shape, Executions, Advance, Started, Returned, Current, Idle, Busy, Fresh,
                       Generations
    <3>2. Heard'
      BY <2>1, <2>2 DEF Heard, Current
    <3>. QED BY <3>1, <3>2 DEF Effect
  <2>5. CASE reaper' = "reap"
    <3>1. Started(victim) /\ (Started(victim)' <=> Started(victim))
          /\ (Returned(victim)' <=> Returned(victim))
      BY <2>1, <2>5 DEF Started, Current, Returned, Reaping
    <3>2. victim \in heardLost' \/ Returned(victim)
      <4>1. CASE ball.state = "CHEW" /\ victim = Current
        BY <2>1, <2>5, <4>1
      <4>2. CASE victim # Current
        BY <1>1, <3>1, <4>2 DEF Started, Returned
      <4>3. CASE ball.state # "CHEW" /\ victim = Current
        BY <3>1, <4>3 DEF Started, Returned, Shape, Fresh, Busy, Idle
      <4>. QED BY <4>1, <4>2, <4>3
    <3>. QED BY <1>2, <2>1, <2>3, <2>4, <2>5, <3>1, <3>2 DEF Reaping
  <2>6. CASE reaper' = "watch"
    BY <1>2, <2>1, <2>3, <2>4, <2>6 DEF Reaping
  <2>. QED BY <2>1, <2>5, <2>6
<1>6. CASE Reap
  <2>1. reaper = "reap" /\ reaper' = "bury" /\ Walked("reaper", "CHEW", "GONE", victim)
        /\ UNCHANGED <<victim, heardLost, coach, executions>> /\ UNCHANGED OfReaper
    BY <1>6 DEF Reap, OfReaper
  <2>2. asked' \subseteq asked
        /\ ((Owned("CHEW", victim) /\ Renamed("CHEW", "GONE"))
            \/ (ball.state = "GONE" /\ UNCHANGED ball))
    BY <2>1, WalkCases
  <2>3. Owned("CHEW", victim) => ball.body.started /\ Current \in heardLost
    <3>1. Owned("CHEW", victim) =>
            ball.state = "CHEW" /\ victim = Current /\ ball.body.operation # NoOperation
      BY <1>1, OwnedIsCurrent DEF NoOperation, Generations, Shape, Busy
    <3>. QED BY <1>1, <2>1, <3>1 DEF Reaping, Started, Returned, Generations
  <2>4. Effect /\ Kept
    BY <1>1, <2>1, <2>2, <2>3, ReapEffect, StillEffect DEF ReaperStage
  <2>5. Started(victim) => Started(victim)'
    <3>1. Advance /\ victim' = victim
      BY <2>1, <2>4 DEF Effect
    <3>. QED BY <1>1, <3>1 DEF Advance, Started, Returned
  <2>6. Reaping'
    BY <2>1, <2>5 DEF Reaping
  <2>7. UNCHANGED ball \/ ball'.state # "RETURNING"
    BY <1>1, <2>2 DEF Renamed, Ball
  <2>. QED BY <1>2, <2>4, <2>6, <2>7
<1>7. CASE Bury
  <2>1. reaper = "bury" /\ reaper' = "watch" /\ victim' = 0
        /\ Stored("reaper", "GONE", JobBody(victim, TRUE, "GONE"), victim)
        /\ UNCHANGED <<heardLost, coach, executions>> /\ UNCHANGED OfReaper
    BY <1>7 DEF Bury, OfReaper
  <2>2. asked' \subseteq asked /\ Owned("GONE", victim)
        /\ (Rewritten("GONE", JobBody(victim, TRUE, "GONE")) \/ UNCHANGED ball)
    BY <2>1, WriteCases
  <2>3. victim = Current
    BY <2>2, OwnedIsCurrent
  <2>4. Effect /\ Kept
    BY <1>1, <2>1, <2>2, <2>3, BuryEffect, StillEffect DEF ReaperStage
  <2>5. Reaping'
    BY <2>1 DEF Reaping
  <2>6. UNCHANGED ball \/ ball'.state # "RETURNING"
    BY <1>1, <2>2 DEF Rewritten, Ball
  <2>. QED BY <1>2, <2>4, <2>5, <2>6
<1>8. CASE ReaperRefused
  <2>1. reaper' = "watch" /\ victim' = 0 /\ asked' \subseteq asked
        /\ UNCHANGED <<ball, heardLost, coach, executions>> /\ UNCHANGED OfReaper
    BY <1>8 DEF ReaperRefused, OfReaper
  <2>2. Effect /\ Kept
    BY <1>1, <2>1, StillEffect DEF ReaperStage
  <2>3. Reaping'
    BY <2>1 DEF Reaping
  <2>. QED BY <1>2, <2>1, <2>2, <2>3
<1>. QED BY <1>3, <1>4, <1>5, <1>6, <1>7, <1>8 DEF ReaperStep

(* Deaths, starts, pulses and time leave the channel alone; a recorded result is   *)
(* published whoever is down.                                                     *)
LEMMA OthersAct ==
  ASSUME Inv,
         \/ Crash \/ Restart \/ Leave \/ Wake \/ Beat \/ RecoverReturning
         \/ ReaperCrash \/ CoachStep \/ Expire \/ Fade
  PROVE  Inv'
<1>. USE DEF Inv
<1>1. /\ Current \in Generations /\ asked \subseteq Worker /\ ball \in Ball
      /\ executions \in [Generations -> Nat] /\ 0 \in Generations /\ NoResult \in Result
  BY ChannelAssumption DEF Channel, TypeOK, Ball, Body, Current, Generations, Result
<1>2. UNCHANGED <<pending, executions, heardLost>>
  BY DEF Crash, Restart, Leave, Wake, Starts, Beat, RecoverReturning, ReaperCrash, CoachStep,
         Reserve, WriteJob, Toss, Consume, Clear, Free, OfCoach, Expire, Fade, Elsewise, reaperVars
<1>3. Effect /\ (UNCHANGED ball \/ ball'.state # "RETURNING")
  <2>1. CASE RecoverReturning
    <3>1. Renamed("RETURNING", ball.body.result) /\ ball.body.result \in ResultStates
          /\ UNCHANGED coach
      BY <2>1 DEF RecoverReturning, Renamed, Elsewise
    <3>2. ball'.state # "RETURNING"
      BY <1>1, <3>1 DEF Renamed, Ball, ResultStates
    <3>. QED BY <1>2, <3>1, <3>2, PublishEffect
  <2>2. CASE CoachStep
    <3>1. ball'.state # "RETURNING"
      BY <1>1, <2>2 DEF CoachStep, CoachWalks, Reserve, WriteJob, Toss, Consume, Clear, Free, Ball
    <3>. QED BY <2>2, <3>1, CoachEffect
  <2>3. CASE \/ Crash \/ Restart \/ Leave \/ Wake \/ Beat \/ ReaperCrash \/ Expire \/ Fade
    <3>1. UNCHANGED <<ball, coach>>
      BY <2>3 DEF Crash, Restart, Leave, Wake, Starts, Beat, ReaperCrash, Expire, Fade, Elsewise
    <3>. QED BY <1>2, <3>1, StillEffect
  <2>. QED BY <2>1, <2>2, <2>3
<1>4. \/ UNCHANGED fetcherVars
      \/ fetcher' \in {"down", "poll", "left"} /\ job' \in Generations /\ verdict' \in Result
  <2>1. job \in Generations /\ verdict \in Result
    BY DEF Channel, TypeOK
  <2>. QED
    BY <1>1, <2>1 DEF Crash, Restart, Leave, Wake, Starts, Stops, Beat, RecoverReturning, ReaperCrash,
         CoachStep, Reserve, WriteJob, Toss, Consume, Clear, Free, OfCoach, Expire, Fade, Elsewise,
         fetcherVars
<1>5. UNCHANGED <<reaper, victim>> \/ (reaper' = "watch" /\ victim' = 0)
  BY DEF Crash, Restart, Leave, Wake, Starts, Beat, RecoverReturning, ReaperCrash, CoachStep,
         Reserve, WriteJob, Toss, Consume, Clear, Free, OfCoach, Expire, Fade, Elsewise, reaperVars
<1>6. Executing'
  <2>1. CASE UNCHANGED fetcherVars
    BY <1>2, <1>3, <2>1, FetcherWaits, VerdictKept DEF VerdictStands, Effect, fetcherVars
  <2>2. CASE fetcher' \in {"down", "poll", "left"}
    BY <2>2 DEF Executing
  <2>. QED BY <1>4, <2>1, <2>2
<1>7. Reaping'
  <2>1. CASE UNCHANGED <<reaper, victim>>
    BY <1>2, <1>3, <2>1, ReaperWaits DEF Effect
  <2>2. CASE reaper' = "watch"
    BY <2>2 DEF Reaping
  <2>. QED BY <1>5, <2>1, <2>2
<1>8. Mail'
  BY <1>2, <1>3, <1>4, MailWaits DEF Onward, Effect
<1>9. TypeOK'
  <2>1. expired' \subseteq Generations /\ pulse' \in {"fresh", "stale", "lost"}
    <3>1. expired \subseteq Generations /\ pulse \in {"fresh", "stale", "lost"}
      BY DEF Channel, TypeOK
    <3>2. CASE Expire
      BY <1>1, <3>1, <3>2 DEF Expire, OfCoach, Current
    <3>3. CASE Fade
      BY <3>1, <3>3 DEF Fade
    <3>4. CASE CoachStep
      BY <3>1, <3>4 DEF CoachStep, Reserve, WriteJob, Toss, Consume, Clear, Free, OfCoach
    <3>5. CASE \/ Crash \/ Restart \/ Leave \/ Wake \/ Beat \/ RecoverReturning \/ ReaperCrash
      BY <3>1, <3>5 DEF Crash, Restart, Leave, Wake, Starts, Beat, RecoverReturning, ReaperCrash,
                       Elsewise
    <3>. QED BY <3>2, <3>3, <3>4, <3>5
  <2>2. asked' \subseteq asked /\ crashes' \in 0 .. MaxCrashes /\ UNCHANGED lost
    <3>1. crashes \in 0 .. MaxCrashes
      BY DEF Channel, TypeOK
    <3>2. CASE Crash \/ ReaperCrash
      BY <3>1, <3>2, ChannelAssumption DEF Crash, ReaperCrash, Stops
    <3>3. CASE \/ Restart \/ Leave \/ Wake \/ Beat \/ RecoverReturning \/ CoachStep \/ Expire \/ Fade
      BY <3>1, <3>3 DEF Restart, Leave, Wake, Starts, Beat, RecoverReturning, CoachStep,
         Reserve, WriteJob, Toss, Consume, Clear, Free, OfCoach, Expire, Fade, Elsewise, budget
    <3>. QED BY <3>2, <3>3
  <2>3. coach' \in CoachStage
    <3>1. CASE CoachStep
      BY <3>1 DEF CoachStep, Reserve, WriteJob, Toss, Consume, Clear, Free, CoachStage
    <3>2. CASE UNCHANGED coach
      BY <3>2 DEF Channel, TypeOK
    <3>. QED
      BY <3>1, <3>2 DEF Crash, Restart, Leave, Wake, Starts, Beat, RecoverReturning, ReaperCrash,
                       Expire, Fade, Elsewise
  <2>. QED
    BY <1>1, <1>2, <1>3, <1>4, <1>5, <2>1, <2>2, <2>3
       DEF Channel, TypeOK, Effect, Advance, fetcherVars, FetcherStage, ReaperStage
<1>. QED BY <1>3, <1>6, <1>7, <1>8, <1>9 DEF Effect, Channel

-----------------------------------------------------------------------------
(* A request that goes unanswered was owned when it was sent.                    *)
LEMMA LateFetcher ==
  ASSUME Channel, Executing, FetcherAsks, Owned(FetcherRequest.from, job),
         NEW late, late = [request |-> FetcherRequest, against |-> ball]
  PROVE  Late(late)
<1>1. /\ late.request = FetcherRequest /\ late.against = ball
      /\ late = [request |-> late.request, against |-> late.against]
  OBVIOUS
<1>2. job = Current /\ ball.state = FetcherRequest.from /\ ball.body.operation = job
  BY OwnedIsCurrent
<1>3. ball \in Ball /\ 1 <= job /\ Current \in Nat
  BY DEF Channel, TypeOK, Executing, FetcherAsks, Current, Ball, Body, Generations
<1>4. job <= Current
  BY <1>2, <1>3
<1>5. CASE fetcher = "claim"
  <2>1. FetcherRequest = [from |-> "TOSS", state |-> "CHEW"]
    BY <1>5 DEF FetcherRequest
  <2>. QED BY <1>1, <1>2, <1>3, <1>4, <2>1 DEF Late, LateRename, Current
<1>6. CASE fetcher = "start"
  <2>1. FetcherRequest = [from |-> "CHEW", body |-> JobBody(job, TRUE, NoResult)]
    BY <1>6 DEF FetcherRequest
  <2>. QED BY <1>1, <1>2, <1>3, <1>4, <2>1 DEF Late, LateBody, Current
<1>7. CASE fetcher = "return"
  <2>1. FetcherRequest = [from |-> "CHEW", state |-> "RETURNING"]
    BY <1>7 DEF FetcherRequest
  <2>2. ball.body.started /\ executions[job] = 1
    BY <1>2, <1>3, <1>7 DEF Executing, Started, NoOperation
  <2>. QED BY <1>1, <1>2, <1>3, <1>4, <1>7, <2>1, <2>2 DEF Late, LateRename, Current
<1>8. CASE fetcher = "store"
  <2>1. FetcherRequest = [from |-> "RETURNING", body |-> JobBody(job, TRUE, verdict)]
    BY <1>8 DEF FetcherRequest
  <2>2. verdict \in ResultStates /\ executions[job] = 1
    BY <1>8 DEF Executing
  <2>. QED BY <1>1, <1>2, <1>3, <1>4, <1>8, <2>1, <2>2 DEF Late, LateBody, Current
<1>9. CASE fetcher = "publish"
  <2>1. FetcherRequest = [from |-> "RETURNING", state |-> verdict]
    BY <1>9 DEF FetcherRequest
  <2>2. verdict \in ResultStates /\ ball.body.result = verdict
    BY <1>2, <1>9, <2>1 DEF Executing, Owned, Current
  <2>. QED BY <1>1, <1>2, <1>3, <1>4, <2>1, <2>2 DEF Late, LateRename, Current
<1>. QED BY <1>5, <1>6, <1>7, <1>8, <1>9 DEF FetcherAsks

(* A late write of the reaper was permitted when it was sent.                 *)
LEMMA LateReaper ==
  ASSUME Channel, Reaping, ReaperAsks, Owned(ReaperRequest.from, victim),
         NEW late, late = [request |-> ReaperRequest, against |-> ball]
  PROVE  Late(late)
<1>1. /\ late.request = ReaperRequest /\ late.against = ball
      /\ late = [request |-> late.request, against |-> late.against]
  OBVIOUS
<1>2. victim = Current /\ ball.state = ReaperRequest.from /\ ball.body.operation = victim
  BY OwnedIsCurrent
<1>3. ball \in Ball /\ Current \in Nat
  BY DEF Channel, TypeOK, Current, Ball, Body, Generations
<1>4. CASE reaper = "reap"
  <2>1. ReaperRequest = [from |-> "CHEW", state |-> "GONE"]
    BY <1>4 DEF ReaperRequest
  <2>2. ball.state = "CHEW" /\ 1 <= victim /\ victim <= Current
    BY <1>2, <1>3, <2>1 DEF Channel, Shape, Busy
  <2>3. ball.body.started /\ victim \in heardLost
    BY <1>2, <1>3, <1>4, <2>2 DEF Reaping, Started, Returned, NoOperation
  <2>. QED BY <1>1, <1>2, <1>3, <2>1, <2>2, <2>3 DEF Late, LateRename, Current
<1>5. CASE reaper = "bury"
  <2>1. ReaperRequest = [from |-> "GONE", body |-> JobBody(victim, TRUE, "GONE")]
    BY <1>5 DEF ReaperRequest
  <2>2. ball.state = "GONE" /\ 1 <= victim /\ victim <= Current
    BY <1>2, <1>3, <2>1 DEF Channel, Shape, Busy
  <2>. QED BY <1>1, <1>2, <1>3, <2>1, <2>2 DEF Late, LateBody, Current
<1>. QED BY <1>4, <1>5 DEF ReaperAsks

(* An answer is lost, and the request with it or not.                            *)
LEMMA UnansweredKeeps ==
  ASSUME Inv, FetcherUnanswered \/ ReaperUnanswered
  PROVE  Inv'
<1>. USE DEF Inv
<1>1. /\ UNCHANGED <<ball, expired, pulse, fetcherVars, reaperVars, coach, executions, crashes>>
      /\ lost' = lost + 1 /\ lost < MaxLost /\ asked' \subseteq asked \cup Worker
  BY DEF FetcherUnanswered, ReaperUnanswered, Unanswered, Worker
<1>2. ASSUME NEW late \in pending' PROVE Late(late)
  <2>1. CASE late \in pending
    BY <2>1 DEF Mail
  <2>2. CASE late \notin pending /\ FetcherUnanswered
    <3>1. late = [request |-> FetcherRequest, against |-> ball]
          /\ FetcherAsks /\ Owned(FetcherRequest.from, job)
      BY <1>2, <2>2 DEF FetcherUnanswered, Unanswered
    <3>. QED BY <3>1, LateFetcher
  <2>3. CASE late \notin pending /\ ReaperUnanswered
    <3>1. late = [request |-> ReaperRequest, against |-> ball]
          /\ ReaperAsks /\ Owned(ReaperRequest.from, victim)
      BY <1>2, <2>3 DEF ReaperUnanswered, Unanswered
    <3>. QED BY <3>1, LateReaper
  <2>. QED BY <2>1, <2>2, <2>3
<1>3. Effect
  BY <1>1, StillEffect DEF reaperVars
<1>4. Executing' /\ Reaping'
  <2>1. UNCHANGED <<fetcherVars, executions, reaper, victim, heardLost>> /\ UNCHANGED ball
    BY <1>1 DEF reaperVars
  <2>. QED
    BY <1>3, <2>1, FetcherWaits, VerdictKept, ReaperWaits DEF VerdictStands, fetcherVars, Effect
<1>5. Mail'
  <2>1. UNCHANGED fetcherVars /\ UNCHANGED heardLost /\ UNCHANGED executions
    BY <1>1 DEF reaperVars
  <2>2. Current <= Current' /\ Current' \in Nat
    BY <1>3 DEF Effect, Advance, Current, Ball, Body, Generations
  <2>3. ASSUME NEW late \in pending' PROVE Late(late)'
    BY <1>2, <2>1, <2>2, <2>3, LateWaits DEF Onward
  <2>. QED BY <2>3 DEF Mail
<1>6. TypeOK'
  <2>1. lost' \in 0 .. MaxLost
    BY <1>1, ChannelAssumption DEF Channel, TypeOK
  <2>. QED BY <1>1, <2>1 DEF Channel, TypeOK, fetcherVars, reaperVars
<1>. QED BY <1>3, <1>4, <1>5, <1>6 DEF Effect, Channel

(* What a request changes that finds the version it was sent against.            *)
LEMMA AppliedRename ==
  ASSUME NEW request, NEW from, NEW to, request = [from |-> from, state |-> to]
  PROVE  Applied(request) = [ball EXCEPT !.state = to]
BY DEF Applied

(* A write within one state changes the body alone.                           *)
LEMMA AppliedBody ==
  ASSUME NEW request, NEW from, NEW body, request = [from |-> from, body |-> body]
  PROVE  Applied(request) = [ball EXCEPT !.body = body]
BY DEF Applied

(* A late request lands as the step it asked for, or not at all.                 *)
LEMMA LandKeeps ==
  ASSUME AtomicPrecondition, Inv, Land
  PROVE  Inv'
<1>. USE DEF Inv
<1>1. /\ UNCHANGED <<fetcherVars, executions, coach, heardLost, reaper, victim>>
      /\ pending' \subseteq pending
  BY DEF Land, reaperVars
<1>2. PICK late \in pending : ball' = IF ball = late.against THEN Applied(late.request) ELSE ball
  BY DEF Land
<1>3. Late(late)
  BY DEF Mail
<1>4. Effect /\ VerdictStands
  <2>1. CASE UNCHANGED ball
    BY <1>1, <2>1, StillEffect, VerdictKept DEF fetcherVars
  <2>2. CASE ball = late.against /\ ball' = Applied(late.request)
    <3>1. /\ late.against.body.generation = Current /\ ball.body.operation = Current
          /\ 1 <= Current /\ ball \in Ball
      BY <1>3, <2>2 DEF Late, Current
    <3>2. CASE LateRename(late, "TOSS", "CHEW")
      <4>1. Renamed("TOSS", "CHEW") /\ ball'.state = "CHEW"
        BY <2>2, <3>1, <3>2, AppliedRename DEF LateRename, Renamed, Ball
      <4>. QED BY <1>1, <4>1, ClaimEffect, VerdictKept DEF fetcherVars
    <3>3. CASE LateBody(late, "CHEW", JobBody(Current, TRUE, NoResult))
      <4>. DEFINE body == JobBody(Current, TRUE, NoResult)
      <4>1. late.request = [from |-> "CHEW", body |-> body] /\ ball.state = "CHEW"
        BY <2>2, <3>3 DEF LateBody
      <4>. HIDE DEF body
      <4>2. Rewritten("CHEW", body) /\ ball'.state = "CHEW"
        BY <2>2, <3>1, <4>1, AppliedBody DEF Rewritten, Ball
      <4>. QED BY <1>1, <4>2, StartEffect, VerdictKept DEF fetcherVars, body
    <3>4. CASE LateRename(late, "CHEW", "RETURNING") /\ ball.body.started /\ executions[Current] = 1
      <4>1. Renamed("CHEW", "RETURNING") /\ ball'.body = ball.body
        BY <2>2, <3>1, <3>4, AppliedRename DEF LateRename, Renamed, Ball
      <4>2. ~(fetcher = "publish" /\ Owned("RETURNING", job)')
        <5>1. ASSUME fetcher = "publish", Owned("RETURNING", job)' PROVE FALSE
          <6>1. job = Current
            BY <1>1, <4>1, <5>1 DEF Owned, Current, fetcherVars
          <6>2. Returned(Current) /\ ball.state = "CHEW" /\ Current \in Nat
            BY <4>1, <5>1, <6>1, <3>1 DEF Executing, Renamed, Ball, Body, Generations, Current
          <6>. QED BY <3>1, <6>2 DEF Returned, NoOperation
        <5>. QED BY <5>1
      <4>. QED BY <1>1, <3>4, <4>1, <4>2, ReturnEffect DEF VerdictStands
    <3>5. ASSUME NEW v \in ResultStates, LateBody(late, "RETURNING", JobBody(Current, TRUE, v)),
                 fetcher \in {"store", "publish"} /\ job = Current => v = verdict
          PROVE  Effect /\ VerdictStands
      <4>. DEFINE body == JobBody(Current, TRUE, v)
      <4>1. late.request = [from |-> "RETURNING", body |-> body] /\ ball.state = "RETURNING"
        BY <2>2, <3>5 DEF LateBody
      <4>. HIDE DEF body
      <4>2. Rewritten("RETURNING", body)
        BY <2>2, <4>1, AppliedBody DEF Rewritten
      <4>3. Effect /\ ball'.body.result = v /\ Current' = Current
        BY <1>1, <4>2, StoreEffect DEF body
      <4>4. VerdictStands
        BY <1>1, <3>5, <4>3 DEF VerdictStands, Owned, Current, fetcherVars
      <4>. QED BY <4>3, <4>4
    <3>6. CASE LateRename(late, "RETURNING", ball.body.result) /\ ball.body.result \in ResultStates
      <4>1. Renamed("RETURNING", ball.body.result) /\ ball'.state # "RETURNING"
        BY <2>2, <3>1, <3>6, AppliedRename DEF LateRename, Renamed, Ball, ResultStates
      <4>. QED BY <1>1, <3>6, <4>1, PublishEffect, VerdictKept DEF fetcherVars
    <3>7. CASE LateRename(late, "CHEW", "GONE") /\ ball.body.started /\ Current \in heardLost
      <4>1. Renamed("CHEW", "GONE") /\ ball'.state # "RETURNING"
        BY <2>2, <3>1, <3>7, AppliedRename DEF LateRename, Renamed, Ball
      <4>. QED BY <1>1, <3>7, <4>1, ReapEffect, VerdictKept DEF fetcherVars
    <3>8. CASE LateBody(late, "GONE", JobBody(Current, TRUE, "GONE"))
      <4>. DEFINE body == JobBody(Current, TRUE, "GONE")
      <4>1. late.request = [from |-> "GONE", body |-> body] /\ ball.state = "GONE"
        BY <2>2, <3>8 DEF LateBody
      <4>. HIDE DEF body
      <4>2. Rewritten("GONE", body) /\ ball'.state # "RETURNING"
        BY <2>2, <3>1, <4>1, AppliedBody DEF Rewritten, Ball
      <4>. QED BY <1>1, <4>2, BuryEffect, VerdictKept DEF fetcherVars, body
    <3>. QED
      BY <1>3, <2>2, <3>1, <3>2, <3>3, <3>4, <3>5, <3>6, <3>7, <3>8 DEF Late
  <2>. QED BY <1>2, <2>1, <2>2
<1>5. Executing' /\ Reaping'
  BY <1>1, <1>4, FetcherWaits, ReaperWaits DEF VerdictStands, Effect
<1>6. Mail'
  BY <1>1, <1>4, MailWaits DEF Onward, Effect
<1>7. TypeOK'
  BY <1>1, <1>4 DEF Land, Channel, TypeOK, Effect, Advance, fetcherVars, budget
<1>. QED BY <1>4, <1>5, <1>6, <1>7 DEF Effect, Channel

-----------------------------------------------------------------------------
(* The invariant holds at first.                                              *)
LEMMA InitInv == Init => Inv
<1> SUFFICES ASSUME Init PROVE Inv
  OBVIOUS
<1>. USE ChannelAssumption DEF Init
<1>1. 0 \in Generations
  BY DEF Generations
<1>2. /\ ball.state = "READY" /\ ball.body = IdleBody(0) /\ ball.body \in Body
      /\ Current = 0 /\ Idle
  BY <1>1, IdleBodyFields DEF Current, Idle
<1>3. ball \in Ball
  BY <1>2, StatesNamed DEF Ball
<1>4. TypeOK
  BY <1>1, <1>3 DEF TypeOK, FetcherStage, ReaperStage, CoachStage, Result
<1>5. Shape /\ Heard
  BY <1>2 DEF Shape, Heard, ResultStates
<1>6. Executions
  BY <1>1, <1>2 DEF Executions, ResultStates
<1>7. Executing /\ Reaping /\ Mail
  BY DEF Executing, Reaping, Mail
<1>. QED BY <1>4, <1>5, <1>6, <1>7 DEF Inv, Channel

(* ... is kept by every step, where a write checks its precondition           *)
(* atomically,                                                                *)
LEMMA NextInv == AtomicPrecondition /\ Inv /\ [Next]_vars => Inv'
<1> SUFFICES ASSUME AtomicPrecondition, Inv, [Next]_vars PROVE Inv'
  OBVIOUS
<1>1. CASE FetcherStep
  <2>1. Shape' /\ Executions' /\ Heard' /\ Advance /\ Onward /\ Executing' /\ TypeOK'
    BY <1>1, FetcherActs DEF Inv
  <2>2. /\ UNCHANGED <<reaper, victim, heardLost, pending>>
        /\ \/ UNCHANGED executions
           \/ executions[job] = 0 /\ executions' = [executions EXCEPT ![job] = @ + 1]
    BY <1>1 DEF FetcherStep, Poll, Claim, MarkStarted, Execute, Judge, Return, StoreResult, Publish,
                FetcherRefused, Elsewise, reaperVars, Inv, Executing
  <2>3. \A g \in Generations : executions[g] = 1 => executions'[g] = 1
    BY <2>2 DEF Inv, Channel, TypeOK
  <2>4. Reaping'
    BY <2>1, <2>2, ReaperWaits DEF Inv
  <2>5. Mail'
    BY <2>1, <2>2, <2>3, MailWaits DEF Inv
  <2>. QED BY <2>1, <2>4, <2>5 DEF Inv, Channel
<1>2. CASE ReaperStep
  <2>1. /\ Effect /\ Reaping' /\ TypeOK' /\ heardLost \subseteq heardLost'
        /\ UNCHANGED <<fetcherVars, executions, pending>>
        /\ UNCHANGED ball \/ ball'.state # "RETURNING"
    BY <1>2, ReaperActs DEF Inv
  <2>2. Executing'
    BY <2>1, FetcherWaits, VerdictKept DEF Inv, VerdictStands, fetcherVars, Effect
  <2>3. Mail'
    BY <2>1, MailWaits DEF Inv, Onward, Effect
  <2>. QED BY <2>1, <2>2, <2>3 DEF Inv, Effect, Channel
<1>3. CASE FetcherUnanswered \/ ReaperUnanswered
  BY <1>3, UnansweredKeeps
<1>4. CASE Land
  BY <1>4, LandKeeps
<1>5. CASE \/ Crash \/ Restart \/ Leave \/ Wake \/ Beat \/ RecoverReturning
           \/ ReaperCrash \/ CoachStep \/ Expire \/ Fade
  BY <1>5, OthersAct
<1>6. CASE UNCHANGED vars
  <2>1. UNCHANGED <<ball, coach, executions, heardLost, reaper, victim, fetcherVars, pending>>
    BY <1>6 DEF vars, reaperVars
  <2>2. Effect
    BY <2>1, StillEffect DEF Inv
  <2>3. Executing' /\ Reaping'
    BY <2>1, <2>2, FetcherWaits, VerdictKept, ReaperWaits DEF Inv, VerdictStands, fetcherVars, Effect
  <2>4. Mail'
    BY <2>1, <2>2, MailWaits DEF Inv, Onward, Effect
  <2>5. TypeOK'
    BY <1>6 DEF Inv, Channel, TypeOK, vars, fetcherVars, reaperVars, budget
  <2>. QED BY <2>2, <2>3, <2>4, <2>5 DEF Inv, Effect, Channel
<1>. QED BY <1>1, <1>2, <1>3, <1>4, <1>5, <1>6 DEF Next

(* ... and so it always holds.                                                *)
LEMMA InvHolds == AtomicPrecondition => (Spec => []Inv)
<1> SUFFICES ASSUME AtomicPrecondition PROVE Spec => []Inv
  OBVIOUS
<1>1. Inv /\ [Next]_vars => Inv'
  BY NextInv
<1>. QED BY InitInv, <1>1, PTL DEF Spec

(* The channel, its workers and the counters stay of their kinds.                *)
THEOREM ChannelTyped == AtomicPrecondition => (Spec => []TypeOK)
<1> SUFFICES ASSUME AtomicPrecondition PROVE Spec => []TypeOK
  OBVIOUS
<1>1. Inv => TypeOK
  BY DEF Inv, Channel
<1>. QED BY <1>1, InvHolds, PTL

(* No generation is ever executed twice: for any number of generations, deaths   *)
(* and lost answers, as long as a late request checks the version it was sent    *)
(* against (ball_pipeline.py, process_one).                                      *)
THEOREM JobsExecuteOnce == AtomicPrecondition => (Spec => []ExecutedOnce)
<1> SUFFICES ASSUME AtomicPrecondition PROVE Spec => []ExecutedOnce
  OBVIOUS
<1>1. Inv => ExecutedOnce
  BY DEF Inv, Channel, Executions, ExecutedOnce
<1>. QED BY <1>1, InvHolds, PTL

(* A published result is the stored verdict of an execution that happened, and   *)
(* GONE never stands over a result (ball_pipeline.py, return_recovery.py).       *)
THEOREM PublishedResultsAreEvidence == AtomicPrecondition => (Spec => []ResultsAreEvidence)
<1> SUFFICES ASSUME AtomicPrecondition PROVE Spec => []ResultsAreEvidence
  OBVIOUS
<1>1. Inv => ResultsAreEvidence
  <2> SUFFICES ASSUME Inv PROVE ResultsAreEvidence
    OBVIOUS
  <2>1. ball.state \in ResultStates => ball.body.result = ball.state /\ executions[Current] = 1
    BY DEF Inv, Channel, Shape, Executions
  <2>2. ball.state = "GONE" => ball.body.result \in {NoResult, "GONE"}
    BY DEF Inv, Channel, Shape
  <2>. QED BY <2>1, <2>2 DEF ResultsAreEvidence, Current
<1>. QED BY <1>1, InvHolds, PTL

(* The WATCHDOG gives up only a job it found without a pulse while that very job  *)
(* was in CHEW, however its three reads interleave with the others               *)
(* (job_reaper.py, check_once).                                                  *)
THEOREM GivenUpJobsWereLost == AtomicPrecondition => (Spec => []OnlyLostJobsAreGone)
<1> SUFFICES ASSUME AtomicPrecondition PROVE Spec => []OnlyLostJobsAreGone
  OBVIOUS
<1>1. Inv => OnlyLostJobsAreGone
  BY DEF Inv, Channel, Heard, OnlyLostJobsAreGone, Current
<1>. QED BY <1>1, InvHolds, PTL

-----------------------------------------------------------------------------
(* The channel implements its lifecycle.  What JobLifecycle sees of it:          *)
Running == IF fetcher = "running" THEN job ELSE 0
Claimed == (1 .. Current) \ Unclaimed
Executed == {g \in Generations : executions[g] > 0}

(* The lifecycle's registry is the channel's.                                    *)
LEMMA SameEdges == Lifecycle!Edges("FETCH_BALL") = Edges("FETCH_BALL")
<1>1. Lifecycle!ResultStates = ResultStates
  BY DEF Lifecycle!ResultStates, ResultStates
<1>2. Lifecycle!Terminal("FETCH_BALL") = Terminal("FETCH_BALL")
  BY <1>1 DEF Lifecycle!Terminal, Terminal
<1>3. \A p, t : Lifecycle!CoachEdges(p, t) = CoachEdges(p, t)
  BY DEF Lifecycle!CoachEdges, CoachEdges, Lifecycle!Coach, Coach
<1>4. Lifecycle!Fetcher = Fetcher /\ Lifecycle!Watchdog = Watchdog
  BY DEF Lifecycle!Fetcher, Fetcher, Lifecycle!Watchdog, Watchdog
<1>. QED BY <1>1, <1>2, <1>3, <1>4 DEF Lifecycle!Edges, Edges

(* Nothing of it changes: a step that leaves the lifecycle alone.                *)
LEMMA Stutters ==
  ASSUME ball'.state = ball.state, Current' = Current, Unclaimed' = Unclaimed,
         Running' = Running, UNCHANGED executions
  PROVE  UNCHANGED Lifecycle!jobVars
BY DEF Lifecycle!jobVars, Current, Running

(* A rename along the registry is a Move of the lifecycle.                       *)
LEMMA RenameMoves ==
  ASSUME Channel, NEW from, NEW to, <<from, to>> \in Moves, Renamed(from, to),
         to = "TOSS" => Fresh, to = "RETURNING" => executions[Current] = 1 /\ Running # Current,
         Running' = Running, UNCHANGED executions
  PROVE  Lifecycle!Move
<1>. USE DEF Channel
<1>1. to \in States("FETCH_BALL")
  BY MovesAreEdges DEF States
<1>2. /\ ball.state = from /\ ball'.state = to /\ ball'.body = ball.body
      /\ Current' = Current /\ Current \in Generations
  BY <1>1, RenameFields DEF Renamed
<1>3. PICK edge \in Edges("FETCH_BALL") : edge[1] = from /\ edge[2] = to
  BY MovesAreEdges
<1>4. Claimed' = IF to = "CHEW" THEN Claimed \cup {Current} ELSE Claimed
  <2>1. CASE to = "CHEW"
    <3>1. from = "TOSS" /\ ball.body.operation # NoOperation /\ Current >= 1
      BY <1>2, <2>1 DEF Moves, ResultStates, Shape, Fresh, Busy, NoOperation, Generations
    <3>2. Unclaimed = {Current} /\ Unclaimed' = {}
      BY <1>2, <2>1, <3>1 DEF Unclaimed, Current
    <3>. QED BY <1>2, <2>1, <3>1, <3>2 DEF Claimed, Generations
  <2>2. CASE to = "TOSS"
    <3>1. from = "LOADING"
      BY <2>2 DEF Moves, ResultStates
    <3>2. Unclaimed' = Unclaimed
      BY <1>2, <2>2, <3>1 DEF Unclaimed, Current
    <3>. QED BY <1>2, <2>2, <3>2 DEF Claimed
  <2>3. CASE to = "LOADING"
    <3>1. from = "READY"
      BY <2>3 DEF Moves, ResultStates
    <3>2. ball.body.operation = NoOperation
      BY <1>2, <3>1 DEF Shape, Idle
    <3>3. Unclaimed' = Unclaimed
      BY <1>2, <3>2 DEF Unclaimed
    <3>. QED BY <1>2, <2>3, <3>3 DEF Claimed
  <2>4. CASE to \notin {"CHEW", "TOSS", "LOADING"}
    <3>1. from \notin {"LOADING", "TOSS"}
      BY <2>4 DEF Moves, ResultStates
    <3>2. Unclaimed' = Unclaimed
      BY <1>2, <2>4, <3>1 DEF Unclaimed
    <3>. QED BY <1>2, <2>4, <3>2 DEF Claimed
  <2>. QED BY <2>1, <2>2, <2>3, <2>4
<1>5. to \in {"TOSS", "CHEW"} => Current \notin Claimed \cup {0}
  <2>1. to \in {"TOSS", "CHEW"} => from \in {"LOADING", "TOSS"}
    BY DEF Moves, ResultStates
  <2>2. to \in {"TOSS", "CHEW"} => ball.body.operation # NoOperation /\ Current >= 1
    BY <1>2 DEF Moves, ResultStates, Shape, Fresh, Busy, NoOperation, Generations
  <2>3. to \in {"TOSS", "CHEW"} => Current \in Unclaimed
    BY <1>2, <2>1, <2>2 DEF Unclaimed, Current
  <2>. QED BY <1>2, <2>2, <2>3 DEF Claimed, Generations
<1>6. to = "RETURNING" => from = "CHEW" /\ Current \in Executed /\ Running # Current
  <2>1. to = "RETURNING" => from = "CHEW"
    BY DEF Moves, ResultStates
  <2>. QED BY <1>2, <2>1 DEF Executed
<1>. QED
  BY <1>2, <1>3, <1>4, <1>5, <1>6, SameEdges
     DEF Lifecycle!Move, Current, Running, Claimed, Executed

(* A body write in place leaves the lifecycle alone, unless it starts a generation. *)
LEMMA RewriteStutters ==
  ASSUME Channel, NEW state \in {"CHEW", "RETURNING", "GONE", "RECYCLING"},
         NEW body \in Body, Rewritten(state, body), body.generation = Current,
         Running' = Running, UNCHANGED executions
  PROVE  UNCHANGED Lifecycle!jobVars
<1>1. /\ ball.state = state /\ ball'.state = state /\ Current' = Current
  BY RewriteFields DEF Channel, Rewritten
<1>2. Unclaimed' = Unclaimed
  BY <1>1 DEF Unclaimed
<1>. QED BY <1>1, <1>2, Stutters

(* A channel that does not change, under a FETCHER that neither starts nor ends an *)
(* execution.                                                                      *)
LEMMA StillStutters ==
  ASSUME UNCHANGED <<ball, executions>>, Running' = Running
  PROVE  UNCHANGED Lifecycle!jobVars
<1>1. Unclaimed' = Unclaimed /\ Current' = Current
  BY DEF Unclaimed, Current
<1>. QED BY <1>1, Stutters

(* An execution that ends.                                                         *)
LEMMA RunningStops ==
  ASSUME Inv, fetcher = "running", fetcher' # "running", UNCHANGED <<ball, executions>>
  PROVE  Lifecycle!Stop
<1>1. Running = job /\ Running' = 0 /\ job >= 1 /\ job \in Generations
  BY DEF Running, Inv, Channel, TypeOK, Executing
<1>2. Running # 0
  BY <1>1 DEF Generations
<1>. QED BY <1>1, <1>2 DEF Lifecycle!Stop, Running, Unclaimed

LifecycleStep == Lifecycle!Next \/ UNCHANGED Lifecycle!jobVars

(* The fetcher's steps are steps of the lifecycle, or none.                   *)
LEMMA FetcherFollows ==
  ASSUME Inv, FetcherStep
  PROVE  LifecycleStep
<1>. USE DEF Inv
<1>1. /\ job \in Generations /\ Current \in Generations /\ ball \in Ball /\ verdict \in Result
      /\ TypeOK /\ Channel /\ executions \in [Generations -> Nat] /\ NoResult \in Result
  BY DEF Channel, TypeOK, Ball, Body, Current, Result
<1>2. CASE Poll \/ FetcherRefused
  <2>1. UNCHANGED <<ball, executions>> /\ fetcher # "running" /\ fetcher' # "running"
    BY <1>2 DEF Poll, FetcherRefused, FetcherAsks, Stops
  <2>. QED BY <2>1, StillStutters DEF Running, LifecycleStep
<1>3. CASE Claim
  <2>1. Walked("fetcher", "TOSS", "CHEW", job) /\ UNCHANGED executions /\ Running' = Running
    BY <1>3 DEF Claim, Running
  <2>2. CASE Renamed("TOSS", "CHEW")
    <3>1. <<"TOSS", "CHEW">> \in Moves
      BY DEF Moves
    <3>. QED BY <1>1, <2>1, <2>2, <3>1, RenameMoves DEF LifecycleStep, Lifecycle!Next
  <2>. QED BY <2>1, <2>2, WalkCases, StillStutters DEF LifecycleStep
<1>4. CASE MarkStarted
  <2>. DEFINE body == JobBody(job, TRUE, NoResult)
  <2>1. Stored("fetcher", "CHEW", body, job) /\ UNCHANGED executions /\ Running' = Running
    BY <1>4 DEF MarkStarted, Running
  <2>2. body \in Body /\ body.generation = job
    BY <1>1, StartedBodyFields
  <2>. HIDE DEF body
  <2>3. job = Current
    BY <2>1, WriteCases, OwnedIsCurrent
  <2>. QED BY <1>1, <2>1, <2>2, <2>3, WriteCases, RewriteStutters, StillStutters DEF LifecycleStep
<1>5. CASE Execute
  <2>1. /\ 1 <= job /\ job <= Current /\ executions[job] = 0 /\ Started(job)
        /\ fetcher = "execute" /\ fetcher' = "running" /\ UNCHANGED <<ball, job>>
        /\ executions' = [executions EXCEPT ![job] = @ + 1]
    BY <1>5 DEF Execute, Executing
  <2>2. Executed' = Executed \cup {job}
    BY <1>1, <2>1 DEF Executed
  <2>3. job \in Claimed
    <3>1. job \notin Unclaimed
      <4>1. job = Current => ball.body.started \/ ball.body.operation = NoOperation
        BY <1>1, <2>1 DEF Started, Generations
      <4>2. Unclaimed # {} => ball.body.operation # NoOperation /\ ~ball.body.started
        BY DEF Unclaimed, Channel, Shape, Fresh, Idle
      <4>3. Unclaimed \subseteq {Current}
        BY DEF Unclaimed, Current
      <4>. QED BY <4>1, <4>2, <4>3
    <3>. QED BY <1>1, <2>1, <3>1 DEF Claimed, Generations
  <2>4. Running = 0 /\ Running' = job
    BY <2>1 DEF Running
  <2>5. job \notin Executed
    BY <2>1 DEF Executed
  <2>6. Lifecycle!Execute
    BY <2>1, <2>2, <2>3, <2>4, <2>5 DEF Lifecycle!Execute, Running, Claimed, Executed, Current, Unclaimed
  <2>. QED BY <2>6 DEF LifecycleStep, Lifecycle!Next
<1>6. CASE Judge
  <2>1. fetcher = "running" /\ fetcher' # "running" /\ UNCHANGED <<ball, executions>>
    BY <1>6 DEF Judge
  <2>. QED BY <2>1, RunningStops DEF LifecycleStep, Lifecycle!Next
<1>7. CASE Return
  <2>1. Walked("fetcher", "CHEW", "RETURNING", job) /\ UNCHANGED executions
        /\ Running' = 0 /\ Running = 0 /\ 1 <= job /\ executions[job] = 1
    BY <1>7 DEF Return, Running, Executing
  <2>2. CASE Owned("CHEW", job) /\ Renamed("CHEW", "RETURNING")
    <3>1. <<"CHEW", "RETURNING">> \in Moves /\ job = Current
      BY <2>2, OwnedIsCurrent DEF Moves
    <3>2. Running # Current
      BY <1>1, <2>1, <3>1 DEF Generations
    <3>. QED BY <1>1, <2>1, <2>2, <3>1, <3>2, RenameMoves DEF LifecycleStep, Lifecycle!Next
  <2>. QED BY <2>1, <2>2, WalkCases, StillStutters DEF LifecycleStep
<1>8. CASE StoreResult
  <2>. DEFINE body == JobBody(job, TRUE, verdict)
  <2>1. Stored("fetcher", "RETURNING", body, job) /\ UNCHANGED executions /\ Running' = Running
    BY <1>8 DEF StoreResult, Running
  <2>2. body \in Body /\ body.generation = job
    BY <1>1, StartedBodyFields
  <2>. HIDE DEF body
  <2>3. job = Current
    BY <2>1, WriteCases, OwnedIsCurrent
  <2>. QED BY <1>1, <2>1, <2>2, <2>3, WriteCases, RewriteStutters, StillStutters DEF LifecycleStep
<1>9. CASE Publish
  <2>1. Walked("fetcher", "RETURNING", verdict, job) /\ UNCHANGED executions /\ Running' = Running
        /\ verdict \in ResultStates
    BY <1>9 DEF Publish, Running, Executing
  <2>2. CASE Renamed("RETURNING", verdict)
    <3>1. <<"RETURNING", verdict>> \in Moves /\ verdict \notin {"TOSS", "RETURNING"}
      BY <2>1 DEF Moves, ResultStates
    <3>. QED BY <1>1, <2>1, <2>2, <3>1, RenameMoves DEF LifecycleStep, Lifecycle!Next
  <2>. QED BY <2>1, <2>2, WalkCases, StillStutters DEF LifecycleStep
<1>. QED BY <1>2, <1>3, <1>4, <1>5, <1>6, <1>7, <1>8, <1>9 DEF FetcherStep

(* So are those of the reaper,                                                *)
LEMMA ReaperFollows ==
  ASSUME Inv, ReaperStep
  PROVE  LifecycleStep
<1>. USE DEF Inv
<1>1. /\ victim \in Generations /\ "GONE" \in Result /\ Channel
      /\ UNCHANGED executions /\ Running' = Running
  BY DEF Channel, TypeOK, Result, ReaperStep, ReadName, ReadVictim, ReadPulse, Reap, Bury, ReaperRefused,
         OfReaper, fetcherVars, Running
<1>2. CASE ReadName \/ ReadVictim \/ ReadPulse \/ ReaperRefused
  <2>1. UNCHANGED ball
    BY <1>2 DEF ReadName, ReadVictim, ReadPulse, ReaperRefused
  <2>. QED BY <1>1, <2>1, StillStutters DEF LifecycleStep
<1>3. CASE Reap
  <2>1. Walked("reaper", "CHEW", "GONE", victim)
    BY <1>3 DEF Reap
  <2>2. CASE Renamed("CHEW", "GONE")
    <3>1. <<"CHEW", "GONE">> \in Moves
      BY DEF Moves
    <3>. QED BY <1>1, <2>2, <3>1, RenameMoves DEF LifecycleStep, Lifecycle!Next
  <2>. QED BY <1>1, <2>1, <2>2, WalkCases, StillStutters DEF LifecycleStep
<1>4. CASE Bury
  <2>. DEFINE body == JobBody(victim, TRUE, "GONE")
  <2>1. Stored("reaper", "GONE", body, victim)
    BY <1>4 DEF Bury
  <2>2. body \in Body /\ body.generation = victim
    BY <1>1, StartedBodyFields
  <2>. HIDE DEF body
  <2>3. victim = Current
    BY <2>1, WriteCases, OwnedIsCurrent
  <2>. QED BY <1>1, <2>1, <2>2, <2>3, WriteCases, RewriteStutters, StillStutters DEF LifecycleStep
<1>. QED BY <1>2, <1>3, <1>4 DEF ReaperStep

(* ... of the coach,                                                          *)
LEMMA CoachFollows ==
  ASSUME Inv, CoachStep
  PROVE  LifecycleStep
<1>. USE DEF Inv
<1>1. /\ Channel /\ Current \in Generations /\ ball \in Ball
      /\ UNCHANGED executions /\ Running' = Running
  BY DEF Channel, TypeOK, Ball, Body, Current, CoachStep, Reserve, WriteJob, Toss, Consume, Clear, Free,
         OfCoach, fetcherVars, Running
<1>2. CASE Reserve \/ Toss \/ Free
  <2>1. PICK from, to : <<from, to>> \in {<<"READY", "LOADING">>, <<"LOADING", "TOSS">>, <<"RECYCLING", "READY">>}
                        /\ Renamed(from, to) /\ (to = "TOSS" => from = "LOADING" /\ coach = "toss")
    BY <1>2 DEF Reserve, Toss, Free, CoachWalks, Renamed
  <2>2. <<from, to>> \in Moves /\ to # "RETURNING"
    BY <2>1 DEF Moves
  <2>3. to = "TOSS" => Fresh
    BY <2>1 DEF Channel, Shape, Renamed
  <2>. QED BY <1>1, <2>1, <2>2, <2>3, RenameMoves DEF LifecycleStep, Lifecycle!Next
<1>3. CASE Consume
  <2>1. Renamed(ball.state, "RECYCLING") /\ ball.state \in ResultStates \cup {"GONE"}
    BY <1>3 DEF Consume, CoachWalks, Renamed, Terminal
  <2>2. <<ball.state, "RECYCLING">> \in Moves
    BY <2>1 DEF Moves
  <2>. QED BY <1>1, <2>1, <2>2, RenameMoves DEF LifecycleStep, Lifecycle!Next
<1>4. CASE Clear
  <2>1. Rewritten("RECYCLING", IdleBody(Current))
    BY <1>4 DEF Clear, Rewritten, Current
  <2>2. IdleBody(Current) \in Body /\ IdleBody(Current).generation = Current
    BY <1>1, IdleBodyFields
  <2>. QED BY <1>1, <2>1, <2>2, RewriteStutters DEF LifecycleStep
<1>5. CASE WriteJob
  <2>. DEFINE body == JobBody(Current + 1, FALSE, NoResult)
  <2>1. Rewritten("LOADING", body) /\ coach = "publish"
    BY <1>5 DEF WriteJob, Rewritten, Current
  <2>2. Idle /\ Current < MaxGeneration
    BY <2>1 DEF Channel, Shape, Rewritten
  <2>3. Current + 1 \in Generations /\ NoResult \in Result
    BY <1>1, <2>2, ChannelAssumption DEF Generations, Result
  <2>4. body \in Body /\ body.generation = Current + 1 /\ body.operation = Current + 1
    BY <2>3, JobBodyFields
  <2>. HIDE DEF body
  <2>5. ball.state = "LOADING" /\ ball'.state = "LOADING" /\ ball'.body = body /\ Current' = Current + 1
    BY <1>1, <2>1, <2>4, RewriteFields DEF Rewritten, Channel
  <2>6. Unclaimed = {} /\ Unclaimed' = {Current + 1}
    <3>1. Current + 1 # NoOperation
      BY <1>1 DEF Generations, NoOperation
    <3>. QED BY <2>2, <2>4, <2>5, <3>1 DEF Unclaimed, Idle
  <2>7. Claimed' = Claimed
    BY <1>1, <2>5, <2>6 DEF Claimed, Generations
  <2>8. Lifecycle!Publish
    BY <1>1, <2>2, <2>5, <2>7 DEF Lifecycle!Publish, Current, Claimed, Running
  <2>. QED BY <2>8 DEF LifecycleStep, Lifecycle!Next
<1>. QED BY <1>2, <1>3, <1>4, <1>5 DEF CoachStep

(* ... of a write that lands late,                                            *)
LEMMA LandFollows ==
  ASSUME AtomicPrecondition, Inv, Land
  PROVE  LifecycleStep
<1>. USE DEF Inv
<1>1. UNCHANGED executions /\ Running' = Running /\ Channel
  BY DEF Land, fetcherVars, Running
<1>2. PICK late \in pending : ball' = IF ball = late.against THEN Applied(late.request) ELSE ball
  BY DEF Land
<1>3. Late(late)
  BY DEF Mail
<1>4. CASE UNCHANGED ball
  BY <1>1, <1>4, StillStutters DEF LifecycleStep
<1>5. CASE ball = late.against /\ ball' = Applied(late.request)
  <2>1. /\ late.against.body.generation = Current /\ Current \in Generations
        /\ 1 <= Current /\ ball \in Ball /\ "GONE" \in Result /\ NoResult \in Result
    BY <1>3, <1>5 DEF Late, Current, Ball, Body, Result
  <2>2. ASSUME NEW from, NEW to, LateRename(late, from, to), <<from, to>> \in Moves, to # "TOSS",
               to = "RETURNING" => executions[Current] = 1 /\ Running # Current
        PROVE  LifecycleStep
    <3>1. Renamed(from, to)
      BY <1>5, <2>2, AppliedRename DEF LateRename, Renamed
    <3>. QED BY <1>1, <2>2, <3>1, RenameMoves DEF LifecycleStep, Lifecycle!Next
  <2>3. ASSUME NEW state \in {"CHEW", "RETURNING", "GONE"}, NEW result \in Result,
               LateBody(late, state, JobBody(Current, TRUE, result))
        PROVE  LifecycleStep
    <3>. DEFINE body == JobBody(Current, TRUE, result)
    <3>1. body \in Body /\ body.generation = Current
      <4>1. result \in Result /\ Current \in Generations
        BY <2>1, <2>3
      <4>. QED BY <4>1, StartedBodyFields
    <3>2. late.request = [from |-> state, body |-> body] /\ ball.state = state
      BY <1>5, <2>3 DEF LateBody
    <3>. HIDE DEF body
    <3>3. Rewritten(state, body)
      BY <1>5, <3>2, AppliedBody DEF Rewritten
    <3>. QED BY <1>1, <3>1, <3>3, RewriteStutters DEF LifecycleStep
  <2>4. CASE LateRename(late, "TOSS", "CHEW")
    <3>1. <<"TOSS", "CHEW">> \in Moves
      BY DEF Moves
    <3>. QED BY <2>2, <2>4, <3>1
  <2>5. CASE /\ LateRename(late, "CHEW", "RETURNING") /\ executions[Current] = 1
             /\ fetcher = "running" => job # Current
    <3>1. <<"CHEW", "RETURNING">> \in Moves
      BY DEF Moves
    <3>2. Running # Current
      BY <2>1, <2>5 DEF Running
    <3>. QED BY <2>2, <2>5, <3>1, <3>2
  <2>6. CASE LateRename(late, "RETURNING", ball.body.result) /\ ball.body.result \in ResultStates
    <3>1. <<"RETURNING", ball.body.result>> \in Moves /\ ball.body.result \notin {"TOSS", "RETURNING"}
      BY <2>6 DEF Moves, ResultStates
    <3>. QED BY <2>2, <2>6, <3>1
  <2>7. CASE LateRename(late, "CHEW", "GONE")
    <3>1. <<"CHEW", "GONE">> \in Moves
      BY DEF Moves
    <3>. QED BY <2>2, <2>7, <3>1
  <2>8. CASE LateBody(late, "CHEW", JobBody(Current, TRUE, NoResult))
    BY <2>1, <2>3, <2>8
  <2>9. CASE LateBody(late, "GONE", JobBody(Current, TRUE, "GONE"))
    BY <2>1, <2>3, <2>9
  <2>10. ASSUME NEW v \in ResultStates, LateBody(late, "RETURNING", JobBody(Current, TRUE, v))
         PROVE  LifecycleStep
    BY <2>3, <2>10 DEF Result
  <2>. QED BY <1>3, <1>5, <2>1, <2>4, <2>5, <2>6, <2>7, <2>8, <2>9, <2>10 DEF Late
<1>. QED BY <1>2, <1>4, <1>5

(* ... and everything that happens to the processes and the clock.            *)
LEMMA OthersFollow ==
  ASSUME Inv,
         \/ Crash \/ Restart \/ Leave \/ Wake \/ Beat \/ RecoverReturning
         \/ FetcherUnanswered \/ ReaperUnanswered \/ ReaperCrash \/ Expire \/ Fade
  PROVE  LifecycleStep
<1>. USE DEF Inv
<1>1. CASE RecoverReturning
  <2>1. /\ Renamed("RETURNING", ball.body.result) /\ ball.body.result \in ResultStates
        /\ UNCHANGED executions /\ Running' = Running
    BY <1>1 DEF RecoverReturning, Renamed, Elsewise, fetcherVars, Running
  <2>2. <<"RETURNING", ball.body.result>> \in Moves /\ ball.body.result \notin {"TOSS", "RETURNING"}
    BY <2>1 DEF Moves, ResultStates
  <2>. QED BY <2>1, <2>2, RenameMoves DEF LifecycleStep, Lifecycle!Next
<1>2. CASE Crash
  <2>1. UNCHANGED <<ball, executions>> /\ fetcher' # "running"
    BY <1>2 DEF Crash, Stops
  <2>2. CASE fetcher = "running"
    BY <2>1, <2>2, RunningStops DEF LifecycleStep, Lifecycle!Next
  <2>3. CASE fetcher # "running"
    BY <2>1, <2>3, StillStutters DEF Running, LifecycleStep
  <2>. QED BY <2>2, <2>3
<1>3. CASE \/ Restart \/ Leave \/ Wake \/ Beat \/ FetcherUnanswered \/ ReaperUnanswered
           \/ ReaperCrash \/ Expire \/ Fade
  <2>1. UNCHANGED <<ball, executions>> /\ Running' = Running
    BY <1>3 DEF Restart, Leave, Wake, Starts, Beat, FetcherUnanswered, ReaperUnanswered, Unanswered,
                ReaperCrash, Expire, OfCoach, Fade, Elsewise, fetcherVars, Running
  <2>. QED BY <2>1, StillStutters DEF LifecycleStep
<1>. QED BY <1>1, <1>2, <1>3

(* The channel keeps its lifecycle, which is all the rest of the system relies on: *)
(* a generation is offered, claimed and executed once and in this order, and       *)
(* returns only when its execution is over - whatever is lost, late or dies.       *)
THEOREM ChannelKeepsItsLifecycle == AtomicPrecondition => (Spec => ImplementsLifecycle)
<1> SUFFICES ASSUME AtomicPrecondition PROVE Spec => Lifecycle!Spec
  BY DEF ImplementsLifecycle
<1>1. Init => Lifecycle!Init
  <2> SUFFICES ASSUME Init PROVE Lifecycle!Init
    OBVIOUS
  <2>1. /\ ball.state = "READY" /\ ball.body = IdleBody(0) /\ fetcher = "down"
        /\ executions = [g \in Generations |-> 0]
    BY DEF Init
  <2>2. 0 \in Generations
    BY ChannelAssumption DEF Generations
  <2>3. ball.body.generation = 0 /\ ball.body.operation = NoOperation
    BY <2>1, <2>2, IdleBodyFields
  <2>4. Executed = {} /\ Claimed = {} /\ Running = 0
    BY <2>1, <2>3 DEF Executed, Claimed, Running, Current
  <2>. QED BY <2>1, <2>3, <2>4 DEF Lifecycle!Init, Executed, Claimed, Running, Current
<1>2. Inv /\ [Next]_vars => [Lifecycle!Next]_(Lifecycle!jobVars)
  <2> SUFFICES ASSUME Inv, [Next]_vars PROVE LifecycleStep
    BY DEF LifecycleStep
  <2>1. CASE UNCHANGED vars
    <3>1. UNCHANGED <<ball, executions>> /\ Running' = Running
      BY <2>1 DEF vars, fetcherVars, Running
    <3>. QED BY <3>1, StillStutters DEF LifecycleStep
  <2>. QED
    BY <2>1, FetcherFollows, ReaperFollows, CoachFollows, LandFollows, OthersFollow DEF Next
<1>. QED BY <1>1, <1>2, InvHolds, PTL DEF Spec, Lifecycle!Spec

=============================================================================
