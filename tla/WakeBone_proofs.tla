---------------------------- MODULE WakeBone_proofs ----------------------------
(***************************************************************************)
(* Proofs about the wake channel, for any number of generations, deaths    *)
(* and lost answers: whatever is retried, applied late or restarted, no    *)
(* start command follows one that was reported STARTED, and DONE is a      *)
(* pulse that was heard.                                                   *)
(***************************************************************************)
EXTENDS WakeBone, TLAPS

Current == bone.body.generation
Idle == bone.body.operation = NoOperation /\ bone.body.mode = NoMode
Busy == bone.body.operation = Current /\ Current >= 1

(* The body in each state, as far as COACH has come with it.                   *)
Shape ==
  /\ bone.state = "READY" => Idle
  /\ bone.state = "LOADING" =>
       \/ coach = "publish" /\ Idle /\ Current < MaxGeneration
       \/ coach = "toss" /\ Busy
  /\ bone.state = "RECYCLING" => coach = "clear" \/ (coach = "free" /\ Idle)
  /\ bone.state \in {"TOSS", "CHEW"} \cup Answer => Busy
  /\ bone.body.operation = NoOperation => bone.body.mode = NoMode

(* Nothing has been done for a generation yet; no start command was sent; a     *)
(* start command may be sent: none was reported STARTED, nor two sent.          *)
Unworked(g) == thrown[g] = 0 /\ started[g] = 0 /\ g \notin confirmed
Unstarted(g) == started[g] = 0 /\ g \notin confirmed
Unconfirmed(g) == started[g] <= 1 /\ g \notin confirmed

(* What has been done, as the file tells it.                                   *)
Woken ==
  /\ Sparing /\ DoneMeansHeard
  /\ \A g \in Generations : g > Current => Unworked(g)
  /\ bone.state \in {"LOADING", "TOSS"} /\ bone.body.operation # NoOperation => Unworked(Current)

(* A generation that was claimed, or that has been recycled since.             *)
Claimed(g) ==
  \/ g < Current
  \/ g = Current /\ (bone.body.operation = NoOperation \/ bone.state \notin {"LOADING", "TOSS"})

(* What process_toss knows of the request it has read.                         *)
Reading ==
  /\ dog = "read" => Unworked(Current)
  /\ request.generation <= Current
  /\ (/\ request.generation = Current
      /\ request.operation # NoOperation /\ bone.body.operation # NoOperation)
       => request.mode = bone.body.mode

Working ==
  /\ dog \in {"decide", "claim", "start", "pulse", "probe", "throw"} => Unworked(request.generation)
  /\ dog \in {"settle", "ensure", "knock"} => Unstarted(request.generation)
  /\ dog = "scratch" => Unconfirmed(request.generation)
  /\ dog \in {"listen", "loop", "look", "sleep"} => attempted \/ Unconfirmed(request.generation)
  /\ dog \in {"start", "record", "publish"} \cup AtWork => Claimed(request.generation)
  /\ dog \in AtWork => request.operation # NoOperation
  /\ dog \in {"knock", "scratch"} => request.mode # "DO_NOT_START"
  /\ dog \in {"record", "publish"} /\ answer = "DONE" => request.generation \in heard

(* A step of the WATCHDOG on the file: the request stays what it was, and is    *)
(* DONE only if its pulse was heard.                                            *)
Change(old, new) ==
  /\ old \in Bone /\ new \in Bone
  /\ old.state \in {"TOSS", "CHEW", "FAILED"} /\ new.state \in {"CHEW"} \cup Answer
  /\ new.body.generation = old.body.generation
  /\ new.body.operation = old.body.operation /\ new.body.mode = old.body.mode
  /\ new.state = "DONE" => old.body.generation \in heard

Mail == \A one \in pending : Change(one.against, one.applied)

File == TypeOK /\ Shape /\ Woken
Inv == File /\ Reading /\ Working /\ Mail
-----------------------------------------------------------------------------
(* The answers of the channel, and the states its steps name, are states of the  *)
(* registry.                                                                     *)
LEMMA StatesNamed ==
  /\ Answer = {"DONE", "FAILED"}
  /\ {"READY", "LOADING", "TOSS", "CHEW", "DONE", "FAILED", "RECYCLING"} \subseteq States("WAKE_BONE")
<1>1. Answer = {"DONE", "FAILED"}
  BY DEF Answer, Terminal
<1>2. Edges("WAKE_BONE") =
         CoachEdges("TOSS", Terminal("WAKE_BONE"))
           \cup {<<"TOSS", "CHEW", Watchdog>>, <<"TOSS", "FAILED", Watchdog>>,
                 <<"CHEW", "DONE", Watchdog>>, <<"CHEW", "FAILED", Watchdog>>}
  BY DEF Edges
<1>3. /\ <<"READY", "LOADING", Coach>> \in Edges("WAKE_BONE")
      /\ <<"LOADING", "RECYCLING", Coach>> \in Edges("WAKE_BONE")
      /\ <<"TOSS", "CHEW", Watchdog>> \in Edges("WAKE_BONE")
      /\ <<"CHEW", "DONE", Watchdog>> \in Edges("WAKE_BONE")
      /\ <<"CHEW", "FAILED", Watchdog>> \in Edges("WAKE_BONE")
  BY <1>2 DEF CoachEdges
<1>4. \A e \in Edges("WAKE_BONE") : e[1] \in States("WAKE_BONE") /\ e[2] \in States("WAKE_BONE")
  BY DEF States
<1>. QED BY <1>1, <1>3, <1>4

(* A rename replaces the state, a body write the body, and nothing else.         *)
LEMMA RenameFields ==
  ASSUME NEW old \in Bone, NEW to \in States("WAKE_BONE")
  PROVE  /\ [old EXCEPT !.state = to] \in Bone
         /\ [old EXCEPT !.state = to].state = to
         /\ [old EXCEPT !.state = to].body = old.body
BY DEF Bone

(* A content is replaced and the name stays.                                  *)
LEMMA RewriteFields ==
  ASSUME NEW old \in Bone, NEW body \in Body
  PROVE  /\ [old EXCEPT !.body = body] \in Bone
         /\ [old EXCEPT !.body = body].state = old.state
         /\ [old EXCEPT !.body = body].body = body
BY DEF Bone

(* The bodies COACH writes, field by field.                                      *)
LEMMA IdleFields ==
  ASSUME NEW g \in Generations
  PROVE  /\ IdleBody(g) \in Body /\ IdleBody(g).generation = g
         /\ IdleBody(g).operation = NoOperation /\ IdleBody(g).mode = NoMode
BY WakeAssumption DEF IdleBody, Body, Generations, NoOperation

(* What a request says.                                                       *)
LEMMA RequestFields ==
  ASSUME NEW g \in Generations, NEW mode \in StartModes
  PROVE  /\ RequestBody(g, mode) \in Body /\ RequestBody(g, mode).generation = g
         /\ RequestBody(g, mode).operation = g /\ RequestBody(g, mode).mode = mode
BY DEF RequestBody, Body

(* The fields of the file, and of the request that was read.                     *)
LEMMA Fields ==
  ASSUME TypeOK
  PROVE  /\ Current \in Generations /\ Current \in Nat
         /\ bone.body \in Body /\ bone.state \in States("WAKE_BONE")
         /\ bone.body.operation \in Generations /\ bone.body.mode \in StartModes \cup {NoMode}
         /\ request.generation \in Generations /\ request.generation \in Nat
         /\ request.operation \in Generations /\ request.mode \in StartModes \cup {NoMode}
         /\ NoMode # "DO_NOT_START"
<1>1. bone \in Bone /\ request \in Body
  BY DEF TypeOK
<1>2. bone.body \in Body /\ bone.state \in States("WAKE_BONE")
  BY <1>1 DEF Bone
<1>3. ASSUME NEW body \in Body
      PROVE  /\ body.generation \in Generations /\ body.operation \in Generations
             /\ body.mode \in StartModes \cup {NoMode}
  BY DEF Body
<1>4. NoMode # "DO_NOT_START" /\ \A g \in Generations : g \in Nat
  BY WakeAssumption DEF Generations, NoMode
<1>. QED BY <1>1, <1>2, <1>3, <1>4 DEF Current

-----------------------------------------------------------------------------
(* What the changes of the file have in common: the generation never falls, a    *)
(* claimed one stays so, and the request of one generation is never replaced.    *)
Advance ==
  /\ bone' \in Bone /\ Current <= Current'
  /\ \A g \in Generations : Claimed(g) => Claimed(g)'
  /\ Current' = Current /\ bone'.body.operation # NoOperation =>
       bone.body.operation # NoOperation /\ bone'.body.mode = bone.body.mode

Effect == Shape' /\ Woken' /\ Advance

(* A change by the WATCHDOG.                                                     *)
LEMMA ChangeEffect ==
  ASSUME File, Change(bone, bone'), UNCHANGED <<coach, thrown, started, confirmed, heard>>
  PROVE  Effect
<1>1. /\ bone' \in Bone /\ bone.state \in {"TOSS", "CHEW", "FAILED"}
      /\ bone'.state \in {"CHEW", "DONE", "FAILED"}
      /\ Current' = Current /\ bone'.body.operation = bone.body.operation
      /\ bone'.body.mode = bone.body.mode
      /\ bone'.state = "DONE" => Current \in heard
  BY StatesNamed DEF Change, Current
<1>2. Current \in Nat
  BY Fields DEF File
<1>3. Busy
  BY <1>1, StatesNamed DEF File, Shape
<1>4. Shape'
  BY <1>1, <1>3, StatesNamed DEF File, Shape, Busy
<1>5. Woken'
  BY <1>1 DEF File, Woken, Sparing, DoneMeansHeard, Unworked, Current
<1>6. Advance
  BY <1>1, <1>2 DEF Advance, Claimed
<1>. QED BY <1>4, <1>5, <1>6 DEF Effect

(* COACH's six steps.                                                            *)
LEMMA CoachEffect ==
  ASSUME File, CoachStep
  PROVE  Effect /\ coach' \in CoachStage
<1>. USE DEF File
<1>1. Current \in Generations /\ Current \in Nat /\ bone \in Bone /\ bone.body \in Body
      /\ UNCHANGED <<thrown, started, confirmed, heard>> /\ coach' \in CoachStage
  BY Fields DEF TypeOK, CoachStep, Reserve, WriteRequest, Toss, Consume, Clear, Free, CoachMoves,
                OfCoach, record, CoachStage
<1>2. CASE Reserve
  <2>1. /\ bone' = [bone EXCEPT !.state = "LOADING"] /\ bone.state = "READY"
        /\ coach' = "publish" /\ Current < MaxGeneration
    BY <1>2 DEF Reserve, CoachMoves, Current
  <2>2. bone' \in Bone /\ bone'.state = "LOADING" /\ bone'.body = bone.body /\ Current' = Current
    BY <1>1, <2>1, StatesNamed, RenameFields DEF Current
  <2>3. Idle
    BY <2>1 DEF Shape
  <2>4. Shape'
    BY <2>1, <2>2, <2>3, StatesNamed DEF Shape, Idle
  <2>5. Woken'
    BY <1>1, <2>2, <2>3 DEF Woken, Sparing, DoneMeansHeard, Unworked, Idle
  <2>6. Advance
    BY <1>1, <2>2, <2>3 DEF Advance, Claimed, Idle
  <2>. QED BY <1>1, <2>4, <2>5, <2>6 DEF Effect
<1>3. CASE WriteRequest
  <2>1. PICK mode \in StartModes : bone' = [bone EXCEPT !.body = RequestBody(Current + 1, mode)]
    BY <1>3 DEF WriteRequest, Current, Bone, TypeOK
  <2>2. bone.state = "LOADING" /\ coach = "publish" /\ coach' = "toss" /\ Current < MaxGeneration
    BY <1>3 DEF WriteRequest, Shape
  <2>3. Current + 1 \in Generations /\ Current + 1 >= 1
    BY <1>1, <2>2, WakeAssumption DEF Generations
  <2>. DEFINE body == RequestBody(Current + 1, mode)
  <2>4. /\ body \in Body /\ body.generation = Current + 1
        /\ body.operation = Current + 1 /\ body.mode = mode
    BY <2>3, RequestFields
  <2>. HIDE DEF body
  <2>5. bone' = [bone EXCEPT !.body = body]
    BY <2>1 DEF body
  <2>6. /\ bone' \in Bone /\ bone'.state = "LOADING" /\ bone'.body = body
        /\ Current' = Current + 1
    BY <1>1, <2>2, <2>4, <2>5, RewriteFields DEF Current
  <2>7. Shape'
    BY <1>1, <2>2, <2>3, <2>4, <2>6, StatesNamed DEF Shape, Busy, NoOperation
  <2>8. Unworked(Current + 1)
    BY <1>1, <2>3 DEF Woken
  <2>9. Woken'
    BY <1>1, <2>4, <2>6, <2>8 DEF Woken, Sparing, DoneMeansHeard, Unworked, Generations
  <2>10. Advance
    BY <1>1, <2>6, <2>8 DEF Advance, Claimed, Generations
  <2>. QED BY <1>1, <2>7, <2>9, <2>10 DEF Effect
<1>4. CASE Toss
  <2>1. /\ bone' = [bone EXCEPT !.state = "TOSS"] /\ bone.state = "LOADING"
        /\ coach = "toss" /\ coach' = "rest"
    BY <1>4 DEF Toss, CoachMoves
  <2>2. bone' \in Bone /\ bone'.state = "TOSS" /\ bone'.body = bone.body /\ Current' = Current
    BY <1>1, <2>1, StatesNamed, RenameFields DEF Current
  <2>3. Busy
    BY <2>1 DEF Shape
  <2>4. Shape'
    BY <2>1, <2>2, <2>3, StatesNamed DEF Shape, Busy
  <2>5. Woken'
    BY <1>1, <2>1, <2>2, <2>3 DEF Woken, Sparing, DoneMeansHeard, Unworked, Busy
  <2>6. Advance
    BY <1>1, <2>1, <2>2, <2>3 DEF Advance, Claimed, Busy
  <2>. QED BY <1>1, <2>4, <2>5, <2>6 DEF Effect
<1>5. CASE Consume
  <2>1. /\ bone' = [bone EXCEPT !.state = "RECYCLING"] /\ bone.state \in Answer
        /\ coach' = "clear"
    BY <1>5 DEF Consume, CoachMoves
  <2>2. bone' \in Bone /\ bone'.state = "RECYCLING" /\ bone'.body = bone.body /\ Current' = Current
    BY <1>1, <2>1, StatesNamed, RenameFields DEF Current
  <2>3. Shape'
    BY <2>1, <2>2, StatesNamed DEF Shape
  <2>4. Woken'
    BY <1>1, <2>2 DEF Woken, Sparing, DoneMeansHeard, Unworked
  <2>5. Advance
    BY <1>1, <2>2 DEF Advance, Claimed
  <2>. QED BY <1>1, <2>3, <2>4, <2>5 DEF Effect
<1>6. CASE Clear
  <2>1. bone.state = "RECYCLING" /\ coach' = "free"
    BY <1>6 DEF Clear
  <2>. DEFINE body == IdleBody(Current)
  <2>2. /\ body \in Body /\ body.generation = Current
        /\ body.operation = NoOperation /\ body.mode = NoMode
    BY <1>1, IdleFields
  <2>. HIDE DEF body
  <2>3. bone' = [bone EXCEPT !.body = body]
    BY <1>6 DEF Clear, Current, TypeOK, Bone, body
  <2>4. bone' \in Bone /\ bone'.state = "RECYCLING" /\ bone'.body = body /\ Current' = Current
    BY <1>1, <2>1, <2>2, <2>3, RewriteFields DEF Current
  <2>5. Shape'
    BY <2>1, <2>2, <2>4, StatesNamed DEF Shape, Idle
  <2>6. Woken'
    BY <1>1, <2>2, <2>4 DEF Woken, Sparing, DoneMeansHeard, Unworked, NoMode
  <2>7. Advance
    BY <1>1, <2>2, <2>4 DEF Advance, Claimed
  <2>. QED BY <1>1, <2>5, <2>6, <2>7 DEF Effect
<1>7. CASE Free
  <2>1. /\ bone' = [bone EXCEPT !.state = "READY"] /\ bone.state = "RECYCLING"
        /\ coach = "free" /\ coach' = "rest"
    BY <1>7 DEF Free, CoachMoves
  <2>2. bone' \in Bone /\ bone'.state = "READY" /\ bone'.body = bone.body /\ Current' = Current
    BY <1>1, <2>1, StatesNamed, RenameFields DEF Current
  <2>3. Idle
    BY <2>1 DEF Shape
  <2>4. Shape'
    BY <2>1, <2>2, <2>3, StatesNamed DEF Shape, Idle
  <2>5. Woken'
    BY <1>1, <2>2 DEF Woken, Sparing, DoneMeansHeard, Unworked
  <2>6. Advance
    BY <1>1, <2>2 DEF Advance, Claimed
  <2>. QED BY <1>1, <2>4, <2>5, <2>6 DEF Effect
<1>. QED BY <1>2, <1>3, <1>4, <1>5, <1>6, <1>7 DEF CoachStep
(* A step that leaves the file alone.                                            *)
LEMMA StayEffect ==
  ASSUME File, UNCHANGED <<bone, coach, thrown, started, confirmed>>, heard \subseteq heard'
  PROVE  Effect
<1>1. Shape'
  BY DEF File, Shape, Idle, Busy, Current
<1>2. Woken'
  BY DEF File, Woken, Sparing, DoneMeansHeard, Unworked, Current
<1>3. Current \in Nat /\ bone \in Bone
  BY Fields DEF File, TypeOK
<1>4. Advance
  BY <1>3 DEF Advance, Claimed, Current
<1>. QED BY <1>1, <1>2, <1>4 DEF Effect

(* Waking the target for a claimed request: a throw, for the first time, and a   *)
(* start command, unless one was reported STARTED.                               *)
Throws(g) == thrown' = thrown \/ (thrown[g] = 0 /\ thrown' = [thrown EXCEPT ![g] = @ + 1])
Commands(g) ==
  \/ UNCHANGED <<started, confirmed>>
  \/ /\ Unconfirmed(g) /\ started' = [started EXCEPT ![g] = @ + 1]
     /\ confirmed' \in {confirmed, confirmed \cup {g}}

(* Throwing the bone and starting the target change their counts for one      *)
(* request.                                                                   *)
LEMMA WorkEffect ==
  ASSUME File, UNCHANGED <<bone, coach, heard>>, NEW g \in Generations, Claimed(g),
         Throws(g), Commands(g),
         started' = started \/ g < Current \/ bone.body.mode # "DO_NOT_START"
  PROVE  /\ Effect /\ confirmed' \subseteq Generations
         /\ thrown' \in [Generations -> Nat] /\ started' \in [Generations -> Nat]
<1>. USE DEF File
<1>1. /\ Current \in Nat /\ Current \in Generations /\ g \in Nat /\ bone \in Bone
      /\ thrown \in [Generations -> Nat] /\ started \in [Generations -> Nat]
      /\ Current' = Current /\ confirmed \subseteq Generations
  BY Fields DEF TypeOK, Generations, Current
<1>2. /\ thrown' \in [Generations -> Nat] /\ started' \in [Generations -> Nat]
      /\ \A h \in Generations : h # g => thrown'[h] = thrown[h] /\ started'[h] = started[h]
      /\ confirmed \subseteq confirmed' /\ confirmed' \subseteq confirmed \cup {g}
      /\ thrown'[g] \in {thrown[g], 1}
      /\ started'[g] = started[g] \/ started'[g] \in {1, 2}
      /\ started'[g] = started[g] \/ g < Current \/ bone.body.mode # "DO_NOT_START"
  BY <1>1 DEF Throws, Commands, Unconfirmed
<1>3. Shape'
  BY DEF Shape, Idle, Busy, Current
<1>4. Sparing'
  <2>1. \A h \in Generations : thrown'[h] <= 1 /\ started'[h] <= 2
    BY <1>1, <1>2 DEF Woken, Sparing
  <2>2. bone'.body.mode = "DO_NOT_START" => started'[Current'] = 0
    BY <1>1, <1>2 DEF Woken, Sparing, Current
  <2>. QED BY <2>1, <2>2 DEF Sparing, Current
<1>5. g <= Current
  BY <1>1 DEF Claimed
<1>6. \A h \in Generations : h > Current => Unworked(h)'
  BY <1>1, <1>2, <1>5 DEF Woken, Unworked, Generations
<1>7. bone.state \in {"LOADING", "TOSS"} /\ bone.body.operation # NoOperation => Unworked(Current)'
  BY <1>1, <1>2 DEF Woken, Unworked, Claimed
<1>8. Woken'
  BY <1>1, <1>4, <1>6, <1>7 DEF Woken, DoneMeansHeard, Current
<1>9. Advance
  BY <1>1 DEF Advance, Claimed, Current
<1>. QED BY <1>1, <1>2, <1>3, <1>8, <1>9 DEF Effect

-----------------------------------------------------------------------------
(* The change a request asks for is a change of the file as the request found it. *)
LEMMA AppliedChange ==
  ASSUME Inv, dog \in Asks, Owned
  PROVE  /\ Change(bone, Applied)
         /\ dog = "claim" => Applied.state = "CHEW"
         /\ bone.body.generation = request.generation
<1>. USE DEF Inv, File
<1>1. /\ bone \in Bone /\ request \in Body /\ bone.body \in Body
      /\ Current \in Nat /\ bone.body.generation = request.generation
      /\ bone.body.operation = request.operation
  BY Fields DEF TypeOK, Owned
<1>2. ASSUME bone.state \in {"TOSS", "CHEW", "FAILED"}
      PROVE  request.mode = bone.body.mode
  BY <1>1, <1>2, StatesNamed DEF Shape, Busy, Reading, Current, NoOperation
<1>3. ASSUME NEW to \in Answer \cup {"CHEW"}, bone.state \in {"TOSS", "CHEW"},
             to = "DONE" => request.generation \in heard
      PROVE  Change(bone, [bone EXCEPT !.state = to])
  <2>1. to \in States("WAKE_BONE")
    BY StatesNamed
  <2>. QED BY <1>1, <1>3, <2>1, RenameFields DEF Change
<1>4. ASSUME NEW body \in Body, bone.state \in {"CHEW", "FAILED"},
             body.generation = request.generation, body.operation = request.operation,
             body.mode = request.mode
      PROVE  Change(bone, [bone EXCEPT !.body = body])
  BY <1>1, <1>2, <1>4, RewriteFields, StatesNamed DEF Change
<1>5. CASE dog = "expire"
  <2>1. Applied = [bone EXCEPT !.state = "FAILED"] /\ From = "TOSS"
    BY <1>5 DEF Applied, From
  <2>. QED BY <1>1, <1>3, <1>5, <2>1, StatesNamed DEF Owned
<1>6. CASE dog = "claim"
  <2>1. Applied = [bone EXCEPT !.state = "CHEW"] /\ From = "TOSS"
    BY <1>6 DEF Applied, From
  <2>2. Applied.state = "CHEW"
    BY <1>1, <2>1, StatesNamed, RenameFields
  <2>. QED BY <1>1, <1>3, <2>1, <2>2, StatesNamed DEF Owned
<1>7. CASE dog = "publish"
  <2>1. Applied = [bone EXCEPT !.state = answer] /\ From = "CHEW"
    BY <1>7 DEF Applied, From
  <2>2. answer \in Answer
    BY <1>7 DEF TypeOK
  <2>3. answer = "DONE" => request.generation \in heard
    BY <1>7 DEF Working
  <2>. QED BY <1>1, <1>3, <1>7, <2>1, <2>2, <2>3 DEF Owned
<1>8. CASE dog = "explain"
  <2>. DEFINE body == [request EXCEPT !.result = "FAILED"]
  <2>1. Applied = [bone EXCEPT !.body = body] /\ From = "FAILED"
    BY <1>8 DEF Applied, From
  <2>2. /\ body \in Body /\ body.generation = request.generation
        /\ body.operation = request.operation /\ body.mode = request.mode
    BY <1>1, StatesNamed DEF Body
  <2>. HIDE DEF body
  <2>. QED BY <1>1, <1>4, <1>8, <2>1, <2>2 DEF Owned
<1>9. CASE dog = "start"
  <2>. DEFINE body == [request EXCEPT !.started = TRUE]
  <2>1. Applied = [bone EXCEPT !.body = body] /\ From = "CHEW"
    BY <1>9 DEF Applied, From
  <2>2. /\ body \in Body /\ body.generation = request.generation
        /\ body.operation = request.operation /\ body.mode = request.mode
    BY <1>1 DEF Body
  <2>. HIDE DEF body
  <2>. QED BY <1>1, <1>4, <1>9, <2>1, <2>2 DEF Owned
<1>10. CASE dog = "record"
  <2>. DEFINE body == [request EXCEPT !.result = answer]
  <2>1. Applied = [bone EXCEPT !.body = body] /\ From = "CHEW"
    BY <1>10 DEF Applied, From
  <2>2. answer \in Answer
    BY <1>10 DEF TypeOK
  <2>3. /\ body \in Body /\ body.generation = request.generation
        /\ body.operation = request.operation /\ body.mode = request.mode
    BY <1>1, <2>2 DEF Body
  <2>. HIDE DEF body
  <2>. QED BY <1>1, <1>4, <1>10, <2>1, <2>3 DEF Owned
<1>. QED BY <1>5, <1>6, <1>7, <1>8, <1>9, <1>10 DEF Asks

(* A request that succeeds, at once or in the end, has had its effect.           *)
LEMMA SuccessEffect ==
  ASSUME Inv, dog \in Asks, Succeeds(dog), UNCHANGED <<coach, thrown, started, confirmed, heard>>
  PROVE  Effect
<1>1. CASE Owned /\ bone' = Applied
  BY <1>1, AppliedChange, ChangeEffect DEF Inv
<1>2. CASE UNCHANGED bone
  BY <1>2, StayEffect DEF Inv
<1>. QED BY <1>1, <1>2 DEF Succeeds

(* A request that lands late is applied to the file it was sent against, or not. *)
LEMMA LandEffect ==
  ASSUME Inv, Land
  PROVE  Effect
<1>. USE DEF Inv
<1>1. UNCHANGED <<coach, thrown, started, confirmed, heard>>
  BY DEF Land, record
<1>2. PICK one \in pending : Lands(one)
  BY DEF Land
<1>3. CASE bone = one.against
  BY <1>1, <1>2, <1>3, ChangeEffect DEF Lands, Mail
<1>4. CASE bone # one.against
  BY <1>1, <1>2, <1>4, StayEffect DEF Lands
<1>. QED BY <1>3, <1>4
-----------------------------------------------------------------------------
(* What process_toss knows survives what happens to the file meanwhile.          *)
LEMMA Remembers ==
  ASSUME Inv, Advance, UNCHANGED request, dog' # "read"
  PROVE  /\ Reading'
         /\ Claimed(request.generation) => Claimed(request.generation)'
<1>1. /\ Current \in Nat /\ request.generation \in Generations /\ request.generation \in Nat
      /\ Current <= Current' /\ bone' \in Bone
  BY Fields DEF Inv, File, Advance
<1>2. Current' \in Nat
  BY <1>1 DEF Bone, Body, Current, Generations
<1>3. request'.generation <= Current'
  BY <1>1, <1>2 DEF Inv, Reading
<1>4. (/\ request'.generation = Current'
       /\ request'.operation # NoOperation /\ bone'.body.operation # NoOperation)
         => request'.mode = bone'.body.mode
  BY <1>1, <1>2 DEF Inv, Reading, Advance
<1>5. Claimed(request.generation) => Claimed(request.generation)'
  <2>1. request'.generation = request.generation
    OBVIOUS
  <2>. QED BY <1>1, <2>1 DEF Advance, Claimed
<1>. QED BY <1>3, <1>4, <1>5 DEF Reading

(* A step of another leaves process_toss what it knows.                          *)
LEMMA DogWaits ==
  ASSUME Inv, Advance, UNCHANGED <<dog, request, attempted, answer, thrown, started, confirmed, heard>>
  PROVE  Reading' /\ Working'
<1>. USE DEF Inv
<1>1. CASE dog = "read"
  <2>1. Current \in Nat /\ Current' \in Generations /\ Current' \in Nat
    BY Fields DEF File, Advance, Bone, Body, Current, Generations
  <2>2. Unworked(Current)'
    <3>1. CASE Current' = Current
      BY <1>1, <3>1 DEF Reading, Unworked
    <3>2. CASE Current' > Current
      BY <2>1, <3>2 DEF File, Woken, Unworked
    <3>. QED BY <2>1, <3>1, <3>2 DEF Advance
  <2>3. Reading'
    BY Fields, <2>1, <2>2 DEF File, Reading, Advance
  <2>. QED BY <1>1, <2>3 DEF Working, AtWork
<1>2. CASE dog # "read"
  <2>1. Reading' /\ (Claimed(request.generation) => Claimed(request.generation)')
    BY <1>2, Remembers
  <2>. QED BY <2>1 DEF Working, Unworked, Unstarted, Unconfirmed
<1>. QED BY <1>1, <1>2

(* What is heard once stays heard, so a request on its way stays what it was.    *)
LEMMA MailWaits ==
  ASSUME Mail, pending' \subseteq pending, heard \subseteq heard'
  PROVE  Mail'
BY DEF Mail, Change

(* A step that leaves process_toss and the requests on their way alone.          *)
LEMMA OthersStep ==
  ASSUME Inv, Effect, UNCHANGED <<dog, request, attempted, answer, thrown, started, confirmed, heard>>,
         pending' \subseteq pending, TypeOK'
  PROVE  Inv'
BY DogWaits, MailWaits DEF Inv, File, Effect

(* COACH steps.                                                                  *)
LEMMA CoachKeeps ==
  ASSUME Inv, CoachStep
  PROVE  Inv'
<1>1. Effect /\ coach' \in CoachStage
  BY CoachEffect DEF Inv
<1>2. UNCHANGED OfCoach
  BY DEF CoachStep, Reserve, WriteRequest, Toss, Consume, Clear, Free, CoachMoves
<1>3. TypeOK'
  <2>1. bone' \in Bone
    BY <1>1 DEF Effect, Advance
  <2>. QED BY <1>1, <1>2, <2>1 DEF Inv, File, TypeOK, OfCoach, target, manager, record, budget
<1>. QED BY <1>1, <1>2, <1>3, OthersStep DEF OfCoach, manager, record

(* A late request lands.                                                         *)
LEMMA LandKeeps ==
  ASSUME Inv, Land
  PROVE  Inv'
<1>1. Effect
  BY LandEffect
<1>2. UNCHANGED <<target, expired, manager, asked, coach, record, budget>> /\ pending' \subseteq pending
  BY DEF Land
<1>3. TypeOK'
  <2>1. bone' \in Bone
    BY <1>1 DEF Effect, Advance
  <2>. QED BY <1>2, <2>1 DEF Inv, File, TypeOK, target, manager, record, budget
<1>. QED BY <1>1, <1>2, <1>3, OthersStep DEF manager, record

(* The target and the clocks move on.                                            *)
LEMMA WorldKeeps ==
  ASSUME Inv, TargetStep \/ RequestExpires \/ DeadlinePasses
  PROVE  Inv'
<1>1. /\ UNCHANGED <<bone, dog, request, attempted, answer, asked, pending, coach, record, budget>>
      /\ host' \in BOOLEAN /\ service' \in BOOLEAN /\ pulse' \in BOOLEAN
      /\ overdue' \in BOOLEAN /\ expired' \subseteq Generations
  <2>. USE DEF Inv, File, TypeOK, target, Channel, manager
  <2>1. CASE TargetStep
    BY <2>1 DEF TargetStep, PowerOn, PowerOff, ServiceStarts, ServiceStops, Beat, Fade
  <2>2. CASE RequestExpires
    <3>1. bone.body.generation \in Generations
      BY Fields DEF Current
    <3>. QED BY <2>2, <3>1 DEF RequestExpires
  <2>3. CASE DeadlinePasses
    BY <2>3 DEF DeadlinePasses
  <2>. QED BY <2>1, <2>2, <2>3
<1>2. Effect
  BY <1>1, StayEffect DEF Inv, record
<1>3. TypeOK'
  BY <1>1 DEF Inv, File, TypeOK, record, budget
<1>. QED BY <1>1, <1>2, <1>3, OthersStep DEF record

(* A request goes unanswered: whatever was sent may still land.                  *)
LEMMA UnansweredKeeps ==
  ASSUME Inv, Unanswered
  PROVE  Inv'
<1>. DEFINE sent == [against |-> bone, applied |-> Applied]
<1>1. /\ UNCHANGED <<bone, target, expired, manager, coach, record, crashes>>
      /\ lost' \in 0 .. MaxLost /\ asked' = TRUE
      /\ pending' \subseteq pending \cup {sent} /\ dog \in Asks /\ Owned
  BY WakeAssumption DEF Unanswered, Inv, File, TypeOK
<1>2. Change(sent.against, sent.applied) /\ sent \in [against : Bone, applied : Bone]
  <2>1. Change(bone, Applied)
    BY <1>1, AppliedChange
  <2>. QED BY <2>1 DEF Change
<1>. HIDE DEF sent
<1>3. TypeOK'
  BY <1>1, <1>2 DEF Inv, File, TypeOK, target, manager, record, budget
<1>4. Effect
  BY <1>1, StayEffect DEF Inv, record
<1>5. Reading' /\ Working'
  BY <1>1, <1>4, DogWaits DEF Effect, manager, record
<1>6. Mail'
  BY <1>1, <1>2 DEF Inv, Mail, Change, record
<1>. QED BY <1>3, <1>4, <1>5, <1>6 DEF Inv, File, Effect

(* The WATCHDOG gives the request up, or dies with it.                           *)
LEMMA AbandonKeeps ==
  ASSUME Inv, Refused \/ Crash
  PROVE  Inv'
<1>1. /\ UNCHANGED <<bone, target, expired, pending, coach, record, lost>>
      /\ UNCHANGED <<request, overdue, attempted, answer>>
      /\ dog' = "watch" /\ asked' = FALSE /\ crashes' \in 0 .. MaxCrashes
  BY WakeAssumption DEF Refused, Crash, Abandons, Goto, Asking, budget, Inv, File, TypeOK
<1>2. Effect
  BY <1>1, StayEffect DEF Inv, record
<1>3. TypeOK'
  <2>1. answer' \in Answer \cup {NoResult}
    BY <1>1 DEF Inv, File, TypeOK
  <2>. QED BY <1>1, <2>1 DEF Inv, File, TypeOK, target, record, DogStage
<1>4. Reading'
  BY <1>1, <1>2, Remembers DEF Effect
<1>5. Working'
  BY <1>1 DEF Working, AtWork
<1>6. Mail'
  BY <1>1, MailWaits DEF Inv, record
<1>. QED BY <1>2, <1>3, <1>4, <1>5, <1>6 DEF Inv, File, Effect
-----------------------------------------------------------------------------
(* A step of process_toss that changes neither the file nor the target keeps the *)
(* invariant if what it knows afterwards is right.                               *)
LEMMA LookingStep ==
  ASSUME Inv, UNCHANGED Looking, heard \subseteq heard', heard' \subseteq Generations,
         request' \in Body, dog' \in DogStage,
         overdue' \in BOOLEAN, attempted' \in BOOLEAN,
         answer' \in IF dog' \in {"record", "publish"} THEN Answer ELSE Answer \cup {NoResult},
         Reading', Working'
  PROVE  Inv'
<1>1. Effect
  BY StayEffect DEF Inv, Looking
<1>2. TypeOK'
  BY DEF Inv, File, TypeOK, Looking, target, budget
<1>3. Mail'
  BY MailWaits DEF Inv, Looking
<1>. QED BY <1>1, <1>2, <1>3 DEF Inv, File, Effect

(* A stage of the work may begin.                                                *)
Ready(stage) ==
  /\ stage \in AtWork
  /\ stage \in {"pulse", "probe", "throw"} => Unworked(request.generation)
  /\ stage \in {"settle", "ensure", "knock"} => Unstarted(request.generation)
  /\ stage = "scratch" => Unconfirmed(request.generation)
  /\ stage \in {"listen", "loop", "look", "sleep"} => attempted \/ Unconfirmed(request.generation)
  /\ stage \in {"knock", "scratch"} => request.mode # "DO_NOT_START"

(* Work goes on with a stage that may begin, or ends with its answer.            *)
LEMMA GoesOn ==
  ASSUME Inv, dog \in AtWork, NEW stage, Ready(stage),
         UNCHANGED Looking, heard \subseteq heard', heard' \subseteq Generations,
         Goto(stage) \/ Finish("FAILED") \/ (Finish("DONE") /\ request.generation \in heard')
  PROVE  Inv'
<1>1. Effect
  BY StayEffect DEF Inv, Looking
<1>2. /\ request' = request /\ request' \in Body /\ overdue' \in BOOLEAN /\ attempted' \in BOOLEAN
  BY DEF Goto, Finish, Inv, File, TypeOK
<1>3. dog' \in AtWork \cup {"record"} /\ dog' \in DogStage /\ dog' # "read"
  BY DEF Goto, Finish, Ready, AtWork, DogStage
<1>4. Reading' /\ Claimed(request.generation)'
  BY <1>1, <1>2, <1>3, Remembers DEF Effect, Inv, Working
<1>5. CASE Goto(stage)
  <2>1. answer' \in Answer \cup {NoResult} /\ dog' \notin {"record", "publish"}
    BY <1>5 DEF Goto, Ready, AtWork, Inv, File, TypeOK
  <2>2. Working'
    BY <1>2, <1>4, <1>5 DEF Inv, Working, Goto, Ready, Unworked, Unstarted, Unconfirmed, AtWork, Looking
  <2>. QED BY <1>2, <1>3, <1>4, <2>1, <2>2, LookingStep
<1>6. CASE Finish("FAILED") \/ (Finish("DONE") /\ request.generation \in heard')
  <2>1. dog' = "record" /\ answer' \in Answer /\ answer' \in {"DONE", "FAILED"}
        /\ (answer' = "DONE" => request.generation \in heard')
    BY <1>6, StatesNamed DEF Finish
  <2>2. Working'
    BY <1>2, <1>4, <2>1 DEF Working, AtWork
  <2>. QED BY <1>2, <1>3, <1>4, <2>1, <2>2, LookingStep
<1>. QED BY <1>5, <1>6

(* A fresh pulse ends the work as DONE; without one it goes on.                  *)
LEMMA HearsOn ==
  ASSUME Inv, dog \in AtWork, NEW stage, Ready(stage), Hears(stage), UNCHANGED Looking
  PROVE  Inv'
<1>1. request.generation \in Generations /\ heard \subseteq Generations
  BY Fields DEF Inv, File, TypeOK
<1>2. CASE heard' = heard \cup {request.generation} /\ Finish("DONE")
  BY <1>1, <1>2, GoesOn
<1>3. CASE UNCHANGED heard /\ Goto(stage)
  BY <1>1, <1>3, GoesOn
<1>. QED BY <1>2, <1>3 DEF Hears

(* A deadline that has passed ends the work as FAILED.                           *)
LEMMA BoundedOn ==
  ASSUME Inv, dog \in AtWork, NEW stage, Ready(stage), Bounded(stage),
         UNCHANGED <<Looking, heard>>
  PROVE  Inv'
<1>1. Goto(stage) \/ Finish("FAILED")
  BY DEF Bounded
<1>2. heard \subseteq Generations
  BY DEF Inv, File, TypeOK
<1>. QED BY <1>1, <1>2, GoesOn

(* The steps of a request in work that only look.                                *)
LEMMA LookKeeps ==
  ASSUME Inv,
         \/ FirstPulse \/ Probe \/ Settle \/ Ensure \/ Listen \/ Loop \/ Look \/ Sleep
  PROVE  Inv'
<1>. USE DEF AtWork
<1>1. CASE FirstPulse
  <2>1. Ready("probe")
    BY <1>1 DEF FirstPulse, Ready, Inv, Working
  <2>. QED BY <1>1, <2>1, HearsOn DEF FirstPulse
<1>2. CASE Probe
  <2>1. Ready("ensure") /\ Ready("throw")
    BY <1>2 DEF Probe, Ready, Inv, Working, Unworked, Unstarted
  <2>2. heard \subseteq Generations
    BY DEF Inv, File, TypeOK
  <2>. QED BY <1>2, <2>1, <2>2, GoesOn DEF Probe
<1>3. CASE Settle
  <2>1. Ready("loop")
    BY <1>3 DEF Settle, Ready, Inv, Working, Unstarted, Unconfirmed
  <2>. QED BY <1>3, <2>1, BoundedOn DEF Settle
<1>4. CASE Ensure
  <2>. DEFINE stage == IF request.mode = "DO_NOT_START" THEN "loop" ELSE "knock"
  <2>1. Ready(stage)
    BY <1>4 DEF Ensure, Ready, Inv, Working, Unstarted, Unconfirmed
  <2>2. Hears(stage) /\ dog \in AtWork /\ UNCHANGED Looking
    BY <1>4 DEF Ensure
  <2>. HIDE DEF stage
  <2>. QED BY <2>1, <2>2, HearsOn
<1>5. CASE Listen
  <2>1. Ready("loop")
    BY <1>5 DEF Listen, Ready, Inv, Working
  <2>. QED BY <1>5, <2>1, HearsOn DEF Listen
<1>6. CASE Loop
  <2>1. Ready("look") /\ Ready("sleep")
    BY <1>6 DEF Loop, Ready, Inv, Working
  <2>. QED BY <1>6, <2>1, BoundedOn DEF Loop
<1>7. CASE Look
  <2>. DEFINE stage == IF request.mode # "DO_NOT_START" /\ ~attempted THEN "scratch" ELSE "sleep"
  <2>1. Ready(stage)
    BY <1>7 DEF Look, Ready, Inv, Working
  <2>2. Hears(stage) /\ dog \in AtWork /\ UNCHANGED Looking
    BY <1>7 DEF Look
  <2>. HIDE DEF stage
  <2>. QED BY <2>1, <2>2, HearsOn
<1>8. CASE Sleep
  <2>1. Ready("loop")
    BY <1>8 DEF Sleep, Ready, Inv, Working
  <2>. QED BY <1>8, <2>1, BoundedOn DEF Sleep
<1>. QED BY <1>1, <1>2, <1>3, <1>4, <1>5, <1>6, <1>7, <1>8

(* A tossed request is noticed, read and judged.                                 *)
LEMMA ReadKeeps ==
  ASSUME Inv, Notice \/ ReadRequest \/ Decide
  PROVE  Inv'
<1>. USE DEF Inv, File
<1>1. /\ Current \in Generations /\ Current \in Nat /\ bone.body \in Body
      /\ request.generation \in Generations /\ request.generation \in Nat
      /\ heard \subseteq Generations
      /\ request \in Body /\ overdue \in BOOLEAN /\ attempted \in BOOLEAN
      /\ answer \in Answer \cup {NoResult}
  BY Fields DEF TypeOK
<1>2. CASE Notice
  <2>1. UNCHANGED <<Looking, heard, request, overdue, attempted, answer>>
        /\ bone.state = "TOSS" /\ dog' = "read"
    BY <1>2 DEF Notice, Goto
  <2>2. Busy
    BY <2>1 DEF Shape
  <2>3. Unworked(Current)
    BY <1>1, <2>1, <2>2 DEF Woken, Busy, NoOperation
  <2>4. Reading'
    BY <2>1, <2>3 DEF Reading, Unworked, Current, Looking
  <2>5. Working'
    BY <2>1 DEF Working, AtWork
  <2>6. dog' \in DogStage
    BY <2>1 DEF DogStage
  <2>. QED BY <1>1, <2>1, <2>4, <2>5, <2>6, LookingStep
<1>3. CASE ReadRequest
  <2>1. UNCHANGED <<Looking, heard, overdue, attempted, answer>>
        /\ dog' = "decide" /\ request' = bone.body /\ dog = "read"
    BY <1>3 DEF ReadRequest
  <2>2. Reading'
    BY <1>1, <2>1 DEF Reading, Current, Looking
  <2>3. Working'
    BY <1>1, <2>1 DEF Reading, Working, Unworked, Current, Looking, AtWork
  <2>4. dog' \in DogStage
    BY <2>1 DEF DogStage
  <2>. QED BY <1>1, <2>1, <2>2, <2>3, <2>4, LookingStep
<1>4. CASE Decide
  <2>1. UNCHANGED <<Looking, heard, request, overdue, attempted, answer>> /\ dog = "decide"
    BY <1>4 DEF Decide, Goto
  <2>2. dog' \in {"watch", "expire", "claim"}
    BY <1>4 DEF Decide, Goto
  <2>4. Reading'
    BY <2>1, <2>2 DEF Reading, Current, Looking
  <2>5. Working'
    BY <2>1, <2>2 DEF Working, Unworked, Looking, AtWork
  <2>6. dog' \in DogStage /\ dog' \notin {"record", "publish"}
    BY <2>2 DEF DogStage
  <2>. QED BY <1>1, <2>1, <2>4, <2>5, <2>6, LookingStep
<1>. QED BY <1>2, <1>3, <1>4
-----------------------------------------------------------------------------
(* A step that acts on the target counts what it has done for its request.       *)
LEMMA ActingStep ==
  ASSUME Inv, dog \in AtWork, UNCHANGED <<Acting, request, overdue>>, service' \in BOOLEAN,
         attempted' \in BOOLEAN, dog' \in AtWork \cup {"record"},
         answer' \in IF dog' = "record" THEN {"FAILED"} ELSE {answer},
         Throws(request.generation), Commands(request.generation),
         started' = started \/ request.mode # "DO_NOT_START",
         Working'
  PROVE  Inv'
<1>. USE DEF Inv, File
<1>1. /\ request.generation \in Generations /\ request.generation \in Nat /\ Current \in Nat
      /\ Claimed(request.generation) /\ request.operation # NoOperation
  BY Fields DEF Working
<1>2. started' = started \/ request.generation < Current \/ bone.body.mode # "DO_NOT_START"
  <2>1. CASE request.generation = Current /\ bone.body.operation # NoOperation
    BY <1>1, <2>1 DEF Reading
  <2>2. CASE bone.body.operation = NoOperation
    BY <2>2, Fields DEF Shape
  <2>. QED BY <1>1, <2>1, <2>2 DEF Claimed
<1>3. /\ Effect /\ confirmed' \subseteq Generations
      /\ thrown' \in [Generations -> Nat] /\ started' \in [Generations -> Nat]
  BY <1>1, <1>2, WorkEffect DEF Acting
<1>4. TypeOK'
  BY <1>3, StatesNamed DEF TypeOK, Acting, budget, AtWork, DogStage
<1>5. Reading'
  BY <1>3, Remembers DEF Effect, AtWork
<1>6. Mail'
  BY MailWaits DEF Acting
<1>. QED BY <1>3, <1>4, <1>5, <1>6 DEF Effect
(* What scratching the door may leave behind.                                    *)
LEMMA ScratchedOnce ==
  ASSUME Inv, Unconfirmed(request.generation), NEW outcome \in Outcome, Scratched(outcome)
  PROVE  /\ service' \in BOOLEAN /\ Commands(request.generation)
         /\ outcome # "STARTED" => confirmed' = confirmed
         /\ \/ started'[request.generation] = started[request.generation]
            \/ started'[request.generation] = started[request.generation] + 1
<1>1. /\ service \in BOOLEAN /\ request.generation \in Generations
      /\ started \in [Generations -> Nat]
  BY Fields DEF Inv, File, TypeOK
<1>. QED BY <1>1 DEF Scratched, Commands

(* A packet is thrown, or cannot be; the door is scratched.                      *)
LEMMA ActKeeps ==
  ASSUME Inv, Throw \/ Knock \/ Scratch
  PROVE  Inv'
<1>. USE DEF Inv, File, AtWork
<1>1. /\ request.generation \in Generations /\ thrown \in [Generations -> Nat]
      /\ service \in BOOLEAN /\ attempted \in BOOLEAN
  BY Fields DEF TypeOK
<1>2. CASE Throw
  <2>1. dog = "throw" /\ UNCHANGED <<Acting, service, started, confirmed, request, overdue, attempted>>
    BY <1>2 DEF Throw, Finish, Goto
  <2>2. Unworked(request.generation) /\ Claimed(request.generation)
    BY <2>1 DEF Working
  <2>3. /\ \/ dog' = "record" /\ answer' = "FAILED"
           \/ dog' = "settle" /\ answer' = answer
        /\ thrown' = [thrown EXCEPT ![request.generation] = @ + 1]
    BY <1>2 DEF Throw, Finish, Goto
  <2>4. Throws(request.generation) /\ Commands(request.generation)
    BY <2>1, <2>2, <2>3 DEF Throws, Commands, Unworked
  <2>5. Claimed(request.generation)'
    BY <2>1, <2>2 DEF Claimed, Current, Acting
  <2>6. Working'
    BY <2>1, <2>2, <2>3, <2>5 DEF Working, Unworked, Unstarted
  <2>7. /\ dog' \in AtWork \cup {"record"}
        /\ answer' \in IF dog' = "record" THEN {"FAILED"} ELSE {answer}
    BY <2>3
  <2>. QED BY <1>1, <2>1, <2>4, <2>6, <2>7, ActingStep
<1>3. CASE Knock
  <2>1. dog = "knock" /\ dog' = "listen" /\ UNCHANGED <<Acting, thrown, request, overdue, answer>>
    BY <1>3 DEF Knock
  <2>2. PICK outcome \in Outcome : Scratched(outcome) /\ attempted' = (outcome = "STARTED")
    BY <1>3 DEF Knock
  <2>3. /\ Unstarted(request.generation) /\ Claimed(request.generation)
        /\ request.operation # NoOperation /\ request.mode # "DO_NOT_START"
        /\ Unconfirmed(request.generation)
    BY <2>1 DEF Working, Unstarted, Unconfirmed
  <2>4. /\ service' \in BOOLEAN /\ Commands(request.generation)
        /\ outcome # "STARTED" => Unconfirmed(request.generation)'
    BY <2>1, <2>2, <2>3, ScratchedOnce DEF Unstarted, Unconfirmed
  <2>5. Throws(request.generation)
    BY <2>1 DEF Throws
  <2>6. Claimed(request.generation)'
    BY <2>1, <2>3 DEF Claimed, Current, Acting
  <2>7. Working'
    BY <2>1, <2>2, <2>3, <2>4, <2>6 DEF Working
  <2>8. attempted' \in BOOLEAN
    BY <2>2
  <2>9. /\ dog' \in AtWork \cup {"record"}
        /\ answer' \in IF dog' = "record" THEN {"FAILED"} ELSE {answer}
    BY <2>1
  <2>. QED BY <2>1, <2>3, <2>4, <2>5, <2>7, <2>8, <2>9, ActingStep
<1>4. CASE Scratch
  <2>1. dog = "scratch" /\ attempted' = TRUE /\ UNCHANGED <<Acting, thrown, request, overdue>>
    BY <1>4 DEF Scratch
  <2>2. PICK outcome \in Outcome : Scratched(outcome)
    BY <1>4 DEF Scratch
  <2>3. \/ dog' = "record" /\ answer' = "FAILED"
        \/ dog' = "sleep" /\ answer' = answer
    BY <1>4 DEF Scratch
  <2>4. /\ Unconfirmed(request.generation) /\ Claimed(request.generation)
        /\ request.operation # NoOperation /\ request.mode # "DO_NOT_START"
    BY <2>1 DEF Working
  <2>5. service' \in BOOLEAN /\ Commands(request.generation)
    BY <2>2, <2>4, ScratchedOnce
  <2>6. Throws(request.generation)
    BY <2>1 DEF Throws
  <2>7. Claimed(request.generation)'
    BY <2>1, <2>4 DEF Claimed, Current, Acting
  <2>8. Working'
    BY <2>1, <2>3, <2>4, <2>7 DEF Working
  <2>9. /\ dog' \in AtWork \cup {"record"}
        /\ answer' \in IF dog' = "record" THEN {"FAILED"} ELSE {answer}
    BY <2>3
  <2>. QED BY <2>1, <2>4, <2>5, <2>6, <2>8, <2>9, ActingStep
<1>. QED BY <1>2, <1>3, <1>4

(* The requests of process_toss that succeed: a late one is refused and told so, *)
(* another is claimed, started on record and, in the end, answered.              *)
LEMMA AskKeeps ==
  ASSUME Inv, Expire \/ Explain \/ Claim \/ Start \/ Record \/ Publish
  PROVE  Inv'
<1>. USE DEF Inv, File
<1>1. /\ Succeeds(dog) /\ dog \in Asks /\ asked' = FALSE
      /\ UNCHANGED <<target, expired, pending, coach, record, budget, answer>>
      /\ dog' \in {"explain", "watch", "start", "pulse", "publish"}
      /\ dog' = "publish" => dog = "record"
      /\ dog' = "start" => dog = "claim"
      /\ dog' = "pulse" => dog = "start"
  BY DEF Expire, Explain, Claim, Start, Record, Publish, Succeeds, Asks, Goto, Asking
<1>2. Effect
  BY <1>1, SuccessEffect DEF record
<1>3. /\ request \in Body /\ request' \in Body /\ overdue' \in BOOLEAN /\ attempted' \in BOOLEAN
      /\ request'.generation = request.generation /\ request'.operation = request.operation
      /\ request'.mode = request.mode
  <2>1. request \in Body /\ overdue \in BOOLEAN /\ attempted \in BOOLEAN
    BY DEF TypeOK
  <2>2. CASE dog = "start"
    <3>1. /\ request' = [request EXCEPT !.started = TRUE]
          /\ overdue' = Expired(request) /\ attempted' = FALSE
      BY <2>2 DEF Expire, Explain, Claim, Start, Record, Publish, Succeeds
    <3>2. Expired(request) \in BOOLEAN
      BY DEF Expired
    <3>. QED BY <2>1, <3>1, <3>2 DEF Body
  <2>3. CASE dog # "start"
    <3>1. UNCHANGED <<request, overdue, attempted>>
      BY <2>3 DEF Expire, Explain, Claim, Start, Record, Publish, Succeeds, Goto
    <3>. QED BY <2>1, <3>1
  <2>. QED BY <2>2, <2>3
<1>4. TypeOK'
  <2>1. bone' \in Bone
    BY <1>2 DEF Effect, Advance
  <2>2. answer' \in IF dog' \in {"record", "publish"} THEN Answer ELSE Answer \cup {NoResult}
    BY <1>1 DEF TypeOK
  <2>. QED BY <1>1, <1>3, <2>1, <2>2 DEF TypeOK, target, record, budget, DogStage
<1>5. /\ Current \in Nat /\ Current' \in Nat /\ request.generation \in Generations
      /\ request.generation \in Nat
  <2>1. bone' \in Bone
    BY <1>2 DEF Effect, Advance
  <2>. QED BY <2>1, Fields DEF Bone, Body, Current, Generations
<1>6. Reading'
  BY <1>1, <1>2, <1>3, <1>5 DEF Effect, Advance, Reading
<1>7. Claimed(request.generation) => Claimed(request.generation)'
  BY <1>2, <1>3, <1>5 DEF Effect, Advance, Claimed
<1>8. CASE dog' \in {"explain", "watch", "publish"}
  <2>1. Working'
    BY <1>1, <1>3, <1>7, <1>8 DEF Working, AtWork, record
  <2>. QED BY <1>1, <1>2, <1>4, <1>6, <2>1, MailWaits DEF Effect, record
<1>9. CASE dog' = "start"
  <2>1. dog = "claim" /\ Unworked(request.generation)
    BY <1>1, <1>9 DEF Working
  <2>2. Claimed(request.generation)'
    <3>1. CASE Owned /\ bone' = Applied
      BY <1>1, <1>3, <2>1, <3>1, AppliedChange DEF Claimed, Change, Current
    <3>2. CASE InPlace /\ bone' = bone
      <4>1. Applied = [bone EXCEPT !.state = "CHEW"]
        BY <2>1 DEF Applied
      <4>2. bone.state = Applied.state
        BY <2>1, <3>2 DEF InPlace
      <4>3. bone'.state = "CHEW"
        BY <3>2, <4>1, <4>2, RenameFields, StatesNamed DEF TypeOK
      <4>. QED BY <1>3, <1>5, <3>2, <4>3 DEF Claimed, Reading, Current
    <3>. QED BY <1>1, <3>1, <3>2 DEF Succeeds
  <2>3. Working'
    BY <1>1, <1>3, <1>9, <2>1, <2>2 DEF Working, Unworked, AtWork, record
  <2>. QED BY <1>1, <1>2, <1>4, <1>6, <2>3, MailWaits DEF Effect, record
<1>10. CASE dog' = "pulse"
  <2>1. dog = "start" /\ Unworked(request.generation) /\ Claimed(request.generation)
    BY <1>1, <1>10 DEF Working
  <2>2. Owned
    BY <1>1, <2>1 DEF Succeeds, InPlace
  <2>3. request.operation # NoOperation
    <3>1. bone.state = "CHEW"
      BY <2>1, <2>2 DEF Owned, From
    <3>. QED BY <1>5, <2>2, <3>1 DEF Owned, Shape, Busy, NoOperation
  <2>4. Working'
    BY <1>1, <1>3, <1>7, <1>10, <2>1, <2>3 DEF Working, Unworked, AtWork, record
  <2>. QED BY <1>1, <1>2, <1>4, <1>6, <2>4, MailWaits DEF Effect, record
<1>. QED BY <1>1, <1>8, <1>9, <1>10

-----------------------------------------------------------------------------
(* The first file is idle, and nothing was ever done.                            *)
LEMMA InitInv == Init => Inv
<1>. SUFFICES ASSUME Init PROVE Inv
  OBVIOUS
<1>1. 0 \in Generations
  BY WakeAssumption DEF Generations
<1>. DEFINE body == IdleBody(0)
<1>2. /\ body \in Body /\ body.generation = 0 /\ body.operation = NoOperation
      /\ body.mode = NoMode
  BY <1>1, IdleFields
<1>3. bone = [state |-> "READY", body |-> body] /\ request = body
  BY DEF Init
<1>. HIDE DEF body
<1>4. bone \in Bone /\ bone.state = "READY" /\ bone.body = body
  BY <1>2, <1>3, StatesNamed DEF Bone
<1>5. TypeOK
  <2>1. bone \in Bone /\ request \in Body
    BY <1>2, <1>3, <1>4
  <2>2. crashes \in 0 .. MaxCrashes /\ lost \in 0 .. MaxLost
    BY WakeAssumption DEF Init
  <2>3. /\ host \in BOOLEAN /\ service \in BOOLEAN /\ pulse \in BOOLEAN
        /\ overdue \in BOOLEAN /\ attempted \in BOOLEAN /\ asked \in BOOLEAN
    BY DEF Init
  <2>4. /\ expired = {} /\ heard = {} /\ confirmed = {} /\ pending = {}
        /\ dog = "watch" /\ coach = "rest" /\ answer = NoResult
    BY DEF Init
  <2>5. thrown \in [Generations -> Nat] /\ started \in [Generations -> Nat]
    BY DEF Init
  <2>. QED BY <2>1, <2>2, <2>3, <2>4, <2>5 DEF TypeOK, DogStage, CoachStage
<1>6. Shape
  BY <1>2, <1>4, StatesNamed DEF Shape, Idle
<1>7. Woken
  BY <1>1, <1>2, <1>4 DEF Init, Woken, Sparing, DoneMeansHeard, Unworked, Current
<1>8. Reading /\ Working /\ Mail
  BY <1>2, <1>3, <1>4 DEF Init, Reading, Working, Mail, AtWork, Current
<1>. QED BY <1>5, <1>6, <1>7, <1>8 DEF Inv, File

(* Every step keeps the invariant.                                               *)
LEMMA NextInv == Inv /\ [Next]_vars => Inv'
<1>. SUFFICES ASSUME Inv, [Next]_vars PROVE Inv'
  OBVIOUS
<1>1. CASE DogStep
  BY <1>1, ReadKeeps, AskKeeps, LookKeeps, ActKeeps, AbandonKeeps DEF DogStep
<1>2. CASE Unanswered
  BY <1>2, UnansweredKeeps
<1>3. CASE Land
  BY <1>3, LandKeeps
<1>4. CASE Crash
  BY <1>4, AbandonKeeps
<1>5. CASE TargetStep \/ RequestExpires \/ DeadlinePasses
  BY <1>5, WorldKeeps
<1>6. CASE CoachStep
  BY <1>6, CoachKeeps
<1>7. CASE UNCHANGED vars
  <2>1. Effect
    BY <1>7, StayEffect DEF vars, record, Inv
  <2>2. TypeOK'
    BY <1>7 DEF vars, target, manager, record, budget, Inv, File, TypeOK
  <2>. QED BY <1>7, <2>1, <2>2, OthersStep DEF vars, manager, record
<1>. QED BY <1>1, <1>2, <1>3, <1>4, <1>5, <1>6, <1>7 DEF Next

(* The invariant holds throughout.                                               *)
LEMMA InvHolds == Spec => []Inv
<1>1. Init => Inv
  BY InitInv
<1>2. Inv /\ [Next]_vars => Inv'
  BY NextInv
<1>. QED BY <1>1, <1>2, PTL DEF Spec

(* The file, the workers and the target are always of their type: process_toss    *)
(* never writes a state the registry does not know nor a generation beyond COACH's. *)
THEOREM WakeTyped == Spec => []TypeOK
<1>1. Inv => TypeOK
  BY DEF Inv, File
<1>. QED BY <1>1, InvHolds, PTL

(* DONE is a fresh pulse of the target, read for this very request: the answer is *)
(* recorded and published only from a pulse that was heard, whatever is applied    *)
(* late, retried or forgotten by a restart in between.                            *)
THEOREM DoneIsAHeardPulse == Spec => []DoneMeansHeard
<1>1. Inv => DoneMeansHeard
  BY DEF Inv, File, Woken
<1>. QED BY <1>1, InvHolds, PTL

(* No step sends a start command for a request once one was reported STARTED.    *)
LEMMA ConfirmedIsLast ==
  ASSUME Inv, [Next]_vars
  PROVE  \A g \in confirmed : started'[g] = started[g]
<1>. USE DEF Inv, File
<1>1. ASSUME Knock \/ Scratch
      PROVE  \A g \in confirmed : started'[g] = started[g]
  <2>1. PICK outcome \in Outcome : Scratched(outcome)
    BY <1>1 DEF Knock, Scratch
  <2>2. Unconfirmed(request.generation)
    BY <1>1 DEF Knock, Scratch, Working, Unstarted, Unconfirmed
  <2>3. Commands(request.generation)
    BY <2>1, <2>2, ScratchedOnce
  <2>4. started \in [Generations -> Nat] /\ confirmed \subseteq Generations
    BY DEF TypeOK
  <2>. QED BY <2>3, <2>4 DEF Commands, Unconfirmed
<1>2. CASE DogStep /\ ~(Knock \/ Scratch)
  <2>1. CASE Notice \/ ReadRequest \/ Decide \/ FirstPulse \/ Probe \/ Settle \/ Ensure
               \/ Listen \/ Loop \/ Look \/ Sleep
    BY <2>1 DEF Notice, ReadRequest, Decide, FirstPulse, Probe, Settle, Ensure, Listen, Loop,
                Look, Sleep, Looking
  <2>2. CASE Throw
    BY <2>2 DEF Throw
  <2>3. CASE Expire \/ Explain \/ Claim \/ Start \/ Record \/ Publish \/ Refused
    BY <2>3 DEF Expire, Explain, Claim, Start, Record, Publish, Refused, Asking, record
  <2>. QED BY <1>2, <2>1, <2>2, <2>3 DEF DogStep
<1>3. CASE Unanswered \/ Land \/ Crash
  BY <1>3 DEF Unanswered, Land, Crash, record
<1>4. CASE TargetStep \/ RequestExpires \/ DeadlinePasses
  BY <1>4 DEF TargetStep, PowerOn, PowerOff, ServiceStarts, ServiceStops, Beat, Fade, Channel,
              RequestExpires, DeadlinePasses, record
<1>5. CASE CoachStep
  BY <1>5 DEF CoachStep, Reserve, WriteRequest, Toss, Consume, Clear, Free, CoachMoves, OfCoach,
              record
<1>6. CASE UNCHANGED vars
  BY <1>6 DEF vars, record
<1>. QED BY <1>1, <1>2, <1>3, <1>4, <1>5, <1>6 DEF Next

(* A request throws one packet at most, and sends no start command once one was   *)
(* reported STARTED, nor a third, nor any if COACH said DO_NOT_START: a claim is    *)
(* never given twice, and the second place that starts the service knows what the  *)
(* first was told - not what it did.                                              *)
THEOREM RequestsWakeSparingly == Spec => WakesSparingly
<1>1. Inv => Sparing
  BY DEF Inv, File, Woken
<1>2. Inv /\ [Next]_vars => [\A g \in confirmed : started'[g] = started[g]]_vars
  BY ConfirmedIsLast
<1>. QED BY <1>1, <1>2, InvHolds, PTL DEF Spec, WakesSparingly

=============================================================================
