---------------------- MODULE ResultAndRetention_proofs ----------------------
(***************************************************************************)
(* Theorems about what becomes of a result.  First its return (module      *)
(* ResultReturn), through any provider: none of them needs the version to  *)
(* be compared inside the mutation.  The file can only become RETURNING by *)
(* the worker's walk, and its body a result only by the worker's write, so *)
(* what each of the three calls saw before it reported success is an       *)
(* effect of the call before it.  Then its retention (Retention), for any  *)
(* number of files, records, sweeps and late deletes: what a sweep has     *)
(* found to be over stays over until it is deleted.                        *)
(***************************************************************************)
EXTENDS ResultReturn, Retention, TLAPS

Entry == [state : States(Object), body : Body, by : Walks \cup {Storing, Elsewhere}]

ReturnTyped ==
  /\ log \in Seq(Entry) /\ log # << >> /\ visible \in 1 .. Len(log)
  /\ stage \in [Walks -> Stage] /\ outcome \in [Walks -> Outcome \cup {Undecided}]
  /\ token \in [Walks -> Nat] /\ inFlight \subseteq Walks
  /\ storeStage \in [{Storing} -> Store!Stage]
  /\ storeOutcome \in [{Storing} -> Store!Outcome \cup {Store!Undecided}]
  /\ storeToken \in [{Storing} -> Nat] /\ storeFence \in [{Storing} -> Nat]
  /\ storeInFlight \subseteq {Storing}

Silent(a) == \A i \in 1 .. Len(log) : log[i].by # a
Once(a) == \A i, j \in 1 .. Len(log) : log[i].by = a /\ log[j].by = a => i = j

(* A request is sent once: before it there is nothing of the call in the log, and   *)
(* one that is still on its way is the last.                                        *)
Asking == {"begin", "read", "fenceName", "fenceBody", "check", "send"}
WalkOnce(w) ==
  /\ stage[w] \in Asking => Silent(w) /\ w \notin inFlight
  /\ w \in inFlight => Silent(w)
  /\ Once(w)
  /\ stage[w] \in {"fenceName", "fenceBody"} => token[w] \in 1 .. Len(log)

StoreAsking == {"begin", "read", "preName", "preBody", "check", "send"}
StoreOnce ==
  /\ storeStage[Storing] \in StoreAsking => Silent(Storing) /\ Storing \notin storeInFlight
  /\ Storing \in storeInFlight => Silent(Storing)
  /\ Once(Storing)
  /\ storeToken[Storing] \in 0 .. Len(log)

(* What a call reports, and the next one begins on, has happened.                   *)
InOrder ==
  /\ Succeeded(Returning) \/ storeStage[Storing] # "begin" => ~Silent(Returning)
  /\ \/ Stored \/ storeStage[Storing] \in {"postName", "postBody"}
     \/ stage[Publishing] # "begin"
     => ~Silent(Storing)

(* The name and the body of the job, and where they come from.                      *)
NameFromReturning ==
  \A i \in 1 .. Len(log) : log[i].state = "RETURNING" => \E k \in 1 .. i : log[k].by = Returning
ResultFromStoring ==
  \A i \in 1 .. Len(log) : log[i].body.text = "result" => \E k \in 1 .. i : log[k].by = Storing
ReturningUntilStored ==
  ~Silent(Returning) /\ Silent(Storing) => log[Len(log)].state = "RETURNING"
StoredUnderReturning ==
  \A i \in 1 .. Len(log) : log[i].by = Storing =>
    /\ i > storeToken[Storing] /\ log[i].state = "RETURNING" /\ log[i].body = JobBody("result")
    /\ \E k \in 1 .. i - 1 : log[k].by = Returning
PublishedAfterStored ==
  \A i \in 1 .. Len(log) : log[i].by = Publishing => \E k \in 1 .. i - 1 : log[k].by = Storing

History ==
  /\ NameFromReturning /\ ResultFromStoring /\ ReturningUntilStored
  /\ StoredUnderReturning /\ PublishedAfterStored

ReturnInv ==
  /\ ReturnTyped /\ (\A w \in Walks : WalkOnce(w)) /\ StoreOnce /\ InOrder /\ History

-----------------------------------------------------------------------------
(* The three calls and the others are four, and what they write is typed.           *)
LEMMA Names ==
  /\ Walks = {Returning, Publishing} /\ Returning # Publishing
  /\ Storing \notin Walks /\ Elsewhere \notin Walks /\ Storing # Elsewhere
BY ReturnAssumption, WalkAssumption DEF Returning, Publishing, Storing, Elsewhere

(* The arguments of the calls are typed, and only the first walk ends in RETURNING. *)
LEMMA JobTyped ==
  /\ \A w \in Walks : Plan[w].to \in States(Object)
  /\ Plan[Returning].to = "RETURNING" /\ Plan[Publishing].to # "RETURNING"
  /\ JobBody("result") \in Body
<1>1. \A w \in Walks : Plan[w].to \in States(Object)
  BY WalkAssumption
<1>2. Plan[Returning].to = "RETURNING" /\ Plan[Publishing].to # "RETURNING"
  BY ReturnAssumption DEF JobWalk, ResultStates
<1>3. JobBody("result") \in Body
  BY ReturnAssumption DEF JobBody, Body
<1>. QED BY <1>1, <1>2, <1>3

(* The registry's edges join states of the object, and the only ones that end in    *)
(* RETURNING begin in TOSS or CHEW.                                                 *)
LEMMA EdgesJoinStates ==
  ASSUME NEW e \in Edges(Object)
  PROVE  /\ e[1] \in States(Object) /\ e[2] \in States(Object)
         /\ e[2] = "RETURNING" => e[1] \in {"TOSS", "CHEW"}
<1>1. e[1] \in States(Object) /\ e[2] \in States(Object)
  BY DEF States
<1>2. e[2] = "RETURNING" => e[1] \in {"TOSS", "CHEW"}
  BY ReturnAssumption DEF Edges, CoachEdges, Terminal, ResultStates
<1>. QED BY <1>1, <1>2

(* Whatever another client writes is a snapshot again.                              *)
LEMMA OtherSnapshotsTyped ==
  ASSUME NEW s, s.state \in States(Object), s.body \in Body, NEW t \in OtherSnapshots(s)
  PROVE  /\ t.state \in States(Object) /\ t.body \in Body
         /\ t.state = "RETURNING" => s.state \in {"TOSS", "CHEW", "RETURNING"}
<1>1. CASE t \in Renamed(s)
  <2>1. PICK e \in Edges(Object) : e[1] = s.state /\ t = [state |-> e[2], body |-> s.body]
    BY <1>1 DEF Renamed
  <2>. QED BY <2>1, EdgesJoinStates
<1>2. CASE t \in Rewritten(s)
  <2>1. PICK body \in Published(s) \cup Cleared(s) \cup Reported(s) :
          t = [state |-> s.state, body |-> body]
    BY <1>2 DEF Rewritten
  <2>2. body \in Body
    BY <2>1 DEF Published, Cleared, Reported, Body
  <2>. QED BY <2>1, <2>2
<1>. QED BY <1>1, <1>2 DEF OtherSnapshots

-----------------------------------------------------------------------------
(* What the file and its history make of one more snapshot.                         *)
Appends(state, body, author) ==
  log' = Append(log, [state |-> state, body |-> body, by |-> author])

(* The log grows by that snapshot,                                                  *)
LEMMA Grows ==
  ASSUME log \in Seq(Entry), log # << >>, NEW state \in States(Object), NEW body \in Body,
         NEW author \in Walks \cup {Storing, Elsewhere}, Appends(state, body, author)
  PROVE  /\ log' \in Seq(Entry) /\ log' # << >> /\ Len(log) \in Nat
         /\ Len(log') = Len(log) + 1
         /\ \A i \in 1 .. Len(log) : log'[i] = log[i]
         /\ log'[Len(log) + 1] = [state |-> state, body |-> body, by |-> author]
BY DEF Appends, Entry

(* A call that has not written stays silent when another writes, and one that has   *)
(* written has written.                                                             *)
LEMMA SilenceKept ==
  ASSUME log \in Seq(Entry), log # << >>, NEW state \in States(Object), NEW body \in Body,
         NEW author \in Walks \cup {Storing, Elsewhere}, Appends(state, body, author), NEW a
  PROVE  /\ a # author => (Silent(a) => Silent(a)') /\ (Once(a) => Once(a)')
         /\ ~Silent(a) => ~Silent(a)'
         /\ ~Silent(author)'
         /\ Silent(author) => Once(author)'
<1>1. /\ Len(log) \in Nat /\ Len(log') = Len(log) + 1
      /\ \A i \in 1 .. Len(log) : log'[i] = log[i]
      /\ log'[Len(log) + 1] = [state |-> state, body |-> body, by |-> author]
  BY Grows
<1>2. log'[Len(log) + 1].by = author
  BY <1>1
<1>. QED BY <1>1, <1>2 DEF Silent, Once

(* and the history stays in order if each writes what he may write.                 *)
LEMMA HistoryGrows ==
  ASSUME ReturnInv, storeToken' = storeToken,
         NEW state \in States(Object), NEW body \in Body,
         NEW author \in Walks \cup {Storing, Elsewhere}, Appends(state, body, author),
         state = "RETURNING" => author = Returning \/ log[Len(log)].state = "RETURNING",
         body.text = "result" => author = Storing \/ log[Len(log)].body.text = "result",
         author = Storing =>
           state = "RETURNING" /\ body = JobBody("result") /\ ~Silent(Returning),
         author = Publishing => ~Silent(Storing),
         author # Storing /\ Silent(Storing) =>
           (author = Returning \/ ~Silent(Returning) => state = "RETURNING")
  PROVE  History'
<1>1. log \in Seq(Entry) /\ log # << >> /\ History /\ storeToken[Storing] \in 0 .. Len(log)
  BY DEF ReturnInv, ReturnTyped, StoreOnce
<1>2. /\ Len(log) \in Nat /\ Len(log) >= 1 /\ Len(log') = Len(log) + 1
      /\ \A i \in 1 .. Len(log) : log'[i] = log[i]
      /\ log'[Len(log) + 1] = [state |-> state, body |-> body, by |-> author]
  BY <1>1, Grows
<1>3. NameFromReturning'
  BY <1>1, <1>2 DEF History, NameFromReturning
<1>4. ResultFromStoring'
  BY <1>1, <1>2 DEF History, ResultFromStoring
<1>5. ReturningUntilStored'
  BY <1>2 DEF ReturningUntilStored, Silent
<1>6. StoredUnderReturning'
  BY <1>1, <1>2 DEF History, StoredUnderReturning, Silent
<1>7. PublishedAfterStored'
  <2>1. author = Publishing => \E k \in 1 .. Len(log) : log[k].by = Storing
    BY DEF Silent
  <2>. QED BY <1>1, <1>2, <2>1 DEF History, PublishedAfterStored
<1>. QED BY <1>3, <1>4, <1>5, <1>6, <1>7 DEF History

(* A result that was seen was stored, a name that was seen was returned.            *)
LEMMA SeenMeansDone ==
  ASSUME ReturnInv, NEW i \in 1 .. Len(log)
  PROVE  /\ log[i].state = "RETURNING" => ~Silent(Returning)
         /\ log[i].body.text = "result" => ~Silent(Storing)
BY DEF ReturnInv, ReturnTyped, History, NameFromReturning, ResultFromStoring, Silent

(* Who may write next finds the name and the body as he expects them.               *)
LEMMA StoringFindsReturning ==
  ASSUME ReturnInv, Silent(Storing), ~Silent(Returning)
  PROVE  log[Len(log)].state = "RETURNING" /\ log[Len(log)].body.text # "result"
<1>1. Len(log) \in 1 .. Len(log)
  BY DEF ReturnInv, ReturnTyped
<1>2. log[Len(log)].body.text # "result"
  BY <1>1, SeenMeansDone
<1>. QED BY <1>2 DEF ReturnInv, History, ReturningUntilStored

-----------------------------------------------------------------------------
(* The steps of a walk: it asks, it sends its one request, it polls.                *)
Seen(w) == \E i \in 1 .. Len(log) : log[i].state = Plan[w].to
Success == {"NEW_SUCCESS", "IDEMPOTENT_SUCCESS"}

WalkAsks(w) ==
  /\ stage[w] \in Asking /\ stage'[w] \in (Asking \ {"begin"}) \cup {"done"}
  /\ log' = log /\ inFlight' = inFlight
  /\ stage'[w] \in {"fenceName", "fenceBody"} => token'[w] \in 1 .. Len(log)
  /\ outcome'[w] \in Success => outcome[w] \in Success \/ Seen(w)
WalkSends(w) ==
  /\ stage[w] = "send" /\ stage'[w] = "confirm" /\ outcome'[w] = outcome[w]
  /\ \/ Appends(Plan[w].to, log[Len(log)].body, w) /\ inFlight' = inFlight
     \/ log' = log /\ inFlight' \in {inFlight, inFlight \cup {w}}
WalkPolls(w) ==
  /\ stage[w] = "confirm" /\ stage'[w] \in {"confirm", "done"}
  /\ log' = log /\ inFlight' = inFlight
  /\ outcome'[w] \in Success => outcome[w] \in Success \/ Seen(w)

(* The records of the calls after a step of w.                                      *)
WalkRecords(w) ==
  /\ visible' \in visible .. Len(log)
  /\ stage' \in [Walks -> Stage] /\ outcome' \in [Walks -> Outcome \cup {Undecided}]
  /\ token' \in [Walks -> Nat]
  /\ \A u \in Walks \ {w} :
       stage'[u] = stage[u] /\ outcome'[u] = outcome[u] /\ token'[u] = token[u]

GoesTo(w, stages) == \E next \in stages : Goto(w, next)
EndsWith(w, results) == \E result \in results : Report(w, result)

(* What a walk records when it goes on or reports.                                  *)
LEMMA WalkMoves ==
  ASSUME ReturnTyped, NEW w \in Walks, visible' \in visible .. Len(log),
         \/ token' = token
         \/ \E v \in visible .. Len(log) : token' = [token EXCEPT ![w] = v],
         NEW stages \in SUBSET Stage, NEW results \in SUBSET Outcome,
         GoesTo(w, stages) \/ EndsWith(w, results)
  PROVE  /\ WalkRecords(w)
         /\ stage'[w] \in stages \cup {"done"} /\ outcome'[w] \in results \cup {outcome[w]}
<1>. DEFINE Follows ==
            /\ stage' \in [Walks -> Stage] /\ outcome' \in [Walks -> Outcome \cup {Undecided}]
            /\ \A u \in Walks \ {w} : stage'[u] = stage[u] /\ outcome'[u] = outcome[u]
            /\ stage'[w] \in stages \cup {"done"} /\ outcome'[w] \in results \cup {outcome[w]}
<1>1. /\ stage \in [Walks -> Stage] /\ outcome \in [Walks -> Outcome \cup {Undecided}]
      /\ "done" \in Stage
  BY DEF ReturnTyped, Stage
<1>2. Follows
  <2>1. ASSUME NEW next \in stages, Goto(w, next) PROVE Follows
    BY <1>1, <2>1 DEF Goto
  <2>2. ASSUME NEW result \in results, Report(w, result) PROVE Follows
    BY <1>1, <2>2 DEF Report
  <2>. QED BY <2>1, <2>2 DEF GoesTo, EndsWith
<1>3. token' \in [Walks -> Nat] /\ \A u \in Walks \ {w} : token'[u] = token[u]
  <2>1. visible .. Len(log) \subseteq Nat /\ token \in [Walks -> Nat]
    BY DEF ReturnTyped
  <2>. QED BY <2>1
<1>. QED BY <1>2, <1>3 DEF WalkRecords

(* Who decides claims an attempt, or reports that he is done already, or gives up.  *)
LEMMA Decisions ==
  ASSUME NEW w \in Walks, NEW name, Decide(w, name)
  PROVE  \/ GoesTo(w, {"check", "send"}) \/ EndsWith(w, {"FAILURE"})
         \/ name = Plan[w].to /\ EndsWith(w, {"IDEMPOTENT_SUCCESS"})
BY DEF Decide, GoesTo, EndsWith

(* Who is refused starts over within the budget, or gives up.                       *)
LEMMA Refusals ==
  ASSUME NEW w \in Walks, Refused(w)
  PROVE  GoesTo(w, {"read"}) \/ EndsWith(w, {"STATE_CONFLICT", "FAILURE"})
BY DEF Refused, GoesTo, EndsWith

Failures == Outcome \ Success

(* A step before the request goes on or fails, ...                                  *)
LEMMA WalkGoesOn ==
  ASSUME ReturnTyped, NEW w \in Walks, stage[w] \in Asking, visible' \in visible .. Len(log),
         log' = log, inFlight' = inFlight,
         \/ token' = token
         \/ \E v \in visible .. Len(log) : token' = [token EXCEPT ![w] = v],
         GoesTo(w, {"read", "check", "send"}) \/ EndsWith(w, Failures)
  PROVE  WalkRecords(w) /\ WalkAsks(w)
<1>1. {"read", "check", "send"} \in SUBSET Stage /\ Failures \in SUBSET Outcome
  BY DEF Stage, Failures
<1>2. /\ WalkRecords(w) /\ stage'[w] \in {"read", "check", "send", "done"}
      /\ outcome'[w] \in Failures \cup {outcome[w]}
  BY <1>1, WalkMoves
<1>. QED BY <1>2 DEF WalkAsks, Asking, Failures

(* ... reads on to the fence, ...                                                   *)
LEMMA WalkReadsOn ==
  ASSUME ReturnTyped, NEW w \in Walks, stage[w] \in Asking, visible' \in visible .. Len(log),
         log' = log, inFlight' = inFlight,
         \/ token' = token
         \/ \E v \in visible .. Len(log) : token' = [token EXCEPT ![w] = v],
         token'[w] \in 1 .. Len(log), GoesTo(w, {"fenceName", "fenceBody"})
  PROVE  WalkRecords(w) /\ WalkAsks(w)
<1>1. {"fenceName", "fenceBody"} \in SUBSET Stage /\ {} \in SUBSET Outcome
  BY DEF Stage
<1>2. /\ WalkRecords(w) /\ stage'[w] \in {"fenceName", "fenceBody", "done"}
      /\ outcome'[w] \in {} \cup {outcome[w]}
  BY <1>1, WalkMoves
<1>. QED BY <1>2 DEF WalkAsks, Asking

(* ... or reports that the target has been seen.                                    *)
LEMMA WalkIsDone ==
  ASSUME ReturnTyped, NEW w \in Walks, stage[w] \in Asking, visible' \in visible .. Len(log),
         log' = log, inFlight' = inFlight,
         \/ token' = token
         \/ \E v \in visible .. Len(log) : token' = [token EXCEPT ![w] = v],
         Seen(w), EndsWith(w, {"IDEMPOTENT_SUCCESS"})
  PROVE  WalkRecords(w) /\ WalkAsks(w)
<1>1. {} \in SUBSET Stage /\ {"IDEMPOTENT_SUCCESS"} \in SUBSET Outcome
  BY DEF Outcome
<1>2. WalkRecords(w) /\ stage'[w] \in {} \cup {"done"}
  BY <1>1, WalkMoves
<1>. QED BY <1>2 DEF WalkAsks, Asking

(* All three are how a decision may turn out.                                       *)
LEMMA DecisionAsks ==
  ASSUME ReturnTyped, NEW w \in Walks, stage[w] \in Asking, visible' \in visible .. Len(log),
         log' = log, inFlight' = inFlight,
         \/ token' = token
         \/ \E v \in visible .. Len(log) : token' = [token EXCEPT ![w] = v],
         NEW i \in 1 .. Len(log), Decide(w, log[i].state)
  PROVE  WalkRecords(w) /\ WalkAsks(w)
<1>1. \/ GoesTo(w, {"check", "send"}) \/ EndsWith(w, {"FAILURE"})
      \/ log[i].state = Plan[w].to /\ EndsWith(w, {"IDEMPOTENT_SUCCESS"})
  BY Decisions
<1>2. CASE GoesTo(w, {"check", "send"}) \/ EndsWith(w, {"FAILURE"})
  <2>1. GoesTo(w, {"read", "check", "send"}) \/ EndsWith(w, Failures)
    BY <1>2 DEF GoesTo, EndsWith, Failures, Outcome, Success
  <2>. QED BY <2>1, WalkGoesOn
<1>3. CASE log[i].state = Plan[w].to /\ EndsWith(w, {"IDEMPOTENT_SUCCESS"})
  <2>1. Seen(w)
    BY <1>3 DEF Seen
  <2>. QED BY <1>3, <2>1, WalkIsDone
<1>. QED BY <1>1, <1>2, <1>3

-----------------------------------------------------------------------------
(* Versions are positions in the log.                                               *)
LEMMA LogTyped ==
  ASSUME ReturnTyped
  PROVE  Len(log) \in Nat /\ visible \in 1 .. Len(log) /\ visible .. Len(log) \subseteq 1 .. Len(log)
BY DEF ReturnTyped

(* Each request of a walk is one of the three.                                      *)
LEMMA WalkRequests ==
  ASSUME ReturnTyped, NEW w \in Walks, WalkOnce(w), WalkStep(w)
  PROVE  WalkRecords(w) /\ (WalkAsks(w) \/ WalkSends(w) \/ WalkPolls(w))
<1>. USE LogTyped
<1>1. CASE Begin(w)
  <2>1. /\ stage[w] \in Asking /\ log' = log /\ visible' \in visible .. Len(log)
        /\ inFlight' = inFlight /\ token' = token
    BY <1>1 DEF Begin, Asking, driveVars
  <2>2. GoesTo(w, {"read", "check", "send"}) \/ EndsWith(w, Failures)
    BY <1>1 DEF Begin, GoesTo, EndsWith, Failures, Outcome, Success
  <2>. QED BY <2>1, <2>2, WalkGoesOn
<1>2. CASE ReadMetadata(w)
  <2>1. PICK v \in visible .. Len(log) :
          /\ ReadVersion(v) /\ token' = [token EXCEPT ![w] = v]
          /\ CASE log[v].state \notin {Plan[w].from, Plan[w].to} ->
                    Report(w, "STATE_CONFLICT") /\ UNCHANGED attempts
               [] log[v].state \in {Plan[w].from, Plan[w].to} /\ Plan[w].fenced ->
                    Goto(w, "fenceName") /\ UNCHANGED attempts
               [] OTHER -> Decide(w, log[v].state)
    BY <1>2 DEF ReadMetadata, Latest
  <2>2. /\ stage[w] \in Asking /\ log' = log /\ visible' \in visible .. Len(log)
        /\ inFlight' = inFlight /\ v \in 1 .. Len(log)
    BY <1>2, <2>1 DEF ReadMetadata, Asking, ReadVersion
  <2>3. token'[w] = v
    BY <2>1 DEF ReturnTyped
  <2>4. CASE Report(w, "STATE_CONFLICT")
    <3>1. EndsWith(w, Failures)
      BY <2>4 DEF EndsWith, Failures, Outcome, Success
    <3>. QED BY <2>1, <2>2, <3>1, WalkGoesOn
  <2>5. CASE Goto(w, "fenceName")
    <3>1. GoesTo(w, {"fenceName", "fenceBody"})
      BY <2>5 DEF GoesTo
    <3>. QED BY <2>1, <2>2, <2>3, <3>1, WalkReadsOn
  <2>6. CASE Decide(w, log[v].state)
    BY <2>1, <2>2, <2>6, DecisionAsks
  <2>. QED BY <2>1, <2>4, <2>5, <2>6
<1>3. CASE ReadFenceName(w)
  <2>1. /\ stage[w] \in Asking /\ log' = log /\ visible' \in visible .. Len(log)
        /\ inFlight' = inFlight /\ token' = token /\ stage[w] = "fenceName"
        /\ Goto(w, "fenceBody")
    BY <1>3 DEF ReadFenceName, Asking, ReadVersion, Latest
  <2>2. token'[w] \in 1 .. Len(log)
    BY <2>1 DEF WalkOnce
  <2>3. GoesTo(w, {"fenceName", "fenceBody"})
    BY <2>1 DEF GoesTo
  <2>. QED BY <2>1, <2>2, <2>3, WalkReadsOn
<1>4. CASE ReadFenceBody(w)
  <2>1. /\ stage[w] \in Asking /\ log' = log /\ visible' \in visible .. Len(log)
        /\ inFlight' = inFlight /\ token' = token /\ stage[w] = "fenceBody"
    BY <1>4 DEF ReadFenceBody, Asking, driveVars
  <2>2. token[w] \in 1 .. Len(log)
    BY <2>1 DEF WalkOnce
  <2>3. \/ Report(w, "STALE_FENCE") \/ Report(w, "STATE_CONFLICT")
        \/ Decide(w, log[token[w]].state)
    BY <1>4 DEF ReadFenceBody
  <2>4. CASE Report(w, "STALE_FENCE") \/ Report(w, "STATE_CONFLICT")
    <3>1. EndsWith(w, Failures)
      BY <2>4 DEF EndsWith, Failures, Outcome, Success
    <3>. QED BY <2>1, <3>1, WalkGoesOn
  <2>5. CASE Decide(w, log[token[w]].state)
    BY <2>1, <2>2, <2>5, DecisionAsks
  <2>. QED BY <2>3, <2>4, <2>5
<1>5. CASE ReadFails(w)
  <2>1. /\ stage[w] \in Asking /\ log' = log /\ visible' \in visible .. Len(log)
        /\ inFlight' = inFlight /\ token' = token
    BY <1>5 DEF ReadFails, Asking, driveVars
  <2>2. EndsWith(w, Failures)
    BY <1>5 DEF ReadFails, EndsWith, Failures, Outcome, Success
  <2>. QED BY <2>1, <2>2, WalkGoesOn
<1>6. CASE CheckVersion(w)
  <2>1. /\ stage[w] \in Asking /\ log' = log /\ visible' \in visible .. Len(log)
        /\ inFlight' = inFlight /\ token' = token
    BY <1>6 DEF CheckVersion, Asking, driveVars, ReadVersion, Latest
  <2>2. GoesTo(w, {"read", "check", "send"}) \/ EndsWith(w, Failures)
    <3>1. Goto(w, "send") \/ Report(w, "STATE_CONFLICT") \/ Refused(w)
      BY <1>6 DEF CheckVersion
    <3>. QED BY <3>1, Refusals DEF GoesTo, EndsWith, Failures, Outcome, Success
  <2>. QED BY <2>1, <2>2, WalkGoesOn
<1>7. CASE RenameRefused(w)
  <2>1. /\ stage[w] \in Asking /\ log' = log /\ visible' \in visible .. Len(log)
        /\ inFlight' = inFlight /\ token' = token
    BY <1>7 DEF RenameRefused, Asking, driveVars
  <2>2. GoesTo(w, {"read", "check", "send"}) \/ EndsWith(w, Failures)
    <3>1. Report(w, "STATE_CONFLICT") \/ Refused(w)
      BY <1>7 DEF RenameRefused
    <3>. QED BY <3>1, Refusals DEF GoesTo, EndsWith, Failures, Outcome, Success
  <2>. QED BY <2>1, <2>2, WalkGoesOn
<1>8. CASE RenameApplied(w) \/ RenameUnanswered(w)
  <2>1. /\ stage[w] = "send" /\ visible' \in visible .. Len(log) /\ token' = token
        /\ GoesTo(w, {"confirm"})
    BY <1>8 DEF RenameApplied, RenameUnanswered, RenameObject, Write, driveVars, GoesTo
  <2>2. {"confirm"} \in SUBSET Stage /\ {} \in SUBSET Outcome
    BY DEF Stage
  <2>3. WalkRecords(w)
    BY <2>1, <2>2, WalkMoves
  <2>4. stage'[w] = "confirm" /\ outcome'[w] = outcome[w]
    BY <2>1 DEF GoesTo, Goto, ReturnTyped
  <2>5. \/ Appends(Plan[w].to, log[Len(log)].body, w) /\ inFlight' = inFlight
        \/ log' = log /\ inFlight' \in {inFlight, inFlight \cup {w}}
    BY <1>8 DEF RenameApplied, RenameUnanswered, RenameObject, Write, driveVars, Appends,
      Current, Latest
  <2>. QED BY <2>1, <2>3, <2>4, <2>5 DEF WalkSends
<1>9. CASE Probe(w)
  <2>1. /\ stage[w] = "confirm" /\ log' = log /\ visible' \in visible .. Len(log)
        /\ inFlight' = inFlight /\ token' = token
    BY <1>9 DEF Probe, driveVars, ReadVersion, Latest
  <2>2. \/ GoesTo(w, {"confirm"}) \/ EndsWith(w, Failures)
        \/ Seen(w) /\ EndsWith(w, {"NEW_SUCCESS"})
    <3>1. ASSUME KeepPolling(w)
          PROVE  GoesTo(w, {"confirm"}) \/ EndsWith(w, Failures)
      BY <3>1 DEF KeepPolling, GoesTo, EndsWith, Failures, Outcome, Success
    <3>2. ASSUME NEW v \in visible .. Len(log), log[v].state = Plan[w].to, Report(w, "NEW_SUCCESS")
          PROVE  Seen(w) /\ EndsWith(w, {"NEW_SUCCESS"})
      BY <3>2 DEF Seen, EndsWith
    <3>3. ASSUME Report(w, "STATE_CONFLICT")
          PROVE  EndsWith(w, Failures)
      BY <3>3 DEF EndsWith, Failures, Outcome, Success
    <3>4. \/ KeepPolling(w)
          \/ \E v \in visible .. Len(log) :
               \/ log[v].state = Plan[w].to /\ Report(w, "NEW_SUCCESS")
               \/ Report(w, "STATE_CONFLICT")
               \/ KeepPolling(w)
      BY <1>9 DEF Probe, Latest
    <3>. QED BY <3>1, <3>2, <3>3, <3>4
  <2>3. CASE GoesTo(w, {"confirm"}) \/ EndsWith(w, Failures)
    <3>1. {"confirm"} \in SUBSET Stage /\ Failures \in SUBSET Outcome
      BY DEF Stage, Failures
    <3>2. /\ WalkRecords(w) /\ stage'[w] \in {"confirm"} \cup {"done"}
          /\ outcome'[w] \in Failures \cup {outcome[w]}
      BY <2>1, <2>3, <3>1, WalkMoves
    <3>. QED BY <2>1, <3>2 DEF WalkPolls, Failures
  <2>4. CASE Seen(w) /\ EndsWith(w, {"NEW_SUCCESS"})
    <3>1. {} \in SUBSET Stage /\ {"NEW_SUCCESS"} \in SUBSET Outcome
      BY DEF Outcome
    <3>2. WalkRecords(w) /\ stage'[w] \in {} \cup {"done"}
      BY <2>1, <2>4, <3>1, WalkMoves
    <3>. QED BY <2>1, <2>4, <3>2 DEF WalkPolls
  <2>. QED BY <2>2, <2>3, <2>4
<1>. QED BY <1>1, <1>2, <1>3, <1>4, <1>5, <1>6, <1>7, <1>8, <1>9 DEF WalkStep, AtomicStep

-----------------------------------------------------------------------------
(* A walk's step preserves the invariant.  A step that leaves the log alone first.  *)
LEMMA HistoryKept ==
  ASSUME ReturnInv, log' = log, storeToken' = storeToken
  PROVE  History'
BY DEF ReturnInv, History, NameFromReturning, ResultFromStoring, ReturningUntilStored,
  StoredUnderReturning, PublishedAfterStored, Silent

(* A step of a walk that writes nothing and sends nothing; its success has seen the *)
(* target.                                                                          *)
LEMMA QuietWalk ==
  ASSUME ReturnInv, NEW w \in Walks, WalkRecords(w), WalkAsks(w) \/ WalkPolls(w),
         UNCHANGED storeVars, stage[Publishing] = "begin" /\ w = Publishing => Stored
  PROVE  ReturnInv'
<1>1. /\ log' = log /\ inFlight' = inFlight /\ visible' \in 1 .. Len(log)
      /\ ReturnTyped /\ StoreOnce /\ InOrder /\ \A u \in Walks : WalkOnce(u)
      /\ storeStage' = storeStage /\ storeToken' = storeToken /\ storeFence' = storeFence
      /\ storeOutcome' = storeOutcome /\ storeInFlight' = storeInFlight
  <2>1. ReturnTyped /\ StoreOnce /\ InOrder /\ \A u \in Walks : WalkOnce(u)
    BY DEF ReturnInv
  <2>2. log' = log /\ inFlight' = inFlight
    BY DEF WalkAsks, WalkPolls
  <2>3. visible' \in 1 .. Len(log)
    BY <2>1, LogTyped DEF WalkRecords
  <2>. QED BY <2>1, <2>2, <2>3 DEF storeVars
<1>2. ReturnTyped'
  BY <1>1 DEF ReturnTyped, WalkRecords
<1>3. ASSUME NEW u \in Walks PROVE WalkOnce(u)'
  <2>1. Silent(u)' = Silent(u) /\ Once(u)' = Once(u)
    BY <1>1 DEF Silent, Once
  <2>2. CASE u = w
    BY <1>1, <2>1, <2>2 DEF WalkOnce, WalkAsks, WalkPolls, Asking
  <2>3. CASE u # w
    BY <1>1, <2>1, <2>3 DEF WalkOnce, WalkRecords
  <2>. QED BY <2>2, <2>3
<1>4. StoreOnce'
  BY <1>1 DEF StoreOnce, Silent, Once
<1>5. InOrder'
  <2>1. (Silent(Returning)' <=> Silent(Returning)) /\ (Silent(Storing)' <=> Silent(Storing))
        /\ (Stored' <=> Stored)
    BY <1>1 DEF Silent, Stored
  <2>2. Succeeded(Returning)' => ~Silent(Returning)
    <3>1. Succeeded(Returning)' => Succeeded(Returning) \/ Seen(Returning)
      <4>1. CASE w = Returning
        BY <4>1 DEF Succeeded, WalkAsks, WalkPolls, Success
      <4>2. CASE w # Returning
        BY <4>2, Names DEF Succeeded, WalkRecords
      <4>. QED BY <4>1, <4>2
    <3>2. Seen(Returning) => ~Silent(Returning)
      BY SeenMeansDone, JobTyped DEF Seen
    <3>. QED BY <1>1, <3>1, <3>2 DEF InOrder
  <2>3. stage'[Publishing] # "begin" => stage[Publishing] # "begin" \/ Stored
    BY Names DEF WalkRecords
  <2>. QED BY <1>1, <2>1, <2>2, <2>3 DEF InOrder
<1>6. History'
  BY <1>1, HistoryKept
<1>. QED BY <1>2, <1>3, <1>4, <1>5, <1>6 DEF ReturnInv

(* A walk that has begun writes its target under the body that is there.            *)
LEMMA WalkWrites ==
  ASSUME ReturnInv, NEW w \in Walks, Silent(w), storeToken' = storeToken,
         w = Publishing => ~Silent(Storing), Appends(Plan[w].to, log[Len(log)].body, w)
  PROVE  History'
<1>1. /\ log \in Seq(Entry) /\ log # << >> /\ log[Len(log)].body \in Body
      /\ Plan[w].to \in States(Object) /\ w \in Walks \cup {Storing, Elsewhere}
  <2>1. log \in Seq(Entry) /\ log # << >> /\ Len(log) \in 1 .. Len(log)
    BY DEF ReturnInv, ReturnTyped
  <2>2. log[Len(log)] \in Entry
    BY <2>1
  <2>. QED BY <2>1, <2>2, JobTyped DEF Entry
<1>. DEFINE state == Plan[w].to
            body == log[Len(log)].body
<1>2. /\ state = "RETURNING" => w = Returning
      /\ w # Storing
      /\ Silent(Storing) /\ (w = Returning \/ ~Silent(Returning)) => state = "RETURNING"
  BY Names, JobTyped
<1>3. state \in States(Object) /\ body \in Body /\ Appends(state, body, w)
  BY <1>1
<1>4. body.text = "result" => log[Len(log)].body.text = "result"
  OBVIOUS
<1>. HIDE DEF state, body
<1>. QED BY <1>1, <1>2, <1>3, <1>4, HistoryGrows

(* A step of a walk that writes, now or late.                                       *)
LEMMA WritingWalk ==
  ASSUME ReturnInv, NEW w \in Walks, WalkRecords(w), UNCHANGED storeVars, Silent(w),
         Appends(Plan[w].to, log[Len(log)].body, w), visible' = visible,
         stage[w] # "begin", stage'[w] \notin Asking, w \notin inFlight',
         outcome'[w] = outcome[w], \A u \in Walks \ {w} : u \in inFlight' <=> u \in inFlight,
         inFlight' \subseteq Walks
  PROVE  ReturnInv'
<1>1. /\ ReturnTyped /\ StoreOnce /\ InOrder /\ \A u \in Walks : WalkOnce(u)
      /\ storeStage' = storeStage /\ storeToken' = storeToken /\ storeFence' = storeFence
      /\ storeOutcome' = storeOutcome /\ storeInFlight' = storeInFlight
  BY DEF ReturnInv, storeVars
<1>2. /\ log \in Seq(Entry) /\ log # << >> /\ log[Len(log)].body \in Body
      /\ Plan[w].to \in States(Object) /\ w \in Walks \cup {Storing, Elsewhere}
  <2>1. log \in Seq(Entry) /\ log # << >> /\ Len(log) \in 1 .. Len(log)
    BY <1>1 DEF ReturnTyped
  <2>2. log[Len(log)] \in Entry
    BY <2>1
  <2>. QED BY <2>1, <2>2, JobTyped DEF Entry
<1>3. log' \in Seq(Entry) /\ log' # << >> /\ Len(log) \in Nat /\ Len(log') = Len(log) + 1
  BY <1>2, Grows
<1>4. ReturnTyped'
  BY <1>1, <1>3 DEF ReturnTyped, WalkRecords
<1>5. /\ \A a : a # w => (Silent(a) => Silent(a)') /\ (Once(a) => Once(a)')
      /\ \A a : ~Silent(a) => ~Silent(a)'
      /\ ~Silent(w)' /\ Once(w)'
  BY <1>2, SilenceKept
<1>6. ASSUME NEW u \in Walks PROVE WalkOnce(u)'
  <2>1. CASE u = w
    BY <1>5, <2>1 DEF WalkOnce, Asking
  <2>2. CASE u # w
    BY <1>1, <1>3, <1>5, <2>2 DEF WalkOnce, WalkRecords
  <2>. QED BY <2>1, <2>2
<1>7. StoreOnce'
  BY <1>1, <1>3, <1>5, Names DEF StoreOnce
<1>8. InOrder'
  <2>1. Succeeded(Returning)' <=> Succeeded(Returning)
    BY Names DEF Succeeded, WalkRecords
  <2>2. stage'[Publishing] # "begin" => stage[Publishing] # "begin"
    BY Names DEF WalkRecords
  <2>. QED BY <1>1, <1>5, <2>1, <2>2 DEF InOrder, Stored
<1>9. History'
  <2>1. w = Publishing => ~Silent(Storing)
    BY <1>1 DEF InOrder
  <2>. QED BY <1>1, <2>1, WalkWrites
<1>. QED BY <1>4, <1>6, <1>7, <1>8, <1>9 DEF ReturnInv

(* A request that stays unanswered may be on its way.                               *)
LEMMA UnansweredWalk ==
  ASSUME ReturnInv, NEW w \in Walks, WalkRecords(w), UNCHANGED storeVars,
         stage[w] = "send", stage'[w] = "confirm", outcome'[w] = outcome[w],
         log' = log, inFlight' \in {inFlight, inFlight \cup {w}}
  PROVE  ReturnInv'
<1>1. /\ ReturnTyped /\ StoreOnce /\ InOrder /\ \A u \in Walks : WalkOnce(u)
      /\ storeStage' = storeStage /\ storeToken' = storeToken /\ storeFence' = storeFence
      /\ storeOutcome' = storeOutcome /\ storeInFlight' = storeInFlight
  BY DEF ReturnInv, storeVars
<1>2. visible' \in 1 .. Len(log)
  BY <1>1, LogTyped DEF WalkRecords
<1>3. ReturnTyped'
  BY <1>1, <1>2 DEF ReturnTyped, WalkRecords
<1>4. ASSUME NEW u \in Walks PROVE WalkOnce(u)'
  <2>1. Silent(u)' = Silent(u) /\ Once(u)' = Once(u)
    BY DEF Silent, Once
  <2>2. CASE u = w
    BY <1>1, <2>1, <2>2 DEF WalkOnce, Asking
  <2>3. CASE u # w
    BY <1>1, <2>1, <2>3 DEF WalkOnce, WalkRecords
  <2>. QED BY <2>2, <2>3
<1>5. StoreOnce'
  BY <1>1 DEF StoreOnce, Silent, Once
<1>6. InOrder'
  <2>1. Succeeded(Returning)' <=> Succeeded(Returning)
    BY Names DEF Succeeded, WalkRecords
  <2>2. stage'[Publishing] # "begin" => stage[Publishing] # "begin"
    BY Names DEF WalkRecords
  <2>. QED BY <1>1, <2>1, <2>2 DEF InOrder, Stored, Silent
<1>7. History'
  BY <1>1, HistoryKept
<1>. QED BY <1>3, <1>4, <1>5, <1>6, <1>7 DEF ReturnInv

(* Every step of a walk, timely ...                                                 *)
LEMMA WalkStepInv ==
  ASSUME ReturnInv, NEW w \in Walks, WalkStep(w), UNCHANGED storeVars,
         stage[Publishing] = "begin" /\ w = Publishing => Stored
  PROVE  ReturnInv'
<1>1. ReturnTyped /\ WalkOnce(w)
  BY DEF ReturnInv
<1>2. WalkRecords(w) /\ (WalkAsks(w) \/ WalkSends(w) \/ WalkPolls(w))
  BY <1>1, WalkRequests
<1>3. CASE WalkAsks(w) \/ WalkPolls(w)
  BY <1>2, <1>3, QuietWalk
<1>4. CASE WalkSends(w) /\ Appends(Plan[w].to, log[Len(log)].body, w)
  <2>1. Silent(w) /\ w \notin inFlight
    BY <1>1, <1>4 DEF WalkOnce, WalkSends, Asking
  <2>2. log' # log
    <3>1. Len(log') = Len(log) + 1 /\ Len(log) \in Nat
      BY <1>1, <1>4 DEF Appends, ReturnTyped
    <3>. QED BY <3>1
  <2>3. inFlight' = inFlight /\ stage[w] = "send" /\ stage'[w] = "confirm" /\ outcome'[w] = outcome[w]
    BY <1>4, <2>2 DEF WalkSends
  <2>4. visible' = visible
    BY <2>2 DEF WalkStep, AtomicStep, Begin, ReadMetadata, ReadFenceName, ReadFenceBody, ReadFails,
      RenameApplied, RenameRefused, RenameUnanswered, Probe, CheckVersion, RenameObject, Write,
      ReadVersion, driveVars
  <2>5. inFlight' \subseteq Walks
    BY <1>1, <2>3 DEF ReturnTyped
  <2>6. stage'[w] \notin Asking
    BY <2>3 DEF Asking
  <2>. QED BY <1>2, <1>4, <2>1, <2>3, <2>4, <2>5, <2>6, WritingWalk
<1>5. CASE WalkSends(w) /\ log' = log
  <2>1. inFlight' \in {inFlight, inFlight \cup {w}}
    BY <1>5 DEF WalkSends
  <2>. QED BY <1>2, <1>5, <2>1, UnansweredWalk DEF WalkSends
<1>. QED BY <1>2, <1>3, <1>4, <1>5 DEF WalkSends

(* ... or late.                                                                     *)
LEMMA LateRenameInv ==
  ASSUME ReturnInv, NEW w \in Walks, LateRename(w), UNCHANGED storeVars
  PROVE  ReturnInv'
<1>1. ReturnTyped /\ WalkOnce(w) /\ StoreOnce /\ InOrder /\ \A u \in Walks : WalkOnce(u)
  BY DEF ReturnInv
<1>2. /\ w \in inFlight /\ inFlight' = inFlight \ {w} /\ inFlight' \subseteq Walks
      /\ stage' = stage /\ outcome' = outcome /\ token' = token
  BY <1>1 DEF LateRename, callVars, ReturnTyped
<1>3. Silent(w) /\ stage[w] \notin Asking
  BY <1>1, <1>2 DEF WalkOnce
<1>4. CASE RenameObject(w)
  <2>1. Appends(Plan[w].to, log[Len(log)].body, w) /\ visible' = visible
    BY <1>4 DEF RenameObject, Write, Appends, Current, Latest
  <2>2. visible' \in visible .. Len(log)
    BY <1>1, <2>1, LogTyped
  <2>3. WalkRecords(w)
    BY <1>1, <1>2, <2>2 DEF WalkRecords, ReturnTyped
  <2>4. stage[w] # "begin"
    BY <1>3 DEF Asking
  <2>. QED BY <1>2, <1>3, <2>1, <2>3, <2>4, WritingWalk
<1>5. CASE UNCHANGED driveVars
  <2>1. log' = log /\ visible' = visible /\ storeToken' = storeToken
        /\ storeStage' = storeStage /\ storeFence' = storeFence
        /\ storeOutcome' = storeOutcome /\ storeInFlight' = storeInFlight
    BY <1>5 DEF driveVars, storeVars
  <2>2. ReturnTyped'
    BY <1>1, <1>2, <2>1 DEF ReturnTyped
  <2>3. \A u \in Walks : WalkOnce(u)'
    BY <1>1, <1>2, <2>1 DEF WalkOnce, Silent, Once
  <2>4. StoreOnce' /\ InOrder'
    BY <1>1, <1>2, <2>1 DEF StoreOnce, InOrder, Succeeded, Stored, Silent, Once
  <2>5. History'
    BY <2>1, HistoryKept
  <2>. QED BY <2>2, <2>3, <2>4, <2>5 DEF ReturnInv
<1>. QED BY <1>4, <1>5 DEF LateRename

-----------------------------------------------------------------------------
(* The write in between: it asks, it sends its one request, it verifies.            *)
Verifying == {"confirm", "postName", "postBody"}
ResultSeen == \E i \in 1 .. Len(log) : log[i].body = JobBody("result")

StoreAsks ==
  /\ storeStage[Storing] \in StoreAsking
  /\ storeStage'[Storing] \in (StoreAsking \ {"begin"}) \cup {"done"}
  /\ log' = log /\ storeInFlight' = storeInFlight
  /\ storeToken'[Storing] # storeToken[Storing] => storeStage[Storing] = "read"
  /\ storeToken'[Storing] \in 0 .. Len(log)
  /\ Stored' => Stored
StoreSends ==
  /\ storeStage[Storing] = "send" /\ storeStage'[Storing] = "confirm"
  /\ storeOutcome'[Storing] = storeOutcome[Storing] /\ storeToken' = storeToken
  /\ \/ /\ Appends(log[Len(log)].state, JobBody("result"), Storing)
        /\ storeInFlight' = storeInFlight
     \/ log' = log /\ storeInFlight' \in {storeInFlight, storeInFlight \cup {Storing}}
StoreVerifies ==
  /\ storeStage[Storing] \in Verifying /\ storeStage'[Storing] \in Verifying \cup {"done"}
  /\ log' = log /\ storeInFlight' = storeInFlight /\ storeToken' = storeToken
  /\ Stored' \/ storeStage'[Storing] \in {"postName", "postBody"} =>
       Stored \/ storeStage[Storing] \in {"postName", "postBody"} \/ ResultSeen

StoreRecords ==
  /\ visible' \in visible .. Len(log)
  /\ storeStage' \in [{Storing} -> Store!Stage]
  /\ storeOutcome' \in [{Storing} -> Store!Outcome \cup {Store!Undecided}]
  /\ storeToken' \in [{Storing} -> Nat] /\ storeFence' \in [{Storing} -> Nat]

StoreGoesTo(stages) == \E next \in stages : Store!Goto(Storing, next)
StoreEndsWith(results) == \E result \in results : Store!Report(Storing, result)
StoreFailures == Store!Outcome \ {"VERIFIED_SUCCESS"}

(* What the write records when it goes on or reports.                               *)
LEMMA StoreMoves ==
  ASSUME ReturnTyped, visible' \in visible .. Len(log),
         \/ storeToken' = storeToken
         \/ \E v \in visible .. Len(log) : storeToken' = [storeToken EXCEPT ![Storing] = v],
         \/ storeFence' = storeFence
         \/ \E v \in visible .. Len(log) : storeFence' = [storeFence EXCEPT ![Storing] = v],
         NEW stages \in SUBSET Store!Stage, NEW results \in SUBSET Store!Outcome,
         StoreGoesTo(stages) \/ StoreEndsWith(results)
  PROVE  /\ StoreRecords /\ storeStage'[Storing] \in stages \cup {"done"}
         /\ storeOutcome'[Storing] \in results \cup {storeOutcome[Storing]}
         /\ storeToken'[Storing] \in {storeToken[Storing]} \cup (visible .. Len(log))
<1>. DEFINE Follows ==
            /\ storeStage' \in [{Storing} -> Store!Stage]
            /\ storeOutcome' \in [{Storing} -> Store!Outcome \cup {Store!Undecided}]
            /\ storeStage'[Storing] \in stages \cup {"done"}
            /\ storeOutcome'[Storing] \in results \cup {storeOutcome[Storing]}
<1>1. /\ storeStage \in [{Storing} -> Store!Stage] /\ "done" \in Store!Stage
      /\ storeOutcome \in [{Storing} -> Store!Outcome \cup {Store!Undecided}]
  BY DEF ReturnTyped, Store!Stage
<1>2. Follows
  <2>1. ASSUME NEW next \in stages, Store!Goto(Storing, next) PROVE Follows
    BY <1>1, <2>1 DEF Store!Goto
  <2>2. ASSUME NEW result \in results, Store!Report(Storing, result) PROVE Follows
    BY <1>1, <2>2 DEF Store!Report
  <2>. QED BY <2>1, <2>2 DEF StoreGoesTo, StoreEndsWith
<1>3. visible .. Len(log) \subseteq Nat
  BY DEF ReturnTyped
<1>4. /\ storeToken' \in [{Storing} -> Nat]
      /\ storeToken'[Storing] \in {storeToken[Storing]} \cup (visible .. Len(log))
  BY <1>3 DEF ReturnTyped
<1>5. storeFence' \in [{Storing} -> Nat]
  BY <1>3 DEF ReturnTyped
<1>. QED BY <1>2, <1>4, <1>5 DEF StoreRecords

(* Who claims an attempt goes on, or gives up.                                      *)
LEMMA Claims ==
  ASSUME Store!Claim(Storing)
  PROVE  StoreGoesTo({"check", "send"}) \/ StoreEndsWith({"FAILURE"})
BY DEF Store!Claim, StoreGoesTo, StoreEndsWith

(* Who is refused starts over within the budget, or gives up.                       *)
LEMMA StoreRefusals ==
  ASSUME Store!Refused(Storing)
  PROVE  StoreGoesTo({"read"}) \/ StoreEndsWith({"STATE_CONFLICT", "FAILURE"})
BY DEF Store!Refused, StoreGoesTo, StoreEndsWith

(* Before its request the write reads on, or fails; ...                             *)
LEMMA StoreGoesOn ==
  ASSUME ReturnTyped, StoreOnce, storeStage[Storing] \in StoreAsking,
         visible' \in visible .. Len(log), log' = log, storeInFlight' = storeInFlight,
         \/ storeToken' = storeToken
         \/ /\ storeStage[Storing] = "read"
            /\ \E v \in visible .. Len(log) : storeToken' = [storeToken EXCEPT ![Storing] = v],
         \/ storeFence' = storeFence
         \/ \E v \in visible .. Len(log) : storeFence' = [storeFence EXCEPT ![Storing] = v],
         StoreGoesTo(StoreAsking \ {"begin"}) \/ StoreEndsWith(StoreFailures)
  PROVE  StoreRecords /\ StoreAsks
<1>1. StoreAsking \ {"begin"} \in SUBSET Store!Stage /\ StoreFailures \in SUBSET Store!Outcome
  BY DEF StoreAsking, StoreFailures, Store!Stage
<1>2. /\ StoreRecords /\ storeStage'[Storing] \in (StoreAsking \ {"begin"}) \cup {"done"}
      /\ storeOutcome'[Storing] \in StoreFailures \cup {storeOutcome[Storing]}
      /\ storeToken'[Storing] \in {storeToken[Storing]} \cup (visible .. Len(log))
  BY <1>1, StoreMoves
<1>3. storeToken'[Storing] \in 0 .. Len(log)
  BY <1>2, LogTyped DEF StoreOnce
<1>4. Stored' => Stored
  BY <1>2 DEF Stored, StoreFailures
<1>5. storeToken'[Storing] # storeToken[Storing] => storeStage[Storing] = "read"
  OBVIOUS
<1>. QED BY <1>2, <1>3, <1>4, <1>5 DEF StoreAsks

(* ... after it, it reads back, compares its fence, and reports; a success has seen *)
(* the body.                                                                        *)
LEMMA StoreReadsBack ==
  ASSUME ReturnTyped, storeStage[Storing] \in Verifying,
         visible' \in visible .. Len(log), log' = log, storeInFlight' = storeInFlight,
         storeToken' = storeToken,
         \/ storeFence' = storeFence
         \/ \E v \in visible .. Len(log) : storeFence' = [storeFence EXCEPT ![Storing] = v],
         \/ StoreGoesTo({"confirm"}) \/ StoreEndsWith(StoreFailures)
         \/ /\ storeStage[Storing] \in {"postName", "postBody"} \/ ResultSeen
            /\ StoreGoesTo({"postName", "postBody"}) \/ StoreEndsWith(Store!Outcome)
  PROVE  StoreRecords /\ StoreVerifies
<1>1. /\ {"confirm"} \in SUBSET Store!Stage /\ {"postName", "postBody"} \in SUBSET Store!Stage
      /\ StoreFailures \in SUBSET Store!Outcome /\ Store!Outcome \in SUBSET Store!Outcome
  BY DEF StoreFailures, Store!Stage
<1>2. CASE StoreGoesTo({"confirm"}) \/ StoreEndsWith(StoreFailures)
  <2>1. /\ StoreRecords /\ storeStage'[Storing] \in {"confirm"} \cup {"done"}
        /\ storeOutcome'[Storing] \in StoreFailures \cup {storeOutcome[Storing]}
    BY <1>1, <1>2, StoreMoves
  <2>. QED BY <2>1 DEF StoreVerifies, Verifying, Stored, StoreFailures
<1>3. CASE /\ storeStage[Storing] \in {"postName", "postBody"} \/ ResultSeen
           /\ StoreGoesTo({"postName", "postBody"}) \/ StoreEndsWith(Store!Outcome)
  <2>1. StoreRecords /\ storeStage'[Storing] \in {"postName", "postBody"} \cup {"done"}
    BY <1>1, <1>3, StoreMoves
  <2>. QED BY <1>3, <2>1 DEF StoreVerifies, Verifying
<1>. QED BY <1>2, <1>3

-----------------------------------------------------------------------------
(* Each request of the write is one of the three.                                   *)
LEMMA StoreRequests ==
  ASSUME ReturnTyped, StoreOnce, Store!CallStep(Storing)
  PROVE  StoreRecords /\ (StoreAsks \/ StoreSends \/ StoreVerifies)
<1>. USE LogTyped
<1>1. CASE Store!Begin(Storing)
  <2>1. /\ storeStage[Storing] \in StoreAsking /\ log' = log /\ visible' \in visible .. Len(log)
        /\ storeInFlight' = storeInFlight /\ storeToken' = storeToken /\ storeFence' = storeFence
    BY <1>1 DEF Store!Begin, StoreAsking, Store!driveVars
  <2>2. StoreGoesTo(StoreAsking \ {"begin"}) \/ StoreEndsWith(StoreFailures)
    BY <1>1 DEF Store!Begin, StoreGoesTo, StoreEndsWith, StoreFailures, Store!Outcome, StoreAsking
  <2>. QED BY <2>1, <2>2, StoreGoesOn
<1>2. CASE Store!ReadMetadata(Storing)
  <2>1. PICK v \in visible .. Len(log) :
          /\ Store!ReadVersion(v) /\ storeToken' = [storeToken EXCEPT ![Storing] = v]
          /\ \/ Store!Report(Storing, "STATE_CONFLICT") \/ Store!Goto(Storing, "preName")
             \/ Store!Claim(Storing)
    BY <1>2 DEF Store!ReadMetadata, Store!Latest
  <2>2. /\ storeStage[Storing] = "read" /\ log' = log /\ visible' \in visible .. Len(log)
        /\ storeInFlight' = storeInFlight /\ storeFence' = storeFence
    BY <1>2, <2>1 DEF Store!ReadMetadata, Store!ReadVersion
  <2>3. StoreGoesTo(StoreAsking \ {"begin"}) \/ StoreEndsWith(StoreFailures)
    BY <2>1, Claims DEF StoreGoesTo, StoreEndsWith, StoreFailures, Store!Outcome, StoreAsking
  <2>4. storeStage[Storing] \in StoreAsking
    BY <2>2 DEF StoreAsking
  <2>. QED BY <2>1, <2>2, <2>3, <2>4, StoreGoesOn
<1>3. CASE Store!ReadFenceName(Storing)
  <2>1. /\ log' = log /\ visible' \in visible .. Len(log)
        /\ storeInFlight' = storeInFlight /\ storeToken' = storeToken
        /\ \E v \in visible .. Len(log) : storeFence' = [storeFence EXCEPT ![Storing] = v]
    BY <1>3 DEF Store!ReadFenceName, Store!ReadVersion, Store!Latest
  <2>2. CASE storeStage[Storing] = "preName" /\ Store!Goto(Storing, "preBody")
    <3>1. StoreGoesTo(StoreAsking \ {"begin"}) /\ storeStage[Storing] \in StoreAsking
      BY <2>2 DEF StoreGoesTo, StoreAsking
    <3>. QED BY <2>1, <3>1, StoreGoesOn
  <2>3. CASE storeStage[Storing] = "postName" /\ Store!Goto(Storing, "postBody")
    <3>1. /\ StoreGoesTo({"postName", "postBody"}) /\ storeStage[Storing] \in Verifying
          /\ storeStage[Storing] \in {"postName", "postBody"}
      BY <2>3 DEF StoreGoesTo, Verifying
    <3>. QED BY <2>1, <3>1, StoreReadsBack
  <2>. QED BY <1>3, <2>2, <2>3 DEF Store!ReadFenceName
<1>4. CASE Store!ReadFenceBody(Storing)
  <2>1. /\ log' = log /\ visible' \in visible .. Len(log) /\ storeFence' = storeFence
        /\ storeInFlight' = storeInFlight /\ storeToken' = storeToken
        /\ storeStage[Storing] \in {"preBody", "postBody"}
    BY <1>4 DEF Store!ReadFenceBody, Store!driveVars
  <2>2. \/ Store!Report(Storing, "STALE_FENCE") \/ Store!Report(Storing, "STATE_CONFLICT")
        \/ storeStage[Storing] = "preBody" /\ Store!Claim(Storing)
        \/ storeStage[Storing] = "postBody" /\ Store!Report(Storing, "VERIFIED_SUCCESS")
    BY <1>4 DEF Store!ReadFenceBody, Store!CompareFence
  <2>3. CASE Store!Report(Storing, "STALE_FENCE") \/ Store!Report(Storing, "STATE_CONFLICT")
    <3>1. StoreEndsWith(StoreFailures)
      BY <2>3 DEF StoreEndsWith, StoreFailures, Store!Outcome
    <3>2. CASE storeStage[Storing] = "preBody"
      <4>1. storeStage[Storing] \in StoreAsking
        BY <3>2 DEF StoreAsking
      <4>. QED BY <2>1, <3>1, <4>1, StoreGoesOn
    <3>3. CASE storeStage[Storing] = "postBody"
      <4>1. storeStage[Storing] \in Verifying
        BY <3>3 DEF Verifying
      <4>. QED BY <2>1, <3>1, <4>1, StoreReadsBack
    <3>. QED BY <2>1, <3>2, <3>3
  <2>4. CASE storeStage[Storing] = "preBody" /\ Store!Claim(Storing)
    <3>1. /\ StoreGoesTo(StoreAsking \ {"begin"}) \/ StoreEndsWith(StoreFailures)
          /\ storeStage[Storing] \in StoreAsking
      BY <2>4, Claims DEF StoreGoesTo, StoreEndsWith, StoreFailures, Store!Outcome, StoreAsking
    <3>. QED BY <2>1, <3>1, StoreGoesOn
  <2>5. CASE storeStage[Storing] = "postBody" /\ Store!Report(Storing, "VERIFIED_SUCCESS")
    <3>1. /\ StoreEndsWith(Store!Outcome) /\ storeStage[Storing] \in Verifying
          /\ storeStage[Storing] \in {"postName", "postBody"}
      BY <2>5 DEF StoreEndsWith, Store!Outcome, Verifying
    <3>. QED BY <2>1, <3>1, StoreReadsBack
  <2>. QED BY <2>2, <2>3, <2>4, <2>5
<1>5. CASE Store!ReadFails(Storing)
  <2>1. /\ log' = log /\ visible' \in visible .. Len(log) /\ storeFence' = storeFence
        /\ storeInFlight' = storeInFlight /\ storeToken' = storeToken
        /\ storeStage[Storing] \in {"read", "preName", "preBody", "postName", "postBody"}
    BY <1>5 DEF Store!ReadFails, Store!driveVars
  <2>2. StoreEndsWith(StoreFailures)
    BY <1>5 DEF Store!ReadFails, StoreEndsWith, StoreFailures, Store!Outcome
  <2>3. CASE storeStage[Storing] \in StoreAsking
    BY <2>1, <2>2, <2>3, StoreGoesOn
  <2>4. CASE storeStage[Storing] \in Verifying
    BY <2>1, <2>2, <2>4, StoreReadsBack
  <2>. QED BY <2>1, <2>3, <2>4 DEF StoreAsking, Verifying
<1>6. CASE Store!CheckVersion(Storing) \/ Store!WriteRefused(Storing)
  <2>1. /\ storeStage[Storing] \in StoreAsking /\ log' = log /\ visible' \in visible .. Len(log)
        /\ storeInFlight' = storeInFlight /\ storeToken' = storeToken /\ storeFence' = storeFence
    BY <1>6 DEF Store!CheckVersion, Store!WriteRefused, StoreAsking, Store!driveVars,
      Store!ReadVersion, Store!Latest
  <2>2. \/ Store!Goto(Storing, "send") \/ Store!Report(Storing, "STATE_CONFLICT")
        \/ Store!Refused(Storing)
    BY <1>6 DEF Store!CheckVersion, Store!WriteRefused
  <2>3. StoreGoesTo(StoreAsking \ {"begin"}) \/ StoreEndsWith(StoreFailures)
    BY <2>2, StoreRefusals DEF StoreGoesTo, StoreEndsWith, StoreFailures, Store!Outcome, StoreAsking
  <2>. QED BY <2>1, <2>3, StoreGoesOn
<1>7. CASE Store!WriteApplied(Storing) \/ Store!WriteUnanswered(Storing)
  <2>1. /\ storeStage[Storing] = "send" /\ visible' \in visible .. Len(log)
        /\ storeToken' = storeToken /\ storeFence' = storeFence /\ StoreGoesTo({"confirm"})
    BY <1>7 DEF Store!WriteApplied, Store!WriteUnanswered, Store!ReplaceText, Store!Write,
      Store!driveVars, StoreGoesTo
  <2>2. {"confirm"} \in SUBSET Store!Stage /\ {} \in SUBSET Store!Outcome
    BY DEF Store!Stage
  <2>3. StoreRecords
    BY <2>1, <2>2, StoreMoves
  <2>4. storeStage'[Storing] = "confirm" /\ storeOutcome'[Storing] = storeOutcome[Storing]
    BY <2>1 DEF StoreGoesTo, Store!Goto, ReturnTyped
  <2>5. \/ /\ Appends(log[Len(log)].state, JobBody("result"), Storing)
           /\ storeInFlight' = storeInFlight
        \/ log' = log /\ storeInFlight' \in {storeInFlight, storeInFlight \cup {Storing}}
    BY <1>7 DEF Store!WriteApplied, Store!WriteUnanswered, Store!ReplaceText, Store!Write,
      Store!driveVars, Appends, Store!Current, Store!Latest
  <2>. QED BY <2>1, <2>3, <2>4, <2>5 DEF StoreSends
<1>8. CASE Store!Probe(Storing)
  <2>1. /\ storeStage[Storing] \in Verifying /\ log' = log /\ visible' \in visible .. Len(log)
        /\ storeInFlight' = storeInFlight /\ storeToken' = storeToken /\ storeFence' = storeFence
    BY <1>8 DEF Store!Probe, Store!driveVars, Store!ReadVersion, Store!Latest, Verifying
  <2>2. ASSUME NEW faults, Store!KeepReading(Storing, faults)
        PROVE  StoreGoesTo({"confirm"}) \/ StoreEndsWith(StoreFailures)
    <3>1. Store!Unconfirmed(Storing, faults) \in StoreFailures
      BY DEF Store!Unconfirmed, StoreFailures, Store!Outcome
    <3>. QED BY <2>2, <3>1 DEF Store!KeepReading, StoreGoesTo, StoreEndsWith
  <2>3. ASSUME NEW version \in visible .. Len(log), NEW text \in version .. Len(log),
               Store!ReadBack(Storing, version, text)
        PROVE  \/ StoreGoesTo({"confirm"}) \/ StoreEndsWith(StoreFailures)
               \/ ResultSeen /\ StoreGoesTo({"postName", "postBody"})
    <3>1. \/ \E faults : Store!KeepReading(Storing, faults)
          \/ log[text].body = JobBody("result") /\ Store!Goto(Storing, "postName")
      BY <2>3 DEF Store!ReadBack
    <3>2. text \in 1 .. Len(log)
      BY DEF ReturnTyped
    <3>. QED BY <2>2, <3>1, <3>2 DEF ResultSeen, StoreGoesTo
  <2>4. Store!Report(Storing, "UNCONFIRMED") => StoreEndsWith(StoreFailures)
    BY DEF StoreEndsWith, StoreFailures, Store!Outcome
  <2>5. \/ \E version \in visible .. Len(log) : \E text \in version .. Len(log) :
             Store!ReadBack(Storing, version, text)
        \/ Store!KeepReading(Storing, storeMisread[Storing]) \/ Store!Report(Storing, "UNCONFIRMED")
    BY <1>8 DEF Store!Probe, Store!Latest
  <2>6. \/ StoreGoesTo({"confirm"}) \/ StoreEndsWith(StoreFailures)
        \/ ResultSeen /\ StoreGoesTo({"postName", "postBody"})
    BY <2>2, <2>3, <2>4, <2>5
  <2>. QED BY <2>1, <2>6, StoreReadsBack
<1>. QED BY <1>1, <1>2, <1>3, <1>4, <1>5, <1>6, <1>7, <1>8 DEF Store!CallStep, Store!AtomicStep

-----------------------------------------------------------------------------
(* The walks do not notice a step of the write that leaves the log alone.           *)
LEMMA WalksUntouched ==
  ASSUME ReturnInv, UNCHANGED <<callVars, inFlight>>, log' = log
  PROVE  \A w \in Walks : WalkOnce(w)'
<1>1. stage' = stage /\ token' = token /\ inFlight' = inFlight
  BY DEF callVars
<1>. QED BY <1>1 DEF ReturnInv, WalkOnce, Silent, Once

(* A step of the write preserves the invariant: one that writes and sends nothing,  *)
LEMMA QuietStore ==
  ASSUME ReturnInv, StoreRecords, StoreAsks \/ StoreVerifies, UNCHANGED <<callVars, inFlight>>,
         storeStage[Storing] = "begin" => Succeeded(Returning)
  PROVE  ReturnInv'
<1>1. /\ log' = log /\ storeInFlight' = storeInFlight /\ visible' \in 1 .. Len(log)
      /\ stage' = stage /\ outcome' = outcome /\ token' = token /\ inFlight' = inFlight
      /\ ReturnTyped /\ StoreOnce /\ InOrder
  <2>1. ReturnTyped /\ StoreOnce /\ InOrder
    BY DEF ReturnInv
  <2>2. log' = log /\ storeInFlight' = storeInFlight
    BY DEF StoreAsks, StoreVerifies
  <2>3. visible' \in 1 .. Len(log)
    BY <2>1, LogTyped DEF StoreRecords
  <2>. QED BY <2>1, <2>2, <2>3 DEF callVars
<1>2. ReturnTyped'
  BY <1>1 DEF ReturnTyped, StoreRecords
<1>3. \A w \in Walks : WalkOnce(w)'
  BY <1>1, WalksUntouched
<1>4. StoreOnce'
  <2>1. Silent(Storing)' = Silent(Storing) /\ Once(Storing)' = Once(Storing)
    BY <1>1 DEF Silent, Once
  <2>. QED BY <1>1, <2>1 DEF StoreOnce, StoreAsks, StoreVerifies, StoreAsking, Verifying
<1>5. InOrder'
  <2>1. ResultSeen => ~Silent(Storing)
    BY SeenMeansDone DEF ResultSeen, JobBody
  <2>2. (Silent(Returning)' <=> Silent(Returning)) /\ (Silent(Storing)' <=> Silent(Storing))
        /\ (Succeeded(Returning)' <=> Succeeded(Returning))
    BY <1>1 DEF Silent, Succeeded
  <2>3. CASE StoreAsks
    <3>1. storeStage'[Storing] \notin {"postName", "postBody"} /\ (Stored' => Stored)
      BY <2>3 DEF StoreAsks, StoreAsking
    <3>. QED BY <1>1, <2>2, <3>1 DEF InOrder
  <2>4. CASE StoreVerifies
    <3>1. storeStage[Storing] # "begin"
      BY <2>4 DEF StoreVerifies, Verifying
    <3>2. Stored' \/ storeStage'[Storing] \in {"postName", "postBody"} =>
            Stored \/ storeStage[Storing] \in {"postName", "postBody"} \/ ResultSeen
      BY <2>4 DEF StoreVerifies
    <3>. QED BY <1>1, <2>1, <2>2, <3>1, <3>2 DEF InOrder
  <2>. QED BY <2>3, <2>4
<1>6. History'
  <2>1. CASE storeToken'[Storing] = storeToken[Storing]
    <3>1. storeToken' = storeToken
      BY <1>1, <2>1 DEF ReturnTyped, StoreRecords
    <3>. QED BY <1>1, <3>1, HistoryKept
  <2>2. CASE storeToken'[Storing] # storeToken[Storing]
    <3>1. storeStage[Storing] = "read"
      BY <2>2 DEF StoreAsks, StoreVerifies
    <3>2. Silent(Storing)
      BY <1>1, <3>1 DEF StoreOnce, StoreAsking
    <3>3. StoredUnderReturning'
      BY <1>1, <3>2 DEF StoredUnderReturning, Silent
    <3>. QED BY <1>1, <3>3 DEF ReturnInv, History, NameFromReturning, ResultFromStoring,
           ReturningUntilStored, PublishedAfterStored, Silent
  <2>. QED BY <2>1, <2>2
<1>. QED BY <1>2, <1>3, <1>4, <1>5, <1>6 DEF ReturnInv

(* A write that has begun finds the file under RETURNING.                           *)
LEMMA WritingStore ==
  ASSUME ReturnInv, StoreRecords, UNCHANGED <<callVars, inFlight>>, Silent(Storing),
         Appends(log[Len(log)].state, JobBody("result"), Storing), visible' = visible,
         storeStage[Storing] # "begin", storeToken' = storeToken,
         \/ storeStage'[Storing] = storeStage[Storing] /\ storeStage[Storing] \notin StoreAsking
         \/ storeStage'[Storing] = "confirm",
         Storing \notin storeInFlight', storeInFlight' \subseteq {Storing},
         storeOutcome'[Storing] = storeOutcome[Storing]
  PROVE  ReturnInv'
<1>1. /\ ReturnTyped /\ StoreOnce /\ InOrder /\ \A w \in Walks : WalkOnce(w)
      /\ stage' = stage /\ outcome' = outcome /\ token' = token /\ inFlight' = inFlight
  BY DEF ReturnInv, callVars
<1>2. /\ log \in Seq(Entry) /\ log # << >> /\ log[Len(log)].state \in States(Object)
      /\ JobBody("result") \in Body /\ Storing \in Walks \cup {Storing, Elsewhere}
  <2>1. log \in Seq(Entry) /\ log # << >> /\ Len(log) \in 1 .. Len(log)
    BY <1>1 DEF ReturnTyped
  <2>2. log[Len(log)] \in Entry
    BY <2>1
  <2>. QED BY <2>1, <2>2, JobTyped DEF Entry
<1>3. log' \in Seq(Entry) /\ log' # << >> /\ Len(log) \in Nat /\ Len(log') = Len(log) + 1
  BY <1>2, Grows
<1>4. ReturnTyped'
  BY <1>1, <1>3 DEF ReturnTyped, StoreRecords
<1>5. /\ \A a : a # Storing => (Silent(a) => Silent(a)') /\ (Once(a) => Once(a)')
      /\ \A a : ~Silent(a) => ~Silent(a)'
      /\ ~Silent(Storing)' /\ Once(Storing)'
  BY <1>2, SilenceKept
<1>6. ASSUME NEW w \in Walks PROVE WalkOnce(w)'
  <2>1. w # Storing
    BY Names
  <2>. QED BY <1>1, <1>3, <1>5, <2>1 DEF WalkOnce
<1>7. StoreOnce'
  <2>1. storeStage'[Storing] \notin StoreAsking
    BY DEF StoreAsking
  <2>. QED BY <1>1, <1>3, <1>5, <2>1 DEF StoreOnce
<1>8. InOrder'
  BY <1>1, <1>5 DEF InOrder, Succeeded
<1>9. History'
  <2>. DEFINE state == log[Len(log)].state
              body == JobBody("result")
  <2>1. ~Silent(Returning)
    BY <1>1 DEF InOrder
  <2>2. state = "RETURNING" /\ log[Len(log)].state = "RETURNING"
    BY <2>1, StoringFindsReturning
  <2>3. Storing # Publishing /\ state \in States(Object) /\ body \in Body
        /\ Appends(state, body, Storing) /\ body = JobBody("result")
    BY <1>2, Names
  <2>. HIDE DEF state, body
  <2>. QED BY <1>2, <2>1, <2>2, <2>3, HistoryGrows
<1>. QED BY <1>4, <1>6, <1>7, <1>8, <1>9 DEF ReturnInv

(* A request that stays unanswered may be on its way.                               *)
LEMMA UnansweredStore ==
  ASSUME ReturnInv, StoreRecords, UNCHANGED <<callVars, inFlight>>, log' = log,
         storeStage[Storing] = "send", storeStage'[Storing] = "confirm",
         storeOutcome'[Storing] = storeOutcome[Storing], storeToken' = storeToken,
         storeInFlight' \in {storeInFlight, storeInFlight \cup {Storing}}
  PROVE  ReturnInv'
<1>1. /\ visible' \in 1 .. Len(log)
      /\ stage' = stage /\ outcome' = outcome /\ token' = token /\ inFlight' = inFlight
      /\ ReturnTyped /\ StoreOnce /\ InOrder
  <2>1. ReturnTyped /\ StoreOnce /\ InOrder
    BY DEF ReturnInv
  <2>2. visible' \in 1 .. Len(log)
    BY <2>1, LogTyped DEF StoreRecords
  <2>. QED BY <2>1, <2>2 DEF callVars
<1>2. ReturnTyped'
  BY <1>1 DEF ReturnTyped, StoreRecords
<1>3. StoreOnce'
  BY <1>1 DEF StoreOnce, StoreAsking, Silent, Once
<1>4. InOrder'
  BY <1>1 DEF InOrder, Succeeded, Stored, Silent
<1>. QED BY <1>2, <1>3, <1>4, WalksUntouched, HistoryKept DEF ReturnInv

(* Every step of the write, timely ...                                              *)
LEMMA StoreStepInv ==
  ASSUME ReturnInv, StoreStep
  PROVE  ReturnInv'
<1>1. /\ ReturnTyped /\ StoreOnce /\ Store!CallStep(Storing) /\ UNCHANGED <<callVars, inFlight>>
      /\ storeStage[Storing] = "begin" => Succeeded(Returning)
  BY DEF ReturnInv, StoreStep
<1>2. StoreRecords /\ (StoreAsks \/ StoreSends \/ StoreVerifies)
  BY <1>1, StoreRequests
<1>3. CASE StoreAsks \/ StoreVerifies
  BY <1>1, <1>2, <1>3, QuietStore
<1>4. CASE StoreSends /\ Appends(log[Len(log)].state, JobBody("result"), Storing)
  <2>1. Silent(Storing) /\ Storing \notin storeInFlight
    BY <1>1, <1>4 DEF StoreOnce, StoreSends, StoreAsking
  <2>2. log' # log
    <3>1. Len(log') = Len(log) + 1 /\ Len(log) \in Nat
      BY <1>1, <1>4 DEF Appends, ReturnTyped
    <3>. QED BY <3>1
  <2>3. /\ storeInFlight' = storeInFlight /\ storeStage[Storing] = "send"
        /\ storeStage'[Storing] = "confirm" /\ storeToken' = storeToken
        /\ storeOutcome'[Storing] = storeOutcome[Storing]
    BY <1>4, <2>2 DEF StoreSends
  <2>4. visible' = visible
    BY <1>1, <2>2 DEF Store!CallStep, Store!AtomicStep, Store!Begin, Store!ReadMetadata,
      Store!ReadFenceName, Store!ReadFenceBody, Store!ReadFails, Store!WriteApplied,
      Store!WriteRefused, Store!WriteUnanswered, Store!Probe, Store!CheckVersion,
      Store!ReplaceText, Store!Write, Store!ReadVersion, Store!driveVars
  <2>5. storeInFlight' \subseteq {Storing}
    BY <1>1, <2>3 DEF ReturnTyped
  <2>. QED BY <1>1, <1>2, <1>4, <2>1, <2>3, <2>4, <2>5, WritingStore
<1>5. CASE StoreSends /\ log' = log
  <2>1. /\ storeInFlight' \in {storeInFlight, storeInFlight \cup {Storing}}
        /\ storeStage[Storing] = "send" /\ storeStage'[Storing] = "confirm"
        /\ storeToken' = storeToken /\ storeOutcome'[Storing] = storeOutcome[Storing]
    BY <1>5 DEF StoreSends
  <2>. QED BY <1>1, <1>2, <1>5, <2>1, UnansweredStore
<1>. QED BY <1>2, <1>3, <1>4, <1>5 DEF StoreSends

(* ... or late.                                                                     *)
LEMMA LateWriteInv ==
  ASSUME ReturnInv, Store!LateWrite(Storing), UNCHANGED <<callVars, inFlight>>
  PROVE  ReturnInv'
<1>1. ReturnTyped /\ StoreOnce /\ InOrder
  BY DEF ReturnInv
<1>2. /\ Storing \in storeInFlight /\ storeInFlight' = storeInFlight \ {Storing}
      /\ storeInFlight' \subseteq {Storing}
      /\ storeStage' = storeStage /\ storeOutcome' = storeOutcome /\ storeToken' = storeToken
      /\ storeFence' = storeFence
  BY <1>1 DEF Store!LateWrite, Store!callVars, ReturnTyped
<1>3. Silent(Storing) /\ storeStage[Storing] \notin StoreAsking
  BY <1>1, <1>2 DEF StoreOnce
<1>4. CASE Store!ReplaceText(Storing)
  <2>1. /\ Appends(log[Len(log)].state, JobBody("result"), Storing) /\ visible' = visible
    BY <1>4 DEF Store!ReplaceText, Store!Write, Appends, Store!Current, Store!Latest
  <2>2. StoreRecords
    BY <1>1, <1>2, <2>1, LogTyped DEF StoreRecords, ReturnTyped
  <2>3. storeStage[Storing] # "begin" /\ Storing \notin storeInFlight'
    BY <1>2, <1>3 DEF StoreAsking
  <2>. QED BY <1>2, <1>3, <2>1, <2>2, <2>3, WritingStore
<1>5. CASE UNCHANGED Store!driveVars
  <2>1. /\ log' = log /\ visible' = visible /\ stage' = stage /\ outcome' = outcome
        /\ token' = token /\ inFlight' = inFlight
    BY <1>5 DEF Store!driveVars, callVars
  <2>2. ReturnTyped'
    BY <1>1, <1>2, <2>1 DEF ReturnTyped
  <2>3. StoreOnce' /\ InOrder'
    BY <1>1, <1>2, <2>1 DEF StoreOnce, InOrder, Succeeded, Stored, Silent, Once
  <2>. QED BY <1>2, <2>1, <2>2, <2>3, WalksUntouched, HistoryKept DEF ReturnInv
<1>. QED BY <1>4, <1>5 DEF Store!LateWrite

-----------------------------------------------------------------------------
(* The others neither give the file the name RETURNING nor the body a result, and   *)
(* take it out of RETURNING only with a result in it.                               *)
LEMMA TheWorldInv ==
  ASSUME ReturnInv, TheWorld
  PROVE  ReturnInv'
<1>1. /\ ReturnTyped /\ StoreOnce /\ InOrder /\ \A w \in Walks : WalkOnce(w)
      /\ stage' = stage /\ outcome' = outcome /\ token' = token /\ inFlight' = inFlight
      /\ storeStage' = storeStage /\ storeToken' = storeToken /\ storeFence' = storeFence
      /\ storeOutcome' = storeOutcome /\ storeInFlight' = storeInFlight
  BY DEF ReturnInv, TheWorld, callVars, storeVars
<1>2. PICK s \in OtherSnapshots(Current) : Write(s.state, s.body, Elsewhere)
  BY DEF TheWorld, OtherWriter
<1>3. /\ log \in Seq(Entry) /\ log # << >> /\ Len(log) \in 1 .. Len(log)
      /\ Current = log[Len(log)] /\ Current \in Entry
  <2>1. log \in Seq(Entry) /\ log # << >> /\ Len(log) \in 1 .. Len(log)
    BY <1>1 DEF ReturnTyped
  <2>. QED BY <2>1 DEF Current, Latest
<1>. DEFINE state == s.state
            body == s.body
<1>4. /\ state \in States(Object) /\ body \in Body
      /\ state = "RETURNING" => Current.state \in {"TOSS", "CHEW", "RETURNING"}
  <2>1. Current.state \in States(Object) /\ Current.body \in Body
    BY <1>3 DEF Entry
  <2>. QED BY <1>2, <2>1, OtherSnapshotsTyped
<1>5. Appends(state, body, Elsewhere) /\ visible' = visible
  BY <1>2 DEF Write, Appends
<1>6. log'[Len(log')] = [state |-> state, body |-> body, by |-> Elsewhere]
  BY <1>3, <1>5 DEF Appends
<1>7. /\ <<Current.state, state>> \notin
           {<<"CHEW", "RETURNING">>, <<"TOSS", "CHEW">>, <<"TOSS", "RETURNING">>}
      /\ body # Current.body => body.text = "nothing"
      /\ Current.state = "RETURNING" => Current.body.text = "result"
  <2>1. log'[Len(log')].state = state /\ log'[Len(log')].body = body
    BY <1>6
  <2>. QED BY <2>1 DEF TheWorld
<1>. HIDE DEF state, body
<1>8. log' \in Seq(Entry) /\ log' # << >> /\ Len(log) \in Nat /\ Len(log') = Len(log) + 1
  BY <1>3, <1>4, <1>5, Grows
<1>9. ReturnTyped'
  BY <1>1, <1>5, <1>8 DEF ReturnTyped
<1>10. /\ \A a : a # Elsewhere => (Silent(a) => Silent(a)') /\ (Once(a) => Once(a)')
       /\ \A a : ~Silent(a) => ~Silent(a)'
  BY <1>3, <1>4, <1>5, SilenceKept
<1>11. \A w \in Walks : WalkOnce(w)'
  BY <1>1, <1>8, <1>10, Names DEF WalkOnce
<1>12. StoreOnce'
  BY <1>1, <1>8, <1>10, Names DEF StoreOnce
<1>13. InOrder'
  BY <1>1, <1>10 DEF InOrder, Succeeded, Stored
<1>14. History'
  <2>1. state = "RETURNING" => log[Len(log)].state = "RETURNING"
    BY <1>3, <1>4, <1>7
  <2>2. body.text = "result" => log[Len(log)].body.text = "result"
    BY <1>3, <1>7
  <2>3. Silent(Storing) => Silent(Returning)
    BY <1>3, <1>7, StoringFindsReturning
  <2>4. Elsewhere # Storing /\ Elsewhere # Publishing /\ Elsewhere # Returning
    BY Names
  <2>. QED BY <1>1, <1>4, <1>5, <2>1, <2>2, <2>3, <2>4, HistoryGrows
<1>. QED BY <1>9, <1>11, <1>12, <1>13, <1>14 DEF ReturnInv

-----------------------------------------------------------------------------
(* The invariant holds when the job has been executed, ...                          *)
LEMMA InitReturnInv == InitReturn => ReturnInv
<1>. SUFFICES ASSUME InitReturn PROVE ReturnInv
  OBVIOUS
<1>1. PICK s \in FirstSnapshots :
        log = <<[state |-> s.state, body |-> s.body, by |-> Elsewhere]>>
  BY DEF InitReturn, Init
<1>2. s.state \in States(Object) /\ s.body \in Body
  BY <1>1 DEF FirstSnapshots, Body
<1>3. /\ Len(log) = 1 /\ log \in Seq(Entry) /\ log # << >> /\ log[1].by = Elsewhere
      /\ log[1].state = "CHEW" /\ log[1].body.text = "nothing"
  BY <1>1, <1>2 DEF Entry, InitReturn, JobBody
<1>4. /\ Silent(Returning) /\ Silent(Publishing) /\ Silent(Storing)
      /\ Once(Returning) /\ Once(Publishing) /\ Once(Storing)
  BY <1>3, Names DEF Silent, Once
<1>5. /\ visible = 1 /\ inFlight = {} /\ storeInFlight = {}
      /\ stage = [w \in Walks |-> "begin"] /\ outcome = [w \in Walks |-> Undecided]
      /\ token = [w \in Walks |-> 0]
      /\ storeStage = [c \in {Storing} |-> "begin"] /\ storeToken = [c \in {Storing} |-> 0]
      /\ storeFence = [c \in {Storing} |-> 0]
      /\ storeOutcome = [c \in {Storing} |-> Store!Undecided]
  BY DEF InitReturn, Init, Store!Init
<1>6. ReturnTyped
  BY <1>3, <1>5 DEF ReturnTyped, Stage, Store!Stage
<1>7. (\A w \in Walks : WalkOnce(w)) /\ StoreOnce
  BY <1>3, <1>4, <1>5, Names DEF WalkOnce, StoreOnce
<1>8. InOrder
  BY <1>5, Names DEF InOrder, Succeeded, Stored, Undecided, Store!Undecided
<1>9. History
  BY <1>3, <1>4 DEF History, NameFromReturning, ResultFromStoring, ReturningUntilStored,
    StoredUnderReturning, PublishedAfterStored, Silent
<1>. QED BY <1>6, <1>7, <1>8, <1>9 DEF ReturnInv

(* ... and every step preserves it,                                                 *)
LEMMA NextReturnInv == ReturnInv /\ [NextReturn]_returnVars => ReturnInv'
<1>. SUFFICES ASSUME ReturnInv, [NextReturn]_returnVars PROVE ReturnInv'
  OBVIOUS
<1>1. CASE ReturnStep
  BY <1>1, WalkStepInv, Names DEF ReturnStep
<1>2. CASE StoreStep
  BY <1>2, StoreStepInv
<1>3. CASE PublishStep
  BY <1>3, WalkStepInv, Names DEF PublishStep
<1>4. CASE (\E w \in Walks : LateRename(w)) /\ UNCHANGED storeVars
  BY <1>4, LateRenameInv
<1>5. CASE Store!LateWrite(Storing) /\ UNCHANGED <<callVars, inFlight>>
  BY <1>5, LateWriteInv
<1>6. CASE TheWorld
  BY <1>6, TheWorldInv
<1>7. CASE UNCHANGED returnVars
  <2>1. /\ log' = log /\ visible' = visible /\ UNCHANGED <<callVars, inFlight>>
        /\ storeStage' = storeStage /\ storeToken' = storeToken /\ storeFence' = storeFence
        /\ storeOutcome' = storeOutcome /\ storeInFlight' = storeInFlight
    BY <1>7 DEF returnVars, vars, storeVars
  <2>2. ReturnTyped'
    BY <2>1 DEF ReturnInv, ReturnTyped, callVars
  <2>3. StoreOnce' /\ InOrder'
    BY <2>1 DEF ReturnInv, StoreOnce, InOrder, Succeeded, Stored, Silent, Once, callVars
  <2>. QED BY <2>1, <2>2, <2>3, WalksUntouched, HistoryKept DEF ReturnInv
<1>. QED BY <1>1, <1>2, <1>3, <1>4, <1>5, <1>6, <1>7 DEF NextReturn, Pipeline, Late

(* so that it always holds.                                                         *)
LEMMA ReturnInvHolds == SpecReturn => []ReturnInv
BY InitReturnInv, NextReturnInv, PTL DEF SpecReturn

-----------------------------------------------------------------------------
(* Neither walk of the return renames the file twice, and the write replaces the    *)
(* body once, although the version is compared by a request of its own; the result  *)
(* is in the file, under RETURNING, before the terminal state is                    *)
(* published, and the name RETURNING before the result, whatever answers are lost   *)
(* and whenever the requests land (ball_pipeline.py:275-345).                       *)
THEOREM ResultPrecedesName == SpecReturn => []BodyBeforeName
<1>1. ReturnInv => BodyBeforeName
  <2>. SUFFICES ASSUME ReturnInv PROVE BodyBeforeName
    OBVIOUS
  <2>1. Store!AtMostOneEffect
    <3>1. Once(Storing) /\ DOMAIN log = 1 .. Len(log)
      BY DEF ReturnInv, ReturnTyped, StoreOnce
    <3>2. \A i, j \in Store!EffectsOf(Storing) : i = j
      BY <3>1 DEF Store!EffectsOf, Once
    <3>. QED BY <3>2 DEF Store!AtMostOneEffect
  <2>2. \A i \in EffectsOf(Publishing) : \E j \in 1 .. i - 1 : log[j].by = Storing
    BY DEF ReturnInv, ReturnTyped, History, PublishedAfterStored, EffectsOf
  <2>3. \A j \in DOMAIN log : log[j].by = Storing => \E k \in 1 .. j - 1 : log[k].by = Returning
    BY DEF ReturnInv, ReturnTyped, History, StoredUnderReturning
  <2>4. AtMostOneEffect
    BY DEF ReturnInv, ReturnTyped, WalkOnce, Once, AtMostOneEffect, EffectsOf
  <2>. QED BY <2>1, <2>2, <2>3, <2>4 DEF BodyBeforeName
<1>. QED BY <1>1, ReturnInvHolds, PTL

(* A write that is reported verified did stand in the file, under RETURNING, at one *)
(* moment since the call read it, although name, body and fence are read apart      *)
(* (body_keeper.py:288-345).                                                        *)
THEOREM VerifiedResultsWereThere == SpecReturn => []StoredIsRemote
<1>1. ReturnInv => StoredIsRemote
  <2>. SUFFICES ASSUME ReturnInv, Stored
               PROVE  \E i \in storeToken[Storing] .. Len(log) :
                        log[i].state = "RETURNING" /\ log[i].body = JobBody("result")
    BY DEF StoredIsRemote, Store!VerifiedIsRemote, Stored, Store!Latest
  <2>1. PICK i \in 1 .. Len(log) : log[i].by = Storing
    BY DEF ReturnInv, InOrder, Silent
  <2>2. /\ i > storeToken[Storing] /\ storeToken[Storing] \in Nat
        /\ log[i].state = "RETURNING" /\ log[i].body = JobBody("result")
    BY <2>1 DEF ReturnInv, ReturnTyped, History, StoredUnderReturning
  <2>. QED BY <2>2
<1>. QED BY <1>1, ReturnInvHolds, PTL


-----------------------------------------------------------------------------
(***************************************************************************)
(* Retention and deletion (Retention)                                      *)
(***************************************************************************)

Kind == {"content", "descriptor", "record"}
Place == {"TOY_BOX", "BONEYARD", "elsewhere", "gone"}
File == [kind : Kind, at : Place, written : Nat, expires : Nat, refs : SUBSET Nat]
Upload == [at : {"rest", "content", "placeholder", "describe", "publish"},
           since : Nat, content : Nat, descriptor : Nat]
PastToys == {"descriptors", "contents", "orphans"}
SweepStage == {"rest", "boneyard", "records", "toys"} \cup PastToys
Sweep == [at : SweepStage, now : Nat, kept : SUBSET Nat, todo : SUBSET Nat,
          listed : SUBSET Nat, read : SUBSET Nat, deleted : Nat]
Aim == [id : Nat, at : {"rest", "look", "send", "confirm"}, seen : File \cup {[kind |-> "none"]}]

(* What everything is.                                                           *)
Typed ==
  /\ clock \in Nat /\ files \in Seq(File)
  /\ ball \in [refs : SUBSET Nat, finished : Nat] /\ upload \in Upload
  /\ sweep \in Sweep /\ aim \in Aim /\ late \subseteq Aim
  /\ jobs \in Nat /\ trouble \in Nat

Describes(d) == files[d].kind = "descriptor" /\ files[d].refs # {}

(* What refers to what: a record to descriptors, a descriptor to contents, and   *)
(* no two descriptors to the same one.                                           *)
References ==
  /\ \A id \in In("BONEYARD") : files[id].kind = "record"
  /\ \A d \in DOMAIN files, x \in Nat : x \in files[d].refs =>
       /\ x \in DOMAIN files
       /\ files[d].kind = "record" => Describes(x)
       /\ files[d].kind = "descriptor" => files[x].kind = "content"
       /\ files[d].kind # "content"
  /\ \A d, e \in DOMAIN files :
       Describes(d) /\ Describes(e) /\ files[d].refs \cap files[e].refs # {} => d = e
  /\ \A d \in ball.refs : d \in DOMAIN files /\ Describes(d)

(* A content the upload under way has put and not described yet.                 *)
Uploading(id) == upload.at \in {"placeholder", "describe"} /\ upload.content = id

(* How far the upload is, and that it is not as old as its result will be.       *)
Uploads ==
  /\ upload.at # "rest" => upload.since <= clock /\ clock < upload.since + ToyDays
  /\ \A id \in Nat : Uploading(id) =>
       /\ id \in DOMAIN files /\ files[id].kind = "content" /\ files[id].written >= upload.since
       /\ \A d \in DOMAIN files : id \notin files[d].refs
  /\ upload.at = "describe" =>
       /\ upload.descriptor \in DOMAIN files
       /\ files[upload.descriptor].kind = "descriptor" /\ files[upload.descriptor].refs = {}
  /\ upload.at = "publish" =>
       /\ upload.descriptor \in DOMAIN files /\ Describes(upload.descriptor)
       /\ files[upload.descriptor].expires = upload.since + ToyDays

JobsInv == Typed /\ References /\ Uploads

(* What is over stays over: no upload under way can refer to it any more.        *)
Doomed(id) == id \in DOMAIN files /\ Over(id) /\ ~Uploading(id)

(* A descriptor this sweep finds over its time, unless something keeps it.       *)
Unkept(id) ==
  id \in DOMAIN files /\ Describes(id) /\ files[id].expires <= sweep.now /\ id \notin sweep.kept
(* A content that was old when this sweep began.                                 *)
OldOne(id) ==
  id \in DOMAIN files /\ files[id].kind = "content" /\ files[id].written <= sweep.now - ToyDays

(* What the sweep has seen so far, and what follows from it for what is there now. *)
NothingWanted ==
  sweep.at # "rest" =>
    /\ sweep.now <= clock
    /\ \A id \in Nat : Unkept(id) => id \notin ball.refs
RecordsRead ==
  /\ sweep.at = "records" => \A r \in sweep.todo : r \in DOMAIN files /\ files[r].kind = "record"
  /\ sweep.at \in {"records", "toys"} \cup PastToys =>
       \A id \in Nat : \A r \in In("BONEYARD") : Unkept(id) /\ id \in files[r].refs =>
         files[r].expires <= sweep.now \/ (sweep.at = "records" /\ r \in sweep.todo)
ToysRead ==
  /\ sweep.at \in {"toys"} \cup PastToys => sweep.listed \subseteq DOMAIN files
  /\ sweep.at \in PastToys => sweep.read \subseteq DOMAIN files /\ \A d \in sweep.read : Describes(d)
  /\ \A id \in Nat : \A d \in In("TOY_BOX") : OldOne(id) /\ id \in files[d].refs =>
       /\ sweep.at = "toys" => d \in sweep.listed
       /\ sweep.at \in PastToys => d \in sweep.read
Listed ==
  /\ sweep.at \in {"descriptors", "orphans"} => \A id \in sweep.todo : Doomed(id)
  /\ sweep.at = "contents" => sweep.todo \subseteq Known(sweep.read)
SweepInv == NothingWanted /\ RecordsRead /\ ToysRead /\ Listed

(* A delete is sent only for what is over, and as it was seen in its folder.     *)
Aimed(a) == Doomed(a.id) /\ (a.at \in {"send", "confirm"} => a.seen.at \in {"TOY_BOX", "BONEYARD"})
DeleteInv ==
  /\ aim.at # "rest" => Aimed(aim)
  /\ \A a \in late : Aimed(a) /\ a.at = "send"

-----------------------------------------------------------------------------
(* What any step does to the files: a text is written once, a file leaves its    *)
(* folder for good, and what is new refers to nothing but a result just judged.  *)
SameText(i) ==
  /\ files'[i].written = files[i].written /\ files'[i].expires = files[i].expires
  /\ files'[i].refs = files[i].refs
DescribedNow(i) ==
  /\ upload.at = "describe" /\ i = upload.descriptor
  /\ files'[i].refs = {upload.content} /\ files'[i].expires = upload.since + ToyDays
Stays(i) ==
  files'[i].at = files[i].at \/ (files[i].at # "gone" /\ files'[i].at \in {"elsewhere", "gone"})

Onward ==
  /\ clock <= clock' /\ clock' \in Nat
  /\ \A i \in DOMAIN files :
       /\ i \in DOMAIN files' /\ files'[i].kind = files[i].kind
       /\ Stays(i)
       /\ SameText(i) \/ DescribedNow(i)
  /\ \A i \in DOMAIN files' \ DOMAIN files :
       /\ files'[i].written = clock
       /\ \/ files'[i].kind = "record" /\ files'[i].refs = ball.refs
          \/ files'[i].kind \in {"content", "descriptor"} /\ files'[i].refs = {}
             /\ files'[i].at = "TOY_BOX"
  /\ \A d \in ball'.refs : d \in ball.refs \/ (upload.at = "publish" /\ d = upload.descriptor)
  /\ upload'.at \in {"placeholder", "describe"} =>
       \/ upload.at \in {"placeholder", "describe"} /\ upload'.content = upload.content
       \/ upload'.content \notin DOMAIN files

(* The file that is put last.                                                    *)
LEMMA CreateFacts ==
  ASSUME files \in Seq(File), clock \in Nat, NEW kind \in Kind, NEW folder \in Place,
         NEW expires \in Nat, NEW refs \in SUBSET Nat, Create(kind, folder, expires, refs)
  PROVE  /\ files' \in Seq(File)
         /\ DOMAIN files' = DOMAIN files \cup {Len(files) + 1}
         /\ Len(files) + 1 \notin DOMAIN files /\ Len(files) + 1 \in Nat
         /\ \A i \in DOMAIN files : files'[i] = files[i]
         /\ files'[Len(files) + 1] = [kind |-> kind, at |-> folder, written |-> clock,
                                      expires |-> expires, refs |-> refs]
<1>. DEFINE f == [kind |-> kind, at |-> folder, written |-> clock,
                  expires |-> expires, refs |-> refs]
<1>1. f \in File
  BY DEF File
<1>2. files' = Append(files, f)
  BY DEF Create
<1>. HIDE DEF f
<1>3. /\ files' \in Seq(File) /\ Len(files') = Len(files) + 1
      /\ \A i \in 1 .. Len(files) : files'[i] = files[i]
      /\ files'[Len(files) + 1] = f
  BY <1>1, <1>2
<1>4. DOMAIN files = 1 .. Len(files) /\ DOMAIN files' = 1 .. Len(files') /\ Len(files) \in Nat
  BY <1>3
<1>5. DOMAIN files' = DOMAIN files \cup {Len(files) + 1} /\ Len(files) + 1 \notin DOMAIN files
  BY <1>3, <1>4
<1>. QED BY <1>3, <1>4, <1>5 DEF f

(* A file that is taken somewhere keeps all else.                                *)
Moved(id, place) == files' = [files EXCEPT ![id].at = place]

(* Nothing else becomes of it, and nothing of the others.                      *)
LEMMA MovedFacts ==
  ASSUME files \in Seq(File), NEW id \in DOMAIN files, NEW place \in Place, Moved(id, place)
  PROVE  /\ files' \in Seq(File) /\ DOMAIN files' = DOMAIN files
         /\ files'[id].at = place
         /\ \A i \in DOMAIN files :
              /\ i # id => files'[i] = files[i]
              /\ files'[i].kind = files[i].kind /\ SameText(i)
<1>1. files[id] \in File
  OBVIOUS
<1>. DEFINE f == [files[id] EXCEPT !.at = place]
<1>2. f \in File /\ f.at = place /\ f.kind = files[id].kind /\ f.written = files[id].written
      /\ f.expires = files[id].expires /\ f.refs = files[id].refs
  BY <1>1 DEF File
<1>3. files' = [files EXCEPT ![id] = f]
  BY DEF Moved
<1>. HIDE DEF f
<1>4. files' \in Seq(File) /\ DOMAIN files' = DOMAIN files /\ files'[id] = f
      /\ \A i \in DOMAIN files : i # id => files'[i] = files[i]
  BY <1>2, <1>3
<1>. QED BY <1>2, <1>4 DEF SameText

(* The entries of the files.                                                     *)
LEMMA FileTyped ==
  ASSUME files \in Seq(File), NEW i \in DOMAIN files
  PROVE  files[i] \in File /\ i \in Nat
OBVIOUS

FullInv == JobsInv /\ SweepInv /\ DeleteInv

(* A step that leaves the files, the result and the upload's content alone.      *)
LEMMA NothingFiled ==
  ASSUME Typed, files' = files, clock <= clock', clock' \in Nat,
         \A d \in ball'.refs : d \in ball.refs \/ (upload.at = "publish" /\ d = upload.descriptor),
         upload'.at \in {"placeholder", "describe"} =>
           upload.at \in {"placeholder", "describe"} /\ upload'.content = upload.content
  PROVE  Onward
BY DEF Onward, Stays, SameText

(* A file goes, or is taken away, and nothing else happens to jobs or uploads.   *)
LEMMA MovedOnward ==
  ASSUME Typed, UNCHANGED theirs, NEW id \in DOMAIN files, NEW place \in {"elsewhere", "gone"},
         files[id].at # "gone", Moved(id, place)
  PROVE  Onward
<1>1. UNCHANGED <<clock, ball, upload>>
  BY DEF theirs
<1>2. place \in Place
  BY DEF Place
<1>. QED BY <1>1, <1>2, MovedFacts DEF Typed, Onward, Stays

(* The FETCHER's steps.                                                          *)
LEMMA FetcherOnward ==
  ASSUME JobsInv, FetcherStep
  PROVE  Onward
<1>. USE DEF JobsInv
<1>0. Typed /\ clock \in Nat /\ files \in Seq(File) /\ {} \in SUBSET Nat /\ 0 \in Nat
      /\ "content" \in Kind /\ "descriptor" \in Kind /\ "TOY_BOX" \in Place
  BY DEF Typed, Kind, Place
<1>1. CASE Take
  BY <1>1, <1>0, NothingFiled DEF Take, Typed, Upload, NoUpload
<1>2. CASE PutContent
  <2>0. Create("content", "TOY_BOX", 0, {})
    BY <1>2 DEF PutContent
  <2>1. UNCHANGED <<clock, ball>> /\ upload'.at = "placeholder" /\ upload'.content = Len(files) + 1
    BY <1>2 DEF PutContent, Typed, Upload
  <2>2. /\ DOMAIN files' = DOMAIN files \cup {Len(files) + 1}
        /\ Len(files) + 1 \notin DOMAIN files
        /\ \A i \in DOMAIN files : files'[i] = files[i]
        /\ files'[Len(files) + 1] = [kind |-> "content", at |-> "TOY_BOX", written |-> clock,
                                     expires |-> 0, refs |-> {}]
    <3>1. files \in Seq(File) /\ clock \in Nat /\ "content" \in Kind /\ "TOY_BOX" \in Place
          /\ 0 \in Nat /\ {} \in SUBSET Nat
      BY <1>0
    <3>. QED BY ONLY <2>0, <3>1, CreateFacts
  <2>. QED BY <2>1, <2>2, <1>0 DEF Onward, Stays, SameText
<1>3. CASE PutPlaceholder
  <2>1. Create("descriptor", "TOY_BOX", 0, {}) /\ UNCHANGED <<clock, ball>>
        /\ upload.at = "placeholder" /\ upload'.at = "describe" /\ upload'.content = upload.content
    BY <1>3 DEF PutPlaceholder, Typed, Upload
  <2>2. /\ DOMAIN files' = DOMAIN files \cup {Len(files) + 1}
        /\ Len(files) + 1 \notin DOMAIN files
        /\ \A i \in DOMAIN files : files'[i] = files[i]
        /\ files'[Len(files) + 1] = [kind |-> "descriptor", at |-> "TOY_BOX", written |-> clock,
                                     expires |-> 0, refs |-> {}]
    BY <2>1, <1>0, CreateFacts
  <2>. QED BY <2>1, <2>2, <1>0 DEF Onward, Stays, SameText
<1>4. CASE Describe
  <2>. DEFINE d == upload.descriptor
              f == [files[d] EXCEPT !.written = clock, !.expires = upload.since + ToyDays,
                                    !.refs = {upload.content}]
  <2>1. d \in DOMAIN files /\ upload.at = "describe" /\ files[d] \in File
        /\ upload.since + ToyDays \in Nat
    BY <1>4, <1>0, RetentionAssumption DEF Describe, Uploads, Typed, Upload
  <2>2. /\ files' = [files EXCEPT ![d] = f]
        /\ upload'.at = "publish" /\ UNCHANGED <<clock, ball>>
    BY <1>4 DEF Describe, Typed, Upload
  <2>3. f.kind = files[d].kind /\ f.at = files[d].at /\ f.refs = {upload.content}
        /\ f.expires = upload.since + ToyDays
    BY <2>1 DEF File
  <2>. HIDE DEF f
  <2>4. DOMAIN files' = DOMAIN files /\ files'[d] = f
        /\ \A i \in DOMAIN files : i # d => files'[i] = files[i]
    BY <2>1, <2>2, <1>0
  <2>. QED BY <2>1, <2>2, <2>3, <2>4, <1>0 DEF Onward, Stays, SameText, DescribedNow
<1>5. CASE Publish
  BY <1>5, <1>0, NothingFiled DEF Publish, Typed, Upload, NoUpload
<1>6. CASE UploadEnds
  BY <1>6, <1>0, NothingFiled DEF UploadEnds, Typed, Upload, NoUpload
<1>. QED BY <1>1, <1>2, <1>3, <1>4, <1>5, <1>6 DEF FetcherStep

(* COACH's, the world's, and the late deletes.                                   *)
LEMMA OthersOnward ==
  ASSUME JobsInv, DeleteInv, RecordTerminalSummary \/ Consume \/ Tick \/ TakenAway \/ LateDelete
  PROVE  Onward
<1>. USE DEF JobsInv
<1>0. Typed /\ clock \in Nat /\ files \in Seq(File) /\ "record" \in Kind /\ "BONEYARD" \in Place
  BY DEF Typed, Kind, Place
<1>1. CASE RecordTerminalSummary
  <2>1. /\ Create("record", "BONEYARD", ball.finished + BoneyardDays, ball.refs)
        /\ UNCHANGED <<clock, ball, upload>>
    BY <1>1 DEF RecordTerminalSummary, theirs
  <2>2. ball.finished + BoneyardDays \in Nat /\ ball.refs \in SUBSET Nat
    BY RetentionAssumption DEF Typed
  <2>3. /\ DOMAIN files' = DOMAIN files \cup {Len(files) + 1}
        /\ \A i \in DOMAIN files : files'[i] = files[i]
        /\ files'[Len(files) + 1] = [kind |-> "record", at |-> "BONEYARD", written |-> clock,
                                     expires |-> ball.finished + BoneyardDays, refs |-> ball.refs]
    BY <2>1, <2>2, <1>0, CreateFacts
  <2>. QED BY <2>1, <2>3, <1>0 DEF Onward, Stays, SameText
<1>2. CASE Consume
  BY <1>2, <1>0, NothingFiled DEF Consume, NoResult
<1>3. CASE Tick
  <2>1. clock' \in Nat /\ clock <= clock' /\ UNCHANGED <<files, ball, upload>>
    BY <1>3, <1>0 DEF Tick
  <2>. QED BY <2>1, <1>0, NothingFiled
<1>4. CASE TakenAway
  <2>1. PICK id \in In("TOY_BOX") \cup In("BONEYARD") : Moved(id, "elsewhere")
    BY <1>4 DEF TakenAway, Moved
  <2>2. id \in DOMAIN files /\ files[id].at # "gone" /\ UNCHANGED theirs
    BY <1>4, <2>1 DEF In, TakenAway
  <2>. QED BY <2>1, <2>2, <1>0, MovedOnward
<1>5. CASE LateDelete
  <2>1. PICK request \in late :
          IF files[request.id] = request.seen THEN Remove(request.id) ELSE UNCHANGED files
    BY <1>5 DEF LateDelete
  <2>2. Aimed(request) /\ request.at = "send" /\ UNCHANGED theirs
    BY <1>5 DEF DeleteInv, LateDelete
  <2>3. CASE files[request.id] = request.seen
    <3>1. Moved(request.id, "gone")
      BY <2>1, <2>3 DEF Remove, Moved
    <3>2. request.id \in DOMAIN files /\ files[request.id].at # "gone"
      BY <2>2, <2>3 DEF Aimed, Doomed
    <3>. QED BY <3>1, <3>2, <2>2, <1>0, MovedOnward
  <2>4. CASE files[request.id] # request.seen
    BY <2>1, <2>2, <2>4, <1>0, NothingFiled DEF theirs
  <2>. QED BY <2>3, <2>4
<1>. QED BY <1>1, <1>2, <1>3, <1>4, <1>5

(* The WATCHDOG changes a file only by the delete it sends.                      *)
LEMMA WatchdogQuiet ==
  ASSUME WatchdogStep
  PROVE  UNCHANGED theirs /\ (files' = files \/ Send)
BY DEF WatchdogStep, Bury, ListBoneyard, ReadRecord, ListToys, ReadToys, SweepDescriptor,
       TurnToContents, SweepContent, TurnToOrphans, SweepOrphan, SweepEnds, Look, SendRefused,
       Send, Confirm, DeleteFails, SweepBreaks, Sweeping

(* Every step of the WATCHDOG goes onward,                                     *)
LEMMA WatchdogOnward ==
  ASSUME JobsInv, DeleteInv, WatchdogStep
  PROVE  Onward
<1>. USE DEF JobsInv
<1>0. Typed /\ clock \in Nat /\ UNCHANGED <<clock, ball, upload>> /\ UNCHANGED theirs
  BY WatchdogQuiet DEF Typed, theirs
<1>1. CASE files' = files
  BY <1>1, <1>0, NothingFiled
<1>2. CASE files' # files
  <2>1. aim.at = "send" /\ files[aim.id] = aim.seen /\ Remove(aim.id)
    BY <1>2, WatchdogQuiet DEF Send
  <2>2. Moved(aim.id, "gone") /\ aim.id \in DOMAIN files /\ files[aim.id].at # "gone"
    BY <2>1 DEF DeleteInv, Aimed, Doomed, Remove, Moved
  <2>. QED BY <2>2, <1>0, MovedOnward
<1>. QED BY <1>1, <1>2

(* and so does every step of the system.                                       *)
LEMMA StepOnward ==
  ASSUME JobsInv, DeleteInv, [RetentionNext]_retentionVars
  PROVE  Onward
<1>1. CASE UNCHANGED retentionVars
  <2>1. UNCHANGED <<clock, ball, upload, files>> /\ Typed /\ clock <= clock' /\ clock' \in Nat
    BY <1>1 DEF retentionVars, theirs, JobsInv, Typed
  <2>. QED BY <2>1, NothingFiled
<1>. QED BY <1>1, FetcherOnward, OthersOnward, WatchdogOnward DEF RetentionNext

-----------------------------------------------------------------------------
(* What is over stays over.                                                      *)

(* A text that refers to something is not written again.                         *)
LEMMA DescribesStays ==
  ASSUME JobsInv, Onward, NEW d \in DOMAIN files, files[d].refs # {}
  PROVE  /\ d \in DOMAIN files' /\ SameText(d) /\ files'[d].kind = files[d].kind
         /\ Describes(d) => Describes(d)'
<1>1. ~DescribedNow(d)
  BY DEF JobsInv, Uploads, DescribedNow
<1>. QED BY <1>1 DEF Onward, SameText, Describes

(* A content's text is written once, too; and a record's.                        *)
LEMMA WrittenOnce ==
  ASSUME JobsInv, Onward, NEW d \in DOMAIN files, files[d].kind # "descriptor"
  PROVE  d \in DOMAIN files' /\ SameText(d) /\ files'[d].kind = files[d].kind
<1>1. ~DescribedNow(d)
  BY DEF JobsInv, Uploads, DescribedNow
<1>. QED BY <1>1 DEF Onward

(* What the job that is published now, or described now, refers to is not over.  *)
LEMMA NewResultIsYoung ==
  ASSUME JobsInv, Onward, NEW d, d \in ball'.refs \/ (d \in DOMAIN files /\ DescribedNow(d))
  PROVE  \/ d \in ball.refs /\ d \in DOMAIN files
         \/ d \in DOMAIN files /\ files'[d].expires > clock
<1>1. CASE d \in ball.refs
  BY <1>1 DEF JobsInv, References
<1>2. CASE upload.at = "publish" /\ d = upload.descriptor
  <2>1. d \in DOMAIN files /\ Describes(d) /\ files[d].expires = upload.since + ToyDays
        /\ clock < upload.since + ToyDays
    BY <1>2 DEF JobsInv, Uploads
  <2>2. SameText(d)
    BY <2>1, DescribesStays DEF Describes
  <2>. QED BY <2>1, <2>2 DEF SameText
<1>3. CASE d \in DOMAIN files /\ DescribedNow(d)
  <2>1. files'[d].expires = upload.since + ToyDays /\ upload.at # "rest"
    BY <1>3 DEF DescribedNow
  <2>2. clock < upload.since + ToyDays
    BY <2>1 DEF JobsInv, Uploads
  <2>. QED BY <1>3, <2>1, <2>2
<1>. QED BY <1>1, <1>2, <1>3 DEF Onward

(* No step refers anew to a content that none is putting.                        *)
LEMMA NoNewReference ==
  ASSUME JobsInv, Onward, NEW id \in DOMAIN files, files[id].kind = "content", ~Uploading(id),
         NEW d \in DOMAIN files', id \in files'[d].refs
  PROVE  d \in DOMAIN files /\ id \in files[d].refs /\ SameText(d)
<1>1. CASE d \in DOMAIN files
  <2>1. ~DescribedNow(d)
    BY DEF DescribedNow, Uploading
  <2>. QED BY <1>1, <2>1 DEF Onward, SameText
<1>2. CASE d \notin DOMAIN files
  <2>1. files'[d].refs = ball.refs
    BY <1>2 DEF Onward
  <2>2. Describes(id)
    BY <2>1 DEF JobsInv, References
  <2>. QED BY <2>2 DEF Describes
<1>. QED BY <1>1, <1>2

(* What is over, and no upload's, stays so as time goes on.                    *)
LEMMA DoomStays ==
  ASSUME JobsInv, Onward, NEW id, Doomed(id)
  PROVE  Doomed(id)'
<1>a. /\ id \in DOMAIN files /\ Over(id) /\ ~Uploading(id) /\ Typed /\ files \in Seq(File)
      /\ clock \in Nat /\ clock <= clock' /\ clock' \in Nat
  BY DEF Doomed, JobsInv, Typed, Onward
<1>b. \A i \in DOMAIN files : files[i] \in File
  BY <1>a
<1>c. \A i \in DOMAIN files :
        files[i].kind \in Kind /\ files[i].written \in Nat /\ files[i].expires \in Nat
  BY <1>b DEF File
<1>0. /\ id \in DOMAIN files /\ Over(id) /\ ~Uploading(id) /\ Typed /\ files \in Seq(File)
      /\ clock \in Nat /\ id \in DOMAIN files' /\ files'[id].kind = files[id].kind
      /\ clock <= clock' /\ files[id].kind \in Kind /\ clock' \in Nat
      /\ files[id].expires \in Nat /\ files[id].written \in Nat /\ ToyDays \in Nat
  BY <1>a, <1>c, RetentionAssumption DEF Onward
<1>1. ~Uploading(id)'
  BY <1>0 DEF Onward, Uploading
<1>2. CASE files[id].kind = "record"
  <2>1. files[id].expires <= clock /\ SameText(id)
    BY <1>0, <1>2, WrittenOnce DEF Over
  <2>2. files'[id].expires <= clock'
    BY <2>1, <1>0 DEF SameText, Onward
  <2>. QED BY <1>0, <1>1, <1>2, <2>2 DEF Doomed, Over
<1>3. CASE files[id].kind = "descriptor"
  <2>1. /\ files[id].refs # {} /\ files[id].expires <= clock /\ id \notin ball.refs
        /\ \A r \in In("BONEYARD") : id \in files[r].refs => files[r].expires <= clock
    BY <1>0, <1>3 DEF Over
  <2>2. SameText(id)
    BY <1>0, <2>1, DescribesStays
  <2>3. files'[id].refs # {} /\ files'[id].expires <= clock'
    BY <2>1, <2>2, <1>0 DEF SameText
  <2>4. id \notin ball'.refs
    <3>1. ~(files'[id].expires > clock)
      BY <2>1, <2>2, <1>0 DEF SameText
    <3>. QED BY <2>1, <3>1, NewResultIsYoung
  <2>5. ASSUME NEW r \in In("BONEYARD")', id \in files'[r].refs PROVE files'[r].expires <= clock'
    <3>1. r \in DOMAIN files' /\ files'[r].at = "BONEYARD"
      BY <2>5 DEF In
    <3>2. r \in DOMAIN files
      <4>1. SUFFICES ASSUME r \notin DOMAIN files PROVE FALSE
        OBVIOUS
      <4>. QED BY <2>1, <2>5, <3>1, <4>1 DEF Onward
    <3>3. files[r].at = "BONEYARD"
      BY <3>1, <3>2 DEF Onward, Stays
    <3>4. files[r].kind = "record"
      BY <3>2, <3>3 DEF JobsInv, References, In
    <3>5. SameText(r)
      BY <3>2, <3>4, WrittenOnce
    <3>6. files[r].expires <= clock /\ files[r].expires \in Nat
      BY <2>1, <2>5, <3>2, <3>3, <3>5, <1>c DEF SameText, In
    <3>. QED BY <3>5, <3>6, <1>0 DEF SameText
  <2>6. Over(id)'
    BY <1>0, <1>3, <2>3, <2>4, <2>5 DEF Over
  <2>. QED BY <1>0, <1>1, <2>6 DEF Doomed
<1>4. CASE files[id].kind = "content"
  <2>1. /\ ~Referred(id)
        /\ Old(id) \/ \E d \in In("gone") : id \in files[d].refs
    BY <1>0, <1>4 DEF Over
  <2>2. ~Referred(id)'
    <3>1. SUFFICES ASSUME NEW d \in In("TOY_BOX")', id \in files'[d].refs PROVE FALSE
      BY DEF Referred
    <3>2. d \in DOMAIN files' /\ files'[d].at = "TOY_BOX"
      BY <3>1 DEF In
    <3>3. d \in DOMAIN files /\ id \in files[d].refs
      BY <3>1, <3>2, <1>0, <1>4, NoNewReference
    <3>4. files[d].at = "TOY_BOX"
      BY <3>2, <3>3 DEF Onward, Stays
    <3>. QED BY <2>1, <3>3, <3>4 DEF Referred, In
  <2>3. CASE Old(id)
    <3>1. SameText(id)
      BY <1>0, <1>4, WrittenOnce
    <3>2. files'[id].written <= clock' - ToyDays
      BY <2>3, <3>1, <1>0 DEF Old, SameText
    <3>3. Old(id)'
      BY <3>2 DEF Old
    <3>. QED BY <1>0, <1>1, <1>4, <2>2, <3>3 DEF Doomed, Over
  <2>4. CASE \E d \in In("gone") : id \in files[d].refs
    <3>1. PICK d \in In("gone") : id \in files[d].refs
      BY <2>4
    <3>2. d \in DOMAIN files /\ files[d].at = "gone" /\ files[d].refs # {}
      BY <3>1 DEF In
    <3>3. d \in DOMAIN files' /\ SameText(d) /\ files'[d].at = "gone"
      BY <3>2, DescribesStays DEF Onward, Stays
    <3>4. d \in In("gone")' /\ id \in files'[d].refs
      BY <3>1, <3>3 DEF In, SameText
    <3>. QED BY <1>0, <1>1, <1>4, <2>2, <3>4 DEF Doomed, Over
  <2>. QED BY <2>1, <2>3, <2>4
<1>. QED BY <1>0, <1>2, <1>3, <1>4 DEF Kind

-----------------------------------------------------------------------------
(* Jobs, uploads and what refers to what.                                        *)

(* What a record or a descriptor names was written before it and stays named.  *)
LEMMA ReferencesStay ==
  ASSUME JobsInv, Onward, files' \in Seq(File)
  PROVE  References'
<1>0. /\ Typed /\ References /\ Uploads /\ files \in Seq(File)
  BY DEF JobsInv, Typed
<1>1. ASSUME NEW id \in In("BONEYARD")' PROVE files'[id].kind = "record"
  <2>1. id \in DOMAIN files' /\ files'[id].at = "BONEYARD"
    BY <1>1 DEF In
  <2>2. CASE id \in DOMAIN files
    BY <2>1, <2>2, <1>0 DEF Onward, Stays, References, In
  <2>3. CASE id \notin DOMAIN files
    BY <2>1, <2>3 DEF Onward
  <2>. QED BY <2>2, <2>3
<1>2. ASSUME NEW d \in DOMAIN files', NEW x \in Nat, x \in files'[d].refs
      PROVE  /\ x \in DOMAIN files'
             /\ files'[d].kind = "record" => Describes(x)'
             /\ files'[d].kind = "descriptor" => files'[x].kind = "content"
             /\ files'[d].kind # "content"
  <2>1. CASE d \in DOMAIN files /\ SameText(d)
    <3>1. /\ x \in DOMAIN files
          /\ files[d].kind = "record" => Describes(x)
          /\ files[d].kind = "descriptor" => files[x].kind = "content"
          /\ files[d].kind # "content"
      BY <1>2, <2>1, <1>0 DEF SameText, References
    <3>2. files'[d].kind = files[d].kind /\ x \in DOMAIN files' /\ files'[x].kind = files[x].kind
      BY <2>1, <3>1 DEF Onward
    <3>3. Describes(x) => Describes(x)'
      BY <3>1, DescribesStays DEF Describes
    <3>. QED BY <3>1, <3>2, <3>3
  <2>2. CASE d \in DOMAIN files /\ DescribedNow(d)
    <3>1. x = upload.content /\ Uploading(x) /\ d = upload.descriptor /\ upload.at = "describe"
      BY <1>2, <2>2 DEF DescribedNow, Uploading
    <3>2. x \in DOMAIN files /\ files[x].kind = "content" /\ files[d].kind = "descriptor"
      BY <3>1, <1>0 DEF Uploads
    <3>. QED BY <2>2, <3>2 DEF Onward
  <2>3. CASE d \notin DOMAIN files
    <3>1. files'[d].kind = "record" /\ files'[d].refs = ball.refs
      BY <1>2, <2>3 DEF Onward
    <3>2. x \in DOMAIN files /\ Describes(x)
      BY <1>2, <3>1, <1>0 DEF References
    <3>3. x \in DOMAIN files' /\ Describes(x)'
      BY <3>2, DescribesStays DEF Describes
    <3>. QED BY <3>1, <3>3
  <2>. QED BY <2>1, <2>2, <2>3 DEF Onward
<1>3. ASSUME NEW d \in DOMAIN files', NEW e \in DOMAIN files',
             Describes(d)', Describes(e)', files'[d].refs \cap files'[e].refs # {}
      PROVE  d = e
  <2>1. PICK x : x \in files'[d].refs /\ x \in files'[e].refs
    BY <1>3
  <2>2. d \in DOMAIN files /\ e \in DOMAIN files
    BY <1>3 DEF Onward, Describes
  <2>3. files[d].kind = "descriptor" /\ files[e].kind = "descriptor"
    BY <1>3, <2>2 DEF Onward, Describes
  <2>4. CASE SameText(d) /\ SameText(e)
    BY <2>1, <2>2, <2>3, <2>4, <1>0 DEF SameText, References, Describes
  <2>5. ASSUME NEW f \in {d, e}, NEW g \in {d, e}, DescribedNow(f), ~DescribedNow(g) PROVE FALSE
    <3>1. x = upload.content /\ Uploading(x)
      BY <2>1, <2>5 DEF DescribedNow, Uploading
    <3>2. SameText(g) /\ x \in files[g].refs /\ g \in DOMAIN files /\ files[g] \in File
      BY <2>1, <2>2, <2>5, <1>0 DEF Onward, SameText
    <3>3. x \in Nat
      BY <3>2 DEF File
    <3>. QED BY <3>1, <3>2, <3>3, <1>0 DEF Uploads
  <2>6. CASE DescribedNow(d) /\ DescribedNow(e)
    BY <2>6 DEF DescribedNow
  <2>7. SameText(d) \/ DescribedNow(d)
    BY <2>2 DEF Onward
  <2>8. SameText(e) \/ DescribedNow(e)
    BY <2>2 DEF Onward
  <2>. QED BY <2>4, <2>5, <2>6, <2>7, <2>8
<1>4. ASSUME NEW d \in ball'.refs PROVE d \in DOMAIN files' /\ Describes(d)'
  <2>1. d \in DOMAIN files /\ Describes(d)
    <3>1. CASE d \in ball.refs
      BY <3>1, <1>0 DEF References
    <3>2. CASE upload.at = "publish" /\ d = upload.descriptor
      BY <3>2, <1>0 DEF Uploads
    <3>. QED BY <3>1, <3>2 DEF Onward
  <2>. QED BY <2>1, DescribesStays DEF Describes
<1>. QED BY <1>1, <1>2, <1>3, <1>4 DEF References

(* An upload that is where it was, or over.                                      *)
LEMMA UploadStays ==
  ASSUME JobsInv, Onward, upload' = upload \/ upload'.at = "rest",
         upload' = upload /\ upload.at # "rest" => clock' < upload.since + ToyDays,
         upload' = upload => \A i \in DOMAIN files : SameText(i)
  PROVE  Uploads'
<1>0. /\ Typed /\ Uploads /\ References /\ clock <= clock' /\ clock' \in Nat /\ clock \in Nat
      /\ upload.since \in Nat
  BY DEF JobsInv, Typed, Onward, Upload
<1>1. CASE upload'.at = "rest"
  BY <1>1 DEF Uploads, Uploading
<1>2. CASE upload' = upload
  <2>1. upload.at # "rest" => upload.since <= clock' /\ clock' < upload.since + ToyDays
    BY <1>2, <1>0 DEF Uploads
  <2>2. ASSUME NEW id \in Nat, Uploading(id)
        PROVE /\ id \in DOMAIN files' /\ files'[id].kind = "content"
              /\ files'[id].written >= upload.since
              /\ \A d \in DOMAIN files' : id \notin files'[d].refs
    <3>1. /\ id \in DOMAIN files /\ files[id].kind = "content"
          /\ files[id].written >= upload.since
          /\ \A d \in DOMAIN files : id \notin files[d].refs
      BY <2>2, <1>0 DEF Uploads
    <3>2. SameText(id)
      BY <1>2, <3>1
    <3>3. ASSUME NEW d \in DOMAIN files', id \in files'[d].refs PROVE FALSE
      <4>1. CASE d \in DOMAIN files
        BY <1>2, <3>1, <3>3, <4>1 DEF SameText
      <4>2. CASE d \notin DOMAIN files
        <5>1. id \in ball.refs
          BY <3>3, <4>2 DEF Onward
        <5>. QED BY <3>1, <5>1, <1>0 DEF References, Describes
      <4>. QED BY <4>1, <4>2
    <3>. QED BY <3>1, <3>2, <3>3 DEF Onward, SameText
  <2>3. upload.at = "describe" =>
          /\ upload.descriptor \in DOMAIN files'
          /\ files'[upload.descriptor].kind = "descriptor" /\ files'[upload.descriptor].refs = {}
    BY <1>2, <1>0 DEF Uploads, Onward, SameText
  <2>4. upload.at = "publish" =>
          /\ upload.descriptor \in DOMAIN files' /\ Describes(upload.descriptor)'
          /\ files'[upload.descriptor].expires = upload.since + ToyDays
    <3>1. SUFFICES ASSUME upload.at = "publish"
          PROVE /\ upload.descriptor \in DOMAIN files' /\ Describes(upload.descriptor)'
                /\ files'[upload.descriptor].expires = upload.since + ToyDays
      OBVIOUS
    <3>2. upload.descriptor \in DOMAIN files /\ Describes(upload.descriptor)
          /\ files[upload.descriptor].expires = upload.since + ToyDays
      BY <3>1, <1>0 DEF Uploads
    <3>3. files'[upload.descriptor].kind = files[upload.descriptor].kind
          /\ upload.descriptor \in DOMAIN files' /\ SameText(upload.descriptor)
      BY <1>2, <3>2 DEF Onward
    <3>. QED BY <1>2, <3>2, <3>3 DEF SameText, Describes
  <2>. QED BY <1>2, <2>1, <2>2, <2>3, <2>4 DEF Uploads, Uploading
<1>. QED BY <1>1, <1>2

(* The steps that begin an upload or take it further.                            *)
LEMMA UploadMoves ==
  ASSUME JobsInv, Take \/ PutContent \/ PutPlaceholder \/ Describe
  PROVE  Uploads' /\ upload' \in Upload /\ files' \in Seq(File)
<1>0. /\ Typed /\ Uploads /\ References /\ clock \in Nat /\ files \in Seq(File)
      /\ upload \in Upload /\ ToyDays \in Nat /\ ToyDays > 0
  BY RetentionAssumption DEF JobsInv, Typed
<1>1. CASE Take
  <2>1. /\ upload' = [NoUpload EXCEPT !.at = "content", !.since = clock]
        /\ clock' = clock /\ files' = files
    BY <1>1 DEF Take
  <2>2. /\ upload' \in Upload /\ upload'.at = "content" /\ upload'.since = clock
    BY <2>1, <1>0 DEF NoUpload, Upload
  <2>. QED BY <2>1, <2>2, <1>0 DEF Uploads, Uploading
<1>2. CASE PutContent
  <2>. DEFINE n == Len(files) + 1
  <2>1. /\ Create("content", "TOY_BOX", 0, {}) /\ clock' = clock /\ upload.at = "content"
        /\ upload' = [upload EXCEPT !.at = "placeholder", !.content = n]
    BY <1>2 DEF PutContent
  <2>2. /\ files' \in Seq(File)
        /\ DOMAIN files' = DOMAIN files \cup {n} /\ n \notin DOMAIN files /\ n \in Nat
        /\ \A i \in DOMAIN files : files'[i] = files[i]
        /\ files'[n] = [kind |-> "content", at |-> "TOY_BOX", written |-> clock,
                        expires |-> 0, refs |-> {}]
    <3>1. files \in Seq(File) /\ clock \in Nat /\ "content" \in Kind /\ "TOY_BOX" \in Place
          /\ 0 \in Nat /\ {} \in SUBSET Nat
      BY <1>0 DEF Kind, Place
    <3>2. Create("content", "TOY_BOX", 0, {})
      BY <2>1
    <3>. QED BY ONLY <3>1, <3>2, CreateFacts
  <2>. HIDE DEF n
  <2>3. /\ upload' \in Upload /\ upload'.at = "placeholder" /\ upload'.content = n
        /\ upload'.since = upload.since
    BY <2>1, <2>2, <1>0 DEF Upload
  <2>4. upload.since <= clock /\ clock < upload.since + ToyDays /\ upload.since \in Nat
    BY <2>1, <1>0 DEF Uploads, Upload
  <2>5. \A d \in DOMAIN files' : n \notin files'[d].refs
    <3>1. \A d \in DOMAIN files : n \notin files[d].refs
      BY <2>2, <1>0 DEF References
    <3>. QED BY <2>2, <3>1
  <2>6. ASSUME NEW id \in Nat, Uploading(id)'
        PROVE /\ id \in DOMAIN files' /\ files'[id].kind = "content"
              /\ files'[id].written >= upload'.since
              /\ \A d \in DOMAIN files' : id \notin files'[d].refs
    <3>1. id = n
      BY <2>3, <2>6 DEF Uploading
    <3>. QED BY <2>1, <2>2, <2>3, <2>4, <2>5, <3>1, <1>0
  <2>. QED BY <2>1, <2>2, <2>3, <2>4, <2>6 DEF Uploads
<1>3. CASE PutPlaceholder
  <2>. DEFINE n == Len(files) + 1
  <2>1. /\ Create("descriptor", "TOY_BOX", 0, {}) /\ clock' = clock /\ upload.at = "placeholder"
        /\ upload' = [upload EXCEPT !.at = "describe", !.descriptor = n]
    BY <1>3 DEF PutPlaceholder
  <2>2. /\ files' \in Seq(File)
        /\ DOMAIN files' = DOMAIN files \cup {n} /\ n \notin DOMAIN files /\ n \in Nat
        /\ \A i \in DOMAIN files : files'[i] = files[i]
        /\ files'[n] = [kind |-> "descriptor", at |-> "TOY_BOX", written |-> clock,
                        expires |-> 0, refs |-> {}]
    <3>1. files \in Seq(File) /\ clock \in Nat /\ "descriptor" \in Kind /\ "TOY_BOX" \in Place
          /\ 0 \in Nat /\ {} \in SUBSET Nat
      BY <1>0 DEF Kind, Place
    <3>2. Create("descriptor", "TOY_BOX", 0, {})
      BY <2>1
    <3>. QED BY ONLY <3>1, <3>2, CreateFacts
  <2>. HIDE DEF n
  <2>3. /\ upload' \in Upload /\ upload'.at = "describe" /\ upload'.descriptor = n
        /\ upload'.since = upload.since /\ upload'.content = upload.content
    BY <2>1, <2>2, <1>0 DEF Upload
  <2>4. upload.since <= clock /\ clock < upload.since + ToyDays
    BY <2>1, <1>0 DEF Uploads
  <2>6. ASSUME NEW id \in Nat, Uploading(id)'
        PROVE /\ id \in DOMAIN files' /\ files'[id].kind = "content"
              /\ files'[id].written >= upload'.since
              /\ \A d \in DOMAIN files' : id \notin files'[d].refs
    <3>1. Uploading(id)
      BY <2>1, <2>3, <2>6 DEF Uploading
    <3>2. /\ id \in DOMAIN files /\ files[id].kind = "content" /\ files[id].written >= upload.since
          /\ \A d \in DOMAIN files : id \notin files[d].refs
      BY <3>1, <1>0 DEF Uploads
    <3>. QED BY <2>2, <2>3, <3>2
  <2>. QED BY <2>1, <2>2, <2>3, <2>4, <2>6 DEF Uploads
<1>4. CASE Describe
  <2>. DEFINE d == upload.descriptor
              f == [files[d] EXCEPT !.written = clock, !.expires = upload.since + ToyDays,
                                    !.refs = {upload.content}]
  <2>1. /\ d \in DOMAIN files /\ upload.at = "describe" /\ files[d] \in File
        /\ upload.since + ToyDays \in Nat /\ {upload.content} \in SUBSET Nat
        /\ files[d].kind = "descriptor"
    BY <1>4, <1>0, RetentionAssumption DEF Describe, Uploads, Upload
  <2>2. /\ files' = [files EXCEPT ![d] = f] /\ clock' = clock
        /\ upload' = [upload EXCEPT !.at = "publish"]
    BY <1>4 DEF Describe
  <2>3. /\ f \in File /\ f.kind = "descriptor" /\ f.refs # {}
        /\ f.expires = upload.since + ToyDays
    BY <2>1, <1>0 DEF File
  <2>. HIDE DEF f
  <2>4. /\ files' \in Seq(File) /\ DOMAIN files' = DOMAIN files /\ files'[d] = f
    BY <2>1, <2>2, <2>3, <1>0
  <2>5. /\ upload' \in Upload /\ upload'.at = "publish" /\ upload'.descriptor = d
        /\ upload'.since = upload.since
    BY <2>2, <1>0 DEF Upload
  <2>6. upload.since <= clock /\ clock < upload.since + ToyDays
    BY <2>1, <1>0 DEF Uploads
  <2>. QED BY <2>1, <2>2, <2>3, <2>4, <2>5, <2>6 DEF Uploads, Uploading, Describes
<1>. QED BY <1>1, <1>2, <1>3, <1>4

(* What COACH, the world and the WATCHDOG may do to the files besides.           *)
LEMMA FilesMoved ==
  ASSUME DeleteInv, Consume \/ TakenAway \/ LateDelete \/ WatchdogStep
  PROVE  \/ files' = files
         \/ \E id \in DOMAIN files, place \in {"elsewhere", "gone"} : Moved(id, place)
<1>1. CASE Consume
  BY <1>1 DEF Consume
<1>2. CASE TakenAway
  BY <1>2 DEF TakenAway, In, Moved
<1>3. CASE LateDelete
  <2>1. PICK request \in late :
          IF files[request.id] = request.seen THEN Remove(request.id) ELSE UNCHANGED files
    BY <1>3 DEF LateDelete
  <2>2. request.id \in DOMAIN files
    BY DEF DeleteInv, Aimed, Doomed
  <2>. QED BY <2>1, <2>2 DEF Remove, Moved
<1>4. CASE WatchdogStep
  <2>1. files' = files \/ (aim.at = "send" /\ Remove(aim.id))
    BY <1>4, WatchdogQuiet DEF Send
  <2>2. aim.at = "send" => aim.id \in DOMAIN files
    BY DEF DeleteInv, Aimed, Doomed
  <2>. QED BY <2>1, <2>2 DEF Remove, Moved
<1>. QED BY <1>1, <1>2, <1>3, <1>4

(* Everything else leaves the upload where it was, or ends it.                   *)
LEMMA UploadsStay ==
  ASSUME JobsInv, DeleteInv, [RetentionNext]_retentionVars
  PROVE  Uploads'
<1>0. Onward /\ Uploads /\ Typed /\ clock \in Nat
  BY StepOnward DEF JobsInv, Typed
<1>1. CASE Take \/ PutContent \/ PutPlaceholder \/ Describe
  BY <1>1, UploadMoves
<1>2. CASE Publish \/ UploadEnds
  <2>1. upload'.at = "rest" /\ (upload' = upload => upload.at = "rest" /\ files' = files)
    BY <1>2 DEF Publish, UploadEnds, NoUpload
  <2>. QED BY <2>1, <1>0, UploadStays DEF SameText
<1>3. CASE Tick
  <2>1. upload' = upload /\ files' = files
        /\ (upload.at # "rest" => clock' < upload.since + ToyDays)
    BY <1>3 DEF Tick
  <2>. QED BY <2>1, <1>0, UploadStays DEF SameText
<1>4. CASE RecordTerminalSummary \/ Consume \/ TakenAway \/ LateDelete \/ WatchdogStep \/ UNCHANGED retentionVars
  <2>1. UNCHANGED <<upload, clock>>
    BY <1>4, WatchdogQuiet DEF RecordTerminalSummary, Consume, TakenAway, LateDelete, theirs, retentionVars
  <2>2. \A i \in DOMAIN files : SameText(i)
    <3>1. CASE upload.at = "describe"
      <4>1. ASSUME NEW i \in DOMAIN files, i = upload.descriptor PROVE SameText(i)
        <5>1. CASE files' = files
          BY <5>1 DEF SameText
        <5>2. CASE RecordTerminalSummary
          <6>1. files' = Append(files, files'[Len(files) + 1])
            BY <5>2, <1>0 DEF RecordTerminalSummary, Create, Typed
          <6>2. files'[i] = files[i]
            BY <6>1, <1>0 DEF Typed
          <6>. QED BY <6>2 DEF SameText
        <5>3. CASE \E id \in DOMAIN files, place \in {"elsewhere", "gone"} : Moved(id, place)
          BY <5>3, <1>0, MovedFacts DEF Typed, Place
        <5>4. CASE UNCHANGED retentionVars
          BY <5>4 DEF retentionVars, SameText
        <5>. QED BY <1>4, <5>1, <5>2, <5>3, <5>4, FilesMoved
      <4>. QED BY <4>1, <1>0 DEF Onward, DescribedNow
    <3>2. CASE upload.at # "describe"
      BY <3>2, <1>0 DEF Onward, DescribedNow
    <3>. QED BY <3>1, <3>2
  <2>. QED BY <2>1, <2>2, <1>0, UploadStays DEF Uploads
<1>. QED BY <1>1, <1>2, <1>3, <1>4 DEF RetentionNext, FetcherStep

-----------------------------------------------------------------------------
(* The sweep and its deletes keep their types.                                   *)

(* A listing names files.                                                      *)
LEMMA FoldersTyped ==
  ASSUME Typed, NEW folder
  PROVE  In(folder) \in SUBSET Nat /\ In(folder) \subseteq DOMAIN files
BY DEF Typed, In

(* What descriptors refer to are ids.                                          *)
LEMMA KnownTyped ==
  ASSUME Typed, NEW D \in SUBSET DOMAIN files
  PROVE  Known(D) \in SUBSET Nat
<1>1. \A i \in D : files[i] \in File
  BY DEF Typed
<1>2. \A i \in D : files[i].refs \in SUBSET Nat
  BY <1>1 DEF File
<1>. QED BY <1>2 DEF Known

(* A delete that is over, and one that starts, or is passed over.                *)
LEMMA DeleteTyped ==
  ASSUME Typed
  PROVE  /\ Succeeds \/ Fails => sweep' \in Sweep /\ aim' \in Aim
         /\ \A id \in sweep.todo : Delete(id) \/ Pass(id) =>
              sweep' \in Sweep /\ aim' \in Aim
<1>1. sweep \in Sweep /\ aim \in Aim /\ NoAim \in Aim
  BY DEF Typed, NoAim, Aim
<1>2. Succeeds => sweep' \in Sweep
  <2>1. sweep.deleted + 1 \in Nat
    BY <1>1 DEF Sweep
  <2>. QED BY <1>1, <2>1 DEF Succeeds, Sweep
<1>3. \A id \in sweep.todo : Delete(id) \/ Pass(id) => sweep' \in Sweep
  BY <1>1 DEF Delete, Pass, Sweep
<1>4. \A id \in sweep.todo : Delete(id) => aim' \in Aim
  <2>1. \A id \in sweep.todo : id \in Nat
    BY <1>1 DEF Sweep
  <2>. QED BY <2>1 DEF Delete, NoAim, Aim
<1>. QED BY <1>1, <1>2, <1>3, <1>4 DEF Succeeds, Fails, Pass

(* The sweep, its delete and the late deletes stay well typed.                 *)
LEMMA WatchdogTyped ==
  ASSUME JobsInv, SweepInv, DeleteInv, WatchdogStep
  PROVE  sweep' \in Sweep /\ aim' \in Aim /\ late' \subseteq Aim
<1>0. Typed /\ sweep \in Sweep /\ aim \in Aim /\ late \subseteq Aim /\ clock \in Nat /\ NoAim \in Aim
      /\ ball.refs \in SUBSET Nat /\ NoSweep \in Sweep
  BY DEF JobsInv, Typed, NoAim, Aim, NoSweep, Sweep, SweepStage
<1>1. CASE Bury
  BY <1>1, <1>0 DEF Bury, Sweeping, NoSweep, Sweep, SweepStage
<1>2. CASE ListBoneyard
  <2>1. In("BONEYARD") \in SUBSET Nat
    BY <1>0, FoldersTyped
  <2>. QED BY <1>2, <1>0, <2>1 DEF ListBoneyard, Sweeping, Sweep, SweepStage
<1>3. CASE ReadRecord
  <2>1. PICK id \in sweep.todo :
          \/ /\ sweep' = [sweep EXCEPT !.todo = @ \ {id}, !.kept = @ \cup files[id].refs]
             /\ UNCHANGED aim
          \/ Delete(id) \/ Pass(id)
    BY <1>3 DEF ReadRecord
  <2>2. id \in DOMAIN files
    BY <1>3 DEF SweepInv, RecordsRead, ReadRecord
  <2>3. files[id].refs \in SUBSET Nat
    BY <2>2, <1>0, FileTyped DEF Typed, File
  <2>4. late' = late
    BY <1>3 DEF ReadRecord, Sweeping
  <2>5. CASE sweep' = [sweep EXCEPT !.todo = @ \ {id}, !.kept = @ \cup files[id].refs]
             /\ UNCHANGED aim
    BY <2>3, <2>4, <2>5, <1>0 DEF Sweep
  <2>. QED BY <2>1, <2>4, <2>5, <1>0, DeleteTyped
<1>4. CASE ListToys
  <2>1. In("TOY_BOX") \in SUBSET Nat
    BY <1>0, FoldersTyped
  <2>. QED BY <1>4, <1>0, <2>1 DEF ListToys, Sweeping, Sweep, SweepStage
<1>5. CASE ReadToys
  <2>1. PICK read \in SUBSET Described :
          sweep' = [sweep EXCEPT !.at = "descriptors", !.read = read, !.todo = Expired(read)]
    BY <1>5 DEF ReadToys
  <2>2. read \in SUBSET Nat /\ Expired(read) \in SUBSET Nat
    BY <1>0 DEF Described, Expired, Sweep
  <2>. QED BY <1>5, <1>0, <2>1, <2>2 DEF ReadToys, Sweeping, Sweep, SweepStage, PastToys
<1>6. CASE SweepDescriptor \/ SweepContent \/ SweepOrphan
  <2>1. late' = late /\ \E id \in sweep.todo : Delete(id) \/ Pass(id)
    BY <1>6 DEF SweepDescriptor, SweepContent, SweepOrphan, Sweeping
  <2>. QED BY <2>1, <1>0, DeleteTyped
<1>7. CASE TurnToContents
  <2>1. sweep.read \subseteq DOMAIN files
    BY <1>7 DEF SweepInv, ToysRead, TurnToContents, PastToys
  <2>2. Known(sweep.read) \ Known(sweep.read \cap sweep.kept) \in SUBSET Nat
    BY <2>1, <1>0, KnownTyped
  <2>. QED BY <1>7, <1>0, <2>2 DEF TurnToContents, Sweeping, Sweep, SweepStage, PastToys
<1>8. CASE TurnToOrphans
  <2>1. Orphans \in SUBSET Nat
    BY <1>0 DEF Orphans, Sweep
  <2>. QED BY <1>8, <1>0, <2>1 DEF TurnToOrphans, Sweeping, Sweep, SweepStage, PastToys
<1>9. CASE SweepEnds \/ SweepBreaks
  BY <1>9, <1>0 DEF SweepEnds, SweepBreaks, Sweeping
<1>10. CASE Look
  <2>1. late' = late
    BY <1>10 DEF Look
  <2>2. CASE aim' = [aim EXCEPT !.at = "send", !.seen = files[aim.id]] /\ UNCHANGED sweep
    <3>1. aim.id \in DOMAIN files
      BY <1>10 DEF Look, DeleteInv, Aimed, Doomed
    <3>2. files[aim.id] \in File
      BY <3>1, <1>0 DEF Typed
    <3>. QED BY <2>1, <2>2, <3>2, <1>0 DEF Aim
  <2>. QED BY <1>10, <2>1, <2>2, <1>0, DeleteTyped DEF Look
<1>11. CASE Send
  <2>1. late' = late
    BY <1>11 DEF Send
  <2>2. CASE aim' = [aim EXCEPT !.at = "confirm"] /\ UNCHANGED sweep
    BY <2>1, <2>2, <1>0 DEF Aim
  <2>. QED BY <1>11, <2>1, <2>2, <1>0, DeleteTyped DEF Send
<1>12. CASE SendRefused
  <2>1. sweep' = sweep /\ late' \subseteq late \cup {aim}
    BY <1>12 DEF SendRefused
  <2>2. PICK at \in {"look", "confirm"} : aim' = [aim EXCEPT !.at = at]
    BY <1>12 DEF SendRefused
  <2>. QED BY <2>1, <2>2, <1>0 DEF Aim
<1>13. CASE Confirm \/ DeleteFails
  BY <1>13, <1>0, DeleteTyped DEF Confirm, DeleteFails
<1>. QED BY <1>1, <1>2, <1>3, <1>4, <1>5, <1>6, <1>7, <1>8, <1>9, <1>10, <1>11, <1>12, <1>13
     DEF WatchdogStep

(* Every step keeps the types.                                                   *)
LEMMA TypedStep ==
  ASSUME JobsInv, SweepInv, DeleteInv, [RetentionNext]_retentionVars
  PROVE  Typed'
<1>0. /\ Typed /\ clock \in Nat /\ files \in Seq(File) /\ upload \in Upload /\ late \subseteq Aim
      /\ ball \in [refs : SUBSET Nat, finished : Nat] /\ jobs \in Nat /\ trouble \in Nat
      /\ sweep \in Sweep /\ aim \in Aim
  BY DEF JobsInv, Typed
<1>1. files' \in Seq(File)
  <2>1. CASE Take \/ PutContent \/ PutPlaceholder \/ Describe
    BY <2>1, UploadMoves
  <2>2. CASE RecordTerminalSummary
    <3>1. Create("record", "BONEYARD", ball.finished + BoneyardDays, ball.refs)
      BY <2>2 DEF RecordTerminalSummary
    <3>2. /\ ball.finished + BoneyardDays \in Nat /\ ball.refs \in SUBSET Nat /\ clock \in Nat
          /\ "record" \in Kind /\ "BONEYARD" \in Place /\ files \in Seq(File)
      BY <1>0, RetentionAssumption DEF Kind, Place
    <3>. QED BY ONLY <3>1, <3>2, CreateFacts
  <2>3. CASE Consume \/ TakenAway \/ LateDelete \/ WatchdogStep
    BY <2>3, <1>0, FilesMoved, MovedFacts DEF Place
  <2>4. CASE Publish \/ UploadEnds \/ Tick \/ UNCHANGED retentionVars
    BY <2>4, <1>0 DEF Publish, UploadEnds, Tick, retentionVars
  <2>. QED BY <2>1, <2>2, <2>3, <2>4 DEF RetentionNext, FetcherStep
<1>2. sweep' \in Sweep /\ aim' \in Aim /\ late' \subseteq Aim
  <2>1. CASE WatchdogStep
    BY <2>1, WatchdogTyped
  <2>2. CASE ~WatchdogStep
    BY <2>2, <1>0 DEF RetentionNext, FetcherStep, Take, PutContent, PutPlaceholder, Describe, Publish, UploadEnds,
       RecordTerminalSummary, Consume, Tick, TakenAway, LateDelete, retentionVars
  <2>. QED BY <2>1, <2>2
<1>3. upload' \in Upload
  <2>1. CASE Take \/ PutContent \/ PutPlaceholder \/ Describe
    BY <2>1, UploadMoves
  <2>2. upload' \in {upload, NoUpload} \/ Take \/ PutContent \/ PutPlaceholder \/ Describe
    BY WatchdogQuiet DEF RetentionNext, FetcherStep, Publish, UploadEnds,
       RecordTerminalSummary, Consume, Tick, TakenAway, LateDelete, retentionVars, theirs
  <2>. QED BY <2>1, <2>2, <1>0 DEF NoUpload, Upload
<1>4. ball' \in [refs : SUBSET Nat, finished : Nat]
  <2>1. ball' \in {ball, NoResult, [refs |-> {upload.descriptor}, finished |-> clock]}
    BY WatchdogQuiet DEF RetentionNext, FetcherStep, Take, PutContent, PutPlaceholder, Describe, Publish, UploadEnds,
       RecordTerminalSummary, Consume, Tick, TakenAway, LateDelete, retentionVars, theirs
  <2>. QED BY <2>1, <1>0 DEF NoResult, Upload
<1>5. clock' \in Nat
  BY <1>0, StepOnward DEF Onward
<1>6. jobs' \in Nat
  BY <1>0, WatchdogQuiet DEF RetentionNext, FetcherStep, Take, PutContent, PutPlaceholder, Describe, Publish, UploadEnds,
       RecordTerminalSummary, Consume, Tick, TakenAway, LateDelete, retentionVars, theirs
<1>7. trouble' \in Nat
  <2>1. trouble' = trouble \/ trouble' = trouble + 1
    BY DEF RetentionNext, FetcherStep, Take, PutContent, PutPlaceholder, Describe, Publish, UploadEnds,
       RecordTerminalSummary, Consume, Tick, TakenAway, LateDelete, retentionVars, Trouble,
       WatchdogStep, Bury, ListBoneyard, ReadRecord, ListToys, ReadToys, SweepDescriptor,
       TurnToContents, SweepContent, TurnToOrphans, SweepOrphan, SweepEnds, Look, SendRefused,
       Send, Confirm, DeleteFails, SweepBreaks, Sweeping
  <2>. QED BY <2>1, <1>0
<1>. QED BY <1>1, <1>2, <1>3, <1>4, <1>5, <1>6, <1>7 DEF Typed

(* Every step keeps the types, the references and the uploads.                 *)
LEMMA JobsStep ==
  ASSUME JobsInv, SweepInv, DeleteInv, [RetentionNext]_retentionVars
  PROVE  JobsInv'
<1>1. Typed' /\ files' \in Seq(File)
  BY TypedStep DEF Typed
<1>2. Onward
  BY StepOnward
<1>. QED BY <1>1, <1>2, ReferencesStay, UploadsStay DEF JobsInv

-----------------------------------------------------------------------------
(* What the sweep has seen stays true while others work.                         *)

(* A content that was old when the sweep began is not being put.                 *)
LEMMA OldIsNotUploading ==
  ASSUME JobsInv, sweep.now \in Nat, sweep.now <= clock, NEW id, OldOne(id)
  PROVE  ~Uploading(id)
<1>1. id \in DOMAIN files /\ files[id] \in File /\ id \in Nat /\ clock \in Nat /\ upload.since \in Nat
      /\ ToyDays \in Nat /\ files[id].written <= sweep.now - ToyDays
  BY RetentionAssumption DEF OldOne, JobsInv, Typed, Upload
<1>2. files[id].written \in Nat
  BY <1>1 DEF File
<1>3. SUFFICES ASSUME Uploading(id) PROVE FALSE
  OBVIOUS
<1>4. files[id].written >= upload.since /\ upload.at # "rest"
  BY <1>1, <1>3 DEF JobsInv, Uploads, Uploading
<1>5. clock < upload.since + ToyDays
  BY <1>4 DEF JobsInv, Uploads
<1>. QED BY <1>1, <1>2, <1>4, <1>5

(* Whether a descriptor is over and unkept does not change but by being kept.    *)
LEMMA UnkeptBefore ==
  ASSUME JobsInv, Onward, NEW id \in DOMAIN files, Describes(id),
         sweep'.now = sweep.now, sweep.kept \subseteq sweep'.kept, Unkept(id)'
  PROVE  Unkept(id)
<1>1. SameText(id)
  BY DescribesStays DEF Describes
<1>. QED BY <1>1 DEF Unkept, SameText

(* A descriptor over its time that nothing keeps is not in FETCH_BALL again.   *)
LEMMA NothingWantedStays ==
  ASSUME JobsInv, Onward, NothingWanted, sweep \in Sweep,
         sweep'.at = sweep.at, sweep'.now = sweep.now, sweep.kept \subseteq sweep'.kept
  PROVE  NothingWanted'
<1>0. clock \in Nat /\ sweep.now \in Nat /\ clock' \in Nat /\ clock <= clock'
  BY DEF JobsInv, Typed, Sweep, Onward
<1>1. SUFFICES ASSUME sweep.at # "rest"
      PROVE sweep.now <= clock' /\ \A id \in Nat : Unkept(id)' => id \notin ball'.refs
  BY DEF NothingWanted
<1>2. sweep.now <= clock
  BY <1>1 DEF NothingWanted
<1>3. ASSUME NEW id \in Nat, Unkept(id)', id \in ball'.refs PROVE FALSE
  <2>1. CASE id \in ball.refs /\ id \in DOMAIN files
    <3>1. Describes(id)
      BY <2>1 DEF JobsInv, References
    <3>2. Unkept(id)
      BY <2>1, <3>1, <1>3, UnkeptBefore
    <3>. QED BY <1>1, <2>1, <3>2 DEF NothingWanted
  <2>2. CASE files'[id].expires > clock /\ id \in DOMAIN files
    <3>1. files'[id].expires <= sweep.now
      BY <1>3 DEF Unkept
    <3>2. files'[id].expires \in Nat
      <4>1. SameText(id) \/ DescribedNow(id)
        BY <2>2 DEF Onward
      <4>2. files[id] \in File /\ upload.since + ToyDays \in Nat
        BY <2>2, RetentionAssumption DEF JobsInv, Typed, Upload
      <4>. QED BY <4>1, <4>2 DEF SameText, DescribedNow, File
    <3>. QED BY <2>2, <3>1, <3>2, <1>0, <1>2
  <2>. QED BY <1>3, <2>1, <2>2, NewResultIsYoung
<1>. QED BY <1>0, <1>2, <1>3

(* A record has been read, is still to be read, or protects nothing any more.  *)
LEMMA RecordsReadStays ==
  ASSUME JobsInv, Onward, NothingWanted, RecordsRead, sweep \in Sweep,
         sweep'.at = sweep.at, sweep'.now = sweep.now, sweep.kept \subseteq sweep'.kept,
         sweep'.todo \subseteq sweep.todo,
         \A r \in sweep.todo \ sweep'.todo : sweep.at = "records" =>
           files[r].at # "BONEYARD" \/ files[r].expires <= sweep.now \/ files[r].refs \subseteq sweep'.kept
  PROVE  RecordsRead'
<1>1. ASSUME sweep.at = "records", NEW r \in sweep'.todo
      PROVE  r \in DOMAIN files' /\ files'[r].kind = "record"
  BY <1>1 DEF RecordsRead, Onward
<1>2. ASSUME sweep.at \in {"records", "toys"} \cup PastToys, NEW id \in Nat, NEW r \in In("BONEYARD")',
             Unkept(id)', id \in files'[r].refs
      PROVE  files'[r].expires <= sweep.now \/ (sweep.at = "records" /\ r \in sweep'.todo)
  <2>1. r \in DOMAIN files' /\ files'[r].at = "BONEYARD" /\ sweep.at # "rest"
    BY <1>2 DEF In, PastToys
  <2>2. CASE r \notin DOMAIN files
    <3>1. id \in ball.refs
      BY <1>2, <2>1, <2>2 DEF Onward
    <3>2. id \in DOMAIN files /\ Describes(id)
      BY <3>1 DEF JobsInv, References
    <3>3. Unkept(id)
      BY <1>2, <3>2, UnkeptBefore
    <3>. QED BY <2>1, <3>1, <3>3 DEF NothingWanted
  <2>3. CASE r \in DOMAIN files
    <3>1. files[r].at = "BONEYARD"
      BY <2>1, <2>3 DEF Onward, Stays
    <3>2. files[r].kind = "record" /\ r \in In("BONEYARD")
      BY <2>3, <3>1 DEF JobsInv, References, In
    <3>3. SameText(r)
      BY <2>3, <3>2, WrittenOnce
    <3>4. id \in files[r].refs
      BY <1>2, <3>3 DEF SameText
    <3>5. id \in DOMAIN files /\ Describes(id)
      BY <2>3, <3>2, <3>4 DEF JobsInv, References
    <3>6. Unkept(id)
      BY <1>2, <3>5, UnkeptBefore
    <3>7. files[r].expires <= sweep.now \/ (sweep.at = "records" /\ r \in sweep.todo)
      BY <1>2, <3>2, <3>4, <3>6 DEF RecordsRead
    <3>8. id \notin sweep'.kept
      BY <1>2 DEF Unkept
    <3>. QED BY <3>1, <3>3, <3>4, <3>7, <3>8 DEF SameText
  <2>. QED BY <2>2, <2>3
<1>. QED BY <1>1, <1>2 DEF RecordsRead

(* What was listed and read goes on being all that there was to see.           *)
LEMMA ToysReadStays ==
  ASSUME JobsInv, Onward, NothingWanted, ToysRead, sweep \in Sweep,
         sweep'.at = sweep.at, sweep'.now = sweep.now,
         sweep'.listed = sweep.listed, sweep'.read = sweep.read
  PROVE  ToysRead'
<1>0. DOMAIN files \subseteq DOMAIN files' /\ clock \in Nat /\ sweep.now \in Nat
      /\ ToyDays \in Nat /\ ToyDays > 0
  BY RetentionAssumption DEF Onward, JobsInv, Typed, Sweep
<1>1. sweep.at \in {"toys"} \cup PastToys => sweep'.listed \subseteq DOMAIN files'
  BY <1>0 DEF ToysRead
<1>2. sweep.at \in PastToys => sweep'.read \subseteq DOMAIN files' /\ \A d \in sweep'.read : Describes(d)'
  <2>1. ASSUME NEW d \in sweep.read, sweep.at \in PastToys PROVE d \in DOMAIN files' /\ Describes(d)'
    <3>1. d \in DOMAIN files /\ Describes(d)
      BY <2>1 DEF ToysRead
    <3>. QED BY <3>1, DescribesStays DEF Describes
  <2>. QED BY <2>1
<1>3. ASSUME NEW id \in Nat, NEW d \in In("TOY_BOX")', OldOne(id)', id \in files'[d].refs,
             sweep.at \in {"toys"} \cup PastToys
      PROVE  /\ sweep.at = "toys" => d \in sweep.listed
             /\ sweep.at \in PastToys => d \in sweep.read
  <2>0. sweep.now <= clock
    BY <1>3 DEF NothingWanted, PastToys
  <2>1. d \in DOMAIN files' /\ files'[d].at = "TOY_BOX" /\ id \in DOMAIN files'
        /\ files'[id].kind = "content" /\ files'[id].written <= sweep.now - ToyDays
    BY <1>3 DEF In, OldOne
  <2>2. id \in DOMAIN files
    <3>1. SUFFICES ASSUME id \notin DOMAIN files PROVE FALSE
      OBVIOUS
    <3>2. files'[id].written = clock
      BY <2>1, <3>1 DEF Onward
    <3>. QED BY <2>0, <2>1, <3>2, <1>0
  <2>3. files[id].kind = "content"
    BY <2>1, <2>2 DEF Onward
  <2>4. SameText(id)
    BY <2>2, <2>3, WrittenOnce
  <2>5. OldOne(id)
    BY <2>1, <2>2, <2>3, <2>4 DEF OldOne, SameText
  <2>6. ~Uploading(id)
    BY <2>5, <2>0, <1>0, OldIsNotUploading
  <2>7. d \in DOMAIN files /\ id \in files[d].refs
    BY <1>3, <2>1, <2>2, <2>3, <2>6, NoNewReference
  <2>8. d \in In("TOY_BOX")
    BY <2>1, <2>7 DEF Onward, Stays, In
  <2>. QED BY <1>3, <2>5, <2>7, <2>8 DEF ToysRead
<1>. QED BY <1>1, <1>2, <1>3 DEF ToysRead, PastToys

(* What is still on the list is doomed, or known by its descriptor.            *)
LEMMA ListedStays ==
  ASSUME JobsInv, Onward, ToysRead, Listed, sweep \in Sweep,
         sweep'.at = sweep.at, sweep'.todo \subseteq sweep.todo, sweep'.read = sweep.read
  PROVE  Listed'
<1>1. sweep.at \in {"descriptors", "orphans"} => \A id \in sweep'.todo : Doomed(id)'
  BY DoomStays DEF Listed
<1>2. ASSUME sweep.at = "contents", NEW id \in sweep'.todo PROVE id \in Known(sweep.read)'
  <2>1. PICK d \in sweep.read : id \in files[d].refs
    BY <1>2 DEF Listed, Known
  <2>2. d \in DOMAIN files /\ files[d].refs # {}
    BY <1>2, <2>1 DEF ToysRead, PastToys
  <2>3. SameText(d)
    BY <2>2, DescribesStays
  <2>4. id \in files'[d].refs
    BY <2>1, <2>3 DEF SameText
  <2>. QED BY <2>1, <2>4 DEF Known
<1>. QED BY <1>1, <1>2 DEF Listed

(* A step that leaves the sweep in its stage keeps what the sweep knows.       *)
LEMMA SweepStays ==
  ASSUME JobsInv, Onward, SweepInv, sweep \in Sweep,
         sweep'.at = sweep.at, sweep'.now = sweep.now, sweep.kept \subseteq sweep'.kept,
         sweep'.todo \subseteq sweep.todo, sweep'.listed = sweep.listed, sweep'.read = sweep.read,
         \A r \in sweep.todo \ sweep'.todo : sweep.at = "records" =>
           files[r].at # "BONEYARD" \/ files[r].expires <= sweep.now \/ files[r].refs \subseteq sweep'.kept
  PROVE  SweepInv'
BY NothingWantedStays, RecordsReadStays, ToysReadStays, ListedStays DEF SweepInv

-----------------------------------------------------------------------------
(* The WATCHDOG's own steps.                                                     *)

(* Between two of its deletes the sweep changes no file.                         *)
Quiet == UNCHANGED <<clock, files, ball, upload>>

(* A new sweep knows nothing yet.                                              *)
LEMMA BeginSweep ==
  ASSUME JobsInv, Bury
  PROVE  SweepInv'
<1>1. /\ sweep' = [NoSweep EXCEPT !.at = "boneyard", !.now = clock, !.kept = ball.refs] /\ Quiet
  BY DEF Bury, Sweeping, Quiet, theirs
<1>2. sweep'.at = "boneyard" /\ sweep'.now = clock /\ sweep'.kept = ball.refs
  BY <1>1 DEF NoSweep
<1>3. NothingWanted'
  BY <1>1, <1>2 DEF NothingWanted, Unkept, Quiet, JobsInv, Typed
<1>4. RecordsRead' /\ ToysRead' /\ Listed'
  BY <1>2 DEF RecordsRead, ToysRead, Listed, PastToys
<1>. QED BY <1>3, <1>4 DEF SweepInv

(* A sweep that has ended has nothing left to know.                            *)
LEMMA EndSweep ==
  ASSUME SweepEnds \/ SweepBreaks
  PROVE  SweepInv'
<1>1. sweep'.at = "rest"
  BY DEF SweepEnds, SweepBreaks, NoSweep
<1>. QED BY <1>1 DEF SweepInv, NothingWanted, RecordsRead, ToysRead, Listed, PastToys

(* The records that a sweep may have to read are all on its list.              *)
LEMMA ListRecords ==
  ASSUME JobsInv, SweepInv, ListBoneyard
  PROVE  SweepInv'
<1>1. /\ sweep.at = "boneyard" /\ Quiet
      /\ sweep' = [sweep EXCEPT !.at = "records", !.todo = In("BONEYARD")]
  BY DEF ListBoneyard, Sweeping, Quiet, theirs
<1>2. /\ sweep'.at = "records" /\ sweep'.todo = In("BONEYARD")
      /\ sweep'.now = sweep.now /\ sweep'.kept = sweep.kept
  BY <1>1 DEF JobsInv, Typed, Sweep
<1>3. NothingWanted'
  BY <1>1, <1>2 DEF SweepInv, NothingWanted, Unkept, Describes, Quiet
<1>4. RecordsRead'
  BY <1>1, <1>2 DEF RecordsRead, Quiet, In, JobsInv, References
<1>5. ToysRead' /\ Listed'
  BY <1>2 DEF ToysRead, Listed, PastToys
<1>. QED BY <1>3, <1>4, <1>5 DEF SweepInv

(* The listing of the toy box holds every descriptor that an old content       *)
(* needs,                                                                      *)
LEMMA ListAllToys ==
  ASSUME JobsInv, SweepInv, ListToys
  PROVE  SweepInv'
<1>1. /\ sweep.at = "records" /\ sweep.todo = {} /\ Quiet
      /\ sweep' = [sweep EXCEPT !.at = "toys", !.listed = In("TOY_BOX")]
  BY DEF ListToys, Sweeping, Quiet, theirs
<1>2. /\ sweep'.at = "toys" /\ sweep'.listed = In("TOY_BOX") /\ sweep'.todo = {}
      /\ sweep'.now = sweep.now /\ sweep'.kept = sweep.kept
  BY <1>1 DEF JobsInv, Typed, Sweep
<1>3. NothingWanted'
  BY <1>1, <1>2 DEF SweepInv, NothingWanted, Unkept, Describes, Quiet
<1>4. RecordsRead'
  BY <1>1, <1>2 DEF SweepInv, RecordsRead, Unkept, Describes, Quiet, In
<1>5. ToysRead'
  BY <1>1, <1>2 DEF ToysRead, Quiet, In, OldOne, PastToys
<1>6. Listed'
  BY <1>2 DEF Listed
<1>. QED BY <1>3, <1>4, <1>5, <1>6 DEF SweepInv

(* What the sweep finds over its time when it has read everything.               *)
LEMMA ExpiredAreDoomed ==
  ASSUME JobsInv, SweepInv, sweep.at = "toys", NEW read \in SUBSET Described,
         NEW id \in Expired(read)
  PROVE  Doomed(id)
<1>1. /\ id \in sweep.listed /\ files[id].kind = "descriptor" /\ files[id].refs # {}
      /\ id \notin sweep.kept /\ files[id].expires <= sweep.now
  BY DEF Described, Expired
<1>2. id \in DOMAIN files /\ id \in Nat /\ files[id] \in File
  BY <1>1 DEF SweepInv, ToysRead, JobsInv, Typed
<1>3. Unkept(id)
  BY <1>1, <1>2 DEF Unkept, Describes
<1>4. sweep.now <= clock /\ id \notin ball.refs
  BY <1>2, <1>3 DEF SweepInv, NothingWanted
<1>5. sweep.now \in Nat /\ clock \in Nat /\ files[id].expires \in Nat
  BY <1>2 DEF JobsInv, Typed, Sweep, File
<1>6. files[id].expires <= clock
  BY <1>1, <1>4, <1>5
<1>7. ASSUME NEW r \in In("BONEYARD"), id \in files[r].refs PROVE files[r].expires <= clock
  <2>1. files[r].expires <= sweep.now
    BY <1>2, <1>3, <1>7 DEF SweepInv, RecordsRead
  <2>2. files[r] \in File
    BY <1>7, FileTyped DEF In, JobsInv, Typed
  <2>3. files[r].expires \in Nat
    BY <2>2 DEF File
  <2>. QED BY <2>1, <2>3, <1>4, <1>5
<1>8. Over(id)
  BY <1>1, <1>4, <1>6, <1>7 DEF Over
<1>9. ~Uploading(id)
  BY <1>1, <1>2 DEF JobsInv, Uploads
<1>. QED BY <1>2, <1>8, <1>9 DEF Doomed

(* and so do the descriptors that were read, where reads do not fail.          *)
LEMMA ReadAllToys ==
  ASSUME ~Unreadable, JobsInv, SweepInv, ReadToys
  PROVE  SweepInv'
<1>1. /\ sweep.at = "toys" /\ Quiet
      /\ sweep' = [sweep EXCEPT !.at = "descriptors", !.read = Described,
                                !.todo = Expired(Described)]
  BY DEF ReadToys, Sweeping, Quiet, theirs
<1>2. /\ sweep'.at = "descriptors" /\ sweep'.read = Described /\ sweep'.todo = Expired(Described)
      /\ sweep'.now = sweep.now /\ sweep'.kept = sweep.kept /\ sweep'.listed = sweep.listed
  BY <1>1 DEF JobsInv, Typed, Sweep
<1>3. NothingWanted'
  BY <1>1, <1>2 DEF SweepInv, NothingWanted, Unkept, Describes, Quiet
<1>4. RecordsRead'
  BY <1>1, <1>2 DEF SweepInv, RecordsRead, Unkept, Describes, Quiet, In, PastToys
<1>5. ToysRead'
  <2>1. sweep.listed \subseteq DOMAIN files
    BY <1>1 DEF SweepInv, ToysRead
  <2>2. ASSUME NEW id \in Nat, NEW d \in In("TOY_BOX"), OldOne(id), id \in files[d].refs
        PROVE d \in Described
    <3>1. d \in sweep.listed
      BY <1>1, <2>2 DEF SweepInv, ToysRead
    <3>a. d \in DOMAIN files /\ files[d] \in File
      BY <2>2, FileTyped DEF In, JobsInv, Typed
    <3>2. d \in DOMAIN files /\ ~Gone(d) /\ files[d].kind \in Kind
      BY <2>2, <3>a DEF In, Gone, File
    <3>3. files[id].kind = "content"
      BY <2>2 DEF OldOne
    <3>4. files[d].kind = "descriptor"
      BY <2>2, <3>2, <3>3 DEF JobsInv, References, Describes, Kind
    <3>. QED BY <2>2, <3>1, <3>2, <3>4 DEF Described
  <2>3. Described \subseteq sweep.listed /\ \A d \in Described : Describes(d)
    BY DEF Described, Describes
  <2>. QED BY <1>1, <1>2, <2>1, <2>2, <2>3 DEF ToysRead, Quiet, In, OldOne, PastToys, Describes
<1>6. Listed'
  <2>1. \A id \in Expired(Described) : Doomed(id)
    BY <1>1, ExpiredAreDoomed
  <2>2. \A id : Doomed(id)' <=> Doomed(id)
    BY <1>1 DEF Quiet, Doomed, Over, Uploading, Referred, Old, In
  <2>. QED BY <1>2, <2>1, <2>2 DEF Listed
<1>. QED BY <1>3, <1>4, <1>5, <1>6 DEF SweepInv

(* An old content that nothing read refers to.                                   *)
LEMMA OrphansAreDoomed ==
  ASSUME JobsInv, SweepInv, sweep.at = "contents", NEW id \in Orphans
  PROVE  Doomed(id)
<1>1. /\ id \in sweep.listed /\ id \notin Known(sweep.read) /\ files[id].kind = "content"
      /\ files[id].written <= sweep.now - ToyDays
  BY DEF Orphans
<1>2. id \in DOMAIN files /\ id \in Nat /\ files[id] \in File
  BY <1>1 DEF SweepInv, ToysRead, JobsInv, Typed, PastToys
<1>3. OldOne(id)
  BY <1>1, <1>2 DEF OldOne
<1>4. sweep.now <= clock /\ sweep.now \in Nat /\ clock \in Nat /\ files[id].written \in Nat
      /\ ToyDays \in Nat
  BY <1>2, RetentionAssumption DEF SweepInv, NothingWanted, JobsInv, Typed, Sweep, File
<1>5. ~Uploading(id)
  BY <1>3, <1>4, OldIsNotUploading
<1>6. ~Referred(id)
  <2>1. SUFFICES ASSUME NEW d \in In("TOY_BOX"), id \in files[d].refs PROVE FALSE
    BY DEF Referred
  <2>2. d \in sweep.read
    BY <1>2, <1>3, <2>1 DEF SweepInv, ToysRead, PastToys
  <2>. QED BY <1>1, <2>1, <2>2 DEF Known
<1>7. Old(id)
  BY <1>1, <1>4 DEF Old
<1>8. Over(id)
  BY <1>1, <1>6, <1>7 DEF Over
<1>. QED BY <1>2, <1>5, <1>8 DEF Doomed

(* A turn to the next stage puts on its list what is known or doomed.          *)
LEMMA TurnStages ==
  ASSUME JobsInv, SweepInv, TurnToContents \/ TurnToOrphans
  PROVE  SweepInv'
<1>1. /\ sweep.at \in PastToys /\ Quiet
      /\ \/ /\ sweep.at = "descriptors"
            /\ sweep' = [sweep EXCEPT !.at = "contents",
                           !.todo = Known(sweep.read) \ Known(sweep.read \cap sweep.kept)]
         \/ sweep.at = "contents" /\ sweep' = [sweep EXCEPT !.at = "orphans", !.todo = Orphans]
  BY DEF TurnToContents, TurnToOrphans, Sweeping, Quiet, theirs, PastToys
<1>2. /\ sweep'.at \in {"contents", "orphans"} /\ sweep'.read = sweep.read
      /\ sweep'.now = sweep.now /\ sweep'.kept = sweep.kept /\ sweep'.listed = sweep.listed
      /\ sweep'.at = "contents" => sweep'.todo \subseteq Known(sweep.read)
      /\ sweep'.at = "orphans" => sweep'.todo = Orphans /\ sweep.at = "contents"
  BY <1>1 DEF JobsInv, Typed, Sweep
<1>3. NothingWanted'
  BY <1>1, <1>2 DEF SweepInv, NothingWanted, Unkept, Describes, Quiet, PastToys
<1>4. RecordsRead'
  BY <1>1, <1>2 DEF SweepInv, RecordsRead, Unkept, Describes, Quiet, In, PastToys
<1>5. ToysRead'
  BY <1>1, <1>2 DEF SweepInv, ToysRead, OldOne, Describes, Quiet, In, PastToys
<1>6. Listed'
  <2>1. \A id : Doomed(id)' <=> Doomed(id)
    BY <1>1 DEF Quiet, Doomed, Over, Uploading, Referred, Old, In
  <2>2. Known(sweep.read)' = Known(sweep.read)
    BY <1>1, <1>2 DEF Known, Quiet
  <2>. QED BY <1>2, <2>1, <2>2, OrphansAreDoomed DEF Listed
<1>. QED BY <1>3, <1>4, <1>5, <1>6 DEF SweepInv

(* The content that is deleted after its descriptor.                             *)
LEMMA UnreferredIsDoomed ==
  ASSUME JobsInv, SweepInv, sweep.at = "contents", NEW id \in sweep.todo,
         id \in sweep.listed, ~Survives(id)
  PROVE  Doomed(id)
<1>1. PICK d \in sweep.read : id \in files[d].refs
  BY DEF SweepInv, Listed, Known
<1>2. d \in DOMAIN files /\ Describes(d) /\ Gone(d) /\ id \in Nat
  BY <1>1 DEF SweepInv, ToysRead, PastToys, Survives, JobsInv, Typed, Sweep
<1>3. id \in DOMAIN files /\ files[id].kind = "content"
  BY <1>1, <1>2 DEF JobsInv, References, Describes
<1>4. ~Uploading(id)
  BY <1>1, <1>2 DEF JobsInv, Uploads
<1>5. ~Referred(id)
  <2>1. SUFFICES ASSUME NEW e \in In("TOY_BOX"), id \in files[e].refs PROVE FALSE
    BY DEF Referred
  <2>a. e \in DOMAIN files /\ files[e] \in File
    BY <2>1, FileTyped DEF In, JobsInv, Typed
  <2>2. e \in DOMAIN files /\ files[e].at = "TOY_BOX" /\ files[e].kind \in Kind
    BY <2>1, <2>a DEF In, File
  <2>3. Describes(e)
    BY <1>2, <1>3, <2>1, <2>2 DEF JobsInv, References, Describes, Kind
  <2>4. files[d].refs \cap files[e].refs # {}
    BY <1>1, <2>1
  <2>5. d = e
    BY <1>2, <2>2, <2>3, <2>4 DEF JobsInv, References
  <2>. QED BY <1>2, <2>2, <2>5 DEF Gone
<1>6. d \in In("gone")
  BY <1>2 DEF In, Gone
<1>7. Over(id)
  BY <1>1, <1>3, <1>5, <1>6 DEF Over
<1>. QED BY <1>3, <1>4, <1>7 DEF Doomed

(* The next file on the list: it is over, or it stays where it is.               *)
LEMMA NextRecord ==
  ASSUME ~Unreadable, JobsInv, SweepInv, ReadRecord
  PROVE  /\ SweepInv'
         /\ aim' = aim \/ \E id : aim' = [NoAim EXCEPT !.id = id, !.at = "look"] /\ Doomed(id)
<1>0. /\ sweep.at = "records" /\ Quiet /\ Onward /\ sweep \in Sweep /\ Typed
  <2>1. Quiet /\ Typed /\ clock \in Nat /\ sweep.at = "records"
    BY DEF ReadRecord, Sweeping, Quiet, theirs, JobsInv, Typed
  <2>. QED BY <2>1, NothingFiled DEF Quiet, Typed
<1>1. PICK id \in sweep.todo :
       \/ /\ ~Gone(id) /\ files[id].expires > sweep.now
          /\ sweep' = [sweep EXCEPT !.todo = @ \ {id}, !.kept = @ \cup files[id].refs]
          /\ UNCHANGED aim
       \/ ~Gone(id) /\ files[id].expires <= sweep.now /\ MayDelete /\ Delete(id)
       \/ /\ Gone(id) \/ Unreadable \/ (files[id].expires <= sweep.now /\ ~MayDelete)
          /\ Pass(id)
  BY DEF ReadRecord
<1>2. id \in DOMAIN files /\ files[id].kind = "record" /\ files[id] \in File
  BY <1>0, FileTyped DEF SweepInv, RecordsRead, Typed
<1>3. /\ sweep'.at = sweep.at /\ sweep'.now = sweep.now /\ sweep.kept \subseteq sweep'.kept
      /\ sweep'.todo = sweep.todo \ {id} /\ sweep'.listed = sweep.listed /\ sweep'.read = sweep.read
      /\ files[id].at # "BONEYARD" \/ files[id].expires <= sweep.now
           \/ files[id].refs \subseteq sweep'.kept
  BY <1>0, <1>1 DEF Delete, Pass, Sweep, Gone
<1>4. SweepInv'
  BY <1>0, <1>3, SweepStays
<1>5. files[id].expires <= sweep.now => Doomed(id)
  <2>1. sweep.now <= clock /\ sweep.now \in Nat /\ clock \in Nat /\ files[id].expires \in Nat
    BY <1>0, <1>2 DEF SweepInv, NothingWanted, Typed, Sweep, File
  <2>2. id \in Nat
    BY <1>0, <1>2, FileTyped DEF Typed
  <2>3. ~Uploading(id)
    BY <1>2, <2>2 DEF JobsInv, Uploads
  <2>. QED BY <1>2, <2>1, <2>3 DEF Doomed, Over
<1>6. aim' = aim \/ \E i : aim' = [NoAim EXCEPT !.id = i, !.at = "look"] /\ Doomed(i)
  BY <1>1, <1>5 DEF Delete, Pass
<1>. QED BY <1>4, <1>6

(* The next delete of the toy box is of something that is doomed.              *)
LEMMA NextToy ==
  ASSUME JobsInv, SweepInv, SweepDescriptor \/ SweepContent \/ SweepOrphan
  PROVE  /\ SweepInv'
         /\ aim' = aim \/ \E id : aim' = [NoAim EXCEPT !.id = id, !.at = "look"] /\ Doomed(id)
<1>0. /\ sweep.at \in PastToys /\ Quiet /\ Onward /\ sweep \in Sweep /\ Typed
  <2>1. Quiet /\ Typed /\ clock \in Nat /\ sweep.at \in PastToys
    BY DEF SweepDescriptor, SweepContent, SweepOrphan, Sweeping, Quiet, theirs, JobsInv, Typed, PastToys
  <2>. QED BY <2>1, NothingFiled DEF Quiet, Typed
<1>1. PICK id \in sweep.todo :
        \/ Delete(id) /\ (sweep.at = "contents" => id \in sweep.listed /\ ~Survives(id))
        \/ Pass(id)
  BY DEF SweepDescriptor, SweepContent, SweepOrphan
<1>2. /\ sweep'.at = sweep.at /\ sweep'.now = sweep.now /\ sweep.kept \subseteq sweep'.kept
      /\ sweep'.todo \subseteq sweep.todo /\ sweep'.listed = sweep.listed /\ sweep'.read = sweep.read
  BY <1>0, <1>1 DEF Delete, Pass, Sweep
<1>3. SweepInv'
  BY <1>0, <1>2, SweepStays DEF PastToys
<1>4. Delete(id) => Doomed(id) \/ Pass(id)
  <2>1. CASE sweep.at \in {"descriptors", "orphans"}
    BY <2>1 DEF SweepInv, Listed
  <2>2. CASE sweep.at = "contents"
    BY <1>1, <2>2, UnreferredIsDoomed
  <2>. QED BY <1>0, <2>1, <2>2 DEF PastToys
<1>5. aim' = aim \/ \E i : aim' = [NoAim EXCEPT !.id = i, !.at = "look"] /\ Doomed(i)
  BY <1>1, <1>4 DEF Delete, Pass
<1>. QED BY <1>3, <1>5

(* A delete that is looked at, sent, refused or confirmed.                       *)
Deleting == Look \/ Send \/ SendRefused \/ Confirm \/ DeleteFails

(* The requests of one delete leave the sweep's knowledge alone.               *)
LEMMA SweepWhileDeleting ==
  ASSUME JobsInv, SweepInv, DeleteInv, Deleting
  PROVE  SweepInv'
<1>1. Onward /\ sweep \in Sweep
  BY WatchdogOnward DEF Deleting, WatchdogStep, JobsInv, Typed
<1>2. sweep' = sweep \/ sweep' = [sweep EXCEPT !.deleted = @ + 1]
  BY DEF Deleting, Look, Send, SendRefused, Confirm, DeleteFails, Succeeds, Fails
<1>3. /\ sweep'.at = sweep.at /\ sweep'.now = sweep.now /\ sweep'.kept = sweep.kept
      /\ sweep'.todo = sweep.todo /\ sweep'.listed = sweep.listed /\ sweep'.read = sweep.read
  BY <1>1, <1>2 DEF Sweep
<1>. QED BY <1>1, <1>3, SweepStays

(* They follow one object, which they saw in one of the two folders.           *)
LEMMA AimWhileDeleting ==
  ASSUME JobsInv, DeleteInv, Deleting
  PROVE  /\ aim'.at # "rest" => aim.at # "rest" /\ aim'.id = aim.id
         /\ aim'.at \in {"send", "confirm"} => aim'.seen.at \in {"TOY_BOX", "BONEYARD"}
         /\ late' \subseteq late \cup {aim} /\ (aim.at # "send" => late' = late)
<1>0. aim \in Aim /\ (aim.at \in {"send", "confirm"} => aim.seen.at \in {"TOY_BOX", "BONEYARD"})
  BY DEF JobsInv, Typed, DeleteInv, Aimed
<1>1. CASE Look
  <2>1. late' = late /\ aim.at = "look"
    BY <1>1 DEF Look
  <2>2. \/ aim' = NoAim
        \/ aim' = [aim EXCEPT !.at = "send", !.seen = files[aim.id]] /\ files[aim.id].at = Scope
    BY <1>1 DEF Look, Succeeds, Fails
  <2>3. CASE aim' = NoAim
    BY <2>1, <2>3 DEF NoAim
  <2>4. CASE aim' = [aim EXCEPT !.at = "send", !.seen = files[aim.id]] /\ files[aim.id].at = Scope
    <3>1. aim'.id = aim.id /\ aim'.seen = files[aim.id]
      BY <2>4, <1>0 DEF Aim
    <3>2. aim'.seen.at \in {"TOY_BOX", "BONEYARD"}
      BY <2>4, <3>1 DEF Scope
    <3>. QED BY <2>1, <3>1, <3>2
  <2>. QED BY <2>2, <2>3, <2>4
<1>2. CASE Send
  <2>1. late' = late /\ aim.at = "send"
    BY <1>2 DEF Send
  <2>2. aim' = NoAim \/ aim' = [aim EXCEPT !.at = "confirm"]
    BY <1>2 DEF Send, Succeeds, Fails
  <2>. QED BY <2>1, <2>2, <1>0 DEF Aim, NoAim
<1>3. CASE SendRefused
  <2>1. late' \subseteq late \cup {aim} /\ aim.at = "send"
    BY <1>3 DEF SendRefused
  <2>2. \E at \in {"look", "confirm"} : aim' = [aim EXCEPT !.at = at]
    BY <1>3 DEF SendRefused
  <2>3. aim'.id = aim.id /\ aim'.seen = aim.seen
    BY <2>2, <1>0 DEF Aim
  <2>4. aim.seen.at \in {"TOY_BOX", "BONEYARD"}
    BY <2>1, <1>0
  <2>5. aim'.seen.at \in {"TOY_BOX", "BONEYARD"}
    BY <2>3, <2>4
  <2>6. aim.at # "rest"
    BY <2>1
  <2>. QED BY <2>1, <2>3, <2>5, <2>6
<1>4. CASE Confirm \/ DeleteFails
  BY <1>4 DEF Confirm, DeleteFails, Succeeds, Fails, NoAim
<1>. QED BY <1>1, <1>2, <1>3, <1>4 DEF Deleting

-----------------------------------------------------------------------------
(* The inductive invariant.                                                      *)

(* Every step keeps what a sweep knows,                                        *)
LEMMA SweepStep ==
  ASSUME ~Unreadable, FullInv, [RetentionNext]_retentionVars
  PROVE  SweepInv'
<1>. USE DEF FullInv
<1>1. CASE Bury \/ SweepEnds \/ SweepBreaks
  BY <1>1, BeginSweep, EndSweep
<1>2. CASE ListBoneyard \/ ListToys \/ ReadToys \/ TurnToContents \/ TurnToOrphans
  BY <1>2, ListRecords, ListAllToys, ReadAllToys, TurnStages
<1>3. CASE ReadRecord \/ SweepDescriptor \/ SweepContent \/ SweepOrphan
  BY <1>3, NextRecord, NextToy
<1>4. CASE Deleting
  BY <1>4, SweepWhileDeleting
<1>5. CASE ~WatchdogStep
  <2>1. sweep' = sweep
    BY <1>5 DEF RetentionNext, FetcherStep, Take, PutContent, PutPlaceholder, Describe, Publish, UploadEnds,
       RecordTerminalSummary, Consume, Tick, TakenAway, LateDelete, retentionVars
  <2>2. Onward /\ sweep \in Sweep
    BY StepOnward DEF JobsInv, Typed
  <2>. QED BY <2>1, <2>2, SweepStays
<1>. QED BY <1>1, <1>2, <1>3, <1>4, <1>5 DEF WatchdogStep, Deleting

(* and that every delete under way or late is of something doomed.             *)
LEMMA DeleteStep ==
  ASSUME ~Unreadable, FullInv, [RetentionNext]_retentionVars
  PROVE  DeleteInv'
<1>. USE DEF FullInv
<1>0. Onward /\ \A id : Doomed(id) => Doomed(id)'
  BY StepOnward, DoomStays
<1>1. ASSUME aim' \in {aim, NoAim} \/ \E id : aim' = [NoAim EXCEPT !.id = id, !.at = "look"] /\ Doomed(id),
             late' \subseteq late
      PROVE  DeleteInv'
  <2>1. CASE aim' = aim
    BY <1>0, <1>1, <2>1 DEF DeleteInv, Aimed
  <2>2. CASE aim' = NoAim
    BY <1>0, <1>1, <2>2 DEF DeleteInv, Aimed, NoAim
  <2>3. CASE \E id : aim' = [NoAim EXCEPT !.id = id, !.at = "look"] /\ Doomed(id)
    <3>1. PICK id : aim' = [NoAim EXCEPT !.id = id, !.at = "look"] /\ Doomed(id)
      BY <2>3
    <3>2. aim'.id = id /\ aim'.at = "look"
      BY <3>1 DEF NoAim
    <3>. QED BY <1>0, <1>1, <3>1, <3>2 DEF DeleteInv, Aimed
  <2>. QED BY <1>1, <2>1, <2>2, <2>3
<1>2. CASE ReadRecord \/ SweepDescriptor \/ SweepContent \/ SweepOrphan
  <2>1. late' = late
    BY <1>2 DEF ReadRecord, SweepDescriptor, SweepContent, SweepOrphan, Sweeping
  <2>. QED BY <1>1, <1>2, <2>1, NextRecord, NextToy
<1>3. CASE Bury \/ SweepEnds \/ SweepBreaks \/ ListBoneyard \/ ListToys \/ ReadToys
             \/ TurnToContents \/ TurnToOrphans
  <2>1. late' = late /\ aim' \in {aim, NoAim}
    BY <1>3 DEF Bury, SweepEnds, SweepBreaks, ListBoneyard, ListToys, ReadToys,
                TurnToContents, TurnToOrphans, Sweeping
  <2>. QED BY <1>1, <2>1
<1>4. CASE Deleting
  <2>1. aim'.at # "rest" => Aimed(aim)'
    BY <1>0, <1>4, AimWhileDeleting DEF DeleteInv, Aimed
  <2>2. ASSUME NEW a \in late' PROVE Aimed(a)' /\ a.at = "send"
    <3>1. CASE a \in late
      BY <1>0, <3>1 DEF DeleteInv, Aimed
    <3>2. CASE a = aim /\ aim.at = "send"
      BY <1>0, <3>2 DEF DeleteInv, Aimed
    <3>. QED BY <1>4, <2>2, <3>1, <3>2, AimWhileDeleting
  <2>. QED BY <2>1, <2>2 DEF DeleteInv
<1>5. CASE ~WatchdogStep
  <2>1. aim' = aim /\ late' \subseteq late
    BY <1>5 DEF RetentionNext, FetcherStep, Take, PutContent, PutPlaceholder, Describe, Publish, UploadEnds,
       RecordTerminalSummary, Consume, Tick, TakenAway, LateDelete, retentionVars
  <2>. QED BY <1>1, <2>1
<1>. QED BY <1>2, <1>3, <1>4, <1>5 DEF WatchdogStep, Deleting

(* The invariant holds at the start,                                           *)
LEMMA RetentionStart ==
  ASSUME RetentionInit
  PROVE  FullInv
<1>1. files = << >> /\ DOMAIN files = {} /\ files \in Seq(File)
  BY DEF RetentionInit
<1>2. Typed
  BY <1>1 DEF RetentionInit, Typed, NoResult, NoUpload, NoSweep, NoAim, Upload, Sweep, SweepStage, Aim
<1>3. References /\ Uploads
  BY <1>1 DEF RetentionInit, References, Uploads, Uploading, NoResult, NoUpload, In
<1>4. SweepInv
  BY <1>1 DEF RetentionInit, SweepInv, NothingWanted, RecordsRead, ToysRead, Listed, NoSweep, PastToys
<1>5. DeleteInv
  BY DEF RetentionInit, DeleteInv, NoAim
<1>. QED BY <1>2, <1>3, <1>4, <1>5 DEF FullInv, JobsInv

(* and in every reachable state, where reads do not fail.                      *)
LEMMA RetentionAlways == ~Unreadable => (RetentionSpec => []FullInv)
<1>. SUFFICES ASSUME ~Unreadable PROVE RetentionSpec => []FullInv
  OBVIOUS
<1>1. RetentionInit => FullInv
  BY RetentionStart
<1>2. FullInv /\ [RetentionNext]_retentionVars => FullInv'
  BY JobsStep, SweepStep, DeleteStep DEF FullInv
<1>. QED BY <1>1, <1>2, PTL DEF RetentionSpec

(* What FETCH_BALL, records, descriptors and uploads refer to belongs together:   *)
(* a record names descriptors, a descriptor a content that no other one names,    *)
(* and an upload under way is younger than its result will be                     *)
(* (artifact_spool.py:139-268, retention.py:107-190).                             *)
THEOREM ReferencesHold == ~Unreadable => (RetentionSpec => [](Typed /\ References /\ Uploads))
<1>1. FullInv => Typed /\ References /\ Uploads
  BY DEF FullInv, JobsInv
<1>. QED BY <1>1, RetentionAlways, PTL

(* A file is deleted only where it lies in one of the two folders and is over:    *)
(* past its days, named by no result, no record that still counts and no          *)
(* descriptor that stands; whatever is published, recorded, moved or applied late *)
(* between the sweep's listings and its deletes (retention.py:192-353).           *)
THEOREM OnlyTheOverIsDeleted == ~Unreadable => (RetentionSpec => DeletionsAreDue)
<1>. SUFFICES ASSUME ~Unreadable PROVE RetentionSpec => DeletionsAreDue
  OBVIOUS
<1>. DEFINE Due(id) == files[id].at # "gone" /\ files'[id].at = "gone" =>
                         files[id].at \in {"TOY_BOX", "BONEYARD"} /\ Over(id)
<1>1. ASSUME FullInv, [RetentionNext]_retentionVars, NEW id \in DOMAIN files PROVE Due(id)
  <2>. USE <1>1 DEF FullInv
  <2>1. SUFFICES ASSUME files[id].at # "gone", files'[id].at = "gone"
        PROVE  files[id].at \in {"TOY_BOX", "BONEYARD"} /\ Over(id)
    OBVIOUS
  <2>2. ASSUME NEW a, Aimed(a), a.at = "send", files[a.id] = a.seen, Remove(a.id)
        PROVE  files[id].at \in {"TOY_BOX", "BONEYARD"} /\ Over(id)
    <3>1. a.id \in DOMAIN files /\ Over(a.id) /\ files[a.id].at \in {"TOY_BOX", "BONEYARD"}
      BY <2>2 DEF Aimed, Doomed
    <3>2. Moved(a.id, "gone") /\ files \in Seq(File) /\ "gone" \in Place
      BY <2>2 DEF Remove, Moved, JobsInv, Typed, Place
    <3>3. id # a.id => files'[id] = files[id]
      BY <3>1, <3>2, MovedFacts
    <3>. QED BY <2>1, <3>1, <3>3
  <2>3. CASE WatchdogStep
    <3>1. aim.at = "send" /\ files[aim.id] = aim.seen /\ Remove(aim.id)
      BY <2>1, <2>3, WatchdogQuiet DEF Send
    <3>. QED BY <2>2, <3>1 DEF DeleteInv
  <2>4. CASE LateDelete
    <3>1. PICK request \in late :
            IF files[request.id] = request.seen THEN Remove(request.id) ELSE UNCHANGED files
      BY <2>4 DEF LateDelete
    <3>2. files[request.id] = request.seen /\ Remove(request.id)
      BY <2>1, <3>1
    <3>. QED BY <2>2, <3>2 DEF DeleteInv
  <2>5. CASE TakenAway
    <3>1. PICK i \in In("TOY_BOX") \cup In("BONEYARD") : Moved(i, "elsewhere")
      BY <2>5 DEF TakenAway, Moved
    <3>2. i \in DOMAIN files /\ files \in Seq(File) /\ "elsewhere" \in Place
      BY DEF In, JobsInv, Typed, Place
    <3>. QED BY <2>1, <3>1, <3>2, MovedFacts
  <2>6. CASE FetcherStep \/ RecordTerminalSummary \/ Consume \/ Tick \/ UNCHANGED retentionVars
    <3>1. files'[id].at = files[id].at
      <4>1. CASE files' = files
        BY <4>1
      <4>2. CASE \E f \in File : files' = Append(files, f)
        BY <4>2 DEF JobsInv, Typed
      <4>3. CASE Describe
        BY <4>3 DEF Describe, JobsInv, Typed, File
      <4>4. PutContent \/ PutPlaceholder \/ RecordTerminalSummary => \E f \in File : files' = Append(files, f)
        <5>1. clock \in Nat /\ ball.refs \in SUBSET Nat /\ ball.finished + BoneyardDays \in Nat
          BY RetentionAssumption DEF JobsInv, Typed
        <5>. QED BY <5>1 DEF PutContent, PutPlaceholder, RecordTerminalSummary, Create,
                             File, Kind, Place
      <4>. QED BY <2>6, <4>1, <4>2, <4>3, <4>4
           DEF FetcherStep, Take, Publish, UploadEnds, Consume, Tick, retentionVars
    <3>. QED BY <2>1, <3>1
  <2>. QED BY <2>3, <2>4, <2>5, <2>6 DEF RetentionNext
<1>2. FullInv /\ [RetentionNext]_retentionVars => [\A id \in DOMAIN files : Due(id)]_retentionVars
  BY <1>1
<1>. QED BY <1>2, RetentionAlways, PTL DEF RetentionSpec, DeletionsAreDue
==============================================================================
