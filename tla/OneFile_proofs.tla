---------------------------- MODULE OneFile_proofs ----------------------------
(***************************************************************************)
(* Proofs about one stateful file, request by request, for every registry  *)
(* object, every plan and any number of concurrent calls.                  *)
(*                                                                         *)
(* The first part is about StateWalker alone: what a walk leaves in the    *)
(* log and reports, whatever the provider guarantees, and that an atomic   *)
(* precondition makes it one step (AtomicWalk).  The second part is about  *)
(* verified writes on a file that walks move and others write.             *)
(***************************************************************************)
EXTENDS OneFile, TLAPS


Before == {"begin", "read", "fenceName", "fenceBody", "check", "send"}

NoEffect(w) == \A i \in 1 .. Len(log) : log[i].by # w
Silent(w) == w \notin inFlight /\ NoEffect(w)

(* What a walk knows from its reads once it has claimed an attempt.  The file    *)
(* may have moved on since, but if it has not, the walk owns it.                 *)
Held(w) ==
  /\ token[w] \in 1 .. visible
  /\ log[token[w]].state = Plan[w].from
  /\ Plan[w].from # Plan[w].to
  /\ <<Plan[w].from, Plan[w].to, Plan[w].actor>> \in Edges(Object)
  /\ Plan[w].fenced /\ token[w] = Len(log) =>
       /\ log[token[w]].body.operation = Plan[w].operation
       /\ log[token[w]].body.generation = Plan[w].generation

SilentBefore(w) == stage[w] \in Before => Silent(w) /\ receipt[w] = 0
LegalPlan(w) ==
  stage[w] \notin {"begin", "done"} =>
    ValidateTransition(Object, Plan[w].from, Plan[w].to, Plan[w].actor) # "ILLEGAL"
FenceReads(w) ==
  stage[w] \in {"fenceName", "fenceBody"} =>
    /\ token[w] \in 1 .. visible
    /\ log[token[w]].state \in {Plan[w].from, Plan[w].to}
    /\ stage[w] = "fenceBody" => fenceName[w] \in token[w] .. visible
HeldWhileAsking(w) ==
  (stage[w] \in {"check", "send", "confirm"} \/ w \in inFlight) => Held(w)
FlightIsLast(w) ==
  w \in inFlight =>
    /\ NoEffect(w)
    /\ stage[w] \in {"confirm", "done"}
    /\ outcome[w] \in {Undecided, "UNCONFIRMED"} \/ token[w] < Len(log)
OneEffect(w) ==
  \A i, j \in 1 .. Len(log) : log[i].by = w /\ log[j].by = w => i = j
Receipts(w) ==
  receipt[w] # 0 => receipt[w] \in 1 .. Len(log) /\ log[receipt[w]].by = w
DoneIsDecided(w) == stage[w] = "done" <=> outcome[w] # Undecided
HarmlessIsSilent(w) == outcome[w] \in HarmlessOutcome => Silent(w)
SuccessSeen(w) ==
  /\ outcome[w] = "NEW_SUCCESS" =>
       /\ token[w] \in 1 .. Len(log)
       /\ \E i \in token[w] + 1 .. Len(log) : log[i].state = Plan[w].to
  /\ outcome[w] = "IDEMPOTENT_SUCCESS" =>
       token[w] \in 1 .. Len(log) /\ log[token[w]].state = Plan[w].to

PollsLeft(w) == stage[w] = "confirm" => probes[w] < Probes

WalkInv(w) ==
  /\ SilentBefore(w) /\ LegalPlan(w) /\ FenceReads(w) /\ HeldWhileAsking(w)
  /\ FlightIsLast(w) /\ OneEffect(w) /\ Receipts(w) /\ DoneIsDecided(w)
  /\ HarmlessIsSilent(w) /\ SuccessSeen(w) /\ PollsLeft(w)

(* The inductive invariant, whatever the provider guarantees. *)
Inv == TypeOK /\ \A w \in Walks : WalkInv(w)

-----------------------------------------------------------------------------
(* The registry's edges join states of the object. *)
LEMMA EdgesJoinStates ==
  ASSUME NEW e \in Edges(Object)
  PROVE  e[1] \in States(Object) /\ e[2] \in States(Object)
BY DEF States

(* Whatever another client writes is a snapshot again. *)
LEMMA OtherSnapshotsTyped ==
  ASSUME NEW s, s.state \in States(Object), s.body \in Body,
         NEW t \in OtherSnapshots(s)
  PROVE  t.state \in States(Object) /\ t.body \in Body
<1>1. CASE t \in Renamed(s)
  <2>1. PICK e \in Edges(Object) : t = [state |-> e[2], body |-> s.body]
    BY <1>1 DEF Renamed
  <2> QED BY <2>1, EdgesJoinStates
<1>2. CASE t \in Rewritten(s)
  <2>1. PICK body \in Published(s) \cup Cleared(s) \cup Reported(s) :
          t = [state |-> s.state, body |-> body]
    BY <1>2 DEF Rewritten
  <2>2. body \in Body
    BY <2>1 DEF Published, Cleared, Reported, Body
  <2> QED BY <2>1, <2>2
<1> QED BY <1>1, <1>2 DEF OtherSnapshots

LogEntry == [state : States(Object), body : Body, by : Walks \cup {Elsewhere}]

(* A write appends one snapshot and leaves history alone. *)
LEMMA WriteAppends ==
  ASSUME log \in Seq(LogEntry), log # << >>, visible \in 1 .. Len(log),
         NEW state \in States(Object), NEW body \in Body,
         NEW author \in Walks \cup {Elsewhere},
         Write(state, body, author)
  PROVE  /\ log' \in Seq(LogEntry) /\ log' # << >>
         /\ Len(log') = Len(log) + 1
         /\ \A i \in 1 .. Len(log) : log'[i] = log[i]
         /\ log'[Len(log) + 1] = [state |-> state, body |-> body, by |-> author]
         /\ visible' = visible
BY DEF Write, LogEntry

(* The invariant holds at first.                                              *)
LEMMA InitInv == Init => Inv
<1> SUFFICES ASSUME Init PROVE Inv
  OBVIOUS
<1> USE DriveAssumption, WalkAssumption, ChannelAssumption DEF Init
<1>1. PICK s \in FirstSnapshots :
        log = <<[state |-> s.state, body |-> s.body, by |-> Elsewhere]>>
  OBVIOUS
<1>2. s.state \in States(Object) /\ s.body \in Body
  BY DEF FirstSnapshots, Body
<1>3. Len(log) = 1 /\ log \in Seq(LogEntry) /\ log # << >> /\ log[1].by = Elsewhere
  BY <1>1, <1>2 DEF LogEntry
<1>4. TypeOK
  BY <1>3 DEF TypeOK, LogEntry, Stage, Undecided, Latest
<1>5. ASSUME NEW w \in Walks PROVE WalkInv(w)
  <2>1. Silent(w) /\ OneEffect(w)
    BY <1>3 DEF Silent, NoEffect, OneEffect
  <2> QED
    BY <2>1 DEF WalkInv, SilentBefore, LegalPlan, FenceReads, HeldWhileAsking,
      FlightIsLast, Receipts, DoneIsDecided, HarmlessIsSilent, SuccessSeen,
      HarmlessOutcome, Undecided, PollsLeft
<1> QED BY <1>4, <1>5 DEF Inv

-----------------------------------------------------------------------------
(* A step of one call, or of another client, leaves the records of a call u      *)
(* alone and appends nothing to the log in its name.                             *)
Untouched(u) ==
  /\ stage'[u] = stage[u] /\ token'[u] = token[u] /\ fenceName'[u] = fenceName[u]
  /\ receipt'[u] = receipt[u] /\ outcome'[u] = outcome[u] /\ probes'[u] = probes[u]
  /\ u \in inFlight' <=> u \in inFlight

LogGrows ==
  /\ Len(log') \in Nat /\ Len(log) \in Nat /\ Len(log') >= Len(log)
  /\ visible \in Nat /\ visible' \in Nat /\ visible <= visible'
  /\ \A i \in 1 .. Len(log) : log'[i] = log[i]

NothingNewBy(u) == \A i \in Len(log) + 1 .. Len(log') : log'[i].by # u

(* A call that a step does not touch stays right while the log grows.         *)
LEMMA BystanderInv ==
  ASSUME TypeOK, NEW u \in Walks, WalkInv(u), Untouched(u), LogGrows, NothingNewBy(u)
  PROVE  WalkInv(u)'
<1> USE DEF Untouched, LogGrows
<1>1. token[u] \in Nat /\ receipt[u] \in Nat /\ visible <= Len(log)
  BY DEF TypeOK, Latest
<1>2. NoEffect(u) => NoEffect(u)'
  BY DEF NoEffect, NothingNewBy
<1>3. SilentBefore(u)'
  BY <1>2 DEF WalkInv, SilentBefore, Silent
<1>4. LegalPlan(u)'
  BY DEF WalkInv, LegalPlan
<1>5. FenceReads(u)'
  BY <1>1 DEF WalkInv, FenceReads, TypeOK
<1>6. HeldWhileAsking(u)'
  <2> SUFFICES ASSUME Held(u) PROVE Held(u)'
    BY DEF WalkInv, HeldWhileAsking
  <2>1. token'[u] \in 1 .. visible' /\ token[u] \in 1 .. Len(log)
    BY <1>1 DEF Held
  <2>2. log'[token'[u]] = log[token[u]]
    BY <2>1
  <2>3. token'[u] = Len(log') => token[u] = Len(log)
    BY <2>1
  <2> QED BY <2>1, <2>2, <2>3 DEF Held
<1>7. FlightIsLast(u)'
  BY <1>1, <1>2 DEF WalkInv, FlightIsLast
<1>8. OneEffect(u)'
  <2> SUFFICES ASSUME NEW i \in 1 .. Len(log'), NEW j \in 1 .. Len(log'),
                      log'[i].by = u, log'[j].by = u
               PROVE  i = j
    BY DEF OneEffect
  <2>1. i \in 1 .. Len(log) /\ j \in 1 .. Len(log)
    BY DEF NothingNewBy
  <2> QED BY <2>1 DEF WalkInv, OneEffect
<1>9. Receipts(u)'
  BY <1>1 DEF WalkInv, Receipts
<1>10. DoneIsDecided(u)' /\ HarmlessIsSilent(u)' /\ PollsLeft(u)'
  BY <1>2 DEF WalkInv, DoneIsDecided, HarmlessIsSilent, Silent, PollsLeft
<1>11. SuccessSeen(u)'
  <2>1. ASSUME outcome'[u] = "NEW_SUCCESS"
        PROVE  /\ token'[u] \in 1 .. Len(log')
               /\ \E i \in token'[u] + 1 .. Len(log') : log'[i].state = Plan[u].to
    <3>1. PICK i \in token[u] + 1 .. Len(log) : log[i].state = Plan[u].to
      BY <2>1 DEF WalkInv, SuccessSeen
    <3>2. token[u] \in 1 .. Len(log)
      BY <2>1 DEF WalkInv, SuccessSeen
    <3>3. i \in token'[u] + 1 .. Len(log') /\ log'[i].state = Plan[u].to
      BY <1>1, <3>1
    <3> QED BY <3>2, <3>3
  <2>2. ASSUME outcome'[u] = "IDEMPOTENT_SUCCESS"
        PROVE  token'[u] \in 1 .. Len(log') /\ log'[token'[u]].state = Plan[u].to
    BY <2>2 DEF WalkInv, SuccessSeen
  <2> QED BY <2>1, <2>2 DEF SuccessSeen
<1> QED
  BY <1>3, <1>4, <1>5, <1>6, <1>7, <1>8, <1>9, <1>10, <1>11 DEF WalkInv

(* A read of metadata moves visibility forward and nothing else.                 *)
LEMMA QuietGrows ==
  ASSUME TypeOK, log' = log, visible' \in visible .. Latest
  PROVE  LogGrows /\ \A u \in Walks : NothingNewBy(u)
BY DEF TypeOK, LogGrows, NothingNewBy, Latest

(* So a step of w that does not write preserves the invariant as soon as it      *)
(* preserves the part about w.                                                   *)
LEMMA QuietStep ==
  ASSUME Inv, log' = log, visible' \in visible .. Latest,
         NEW w \in Walks, \A u \in Walks \ {w} : Untouched(u),
         TypeOK', WalkInv(w)'
  PROVE  Inv'
BY QuietGrows, BystanderInv DEF Inv

(* Before the rename is asked for, a call has changed nothing.  It may go on ...   *)
LEMMA AdvanceEarly ==
  ASSUME Inv, NEW w \in Walks, stage[w] \in Before, stage'[w] \in Before,
         log' = log, inFlight' = inFlight, receipt' = receipt, outcome' = outcome,
         LegalPlan(w)', FenceReads(w)', HeldWhileAsking(w)'
  PROVE  WalkInv(w)'
<1>1. Silent(w) /\ receipt[w] = 0 /\ outcome[w] = Undecided
  BY DEF Inv, WalkInv, SilentBefore, DoneIsDecided, Before
<1>2. Silent(w)' /\ OneEffect(w)'
  BY <1>1 DEF Silent, NoEffect, Inv, WalkInv, OneEffect
<1> QED
  BY <1>1, <1>2 DEF WalkInv, SilentBefore, FlightIsLast, Silent, Receipts,
    DoneIsDecided, HarmlessIsSilent, HarmlessOutcome, SuccessSeen, Before, Undecided,
    PollsLeft

(* ... or report, and then its report is the truth.                                *)
LEMMA ReportEarly ==
  ASSUME Inv, NEW w \in Walks, stage[w] \in Before, stage'[w] = "done",
         log' = log, inFlight' = inFlight, receipt' = receipt,
         outcome'[w] \in Outcome \ {"NEW_SUCCESS"},
         outcome'[w] = "IDEMPOTENT_SUCCESS" =>
           token'[w] \in 1 .. Len(log) /\ log[token'[w]].state = Plan[w].to
  PROVE  WalkInv(w)'
<1>1. Silent(w) /\ receipt[w] = 0
  BY DEF Inv, WalkInv, SilentBefore
<1>2. Silent(w)' /\ OneEffect(w)'
  BY <1>1 DEF Silent, NoEffect, Inv, WalkInv, OneEffect
<1> QED
  BY <1>1, <1>2 DEF WalkInv, SilentBefore, LegalPlan, FenceReads, HeldWhileAsking,
    FlightIsLast, Silent, Receipts, DoneIsDecided, HarmlessIsSilent, SuccessSeen,
    Outcome, Before, Undecided, PollsLeft

(* The pieces the actions are made of keep the types.                              *)
CallsTyped ==
  /\ stage \in [Walks -> Stage]
  /\ attempts \in [Walks -> 0 .. Attempts]
  /\ outcome \in [Walks -> Outcome \cup {Undecided}]

(* Going on and reporting keep the types of the calls.                        *)
LEMMA PiecesTyped ==
  ASSUME CallsTyped, NEW w \in Walks, attempts' = attempts,
         \/ \E next \in Stage : Goto(w, next)
         \/ \E result \in Outcome : Report(w, result)
  PROVE  CallsTyped'
BY DEF CallsTyped, Goto, Report, Stage

(* So does deciding from a name,                                              *)
LEMMA DecideTyped ==
  ASSUME CallsTyped, NEW w \in Walks, NEW name, Decide(w, name)
  PROVE  CallsTyped'
<1>1. CASE UNCHANGED attempts /\ (Report(w, "IDEMPOTENT_SUCCESS") \/ Report(w, "FAILURE"))
  BY <1>1, PiecesTyped DEF Outcome
<1>2. CASE /\ attempts[w] < Attempts
           /\ Goto(w, IF AtomicPrecondition THEN "send" ELSE "check")
           /\ attempts' = [attempts EXCEPT ![w] = @ + 1]
  BY <1>2, WalkAssumption DEF CallsTyped, Goto, Stage
<1> QED BY <1>1, <1>2 DEF Decide

(* ... and from a refusal.                                                    *)
LEMMA RefusedTyped ==
  ASSUME CallsTyped, NEW w \in Walks, attempts' = attempts, Refused(w)
  PROVE  CallsTyped'
BY PiecesTyped DEF Refused, Stage, Outcome

(* What a call holds it still holds where no revision is added.               *)
LEMMA HeldStays ==
  ASSUME TypeOK, NEW w \in Walks, Held(w), log' = log, token' = token,
         visible' \in visible .. Latest
  PROVE  Held(w)'
<1>1. token'[w] \in 1 .. visible'
  BY DEF Held, TypeOK, Latest
<1> QED BY <1>1 DEF Held

(* One lemma for each step of a call: it begins,                              *)
LEMMA BeginInv ==
  ASSUME Inv, NEW w \in Walks, Begin(w)
  PROVE  Inv'
<1> USE DEF Begin, driveVars, Goto, Report
<1>1. log' = log /\ visible' \in visible .. Latest
  BY DEF Inv, TypeOK, Latest
<1>2. TypeOK'
  BY DEF Inv, TypeOK, Stage, Outcome, Latest
<1>3. \A u \in Walks \ {w} : Untouched(u)
  BY DEF Inv, TypeOK, Untouched
<1>4. WalkInv(w)'
  <2>1. CASE Report(w, "STATE_CONFLICT")
    BY <2>1, ReportEarly DEF Inv, TypeOK, Before, Outcome
  <2>2. CASE /\ ValidateTransition(Object, Plan[w].from, Plan[w].to, Plan[w].actor) # "ILLEGAL"
             /\ Goto(w, "read")
    <3>1. stage'[w] = "read" /\ inFlight' = inFlight
      BY <2>2 DEF Inv, TypeOK
    <3>2. w \notin inFlight
      BY DEF Inv, WalkInv, SilentBefore, Silent, Before
    <3>3. LegalPlan(w)' /\ FenceReads(w)' /\ HeldWhileAsking(w)'
      BY <2>2, <3>1, <3>2 DEF LegalPlan, FenceReads, HeldWhileAsking
    <3> QED BY <2>2, <3>1, <3>3, AdvanceEarly DEF Before
  <2> QED BY <2>1, <2>2
<1> QED BY <1>1, <1>2, <1>3, <1>4, QuietStep

(* ... a read of it fails,                                                    *)
LEMMA ReadFailsInv ==
  ASSUME Inv, NEW w \in Walks, ReadFails(w)
  PROVE  Inv'
<1> USE DEF ReadFails, driveVars, Report
<1>1. log' = log /\ visible' \in visible .. Latest
  BY DEF Inv, TypeOK, Latest
<1>2. TypeOK'
  BY DEF Inv, TypeOK, Stage, Outcome, Latest
<1>3. \A u \in Walks \ {w} : Untouched(u)
  BY DEF Inv, TypeOK, Untouched
<1>4. WalkInv(w)'
  BY ReportEarly DEF Inv, TypeOK, Before, Outcome
<1> QED BY <1>1, <1>2, <1>3, <1>4, QuietStep

(* A plan that is not ILLEGAL and joins two different states is an edge of its role. *)
LEMMA LegalMeansEdge ==
  ASSUME NEW w \in Walks, Plan[w].from # Plan[w].to,
         ValidateTransition(Object, Plan[w].from, Plan[w].to, Plan[w].actor) # "ILLEGAL"
  PROVE  <<Plan[w].from, Plan[w].to, Plan[w].actor>> \in Edges(Object)
BY DEF ValidateTransition

(* Decide: the attempt is claimed only by a call that Holds the file.              *)
LEMMA DecideInv ==
  ASSUME Inv, TypeOK', NEW w \in Walks, stage[w] \in {"read", "fenceBody"},
         log' = log, inFlight' = inFlight, receipt' = receipt,
         visible' \in visible .. Latest,
         token'[w] \in 1 .. visible', log[token'[w]].state \in {Plan[w].from, Plan[w].to},
         Plan[w].fenced /\ token'[w] = Len(log) =>
           /\ log[token'[w]].body.operation = Plan[w].operation
           /\ log[token'[w]].body.generation = Plan[w].generation,
         Decide(w, log[token'[w]].state)
  PROVE  WalkInv(w)'
<1> DEFINE name == log[token'[w]].state
<1>0. token'[w] \in 1 .. Len(log)
  BY DEF Inv, TypeOK, Latest
<1>1. CASE name = Plan[w].to /\ Report(w, "IDEMPOTENT_SUCCESS")
  BY <1>0, <1>1, ReportEarly DEF Report, Inv, TypeOK, Before, Outcome
<1>2. CASE name # Plan[w].to /\ Goto(w, IF AtomicPrecondition THEN "send" ELSE "check")
  <2>1. stage'[w] \in {"check", "send"} /\ outcome' = outcome
    BY <1>2 DEF Goto, Inv, TypeOK
  <2>2. ValidateTransition(Object, Plan[w].from, Plan[w].to, Plan[w].actor) # "ILLEGAL"
    BY DEF Inv, WalkInv, LegalPlan
  <2>3. Plan[w].from # Plan[w].to /\ log'[token'[w]].state = Plan[w].from
    BY <1>2
  <2>4. Held(w)'
    BY <2>2, <2>3, LegalMeansEdge DEF Held
  <2>5. LegalPlan(w)' /\ FenceReads(w)' /\ HeldWhileAsking(w)'
    BY <2>1, <2>2, <2>4 DEF LegalPlan, FenceReads, HeldWhileAsking
  <2> QED BY <2>1, <2>5, AdvanceEarly DEF Before
<1>3. CASE name # Plan[w].to /\ Report(w, "FAILURE")
  BY <1>3, ReportEarly DEF Report, Inv, TypeOK, Before, Outcome
<1> QED BY <1>1, <1>2, <1>3 DEF Decide

(* ... it reads the metadata,                                                 *)
LEMMA ReadMetadataInv ==
  ASSUME Inv, NEW w \in Walks, ReadMetadata(w)
  PROVE  Inv'
<1>0. PICK v \in visible .. Latest :
        /\ ReadVersion(v)
        /\ token' = [token EXCEPT ![w] = v]
        /\ CASE log[v].state \notin {Plan[w].from, Plan[w].to} ->
                  Report(w, "STATE_CONFLICT") /\ UNCHANGED attempts
             [] log[v].state \in {Plan[w].from, Plan[w].to} /\ Plan[w].fenced ->
                  Goto(w, "fenceName") /\ UNCHANGED attempts
             [] OTHER -> Decide(w, log[v].state)
  BY DEF ReadMetadata
<1>a. stage[w] = "read" /\ UNCHANGED <<fenceName, probes, receipt, inFlight>>
  BY DEF ReadMetadata
<1>1. log' = log /\ visible' = v /\ visible' \in visible .. Latest
  BY <1>0 DEF ReadVersion
<1>2. TypeOK'
  <2>1. CallsTyped
    BY DEF CallsTyped, Inv, TypeOK
  <2>2. CallsTyped'
    <3>1. CASE attempts' = attempts /\ (Report(w, "STATE_CONFLICT") \/ Goto(w, "fenceName"))
      BY <2>1, <3>1, PiecesTyped DEF Stage, Outcome
    <3>2. CASE Decide(w, log[v].state)
      BY <2>1, <3>2, DecideTyped
    <3>3. CASE log[v].state \notin {Plan[w].from, Plan[w].to}
      BY <1>0, <3>1, <3>3
    <3>4. CASE log[v].state \in {Plan[w].from, Plan[w].to} /\ Plan[w].fenced
      BY <1>0, <3>1, <3>4
    <3>5. CASE log[v].state \in {Plan[w].from, Plan[w].to} /\ ~Plan[w].fenced
      BY <1>0, <3>2, <3>5
    <3>6. Plan[w].fenced \in BOOLEAN
      BY WalkAssumption
    <3> QED BY <3>3, <3>4, <3>5, <3>6
  <2>3. token' \in [Walks -> 0 .. Latest] /\ visible' \in 1 .. Latest
    <3>1. token' = [token EXCEPT ![w] = v] /\ v \in visible .. Latest
      BY <1>0
    <3> QED BY <3>1, <1>1 DEF Inv, TypeOK, Latest
  <2> QED BY <1>a, <1>1, <2>2, <2>3 DEF Inv, TypeOK, Latest, CallsTyped
<1>3. \A u \in Walks \ {w} : Untouched(u)
  BY <1>0, <1>a DEF Inv, TypeOK, Untouched, Decide, Goto, Report
<1>b. token'[w] = v /\ v \in 1 .. Len(log)
  BY <1>0, <1>1 DEF Inv, TypeOK, Latest
<1>4. WalkInv(w)'
  <2>1. CASE Report(w, "STATE_CONFLICT")
    BY <2>1, <1>1, <1>a, ReportEarly DEF Report, Inv, TypeOK, Before, Outcome
  <2>2. CASE log[v].state \in {Plan[w].from, Plan[w].to} /\ Goto(w, "fenceName")
    <3>1. stage'[w] = "fenceName" /\ outcome' = outcome
      BY <2>2 DEF Goto, Inv, TypeOK
    <3>2. w \notin inFlight
      BY <1>a DEF Inv, WalkInv, SilentBefore, Silent, Before
    <3>3. LegalPlan(w)' /\ FenceReads(w)' /\ HeldWhileAsking(w)'
      BY <1>1, <1>a, <1>b, <2>2, <3>1, <3>2
        DEF LegalPlan, FenceReads, HeldWhileAsking, Inv, WalkInv
    <3> QED BY <1>1, <1>a, <3>1, <3>3, AdvanceEarly DEF Before
  <2>3. CASE /\ log[v].state \in {Plan[w].from, Plan[w].to} /\ ~Plan[w].fenced
             /\ Decide(w, log[v].state)
    BY <1>1, <1>2, <1>a, <1>b, <2>3, DecideInv
  <2> QED BY <1>0, <2>1, <2>2, <2>3, WalkAssumption
<1> QED BY <1>1, <1>2, <1>3, <1>4, QuietStep

(* ... the name of the fence,                                                 *)
LEMMA ReadFenceNameInv ==
  ASSUME Inv, NEW w \in Walks, ReadFenceName(w)
  PROVE  Inv'
<1>0. PICK v \in visible .. Latest :
        ReadVersion(v) /\ fenceName' = [fenceName EXCEPT ![w] = v]
  BY DEF ReadFenceName
<1>a. /\ stage[w] = "fenceName" /\ Goto(w, "fenceBody")
      /\ UNCHANGED <<token, attempts, probes, receipt, inFlight>>
  BY DEF ReadFenceName
<1>1. log' = log /\ visible' = v /\ visible' \in visible .. Latest
  BY <1>0 DEF ReadVersion
<1>2. TypeOK'
  BY <1>0, <1>a, <1>1 DEF Inv, TypeOK, Stage, Latest, Goto
<1>3. \A u \in Walks \ {w} : Untouched(u)
  BY <1>0, <1>a DEF Inv, TypeOK, Untouched, Goto
<1>4. stage'[w] = "fenceBody" /\ outcome' = outcome /\ fenceName'[w] = v
  BY <1>0, <1>a DEF Goto, Inv, TypeOK
<1>5. w \notin inFlight
  BY <1>a DEF Inv, WalkInv, SilentBefore, Silent, Before
<1>6. FenceReads(w)'
  BY <1>0, <1>1, <1>a, <1>4 DEF FenceReads, Inv, WalkInv, TypeOK
<1>7. LegalPlan(w)' /\ HeldWhileAsking(w)'
  BY <1>a, <1>4, <1>5 DEF LegalPlan, HeldWhileAsking, Inv, WalkInv
<1>8. WalkInv(w)'
  BY <1>1, <1>a, <1>4, <1>6, <1>7, AdvanceEarly DEF Before
<1> QED BY <1>1, <1>2, <1>3, <1>8, QuietStep

(* ... the body of the fence,                                                 *)
LEMMA ReadFenceBodyInv ==
  ASSUME Inv, NEW w \in Walks, ReadFenceBody(w)
  PROVE  Inv'
<1> DEFINE decision(v) == CompareFence(ExpectedFence(w), ObservedFence(fenceName[w], v))
<1>0. PICK v \in visible .. Latest :
        CASE decision(v) = "STALE" -> Report(w, "STALE_FENCE") /\ UNCHANGED attempts
          [] decision(v) = "MISMATCH" -> Report(w, "STATE_CONFLICT") /\ UNCHANGED attempts
          [] OTHER -> Decide(w, log[token[w]].state)
  BY DEF ReadFenceBody
<1>a. /\ stage[w] = "fenceBody"
      /\ UNCHANGED <<driveVars, token, fenceName, probes, receipt, inFlight>>
  BY DEF ReadFenceBody
<1>1. log' = log /\ visible' \in visible .. Latest /\ token' = token
  BY <1>a DEF driveVars, Inv, TypeOK, Latest
<1>2. TypeOK'
  <2>1. CallsTyped
    BY DEF CallsTyped, Inv, TypeOK
  <2>2. CallsTyped'
    <3>1. CASE attempts' = attempts /\ (Report(w, "STATE_CONFLICT") \/ Report(w, "STALE_FENCE"))
      BY <2>1, <3>1, PiecesTyped DEF Outcome
    <3>2. CASE Decide(w, log[token[w]].state)
      BY <2>1, <3>2, DecideTyped
    <3> QED BY <1>0, <3>1, <3>2
  <2> QED BY <1>0, <1>a, <2>2 DEF Inv, TypeOK, Latest, CallsTyped, driveVars
<1>3. \A u \in Walks \ {w} : Untouched(u)
  BY <1>0, <1>a DEF Inv, TypeOK, Untouched, Decide, Goto, Report
<1>4. WalkInv(w)'
  <2>1. CASE Report(w, "STALE_FENCE") \/ Report(w, "STATE_CONFLICT")
    BY <2>1, <1>1, <1>a, ReportEarly DEF Report, Inv, TypeOK, Before, Outcome
  <2>2. CASE ExpectedFence(w) = ObservedFence(fenceName[w], v) /\ Decide(w, log[token[w]].state)
    <3>1. /\ token[w] \in 1 .. visible
          /\ log[token[w]].state \in {Plan[w].from, Plan[w].to}
      BY <1>a DEF Inv, WalkInv, FenceReads
    <3>2. /\ log[v].body.operation = Plan[w].operation
          /\ log[v].body.generation = Plan[w].generation
      BY <2>2 DEF ExpectedFence, ObservedFence, FenceToken
    <3>3. token[w] = Len(log) => v = token[w]
      BY <3>1, <1>0 DEF Inv, TypeOK, Latest
    <3>4. token'[w] \in 1 .. visible'
      BY <3>1, <1>a DEF driveVars
    <3> QED BY <1>1, <1>2, <1>a, <2>2, <3>1, <3>2, <3>3, <3>4, DecideInv
  <2> QED BY <1>0, <2>1, <2>2 DEF CompareFence
<1> QED BY <1>1, <1>2, <1>3, <1>4, QuietStep

(* Refused: nothing was applied, so the call may begin again.                      *)
LEMMA RefusedInv ==
  ASSUME Inv, NEW w \in Walks, stage[w] \in {"check", "send"},
         log' = log, inFlight' = inFlight, receipt' = receipt, Refused(w)
  PROVE  WalkInv(w)'
<1>1. CASE \E result \in {"STATE_CONFLICT", "FAILURE"} : Report(w, result)
  BY <1>1, ReportEarly DEF Report, Inv, TypeOK, Before, Outcome
<1>2. CASE Goto(w, "read")
  <2>1. stage'[w] = "read" /\ outcome' = outcome
    BY <1>2 DEF Goto, Inv, TypeOK
  <2>2. w \notin inFlight
    BY DEF Inv, WalkInv, SilentBefore, Silent, Before
  <2>3. LegalPlan(w)' /\ FenceReads(w)' /\ HeldWhileAsking(w)'
    BY <2>1, <2>2 DEF LegalPlan, FenceReads, HeldWhileAsking, Inv, WalkInv
  <2> QED BY <2>1, <2>3, AdvanceEarly DEF Before
<1> QED BY <1>1, <1>2 DEF Refused

(* ... the version once more,                                                 *)
LEMMA CheckVersionInv ==
  ASSUME Inv, NEW w \in Walks, CheckVersion(w)
  PROVE  Inv'
<1>a. stage[w] = "check" /\ UNCHANGED <<token, fenceName, attempts, probes, receipt, inFlight>>
  BY DEF CheckVersion
<1>1. log' = log /\ visible' \in visible .. Latest
  BY DEF CheckVersion, ReadVersion, driveVars, Inv, TypeOK, Latest
<1>2. TypeOK'
  <2>1. CallsTyped
    BY DEF CallsTyped, Inv, TypeOK
  <2>2. CASE Refused(w)
    BY <2>1, <2>2, <1>1, <1>a, RefusedTyped DEF Inv, TypeOK, Latest, CallsTyped
  <2>3. CASE Goto(w, "send") \/ Report(w, "STATE_CONFLICT")
    <3>1. CallsTyped'
      BY <2>1, <2>3, <1>a, PiecesTyped DEF Stage, Outcome
    <3> QED BY <3>1, <1>1, <1>a DEF Inv, TypeOK, Latest, CallsTyped
  <2> QED BY <2>2, <2>3 DEF CheckVersion
<1>3. \A u \in Walks \ {w} : Untouched(u)
  BY <1>a DEF CheckVersion, Inv, TypeOK, Untouched, Goto, Report, Refused
<1>4. WalkInv(w)'
  <2>1. CASE Refused(w)
    BY <1>1, <1>a, <2>1, RefusedInv
  <2>2. CASE Report(w, "STATE_CONFLICT")
    BY <2>2, <1>1, <1>a, ReportEarly DEF Report, Inv, TypeOK, Before, Outcome
  <2>3. CASE Goto(w, "send")
    <3>1. stage'[w] = "send" /\ outcome' = outcome
      BY <2>3 DEF Goto, Inv, TypeOK
    <3>2. Held(w)'
      BY <1>1, <1>a, HeldStays DEF Inv, WalkInv, HeldWhileAsking
    <3>3. LegalPlan(w)' /\ FenceReads(w)' /\ HeldWhileAsking(w)'
      BY <1>a, <3>1, <3>2 DEF LegalPlan, FenceReads, HeldWhileAsking, Inv, WalkInv
    <3> QED BY <1>1, <1>a, <3>1, <3>3, AdvanceEarly DEF Before
  <2> QED BY <2>1, <2>2, <2>3 DEF CheckVersion
<1> QED BY <1>1, <1>2, <1>3, <1>4, QuietStep

(* ... its rename is refused,                                                 *)
LEMMA RenameRefusedInv ==
  ASSUME Inv, NEW w \in Walks, RenameRefused(w)
  PROVE  Inv'
<1>a. /\ stage[w] = "send" /\ (Refused(w) \/ Report(w, "STATE_CONFLICT"))
      /\ UNCHANGED <<driveVars, token, fenceName, attempts, probes, receipt, inFlight>>
  BY DEF RenameRefused
<1>1. log' = log /\ visible' \in visible .. Latest
  BY <1>a DEF driveVars, Inv, TypeOK, Latest
<1>2. TypeOK'
  BY <1>a DEF Inv, TypeOK, Stage, Outcome, Latest, Goto, Report, Refused, driveVars
<1>3. \A u \in Walks \ {w} : Untouched(u)
  BY <1>a DEF Inv, TypeOK, Untouched, Goto, Report, Refused
<1>4. WalkInv(w)'
  <2>1. CASE Refused(w)
    BY <1>1, <1>a, <2>1, RefusedInv
  <2>2. CASE Report(w, "STATE_CONFLICT")
    BY <2>2, <1>1, <1>a, ReportEarly DEF Report, Inv, TypeOK, Before, Outcome
  <2> QED BY <1>a, <2>1, <2>2
<1> QED BY <1>1, <1>2, <1>3, <1>4, QuietStep

(* The request is lost or on its way: the call is silent and goes on to confirm.   *)
LEMMA RenameUnansweredInv ==
  ASSUME Inv, NEW w \in Walks, RenameUnanswered(w)
  PROVE  Inv'
<1>a. /\ stage[w] = "send" /\ Goto(w, "confirm")
      /\ receipt' = [receipt EXCEPT ![w] = 0] /\ probes' = [probes EXCEPT ![w] = 0]
      /\ inFlight' \in {inFlight, inFlight \cup {w}}
      /\ UNCHANGED <<driveVars, token, fenceName, attempts>>
  BY DEF RenameUnanswered
<1>1. log' = log /\ visible' \in visible .. Latest
  BY <1>a DEF driveVars, Inv, TypeOK, Latest
<1>2. TypeOK'
  BY <1>a, WalkAssumption DEF Inv, TypeOK, Stage, Latest, Goto, driveVars
<1>3. \A u \in Walks \ {w} : Untouched(u)
  BY <1>a DEF Inv, TypeOK, Untouched, Goto
<1>4. stage'[w] = "confirm" /\ outcome' = outcome /\ receipt'[w] = 0
  BY <1>a DEF Goto, Inv, TypeOK
<1>5. NoEffect(w) /\ outcome[w] = Undecided
  BY <1>a DEF Inv, WalkInv, SilentBefore, Silent, DoneIsDecided, Before
<1>6. NoEffect(w)' /\ OneEffect(w)'
  BY <1>1, <1>5 DEF NoEffect, OneEffect
<1>7. Held(w)'
  BY <1>a, <1>1, HeldStays DEF Inv, WalkInv, HeldWhileAsking
<1>8. LegalPlan(w)' /\ probes'[w] < Probes
  <2>1. LegalPlan(w)'
    BY <1>a, <1>4 DEF Inv, WalkInv, LegalPlan
  <2>2. probes'[w] = 0
    BY <1>a DEF Inv, TypeOK
  <2> QED BY <2>1, <2>2, WalkAssumption
<1>9. WalkInv(w)'
  BY <1>4, <1>5, <1>6, <1>7, <1>8
    DEF WalkInv, SilentBefore, FenceReads, HeldWhileAsking, FlightIsLast, Receipts,
        DoneIsDecided, HarmlessIsSilent, HarmlessOutcome, SuccessSeen, Before, Undecided,
        PollsLeft
<1> QED BY <1>1, <1>2, <1>3, <1>9, QuietStep

(* A probe only reports what it saw, and what it saw is newer than the token.      *)
LEMMA ProbeInv ==
  ASSUME Inv, NEW w \in Walks, Probe(w)
  PROVE  Inv'
<1>a. /\ stage[w] = "confirm" /\ probes' = [probes EXCEPT ![w] = @ + 1]
      /\ UNCHANGED <<token, fenceName, attempts, receipt, inFlight>>
  BY DEF Probe
<1>1. log' = log /\ visible' \in visible .. Latest
  BY DEF Probe, ReadVersion, driveVars, Inv, TypeOK, Latest
<1>b. \/ /\ Report(w, "NEW_SUCCESS")
         /\ \E v \in visible .. Latest : log[v].state = Plan[w].to
      \/ /\ Report(w, "STATE_CONFLICT")
         /\ \E v \in visible .. Latest : log[v].state \notin {Plan[w].from, Plan[w].to}
      \/ Report(w, "UNCONFIRMED")
      \/ Goto(w, "confirm") /\ probes[w] + 1 < Probes
  BY DEF Probe, KeepPolling
<1>2. TypeOK'
  <2>1. CallsTyped
    BY DEF CallsTyped, Inv, TypeOK
  <2>2. CallsTyped'
    BY <2>1, <1>a, <1>b, PiecesTyped DEF Stage, Outcome
  <2>3. probes' \in [Walks -> 0 .. Probes]
    <3>1. probes[w] < Probes
      BY <1>a DEF Inv, WalkInv, PollsLeft
    <3> QED BY <3>1, <1>a, WalkAssumption DEF Inv, TypeOK
  <2> QED BY <2>2, <2>3, <1>1, <1>a DEF Inv, TypeOK, Latest, CallsTyped
<1>3. \A u \in Walks \ {w} : Untouched(u)
  BY <1>a, <1>b DEF Inv, TypeOK, Untouched, Goto, Report
<1>4. Held(w) /\ LegalPlan(w) /\ OneEffect(w) /\ Receipts(w) /\ outcome[w] = Undecided
  BY <1>a DEF Inv, WalkInv, HeldWhileAsking, DoneIsDecided
<1>5. Held(w)'
  BY <1>1, <1>4, <1>a, HeldStays DEF Inv
<1>6. OneEffect(w)' /\ Receipts(w)'
  BY <1>1, <1>4, <1>a DEF OneEffect, Receipts
<1>7. w \in inFlight => NoEffect(w)'
  BY <1>1 DEF Inv, WalkInv, FlightIsLast, NoEffect
<1>8. WalkInv(w)'
  <2>1. CASE Goto(w, "confirm") /\ probes[w] + 1 < Probes
    <3>1. stage'[w] = "confirm" /\ outcome' = outcome /\ probes'[w] < Probes
      BY <2>1, <1>a DEF Goto, Inv, TypeOK
    <3>2. LegalPlan(w)'
      BY <1>4, <1>a, <3>1 DEF LegalPlan
    <3> QED BY <1>4, <1>5, <1>6, <1>7, <1>a, <3>1, <3>2
        DEF WalkInv, SilentBefore, FenceReads, HeldWhileAsking, FlightIsLast,
            DoneIsDecided, HarmlessIsSilent, HarmlessOutcome, SuccessSeen, Before, Undecided,
            PollsLeft
  <2>2. CASE Report(w, "UNCONFIRMED")
    <3>1. stage'[w] = "done" /\ outcome'[w] = "UNCONFIRMED"
      BY <2>2 DEF Report, Inv, TypeOK
    <3> QED BY <1>5, <1>6, <1>7, <1>a, <3>1
        DEF WalkInv, SilentBefore, LegalPlan, FenceReads, HeldWhileAsking, FlightIsLast,
            DoneIsDecided, HarmlessIsSilent, HarmlessOutcome, SuccessSeen, Before, Undecided,
            PollsLeft
  <2>3. CASE /\ \E result \in {"NEW_SUCCESS", "STATE_CONFLICT"} : Report(w, result)
             /\ \E v \in visible .. Latest :
                  /\ log[v].state # Plan[w].from
                  /\ outcome'[w] = "NEW_SUCCESS" => log[v].state = Plan[w].to
    <3>1. stage'[w] = "done" /\ outcome'[w] \in {"NEW_SUCCESS", "STATE_CONFLICT"}
      BY <2>3 DEF Report, Inv, TypeOK
    <3>2. PICK v \in visible .. Latest :
            /\ log[v].state # Plan[w].from
            /\ outcome'[w] = "NEW_SUCCESS" => log[v].state = Plan[w].to
      BY <2>3
    <3>3. v \in token[w] + 1 .. Len(log) /\ token[w] \in 1 .. Len(log)
      BY <1>4, <3>2 DEF Held, Inv, TypeOK, Latest
    <3>4. token'[w] \in Nat /\ token'[w] < Len(log')
      BY <1>1, <1>a, <3>3
    <3>5. SuccessSeen(w)'
      BY <1>1, <1>a, <3>1, <3>2, <3>3 DEF SuccessSeen
    <3> QED BY <1>5, <1>6, <1>7, <1>a, <3>1, <3>4, <3>5
        DEF WalkInv, SilentBefore, LegalPlan, FenceReads, HeldWhileAsking, FlightIsLast,
            DoneIsDecided, HarmlessIsSilent, HarmlessOutcome, Before, Undecided, PollsLeft
  <2>4. CASE /\ Report(w, "NEW_SUCCESS")
             /\ \E v \in visible .. Latest : log[v].state = Plan[w].to
    BY <1>4, <2>3, <2>4 DEF Held
  <2>5. CASE /\ Report(w, "STATE_CONFLICT")
             /\ \E v \in visible .. Latest : log[v].state \notin {Plan[w].from, Plan[w].to}
    <3>1. outcome'[w] = "STATE_CONFLICT"
      BY <2>5 DEF Report, Inv, TypeOK
    <3> QED BY <2>3, <2>5, <3>1
  <2> QED BY <1>b, <2>1, <2>2, <2>4, <2>5
<1> QED BY <1>1, <1>2, <1>3, <1>8, QuietStep

(* The newest snapshot is a snapshot.                                         *)
LEMMA CurrentTyped ==
  ASSUME TypeOK
  PROVE  Current.state \in States(Object) /\ Current.body \in Body
<1>1. log \in Seq(LogEntry) /\ Len(log) \in 1 .. Len(log)
  BY DEF TypeOK, LogEntry
<1>2. log[Len(log)] \in LogEntry
  BY <1>1
<1> QED BY <1>2 DEF Current, Latest, LogEntry

(* Any write lets the log grow by one entry of its author.                         *)
LEMMA WriteGrows ==
  ASSUME TypeOK, NEW state \in States(Object), NEW body \in Body,
         NEW author \in Walks \cup {Elsewhere}, Write(state, body, author)
  PROVE  /\ LogGrows
         /\ Len(log') = Len(log) + 1 /\ visible' = visible
         /\ log'[Len(log) + 1] = [state |-> state, body |-> body, by |-> author]
         /\ log' \in Seq(LogEntry) /\ log' # << >>
         /\ \A u \in Walks : u # author => NothingNewBy(u)
<1>1. log \in Seq(LogEntry) /\ log # << >> /\ visible \in 1 .. Len(log)
  BY DEF TypeOK, LogEntry, Latest
<1>2. /\ log' \in Seq(LogEntry) /\ log' # << >>
      /\ Len(log') = Len(log) + 1
      /\ \A i \in 1 .. Len(log) : log'[i] = log[i]
      /\ log'[Len(log) + 1] = [state |-> state, body |-> body, by |-> author]
      /\ visible' = visible
  BY <1>1, WriteAppends
<1>3. LogGrows
  BY <1>1, <1>2 DEF LogGrows
<1>4. ASSUME NEW u \in Walks, u # author PROVE NothingNewBy(u)
  BY <1>1, <1>2, <1>4 DEF NothingNewBy
<1> QED BY <1>2, <1>3, <1>4

(* A larger log is still typed.                                                    *)
LEMMA GrownTyped ==
  ASSUME TypeOK, LogGrows, log' \in Seq(LogEntry), log' # << >>, visible' = visible,
         stage' \in [Walks -> Stage], token' = token, fenceName' = fenceName,
         attempts' = attempts, probes' \in [Walks -> 0 .. Probes],
         receipt' \in [Walks -> 0 .. Len(log')],
         outcome' = outcome, inFlight' \subseteq Walks
  PROVE  TypeOK'
<1>1. visible' \in 1 .. Len(log')
  BY DEF TypeOK, LogGrows, Latest
<1>2. token' \in [Walks -> 0 .. Len(log')] /\ fenceName' \in [Walks -> 0 .. Len(log')]
  BY DEF TypeOK, LogGrows, Latest
<1> QED BY <1>1, <1>2 DEF TypeOK, LogEntry, Latest

(* The first rename of w is its only one.                                          *)
LEMMA FirstEffect ==
  ASSUME TypeOK, NEW w \in Walks, NoEffect(w), RenameObject(w)
  PROVE  /\ LogGrows /\ Len(log') = Len(log) + 1 /\ visible' = visible
         /\ log' \in Seq(LogEntry) /\ log' # << >>
         /\ log'[Len(log) + 1] = [state |-> Plan[w].to, body |-> Current.body, by |-> w]
         /\ OneEffect(w)'
         /\ \A u \in Walks \ {w} : NothingNewBy(u)
<1>1. /\ LogGrows /\ Len(log') = Len(log) + 1 /\ visible' = visible
      /\ log' \in Seq(LogEntry) /\ log' # << >>
      /\ log'[Len(log) + 1] = [state |-> Plan[w].to, body |-> Current.body, by |-> w]
      /\ \A u \in Walks : u # w => NothingNewBy(u)
  BY CurrentTyped, WriteGrows, WalkAssumption DEF RenameObject
<1>2. ASSUME NEW i \in 1 .. Len(log'), log'[i].by = w PROVE i = Len(log) + 1
  BY <1>1, <1>2 DEF NoEffect, LogGrows
<1> QED BY <1>1, <1>2 DEF OneEffect

(* ... or applied.                                                            *)
LEMMA RenameAppliedInv ==
  ASSUME Inv, NEW w \in Walks, RenameApplied(w)
  PROVE  Inv'
<1>a. /\ stage[w] = "send" /\ RenameObject(w) /\ Goto(w, "confirm")
      /\ probes' = [probes EXCEPT ![w] = 0]
      /\ \E answer \in {0, Latest + 1} : receipt' = [receipt EXCEPT ![w] = answer]
      /\ UNCHANGED <<token, fenceName, attempts, inFlight>>
  BY DEF RenameApplied
<1>1. NoEffect(w) /\ w \notin inFlight /\ outcome[w] = Undecided
  BY <1>a DEF Inv, WalkInv, SilentBefore, Silent, DoneIsDecided, Before
<1>2. /\ LogGrows /\ Len(log') = Len(log) + 1 /\ visible' = visible
      /\ log' \in Seq(LogEntry) /\ log' # << >>
      /\ log'[Len(log) + 1] = [state |-> Plan[w].to, body |-> Current.body, by |-> w]
      /\ OneEffect(w)'
      /\ \A u \in Walks \ {w} : NothingNewBy(u)
  BY <1>a, <1>1, FirstEffect DEF Inv
<1>3. TypeOK'
  <2>1. stage' \in [Walks -> Stage] /\ outcome' = outcome
    BY <1>a DEF Goto, Inv, TypeOK, Stage
  <2>2. probes' \in [Walks -> 0 .. Probes]
    BY <1>a, WalkAssumption DEF Inv, TypeOK
  <2>3. receipt' \in [Walks -> 0 .. Len(log')]
    BY <1>a, <1>2 DEF Inv, TypeOK, Latest, LogGrows
  <2> QED BY <1>a, <1>2, <2>1, <2>2, <2>3, GrownTyped DEF Inv, TypeOK
<1>4. \A u \in Walks \ {w} : Untouched(u)
  BY <1>a DEF Inv, TypeOK, Untouched, Goto
<1>5. \A u \in Walks \ {w} : WalkInv(u)'
  BY <1>2, <1>4, BystanderInv DEF Inv
<1>6. stage'[w] = "confirm" /\ outcome'[w] = Undecided
  BY <1>a, <1>1 DEF Goto, Inv, TypeOK
<1>7. WalkInv(w)'
  <2>1. Held(w)
    BY <1>a DEF Inv, WalkInv, HeldWhileAsking
  <2>2. token'[w] \in 1 .. visible' /\ token[w] \in 1 .. Len(log)
    BY <2>1, <1>2, <1>a DEF Held, Inv, TypeOK, Latest
  <2>3. Held(w)'
    BY <2>1, <2>2, <1>2, <1>a DEF Held, LogGrows
  <2>4. Receipts(w)'
    BY <1>a, <1>2 DEF Receipts, Inv, TypeOK, Latest, LogGrows
  <2>5. LegalPlan(w)'
    BY <1>a, <1>6 DEF Inv, WalkInv, LegalPlan
  <2>6. PollsLeft(w)'
    <3>1. probes'[w] = 0
      BY <1>a DEF Inv, TypeOK
    <3> QED BY <3>1, WalkAssumption DEF PollsLeft
  <2> QED BY <1>1, <1>2, <1>6, <1>a, <2>3, <2>4, <2>5, <2>6
      DEF WalkInv, SilentBefore, FenceReads, HeldWhileAsking, FlightIsLast,
          DoneIsDecided, HarmlessIsSilent, HarmlessOutcome, SuccessSeen, Before, Undecided
<1> QED BY <1>3, <1>5, <1>7 DEF Inv

(* A request that arrives late is the only effect of a call that asked once.       *)
LEMMA LateRenameInv ==
  ASSUME Inv, NEW w \in Walks, LateRename(w)
  PROVE  Inv'
<1>a. /\ w \in inFlight /\ inFlight' = inFlight \ {w} /\ UNCHANGED callVars
      /\ RenameObject(w) \/ UNCHANGED driveVars
  BY DEF LateRename
<1>b. UNCHANGED <<stage, token, fenceName, attempts, probes, receipt, outcome>>
  BY <1>a DEF callVars
<1>1. NoEffect(w) /\ stage[w] \in {"confirm", "done"} /\ Held(w)
  BY <1>a DEF Inv, WalkInv, FlightIsLast, HeldWhileAsking
<1>2. \A u \in Walks \ {w} : Untouched(u)
  BY <1>a, <1>b DEF Untouched
<1>3. CASE UNCHANGED driveVars
  <2>1. log' = log /\ visible' \in visible .. Latest
    BY <1>3 DEF driveVars, Inv, TypeOK, Latest
  <2>2. TypeOK'
    BY <1>3, <1>a, <1>b DEF driveVars, Inv, TypeOK, Latest
  <2>3. Held(w)'
    BY <1>1, <1>b, <2>1, HeldStays DEF Inv
  <2>4. NoEffect(w)' /\ OneEffect(w)'
    BY <1>1, <2>1 DEF NoEffect, OneEffect
  <2>5. WalkInv(w)'
    BY <1>1, <1>a, <1>b, <2>1, <2>3, <2>4
      DEF Inv, WalkInv, SilentBefore, Silent, LegalPlan, FenceReads, HeldWhileAsking,
          FlightIsLast, Receipts, DoneIsDecided, HarmlessIsSilent, SuccessSeen,
          PollsLeft, Before
  <2> QED BY <1>2, <2>1, <2>2, <2>5, QuietStep
<1>4. CASE RenameObject(w)
  <2>1. /\ LogGrows /\ Len(log') = Len(log) + 1 /\ visible' = visible
        /\ log' \in Seq(LogEntry) /\ log' # << >>
        /\ OneEffect(w)'
        /\ \A u \in Walks \ {w} : NothingNewBy(u)
    BY <1>1, <1>4, FirstEffect DEF Inv
  <2>2. TypeOK'
    <3>1. receipt' \in [Walks -> 0 .. Len(log')] /\ inFlight' \subseteq Walks
      BY <1>a, <1>b, <2>1 DEF Inv, TypeOK, Latest, LogGrows
    <3> QED BY <3>1, <1>b, <2>1, GrownTyped DEF Inv, TypeOK
  <2>3. \A u \in Walks \ {w} : WalkInv(u)'
    BY <1>2, <2>1, BystanderInv DEF Inv
  <2>4. token[w] \in 1 .. visible /\ visible \in 1 .. Len(log)
    BY <1>1 DEF Held, Inv, TypeOK, Latest
  <2>5. Held(w)'
    BY <1>1, <1>b, <2>1, <2>4 DEF Held, LogGrows
  <2>6. Receipts(w)'
    BY <1>b, <2>1 DEF Inv, WalkInv, Receipts, LogGrows
  <2>7. outcome[w] \notin HarmlessOutcome
    BY <1>a DEF Inv, WalkInv, HarmlessIsSilent, Silent
  <2>8. SuccessSeen(w)'
    <3>1. ASSUME outcome[w] = "NEW_SUCCESS"
          PROVE  \E i \in token'[w] + 1 .. Len(log') : log'[i].state = Plan[w].to
      <4>1. PICK i \in token[w] + 1 .. Len(log) : log[i].state = Plan[w].to
        BY <3>1 DEF Inv, WalkInv, SuccessSeen
      <4>2. i \in token'[w] + 1 .. Len(log') /\ log'[i].state = Plan[w].to
        BY <4>1, <1>b, <2>1, <2>4 DEF LogGrows
      <4> QED BY <4>2
    <3> QED BY <3>1, <1>b, <2>1, <2>4, <2>7 DEF SuccessSeen, HarmlessOutcome
  <2>9. WalkInv(w)'
    BY <1>1, <1>a, <1>b, <2>1, <2>5, <2>6, <2>7, <2>8
      DEF Inv, WalkInv, SilentBefore, LegalPlan, FenceReads, HeldWhileAsking,
          FlightIsLast, DoneIsDecided, HarmlessIsSilent, PollsLeft, Before
  <2> QED BY <2>2, <2>3, <2>9 DEF Inv
<1> QED BY <1>a, <1>3, <1>4

(* What other writers do,                                                     *)
LEMMA OthersInv ==
  ASSUME Inv, Others
  PROVE  Inv'
<1>1. PICK s \in OtherSnapshots(Current) : Write(s.state, s.body, Elsewhere)
  BY DEF Others, OtherWriter
<1>a. UNCHANGED <<stage, token, fenceName, attempts, probes, receipt, outcome, inFlight>>
  BY DEF Others, callVars
<1>2. s.state \in States(Object) /\ s.body \in Body
  BY CurrentTyped, OtherSnapshotsTyped DEF Inv
<1>3. /\ LogGrows /\ visible' = visible /\ log' \in Seq(LogEntry) /\ log' # << >>
      /\ \A u \in Walks : u # Elsewhere => NothingNewBy(u)
  BY <1>1, <1>2, WriteGrows DEF Inv
<1>4. \A u \in Walks : Untouched(u) /\ NothingNewBy(u)
  BY <1>a, <1>3, WalkAssumption DEF Untouched
<1>5. TypeOK'
  <2>1. receipt' \in [Walks -> 0 .. Len(log')]
    BY <1>a, <1>3 DEF Inv, TypeOK, Latest, LogGrows
  <2> QED BY <2>1, <1>a, <1>3, GrownTyped DEF Inv, TypeOK
<1> QED BY <1>3, <1>4, <1>5, BystanderInv DEF Inv

(* ... and a step of somebody else's, leave it.                               *)
LEMMA StutterInv ==
  ASSUME Inv, UNCHANGED vars
  PROVE  Inv'
<1>1. /\ LogGrows /\ \A u \in Walks : NothingNewBy(u)
  BY QuietGrows DEF Inv, TypeOK, vars, Latest
<1>2. \A u \in Walks : Untouched(u)
  BY DEF vars, callVars, Untouched
<1>3. TypeOK'
  BY DEF Inv, TypeOK, vars, callVars, Latest
<1> QED BY <1>1, <1>2, <1>3, BystanderInv DEF Inv

(* Together: every step keeps the invariant,                                  *)
LEMMA NextInv == Inv /\ [Next]_vars => Inv'
<1> SUFFICES ASSUME Inv, [Next]_vars PROVE Inv'
  OBVIOUS
<1>1. CASE UNCHANGED vars
  BY <1>1, StutterInv
<1>2. CASE Others
  BY <1>2, OthersInv
<1>3. ASSUME NEW w \in Walks, LateRename(w) PROVE Inv'
  BY <1>3, LateRenameInv
<1>4. ASSUME NEW w \in Walks, WalkStep(w) PROVE Inv'
  BY <1>4, BeginInv, ReadMetadataInv, ReadFenceNameInv, ReadFenceBodyInv, ReadFailsInv,
     CheckVersionInv, RenameAppliedInv, RenameRefusedInv, RenameUnansweredInv, ProbeInv
     DEF WalkStep, AtomicStep
<1> QED BY <1>1, <1>2, <1>3, <1>4 DEF Next

-----------------------------------------------------------------------------
(* ... so that it always holds.                                               *)
LEMMA InvAlways == Spec => []Inv
BY InitInv, NextInv, PTL DEF Spec

(* Types, for every provider and every set of walks. *)
THEOREM WalkerTypes == Spec => []TypeOK
<1>1. Inv => TypeOK
  BY DEF Inv
<1> QED BY <1>1, InvAlways, PTL

(* No walk renames twice: not after a transient refusal, and not after an          *)
(* ambiguous answer whose request lands late - with or without an atomic           *)
(* precondition (state_walker.py:330-332).                                         *)
THEOREM WalkerRenamesOnce == Spec => []AtMostOneEffect
<1>1. Inv => AtMostOneEffect
  <2> SUFFICES ASSUME Inv, NEW w \in Walks, NEW i \in EffectsOf(w), NEW j \in EffectsOf(w)
               PROVE  i = j
    BY DEF AtMostOneEffect
  <2>1. i \in 1 .. Len(log) /\ j \in 1 .. Len(log) /\ log[i].by = w /\ log[j].by = w
    BY DEF EffectsOf, Inv, TypeOK
  <2> QED BY <2>1 DEF Inv, WalkInv, OneEffect
<1> QED BY <1>1, InvAlways, PTL

(* FAILURE, STALE_FENCE and IDEMPOTENT_SUCCESS exclude an effect, past or pending.  *)
THEOREM WalkerHarmless == Spec => []HarmlessMeansNoEffect
<1>1. Inv => HarmlessMeansNoEffect
  BY DEF Inv, WalkInv, HarmlessIsSilent, Silent, NoEffect, HarmlessMeansNoEffect, EffectsOf, TypeOK
<1> QED BY <1>1, InvAlways, PTL

(* A reported success was in the log.                                              *)
THEOREM WalkerSuccess == Spec => []SuccessIsRemote
<1>1. Inv => SuccessIsRemote
  <2> SUFFICES ASSUME Inv, NEW w \in Walks
               PROVE  /\ outcome[w] = "NEW_SUCCESS" =>
                           /\ \E i \in token[w] + 1 .. Latest : log[i].state = Plan[w].to
                           /\ receipt[w] # 0 => receipt[w] \in EffectsOf(w)
                      /\ outcome[w] = "IDEMPOTENT_SUCCESS" => log[token[w]].state = Plan[w].to
    BY DEF SuccessIsRemote
  <2>1. SuccessSeen(w) /\ Receipts(w) /\ DOMAIN log = 1 .. Len(log)
    BY DEF Inv, WalkInv, TypeOK
  <2>2. receipt[w] # 0 => receipt[w] \in EffectsOf(w)
    BY <2>1 DEF Receipts, EffectsOf
  <2> QED BY <2>1, <2>2 DEF SuccessSeen, Latest
<1> QED BY <1>1, InvAlways, PTL

-----------------------------------------------------------------------------
(* What follows assumes a provider that checks the version and renames in one step. *)

(* A call holds the file at its latest version, has not renamed it before, and     *)
(* renames it now.                                                                 *)
OwnedRename(w) ==
  /\ Held(w) /\ token[w] = Len(log) /\ NoEffect(w)
  /\ stage[w] = "send" \/ w \in inFlight
  /\ RenameObject(w)
  /\ outcome' = outcome

(* A rename that is applied, in time or late, is one that its call was owed.  *)
LEMMA RenamesAreOwned ==
  ASSUME Inv, AtomicPrecondition, NEW w \in Walks,
         RenameApplied(w) \/ (LateRename(w) /\ RenameObject(w))
  PROVE  OwnedRename(w)
<1>1. WalkInv(w)
  BY DEF Inv
<1>2. stage[w] = "send" \/ w \in inFlight
  BY DEF RenameApplied, LateRename
<1>3. Held(w) /\ NoEffect(w)
  BY <1>1, <1>2 DEF WalkInv, SilentBefore, Silent, Before, HeldWhileAsking, FlightIsLast
<1>4. RenameObject(w) /\ outcome' = outcome
  BY DEF RenameApplied, LateRename, Goto, callVars
<1>5. Len(log') = Len(log) + 1 /\ Len(log) \in Nat
  BY <1>3, <1>4, FirstEffect DEF Inv, LogGrows
<1>6. log' # log
  BY <1>5
<1>7. token[w] = Len(log)
  BY <1>6 DEF RenameApplied, LateRename, PreconditionHolds, driveVars, Latest
<1> QED BY <1>2, <1>3, <1>4, <1>7 DEF OwnedRename

(* Every other step of a call leaves the log alone.                                *)
LEMMA OtherStepsKeepLog ==
  ASSUME NEW w \in Walks, WalkStep(w) \/ LateRename(w),
         ~RenameApplied(w), ~(LateRename(w) /\ RenameObject(w))
  PROVE  log' = log
<1>1. CASE LateRename(w)
  BY <1>1 DEF LateRename, driveVars
<1>2. CASE Begin(w) \/ ReadFenceBody(w) \/ ReadFails(w) \/ RenameRefused(w) \/ RenameUnanswered(w)
  BY <1>2 DEF Begin, ReadFenceBody, ReadFails, RenameRefused, RenameUnanswered, driveVars
<1>3. CASE ReadMetadata(w) \/ ReadFenceName(w)
  BY <1>3 DEF ReadMetadata, ReadFenceName, ReadVersion
<1>4. CASE CheckVersion(w)
  BY <1>4 DEF CheckVersion, ReadVersion, driveVars
<1>5. CASE Probe(w)
  BY <1>5 DEF Probe, ReadVersion, driveVars
<1> QED BY <1>1, <1>2, <1>3, <1>4, <1>5 DEF WalkStep, AtomicStep

(* A step writes nothing, or another writer writes, or a call renames what it *)
(* owns.                                                                      *)
LEMMA StepWrites ==
  ASSUME Inv, AtomicPrecondition, [Next]_vars
  PROVE  \/ log' = log
         \/ OtherWriter /\ outcome' = outcome
         \/ \E w \in Walks : OwnedRename(w)
<1>1. CASE UNCHANGED vars
  BY <1>1 DEF vars
<1>2. CASE Others
  BY <1>2 DEF Others, callVars
<1>3. ASSUME NEW w \in Walks, WalkStep(w) \/ LateRename(w)
      PROVE  log' = log \/ OwnedRename(w)
  BY <1>3, RenamesAreOwned, OtherStepsKeepLog
<1> QED BY <1>1, <1>2, <1>3 DEF Next

(* What the log becomes when a call that owns the file renames it.                 *)
LEMMA OwnedRenameGrows ==
  ASSUME TypeOK, NEW w \in Walks, OwnedRename(w)
  PROVE  /\ Len(log) \in Nat \ {0} /\ Len(log') = Len(log) + 1
         /\ \A i \in 1 .. Len(log) : log'[i] = log[i]
         /\ log'[Len(log) + 1] = [state |-> Plan[w].to, body |-> Current.body, by |-> w]
<1>1. Len(log) \in Nat \ {0}
  BY DEF TypeOK
<1> QED BY <1>1, FirstEffect DEF OwnedRename, LogGrows

(* Another writer adds one entry of its own.                                  *)
LEMMA OthersGrow ==
  ASSUME TypeOK, OtherWriter
  PROVE  /\ Len(log) \in Nat \ {0} /\ Len(log') = Len(log) + 1
         /\ \A i \in 1 .. Len(log) : log'[i] = log[i]
         /\ \E s \in OtherSnapshots(Current) :
              log'[Len(log) + 1] = [state |-> s.state, body |-> s.body, by |-> Elsewhere]
<1>1. PICK s \in OtherSnapshots(Current) : Write(s.state, s.body, Elsewhere)
  BY DEF OtherWriter
<1>2. s.state \in States(Object) /\ s.body \in Body
  BY CurrentTyped, OtherSnapshotsTyped
<1>3. Len(log) \in Nat \ {0}
  BY DEF TypeOK
<1> QED BY <1>1, <1>2, <1>3, WriteGrows DEF LogGrows

(* A call that holds the file at its latest version owns it.                       *)
LEMMA HeldOwns ==
  ASSUME NEW w \in Walks, Held(w), token[w] = Len(log)
  PROVE  /\ Current.state = Plan[w].from
         /\ <<Plan[w].from, Plan[w].to, Plan[w].actor>> \in Edges(Object)
         /\ Plan[w].fenced => /\ Current.body.operation = Plan[w].operation
                              /\ Current.body.generation = Plan[w].generation
         /\ Plan[w].from # Plan[w].to
BY DEF Held, Current, Latest

(* No walk ever renames a file it does not own: a worker whose generation has      *)
(* passed cannot touch the newer job (FAILURE_RECOVERY.md:60), whoever moved the   *)
(* file between the fence read and the rename.                                     *)
OwnedAt(i, w) == log[i].by = w => i > 1 /\ OwnedEffect(w, log[i - 1], log[i])
AllOwned == \A i \in 1 .. Len(log), w \in Walks : OwnedAt(i, w)

(* What was owned stays owned.                                                *)
LEMMA OldEntriesOwned ==
  ASSUME AllOwned, Len(log) \in Nat \ {0},
         \A i \in 1 .. Len(log) : log'[i] = log[i],
         NEW i \in 1 .. Len(log), NEW w \in Walks
  PROVE  OwnedAt(i, w)'
<1>1. OwnedAt(i, w) /\ log'[i] = log[i]
  BY DEF AllOwned
<1>2. i > 1 => log'[i - 1] = log[i - 1]
  OBVIOUS
<1> QED BY <1>1, <1>2 DEF OwnedAt, OwnedEffect

(* If the new entry is owned, all are.                                        *)
LEMMA NewEntryOwned ==
  ASSUME AllOwned, Len(log) \in Nat \ {0}, Len(log') = Len(log) + 1,
         \A i \in 1 .. Len(log) : log'[i] = log[i],
         \A w \in Walks : log'[Len(log) + 1].by = w => OwnedEffect(w, log[Len(log)], log'[Len(log) + 1])
  PROVE  AllOwned'
<1> SUFFICES ASSUME NEW i \in 1 .. Len(log) + 1, NEW w \in Walks PROVE OwnedAt(i, w)'
  BY DEF AllOwned
<1>1. CASE i \in 1 .. Len(log)
  BY <1>1, OldEntriesOwned
<1>2. CASE i = Len(log) + 1
  <2>1. i > 1 /\ i - 1 = Len(log) /\ log'[i - 1] = log[Len(log)]
    BY <1>2
  <2>2. log'[i].by = w => OwnedEffect(w, log'[i - 1], log'[i])
    BY <1>2, <2>1
  <2> QED BY <2>1, <2>2 DEF OwnedAt, OwnedEffect
<1> QED BY <1>1, <1>2

(* Every entry of the log that a call made is the one rename it was asked     *)
(* for, on the state it may leave (state_walker.py, walk), where the store    *)
(* checks preconditions atomically.                                           *)
THEOREM WalkerEffectsOwned == AtomicPrecondition => (Spec => []EffectsAreOwned)
<1>1. Init => AllOwned
  <2>1. ASSUME Init PROVE Len(log) = 1 /\ log[1].by = Elsewhere
    BY <2>1 DEF Init
  <2>2. ASSUME Len(log) = 1, log[1].by = Elsewhere, NEW i \in 1 .. Len(log), NEW w \in Walks
        PROVE  OwnedAt(i, w)
    <3>1. i = 1
      BY <2>2
    <3> QED BY <2>2, <3>1, WalkAssumption DEF OwnedAt
  <2> QED BY <2>1, <2>2 DEF AllOwned
<1>2. ASSUME AtomicPrecondition, Inv, AllOwned, [Next]_vars PROVE AllOwned'
  <2>1. CASE log' = log
    BY <1>2, <2>1 DEF AllOwned, OwnedAt, OwnedEffect
  <2>2. CASE OtherWriter
    <3>1. /\ Len(log) \in Nat \ {0} /\ Len(log') = Len(log) + 1
          /\ \A i \in 1 .. Len(log) : log'[i] = log[i]
      BY <1>2, <2>2, OthersGrow DEF Inv
    <3>2. PICK s \in OtherSnapshots(Current) :
            log'[Len(log) + 1] = [state |-> s.state, body |-> s.body, by |-> Elsewhere]
      BY <1>2, <2>2, OthersGrow DEF Inv
    <3> QED BY <1>2, <3>1, <3>2, NewEntryOwned, WalkAssumption
  <2>3. ASSUME NEW u \in Walks, OwnedRename(u) PROVE AllOwned'
    <3>1. /\ Len(log) \in Nat \ {0} /\ Len(log') = Len(log) + 1
          /\ \A i \in 1 .. Len(log) : log'[i] = log[i]
          /\ log'[Len(log) + 1] = [state |-> Plan[u].to, body |-> Current.body, by |-> u]
      BY <1>2, <2>3, OwnedRenameGrows DEF Inv
    <3>2. OwnedEffect(u, log[Len(log)], log'[Len(log) + 1])
      BY <2>3, <3>1, HeldOwns DEF OwnedRename, OwnedEffect, Current, Latest
    <3> QED BY <1>2, <3>1, <3>2, NewEntryOwned
  <2> QED BY <1>2, <2>1, <2>2, <2>3, StepWrites
<1>3. ASSUME Inv, AllOwned PROVE EffectsAreOwned
  <2> SUFFICES ASSUME NEW w \in Walks, NEW i \in EffectsOf(w)
               PROVE  i > 1 /\ OwnedEffect(w, log[i - 1], log[i])
    BY DEF EffectsAreOwned
  <2>1. i \in 1 .. Len(log) /\ log[i].by = w
    BY <1>3 DEF EffectsOf, Inv, TypeOK
  <2> QED BY <1>3, <2>1 DEF AllOwned, OwnedAt
<1> SUFFICES ASSUME AtomicPrecondition PROVE Spec => []EffectsAreOwned
  OBVIOUS
<1>4. Inv /\ AllOwned /\ [Next]_vars => AllOwned'
  BY <1>2
<1>5. Inv /\ AllOwned => EffectsAreOwned
  BY <1>3
<1> QED BY <1>1, <1>4, <1>5, InvAlways, PTL DEF Spec

-----------------------------------------------------------------------------
(* StateWalker implements AtomicWalk: the step that appends the rename is the     *)
(* atomic move, the step that reports is the answer, everything else a stutter.    *)
Moved == {w \in Walks : EffectsOf(w) # {}}
File == [state |-> Current.state, body |-> Current.body]

(* A call has moved the file in the abstract specification when the log has   *)
(* its entry.                                                                 *)
LEMMA MovedMeansEffect ==
  ASSUME TypeOK, NEW w \in Walks
  PROVE  w \in Moved <=> ~NoEffect(w)
BY DEF TypeOK, Moved, EffectsOf, NoEffect

(* Where the log stays, so does the abstract file.                            *)
LEMMA LogFixesFile ==
  ASSUME log' = log
  PROVE  File' = File /\ Moved' = Moved
BY DEF File, Moved, EffectsOf, Current, Latest

(* A new entry by somebody adds that walk to those that moved, and nobody else.     *)
LEMMA NewEntryMoves ==
  ASSUME TypeOK, TypeOK', Len(log) \in Nat \ {0}, Len(log') = Len(log) + 1,
         \A i \in 1 .. Len(log) : log'[i] = log[i]
  PROVE  Moved' = Moved \cup {w \in Walks : log'[Len(log) + 1].by = w}
<1>1. DOMAIN log = 1 .. Len(log) /\ DOMAIN log' = 1 .. Len(log) + 1
  BY DEF TypeOK
<1>2. ASSUME NEW w \in Walks
      PROVE  w \in Moved' <=> (w \in Moved \/ log'[Len(log) + 1].by = w)
  <2>1. w \in Moved' <=> \E i \in 1 .. Len(log) + 1 : log'[i].by = w
    BY <1>1 DEF Moved, EffectsOf
  <2>2. w \in Moved <=> \E i \in 1 .. Len(log) : log[i].by = w
    BY <1>1 DEF Moved, EffectsOf
  <2> QED BY <2>1, <2>2
<1> QED BY <1>2 DEF Moved

(* The abstract specification speaks of the same registry and the same channel.     *)
LEMMA SameRegistry ==
  /\ Atomic!Edges(Object) = Edges(Object)
  /\ Atomic!States(Object) = States(Object)
  /\ \A state : Atomic!BodyWriters(Object, state) = BodyWriters(Object, state)
  /\ \A a, b, c : Atomic!ValidateTransition(Object, a, b, c) = ValidateTransition(Object, a, b, c)
<1> USE DEF Atomic!Coach, Coach, Atomic!Fetcher, Fetcher, Atomic!Watchdog, Watchdog
<1>1. \A o : Atomic!Terminal(o) = Terminal(o)
  BY DEF Atomic!Terminal, Terminal, Atomic!ResultStates, ResultStates
<1>2. \A p, t : Atomic!CoachEdges(p, t) = CoachEdges(p, t)
  BY DEF Atomic!CoachEdges, CoachEdges
<1>3. Atomic!Edges(Object) = Edges(Object)
  BY <1>1, <1>2 DEF Atomic!Edges, Edges, Atomic!ResultStates, ResultStates
<1>4. Atomic!States(Object) = States(Object)
  BY <1>3 DEF Atomic!States, States
<1>5. \A state : Atomic!BodyWriters(Object, state) = BodyWriters(Object, state)
  BY DEF Atomic!BodyWriters, BodyWriters
<1>6. \A a, b, c : Atomic!ValidateTransition(Object, a, b, c) = ValidateTransition(Object, a, b, c)
  BY <1>3, <1>4 DEF Atomic!ValidateTransition, ValidateTransition, Atomic!Objects, Objects,
    Atomic!Role, Role
<1> QED BY <1>3, <1>4, <1>5, <1>6

(* The abstract specification names the same snapshots.                       *)
LEMMA SameChannel ==
  /\ \A s : Atomic!OtherSnapshots(s) = OtherSnapshots(s)
  /\ Atomic!FirstSnapshots = FirstSnapshots
  /\ \A s : Atomic!StartsIn(s) <=> StartsIn(s)
<1>1. Atomic!FirstSnapshots = FirstSnapshots
  BY SameRegistry DEF Atomic!FirstSnapshots, FirstSnapshots, Atomic!NoOperation, NoOperation
<1>2. \A s : Atomic!StartsIn(s) <=> StartsIn(s)
  BY <1>1 DEF Atomic!StartsIn, StartsIn, Atomic!NoOperation, NoOperation
<1>3. \A s : Atomic!Renamed(s) = Renamed(s)
  BY SameRegistry DEF Atomic!Renamed, Renamed
<1>4. \A s : Atomic!Published(s) = Published(s) /\ Atomic!Cleared(s) = Cleared(s)
  BY DEF Atomic!Published, Published, Atomic!Cleared, Cleared, Atomic!NoOperation, NoOperation
<1>5. \A s : Atomic!Reported(s) = Reported(s)
  BY SameRegistry DEF Atomic!Reported, Reported, Atomic!Coach, Coach
<1>6. \A s : Atomic!Rewritten(s) = Rewritten(s)
  BY <1>4, <1>5 DEF Atomic!Rewritten, Rewritten
<1>7. \A s : Atomic!OtherSnapshots(s) = OtherSnapshots(s)
  BY <1>3, <1>6 DEF Atomic!OtherSnapshots, OtherSnapshots
<1> QED BY <1>1, <1>2, <1>7

(* An owned rename is the atomic move.                                        *)
LEMMA MoveImplementsMove ==
  ASSUME Inv, Inv', NEW w \in Walks, OwnedRename(w)
  PROVE  Atomic!Move(w)
<1>1. /\ Len(log) \in Nat \ {0} /\ Len(log') = Len(log) + 1
      /\ \A i \in 1 .. Len(log) : log'[i] = log[i]
      /\ log'[Len(log) + 1] = [state |-> Plan[w].to, body |-> Current.body, by |-> w]
  BY OwnedRenameGrows DEF Inv
<1>2. w \notin Moved /\ Moved' = Moved \cup {w}
  <2>1. w \notin Moved
    BY MovedMeansEffect DEF OwnedRename, Inv
  <2>2. Moved' = Moved \cup {u \in Walks : log'[Len(log) + 1].by = u}
    BY <1>1, NewEntryMoves DEF Inv
  <2> QED BY <1>1, <2>1, <2>2
<1>3. outcome[w] \in {Undecided, "UNCONFIRMED"}
  <2>1. WalkInv(w)
    BY DEF Inv
  <2>2. CASE w \in inFlight
    BY <2>1, <2>2 DEF WalkInv, FlightIsLast, OwnedRename
  <2>3. CASE stage[w] = "send"
    BY <2>1, <2>3 DEF WalkInv, DoneIsDecided
  <2> QED BY <2>2, <2>3 DEF OwnedRename
<1>4. ValidateTransition(Object, Plan[w].from, Plan[w].to, Plan[w].actor) = "LEGAL"
  <2>1. WalkInv(w)
    BY DEF Inv
  <2>2. Plan[w].from # Plan[w].to /\ <<Plan[w].from, Plan[w].to, Plan[w].actor>> \in Edges(Object)
    BY HeldOwns DEF OwnedRename
  <2>3. Plan[w].from \in States(Object) /\ Plan[w].to \in States(Object)
    BY WalkAssumption
  <2> QED BY <2>2, <2>3 DEF ValidateTransition
<1>5. /\ File.state = Plan[w].from
      /\ Plan[w].fenced => /\ File.body.operation = Plan[w].operation
                           /\ File.body.generation = Plan[w].generation
  BY HeldOwns DEF OwnedRename, File
<1>6. File' = [File EXCEPT !.state = Plan[w].to]
  BY <1>1 DEF File, Current, Latest
<1> QED BY <1>2, <1>3, <1>4, <1>5, <1>6, SameRegistry
        DEF Atomic!Move, Atomic!Owns, Atomic!Undecided, OwnedRename, File, Moved, Undecided

(* Another writer is another writer.                                          *)
LEMMA OthersImplementOthers ==
  ASSUME Inv, Inv', OtherWriter, outcome' = outcome
  PROVE  Atomic!Others
<1>1. /\ Len(log) \in Nat \ {0} /\ Len(log') = Len(log) + 1
      /\ \A i \in 1 .. Len(log) : log'[i] = log[i]
  BY OthersGrow DEF Inv
<1>2. PICK s \in OtherSnapshots(Current) :
        log'[Len(log) + 1] = [state |-> s.state, body |-> s.body, by |-> Elsewhere]
  BY OthersGrow DEF Inv
<1>3. Moved' = Moved
  <2>1. Moved' = Moved \cup {u \in Walks : log'[Len(log) + 1].by = u}
    BY <1>1, NewEntryMoves DEF Inv
  <2> QED BY <1>2, <2>1, WalkAssumption
<1>4. OtherSnapshots(File) = OtherSnapshots(Current)
  BY DEF OtherSnapshots, Renamed, Rewritten, Published, Cleared, Reported, File
<1>5. File' = s
  <2>1. s = [state |-> s.state, body |-> s.body]
    BY DEF OtherSnapshots, Renamed, Rewritten
  <2> QED BY <1>1, <1>2, <2>1 DEF File, Current, Latest
<1> QED BY <1>3, <1>4, <1>5, SameChannel DEF Atomic!Others, File, Moved

(* A step of a call leaves the outcomes alone or reports that call's.               *)
ReportsOf(w) == outcome' = outcome \/ \E result \in Outcome : Report(w, result)

(* A call that decides from a name reports that or goes on;                   *)
LEMMA DecideReports ==
  ASSUME NEW w \in Walks, NEW name, Decide(w, name)
  PROVE  ReportsOf(w)
BY DEF Decide, Goto, ReportsOf, Outcome

(* ... so does one that was refused,                                          *)
LEMMA RefusedReports ==
  ASSUME NEW w \in Walks, Refused(w)
  PROVE  ReportsOf(w)
BY DEF Refused, Goto, ReportsOf, Outcome

(* ... and one that polls;                                                    *)
LEMMA PollingReports ==
  ASSUME NEW w \in Walks, KeepPolling(w)
  PROVE  ReportsOf(w)
BY DEF KeepPolling, Goto, ReportsOf, Outcome

(* ... so that every step of a call reports one outcome or none.              *)
LEMMA StepReports ==
  ASSUME NEW w \in Walks, WalkStep(w) \/ LateRename(w)
  PROVE  ReportsOf(w)
<1>0. Plan[w].fenced \in BOOLEAN
  BY WalkAssumption
<1>1. CASE Begin(w)
  BY <1>1 DEF Begin, Goto, ReportsOf, Outcome
<1>2. CASE ReadMetadata(w)
  <2>1. PICK v \in visible .. Latest :
          CASE log[v].state \notin {Plan[w].from, Plan[w].to} ->
                 Report(w, "STATE_CONFLICT") /\ UNCHANGED attempts
            [] log[v].state \in {Plan[w].from, Plan[w].to} /\ Plan[w].fenced ->
                 Goto(w, "fenceName") /\ UNCHANGED attempts
            [] OTHER -> Decide(w, log[v].state)
    BY <1>2 DEF ReadMetadata
  <2>2. CASE log[v].state \notin {Plan[w].from, Plan[w].to}
    BY <2>1, <2>2 DEF ReportsOf, Outcome
  <2>3. CASE log[v].state \in {Plan[w].from, Plan[w].to} /\ Plan[w].fenced
    BY <2>1, <2>3 DEF Goto, ReportsOf
  <2>4. CASE log[v].state \in {Plan[w].from, Plan[w].to} /\ ~Plan[w].fenced
    BY <1>0, <2>1, <2>4, DecideReports
  <2> QED BY <1>0, <2>2, <2>3, <2>4
<1>3. CASE ReadFenceName(w)
  BY <1>3 DEF ReadFenceName, Goto, ReportsOf
<1>4. CASE ReadFenceBody(w)
  <2>1. PICK v \in visible .. Latest :
          LET decision == CompareFence(ExpectedFence(w), ObservedFence(fenceName[w], v))
          IN CASE decision = "STALE" -> Report(w, "STALE_FENCE") /\ UNCHANGED attempts
               [] decision = "MISMATCH" -> Report(w, "STATE_CONFLICT") /\ UNCHANGED attempts
               [] OTHER -> Decide(w, log[token[w]].state)
    BY <1>4 DEF ReadFenceBody
  <2> DEFINE decision == CompareFence(ExpectedFence(w), ObservedFence(fenceName[w], v))
  <2>2. CASE decision = "STALE"
    BY <2>1, <2>2 DEF ReportsOf, Outcome
  <2>3. CASE decision = "MISMATCH"
    BY <2>1, <2>3 DEF ReportsOf, Outcome
  <2>4. CASE decision \notin {"STALE", "MISMATCH"}
    <3> HIDE DEF decision
    <3> QED BY <2>1, <2>4, DecideReports DEF decision
  <2> QED BY <2>2, <2>3, <2>4
<1>5. CASE ReadFails(w)
  BY <1>5 DEF ReadFails, ReportsOf, Outcome
<1>6. CASE CheckVersion(w)
  <2>1. CASE Refused(w)
    BY <2>1, RefusedReports
  <2>2. CASE Goto(w, "send") \/ Report(w, "STATE_CONFLICT")
    BY <2>2 DEF Goto, ReportsOf, Outcome
  <2> QED BY <1>6, <2>1, <2>2 DEF CheckVersion
<1>7. CASE RenameApplied(w) \/ RenameUnanswered(w)
  BY <1>7 DEF RenameApplied, RenameUnanswered, Goto, ReportsOf
<1>8. CASE RenameRefused(w)
  <2>1. Refused(w) \/ Report(w, "STATE_CONFLICT")
    BY <1>8 DEF RenameRefused
  <2> QED BY <2>1, RefusedReports DEF ReportsOf, Outcome
<1>9. CASE Probe(w)
  <2>1. CASE KeepPolling(w)
    BY <2>1, PollingReports
  <2>2. CASE Report(w, "NEW_SUCCESS") \/ Report(w, "STATE_CONFLICT")
    BY <2>2 DEF ReportsOf, Outcome
  <2>3. KeepPolling(w) \/ Report(w, "NEW_SUCCESS") \/ Report(w, "STATE_CONFLICT")
    BY <1>9 DEF Probe
  <2> QED BY <2>1, <2>2, <2>3
<1>10. CASE LateRename(w)
  BY <1>10 DEF LateRename, callVars, ReportsOf
<1> QED BY <1>1, <1>2, <1>3, <1>4, <1>5, <1>6, <1>7, <1>8, <1>9, <1>10 DEF WalkStep, AtomicStep

(* Only a call that has not reported makes a step that reports.                     *)
LEMMA ReportersAreUndecided ==
  ASSUME Inv, NEW w \in Walks, WalkStep(w)
  PROVE  outcome[w] = Undecided
<1>1. stage[w] # "done"
  BY DEF WalkStep, AtomicStep, Begin, ReadMetadata, ReadFenceName, ReadFenceBody, ReadFails, CheckVersion,
    RenameApplied, RenameRefused, RenameUnanswered, Probe
<1> QED BY <1>1 DEF Inv, WalkInv, DoneIsDecided

(* A report is the atomic answer.                                             *)
LEMMA ReportImplementsAnswer ==
  ASSUME Inv, Inv', NEW w \in Walks, outcome[w] = Undecided, log' = log,
         NEW result \in Outcome, Report(w, result)
  PROVE  Atomic!Answer(w)
<1>1. File' = File /\ Moved' = Moved
  BY LogFixesFile
<1>2. outcome' = [outcome EXCEPT ![w] = result] /\ outcome'[w] = result
  BY DEF Report, Inv, TypeOK
<1>3. w \in Moved => result \notin HarmlessOutcome
  <2>1. HarmlessIsSilent(w)'
    BY DEF Inv, WalkInv
  <2>2. (w \in Moved)' <=> ~NoEffect(w)'
    BY MovedMeansEffect, PTL DEF Inv
  <2> QED BY <1>1, <1>2, <2>1, <2>2 DEF HarmlessIsSilent, Silent
<1> QED BY <1>1, <1>2, <1>3
        DEF Atomic!Answer, Atomic!Undecided, Undecided, Atomic!NoEffect, HarmlessOutcome, Outcome,
            File, Moved

(* Every step implements an atomic step or leaves the abstract state alone.   *)
LEMMA StepImplementsStep ==
  ASSUME Inv, Inv', AtomicPrecondition, [Next]_vars
  PROVE  [Atomic!Next]_(Atomic!vars)
<1>1. CASE OtherWriter /\ outcome' = outcome
  BY <1>1, OthersImplementOthers DEF Atomic!Next
<1>2. ASSUME NEW w \in Walks, OwnedRename(w) PROVE [Atomic!Next]_(Atomic!vars)
  BY <1>2, MoveImplementsMove DEF Atomic!Next
<1>3. CASE log' = log
  <2>1. CASE outcome' = outcome
    BY <1>3, <2>1, LogFixesFile DEF Atomic!vars, File, Moved
  <2>2. ASSUME NEW w \in Walks, WalkStep(w) \/ LateRename(w), outcome' # outcome
        PROVE  Atomic!Answer(w)
    <3>1. outcome[w] = Undecided
      BY <2>2, ReportersAreUndecided DEF LateRename, callVars
    <3>2. PICK result \in Outcome : Report(w, result)
      BY <2>2, StepReports DEF ReportsOf
    <3> QED BY <1>3, <3>1, <3>2, ReportImplementsAnswer
  <2>3. outcome' = outcome \/ \E w \in Walks : WalkStep(w) \/ LateRename(w)
    BY DEF Next, Others, vars, callVars
  <2> QED BY <2>1, <2>2, <2>3 DEF Atomic!Next
<1> QED BY <1>1, <1>2, <1>3, StepWrites

(* The first states are abstract first states.                                *)
LEMMA InitImplementsInit == Init => Atomic!Init
<1> SUFFICES ASSUME Init PROVE Atomic!Init
  OBVIOUS
<1>1. PICK s \in FirstSnapshots :
        StartsIn(s) /\ log = <<[state |-> s.state, body |-> s.body, by |-> Elsewhere]>>
  BY DEF Init
<1>2. s = [state |-> s.state, body |-> s.body]
  BY DEF FirstSnapshots
<1>3. File = s
  BY <1>1, <1>2 DEF File, Current, Latest
<1>4. Moved = {}
  <2> SUFFICES ASSUME NEW w \in Walks PROVE EffectsOf(w) = {}
    BY DEF Moved
  <2>1. DOMAIN log = {1} /\ log[1].by = Elsewhere
    BY <1>1
  <2> QED BY <2>1, WalkAssumption DEF EffectsOf
<1>5. outcome = [w \in Walks |-> Undecided]
  BY DEF Init
<1> QED BY <1>1, <1>3, <1>4, <1>5, SameChannel
        DEF Atomic!Init, Atomic!Undecided, Undecided, File, Moved

(* Against an atomic precondition every call of walk() is one atomic, owned        *)
(* rename and one report, whatever the network does to its requests: retries,       *)
(* lost answers, renames that land late, stale reads (state_walker.py:82-354).      *)
THEOREM WalkerIsAtomic == AtomicPrecondition => (Spec => WalkIsAtomic)
<1> SUFFICES ASSUME AtomicPrecondition PROVE Spec => WalkIsAtomic
  OBVIOUS
<1>1. Inv /\ Inv' /\ [Next]_vars => [Atomic!Next]_(Atomic!vars)
  BY StepImplementsStep
<1> QED BY <1>1, InitImplementsInit, InvAlways, PTL DEF Spec, WalkIsAtomic, Atomic!Spec

-----------------------------------------------------------------------------
(* Where a step of a call takes it, if the version is compared in the mutation.    *)
MovesOn(w) == \E next \in Stage \ {"check"} : stage' \in {stage, [stage EXCEPT ![w] = next]}

(* The next lemmas: no step of a call leaves it where it checks the version.  *)
LEMMA GoesOn ==
  ASSUME NEW w \in Walks,
         \/ \E next \in Stage \ {"check"} : Goto(w, next)
         \/ \E result : Report(w, result)
         \/ UNCHANGED stage
  PROVE  MovesOn(w)
BY DEF Goto, Report, Stage, MovesOn

(* Deciding from a name does not,                                             *)
LEMMA DecideMovesOn ==
  ASSUME AtomicPrecondition, NEW w \in Walks, NEW name, Decide(w, name)
  PROVE  MovesOn(w)
<1>1. Goto(w, "send") \/ \E result : Report(w, result)
  BY DEF Decide
<1> QED BY <1>1, GoesOn DEF Stage

(* ... nor does a refusal,                                                    *)
LEMMA RefusedMovesOn ==
  ASSUME NEW w \in Walks, Refused(w)
  PROVE  MovesOn(w)
<1>1. Goto(w, "read") \/ \E result : Report(w, result)
  BY DEF Refused
<1> QED BY <1>1, GoesOn DEF Stage

(* ... nor polling,                                                           *)
LEMMA PollingMovesOn ==
  ASSUME NEW w \in Walks, KeepPolling(w)
  PROVE  MovesOn(w)
<1>1. Goto(w, "confirm") \/ \E result : Report(w, result)
  BY DEF KeepPolling
<1> QED BY <1>1, GoesOn DEF Stage

(* ... nor, where preconditions are atomic, any step.                         *)
LEMMA StepMovesOn ==
  ASSUME AtomicPrecondition, NEW w \in Walks, AtomicStep(w) \/ LateRename(w)
  PROVE  MovesOn(w)
<1>0. Plan[w].fenced \in BOOLEAN
  BY WalkAssumption
<1>1. CASE Begin(w)
  <2>1. Goto(w, "read") \/ \E result : Report(w, result)
    BY <1>1 DEF Begin
  <2> QED BY <2>1, GoesOn DEF Stage
<1>2. CASE ReadMetadata(w)
  <2>1. PICK v \in visible .. Latest :
          CASE log[v].state \notin {Plan[w].from, Plan[w].to} ->
                 Report(w, "STATE_CONFLICT") /\ UNCHANGED attempts
            [] log[v].state \in {Plan[w].from, Plan[w].to} /\ Plan[w].fenced ->
                 Goto(w, "fenceName") /\ UNCHANGED attempts
            [] OTHER -> Decide(w, log[v].state)
    BY <1>2 DEF ReadMetadata
  <2>2. CASE log[v].state \notin {Plan[w].from, Plan[w].to}
    BY <2>1, <2>2, GoesOn
  <2>3. CASE log[v].state \in {Plan[w].from, Plan[w].to} /\ Plan[w].fenced
    <3>1. Goto(w, "fenceName")
      BY <2>1, <2>3
    <3> QED BY <3>1, GoesOn DEF Stage
  <2>4. CASE log[v].state \in {Plan[w].from, Plan[w].to} /\ ~Plan[w].fenced
    BY <1>0, <2>1, <2>4, DecideMovesOn
  <2> QED BY <1>0, <2>2, <2>3, <2>4
<1>3. CASE ReadFenceName(w)
  <2>1. Goto(w, "fenceBody")
    BY <1>3 DEF ReadFenceName
  <2> QED BY <2>1, GoesOn DEF Stage
<1>4. CASE ReadFenceBody(w)
  <2>1. PICK v \in visible .. Latest :
          LET decision == CompareFence(ExpectedFence(w), ObservedFence(fenceName[w], v))
          IN CASE decision = "STALE" -> Report(w, "STALE_FENCE") /\ UNCHANGED attempts
               [] decision = "MISMATCH" -> Report(w, "STATE_CONFLICT") /\ UNCHANGED attempts
               [] OTHER -> Decide(w, log[token[w]].state)
    BY <1>4 DEF ReadFenceBody
  <2> DEFINE decision == CompareFence(ExpectedFence(w), ObservedFence(fenceName[w], v))
  <2>2. CASE decision \in {"STALE", "MISMATCH"}
    <3>1. \E result : Report(w, result)
      BY <2>1, <2>2
    <3> QED BY <3>1, GoesOn
  <2>3. CASE decision \notin {"STALE", "MISMATCH"}
    <3> HIDE DEF decision
    <3> QED BY <2>1, <2>3, DecideMovesOn DEF decision
  <2> QED BY <2>2, <2>3
<1>5. CASE ReadFails(w)
  BY <1>5, GoesOn DEF ReadFails
<1>6. CASE RenameApplied(w) \/ RenameUnanswered(w)
  <2>1. Goto(w, "confirm")
    BY <1>6 DEF RenameApplied, RenameUnanswered
  <2> QED BY <2>1, GoesOn DEF Stage
<1>7. CASE RenameRefused(w)
  <2>1. Refused(w) \/ Report(w, "STATE_CONFLICT")
    BY <1>7 DEF RenameRefused
  <2> QED BY <2>1, RefusedMovesOn, GoesOn
<1>8. CASE Probe(w)
  <2>1. KeepPolling(w) \/ \E result : Report(w, result)
    BY <1>8 DEF Probe
  <2> QED BY <2>1, PollingMovesOn, GoesOn
<1>9. CASE LateRename(w)
  BY <1>9, GoesOn DEF LateRename, callVars
<1> QED BY <1>1, <1>2, <1>3, <1>4, <1>5, <1>6, <1>7, <1>8, <1>9 DEF AtomicStep

(* Against the reference backend no walk ever compares the version by a request of  *)
(* its own (memory_backend.py:303-328): what a run checks of AtomicSpec holds of     *)
(* the whole specification.                                                         *)
THEOREM AtomicWalksCompareInside == AtomicPrecondition => (Spec => AtomicSpec)
<1> SUFFICES ASSUME AtomicPrecondition PROVE Spec => AtomicSpec
  OBVIOUS
<1> DEFINE Never == stage \in [Walks -> Stage \ {"check"}]
<1>1. Init => Never
  BY DEF Init, Stage
<1>2. Never /\ [Next]_vars => Never' /\ [AtomicNext]_vars
  <2> SUFFICES ASSUME Never, [Next]_vars PROVE Never' /\ [AtomicNext]_vars
    OBVIOUS
  <2>1. [AtomicNext]_vars
    BY DEF Next, AtomicNext, WalkStep, CheckVersion
  <2>2. ASSUME NEW w \in Walks, AtomicStep(w) \/ LateRename(w) PROVE Never'
    BY <2>2, StepMovesOn DEF MovesOn
  <2>3. CASE Others \/ UNCHANGED vars
    <3>1. stage' = stage
      BY <2>3 DEF Others, callVars, vars
    <3> QED BY <2>1, <3>1
  <2> HIDE DEF Never
  <2> QED BY <2>1, <2>2, <2>3 DEF AtomicNext
<1> QED BY <1>1, <1>2, PTL DEF Spec, AtomicSpec

-----------------------------------------------------------------------------
(***************************************************************************)
(* Verified writes on a file that walks move and others write, against a   *)
(* provider that compares the version inside the mutation.                 *)
(***************************************************************************)
Entry == [state : States(Object), body : Body, by : Walks \cup Writes \cup {Elsewhere}]

FileTyped ==
  /\ log \in Seq(Entry) /\ log # << >> /\ visible \in 1 .. Len(log)
  /\ writeStage \in [Writes -> Keeper!Stage]
  /\ writeToken \in [Writes -> Nat] /\ writeFence \in [Writes -> Nat]
  /\ writeOutcome \in [Writes -> Keeper!Outcome \cup {Keeper!Undecided}]
  /\ writesInFlight \subseteq Writes

Entitled(c) ==
  /\ Keeper!CanWriteBody(Object, WritePlan[c].state, WritePlan[c].actor)
  /\ Keeper!FenceFitsBody(c)

(* What a write knows from its reads once it has claimed an attempt.             *)
Owns(c) ==
  /\ writeToken[c] \in 1 .. visible
  /\ log[writeToken[c]].state = WritePlan[c].state
  /\ WritePlan[c].fenced /\ writeToken[c] = Len(log) =>
       /\ log[writeToken[c]].body.operation = WritePlan[c].operation
       /\ log[writeToken[c]].body.generation = WritePlan[c].generation

Unsent == {"begin", "read", "preName", "preBody", "check", "send"}
Sent == {"confirm", "postName", "postBody"}

EntitledWhenRead(c) ==
  writeStage[c] \notin {"begin", "done"} \/ c \in writesInFlight => Entitled(c)
UnsentIsSilent(c) == writeStage[c] \in Unsent => c \notin writesInFlight /\ NoEffect(c)
PreReads(c) ==
  writeStage[c] \in {"preName", "preBody"} =>
    /\ writeToken[c] \in 1 .. visible /\ log[writeToken[c]].state = WritePlan[c].state
    /\ writeStage[c] = "preBody" => writeFence[c] \in writeToken[c] .. visible
OwnsWhileAsking(c) ==
  writeStage[c] \in Sent \cup {"check", "send"} \/ c \in writesInFlight => Owns(c)
LastInFlight(c) == c \in writesInFlight => NoEffect(c)
OneWrite(c) == \A i, j \in 1 .. Len(log) : log[i].by = c /\ log[j].by = c => i = j
ReportedWhenDone(c) == writeStage[c] = "done" <=> writeOutcome[c] # Keeper!Undecided

(* The read-back saw the body at a version no older than the one in hand.        *)
Seen(c) ==
  writeStage[c] \in {"postName", "postBody"} \/ writeOutcome[c] = "VERIFIED_SUCCESS" =>
    /\ writeToken[c] \in 1 .. Len(log)
    /\ \E i \in writeToken[c] .. Len(log) : log[i].body = WritePlan[c].body

OwnedBody(c, before, after) ==
  /\ after.state = before.state /\ after.state = WritePlan[c].state
  /\ Keeper!CanWriteBody(Object, after.state, WritePlan[c].actor)
  /\ WritePlan[c].fenced => /\ after.body.operation = before.body.operation
                            /\ after.body.generation = before.body.generation
WritesOwned(c) ==
  \A i \in 1 .. Len(log) : log[i].by = c => i > 1 /\ OwnedBody(c, log[i - 1], log[i])

WriteInv(c) ==
  /\ EntitledWhenRead(c) /\ UnsentIsSilent(c) /\ PreReads(c) /\ OwnsWhileAsking(c)
  /\ LastInFlight(c) /\ OneWrite(c) /\ ReportedWhenDone(c) /\ Seen(c) /\ WritesOwned(c)

FileInv == FileTyped /\ \A c \in Writes : WriteInv(c)

-----------------------------------------------------------------------------
(* The calls of both protocols are apart, and their plans typed.                 *)
LEMMA WritesPlanned ==
  /\ Elsewhere \notin Writes /\ Walks \cap Writes = {}
  /\ \A c \in Writes : /\ WritePlan[c].state \in States(Object)
                       /\ WritePlan[c].body \in Body
                       /\ WritePlan[c].fenced \in BOOLEAN
                       /\ WritePlan[c].local \in Keeper!LocalVerdict
<1>1. Keeper!KeeperAssumption /\ Walks \cap Writes = {}
  BY OneFileAssumption
<1>2. Elsewhere \notin Writes
  BY <1>1 DEF Keeper!KeeperAssumption, Keeper!Elsewhere, Elsewhere
<1>3. Keeper!States(Object) = States(Object) /\ Keeper!Body = Body
  BY DEF Keeper!States, States, Keeper!Edges, Edges, Keeper!CoachEdges, CoachEdges,
     Keeper!Terminal, Terminal, Keeper!ResultStates, ResultStates, Keeper!Coach, Coach,
     Keeper!Fetcher, Fetcher, Keeper!Watchdog, Watchdog, Keeper!Body, Body,
     Keeper!NoOperation, NoOperation
<1>. QED BY <1>1, <1>2, <1>3 DEF Keeper!KeeperAssumption

(* The newest snapshot is a snapshot of the file.                                *)
LEMMA NewestTyped ==
  ASSUME FileTyped
  PROVE  /\ Len(log) \in Nat \ {0} /\ Latest = Len(log) /\ Current = log[Len(log)]
         /\ Current.state \in States(Object) /\ Current.body \in Body
         /\ visible \in 1 .. Len(log)
<1>1. log \in Seq(Entry) /\ Len(log) \in 1 .. Len(log) /\ visible \in 1 .. Len(log)
  BY DEF FileTyped
<1>2. log[Len(log)] \in Entry
  BY <1>1
<1>. QED BY <1>1, <1>2 DEF Entry, Current, Latest

(* A write by anybody lets the log grow by one entry of its author.              *)
LEMMA FileGrows ==
  ASSUME FileTyped, NEW state \in States(Object), NEW body \in Body,
         NEW author \in Walks \cup Writes \cup {Elsewhere},
         log' = Append(log, [state |-> state, body |-> body, by |-> author]),
         visible' = visible
  PROVE  /\ LogGrows /\ Len(log') = Len(log) + 1
         /\ log'[Len(log) + 1] = [state |-> state, body |-> body, by |-> author]
         /\ log' \in Seq(Entry) /\ log' # << >> /\ visible' \in 1 .. Len(log')
         /\ \A u : u # author => NothingNewBy(u)
<1>1. log \in Seq(Entry) /\ log # << >> /\ visible \in 1 .. Len(log)
  BY DEF FileTyped
<1>2. /\ log' \in Seq(Entry) /\ log' # << >> /\ Len(log') = Len(log) + 1
      /\ \A i \in 1 .. Len(log) : log'[i] = log[i]
      /\ log'[Len(log) + 1] = [state |-> state, body |-> body, by |-> author]
  BY <1>1 DEF Entry
<1>3. LogGrows
  BY <1>1, <1>2 DEF LogGrows
<1>4. ASSUME NEW u, u # author PROVE NothingNewBy(u)
  BY <1>1, <1>2, <1>4 DEF NothingNewBy
<1>. QED BY <1>1, <1>2, <1>3, <1>4

-----------------------------------------------------------------------------
(* What a step that is not of c does to the records of c: nothing.               *)
Unmoved(c) ==
  /\ writeStage'[c] = writeStage[c] /\ writeToken'[c] = writeToken[c]
  /\ writeFence'[c] = writeFence[c] /\ writeOutcome'[c] = writeOutcome[c]
  /\ c \in writesInFlight' <=> c \in writesInFlight

(* A write that a step does not touch stays right while the log grows.           *)
LEMMA BystanderWrite ==
  ASSUME FileTyped, NEW c \in Writes, WriteInv(c), Unmoved(c), LogGrows, NothingNewBy(c)
  PROVE  WriteInv(c)'
<1>. USE DEF Unmoved
<1>1. /\ writeToken[c] \in Nat /\ Len(log) \in Nat /\ Len(log') \in Nat /\ Len(log) <= Len(log')
      /\ visible \in 1 .. Len(log) /\ visible' \in Nat /\ visible <= visible'
      /\ \A i \in 1 .. Len(log) : log'[i] = log[i]
  BY DEF FileTyped, LogGrows
<1>2. \A i \in 1 .. Len(log') : log'[i].by = c => i \in 1 .. Len(log)
  BY <1>1 DEF NothingNewBy
<1>3. NoEffect(c) => NoEffect(c)'
  BY <1>1, <1>2 DEF NoEffect
<1>4. EntitledWhenRead(c)'
  BY DEF WriteInv, EntitledWhenRead, Entitled, Keeper!FenceFitsBody
<1>5. UnsentIsSilent(c)' /\ LastInFlight(c)' /\ ReportedWhenDone(c)'
  BY <1>3 DEF WriteInv, UnsentIsSilent, LastInFlight, ReportedWhenDone
<1>6. PreReads(c)'
  <2>1. CASE writeStage[c] \in {"preName", "preBody"}
    <3>1. /\ writeToken[c] \in 1 .. visible /\ log[writeToken[c]].state = WritePlan[c].state
          /\ writeStage[c] = "preBody" => writeFence[c] \in writeToken[c] .. visible
      BY <2>1 DEF WriteInv, PreReads
    <3>2. log'[writeToken[c]] = log[writeToken[c]] /\ writeToken[c] \in 1 .. visible'
      BY <1>1, <3>1
    <3>. QED BY <1>1, <3>1, <3>2 DEF PreReads
  <2>. QED BY <2>1 DEF PreReads
<1>7. OwnsWhileAsking(c)'
  <2>. SUFFICES ASSUME Owns(c) PROVE Owns(c)'
    BY DEF WriteInv, OwnsWhileAsking
  <2>1. writeToken'[c] \in 1 .. visible' /\ log'[writeToken'[c]] = log[writeToken[c]]
    BY <1>1 DEF Owns
  <2>2. writeToken'[c] = Len(log') => writeToken[c] = Len(log)
    BY <1>1 DEF Owns
  <2>. QED BY <2>1, <2>2 DEF Owns
<1>8. OneWrite(c)'
  BY <1>1, <1>2 DEF WriteInv, OneWrite
<1>9. Seen(c)'
  <2>1. CASE writeStage[c] \in {"postName", "postBody"} \/ writeOutcome[c] = "VERIFIED_SUCCESS"
    <3>1. writeToken[c] \in 1 .. Len(log)
      BY <2>1 DEF WriteInv, Seen
    <3>2. PICK i \in writeToken[c] .. Len(log) : log[i].body = WritePlan[c].body
      BY <2>1 DEF WriteInv, Seen
    <3>3. i \in writeToken[c] .. Len(log') /\ log'[i].body = WritePlan[c].body
      BY <1>1, <3>1, <3>2
    <3>. QED BY <1>1, <3>1, <3>3 DEF Seen
  <2>. QED BY <2>1 DEF Seen
<1>10. WritesOwned(c)'
  <2>1. ASSUME NEW i \in 1 .. Len(log'), log'[i].by = c
        PROVE  i > 1 /\ OwnedBody(c, log'[i - 1], log'[i])
    <3>1. i \in 1 .. Len(log) /\ log'[i] = log[i] /\ log[i].by = c
      BY <1>1, <1>2, <2>1
    <3>2. i > 1 /\ OwnedBody(c, log[i - 1], log[i])
      BY <3>1 DEF WriteInv, WritesOwned
    <3>3. log'[i - 1] = log[i - 1]
      BY <1>1, <3>1, <3>2
    <3>. QED BY <3>1, <3>2, <3>3
  <2>. QED BY <2>1 DEF WritesOwned, OwnedBody, Keeper!CanWriteBody, Keeper!BodyWriters
<1>. QED BY <1>4, <1>5, <1>6, <1>7, <1>8, <1>9, <1>10 DEF WriteInv

(* A read moves visibility and nothing else.                                     *)
LEMMA ReadGrows ==
  ASSUME FileTyped, log' = log, visible' \in visible .. Len(log)
  PROVE  LogGrows /\ \A u : NothingNewBy(u)
BY DEF FileTyped, LogGrows, NothingNewBy

(* So a step of c that does not write is right if c is right after it;           *)
LEMMA QuietWriteStep ==
  ASSUME FileInv, log' = log, visible' \in visible .. Len(log), NEW c \in Writes,
         \A u \in Writes \ {c} : Unmoved(u), FileTyped', WriteInv(c)'
  PROVE  FileInv'
BY ReadGrows, BystanderWrite DEF FileInv

(* ... and so is any step of somebody else that adds no entry of a write.        *)
LEMMA ForeignStep ==
  ASSUME FileInv, UNCHANGED writeVars,
         \/ log' = log /\ visible' \in visible .. Len(log)
         \/ \E state \in States(Object), body \in Body, author \in Walks \cup {Elsewhere} :
              log' = Append(log, [state |-> state, body |-> body, by |-> author])
              /\ visible' = visible
  PROVE  FileInv'
<1>1. \A c \in Writes : Unmoved(c)
  BY DEF writeVars, Unmoved
<1>2. CASE log' = log /\ visible' \in visible .. Len(log)
  <2>1. FileTyped'
    BY <1>2 DEF FileInv, FileTyped, writeVars
  <2>. QED BY <1>1, <1>2, <2>1, ReadGrows, BystanderWrite DEF FileInv
<1>3. ASSUME NEW state \in States(Object), NEW body \in Body, NEW author \in Walks \cup {Elsewhere},
             log' = Append(log, [state |-> state, body |-> body, by |-> author]),
             visible' = visible
      PROVE  FileInv'
  <2>1. /\ LogGrows /\ log' \in Seq(Entry) /\ log' # << >> /\ visible' \in 1 .. Len(log')
        /\ \A u : u # author => NothingNewBy(u)
    BY <1>3, FileGrows DEF FileInv
  <2>2. \A c \in Writes : NothingNewBy(c)
    BY <2>1, WritesPlanned
  <2>3. FileTyped'
    BY <2>1 DEF FileInv, FileTyped, writeVars
  <2>. QED BY <1>1, <2>1, <2>2, <2>3, BystanderWrite DEF FileInv
<1>. QED BY <1>2, <1>3
(* A step of a walk writes at most an entry of its own.                          *)
LEMMA WalkersKeepWrites ==
  ASSUME FileInv, WalkersStep
  PROVE  FileInv'
<1>1. PICK w \in Walks : AtomicStep(w) \/ LateRename(w)
  BY DEF WalkersStep
<1>2. UNCHANGED writeVars
  BY DEF WalkersStep
<1>3. Latest = Len(log) /\ visible \in 1 .. Len(log) /\ Len(log) \in Nat
      /\ Current.body \in Body
  BY NewestTyped DEF FileInv
<1>4. CASE RenameObject(w)
  BY <1>2, <1>3, <1>4, WalkAssumption, ForeignStep DEF RenameObject, Write
<1>5. CASE UNCHANGED driveVars
  BY <1>2, <1>3, <1>5, ForeignStep DEF driveVars
<1>6. CASE \E v \in visible .. Latest : ReadVersion(v)
  BY <1>2, <1>3, <1>6, ForeignStep DEF ReadVersion
<1>7. RenameObject(w) \/ UNCHANGED driveVars \/ \E v \in visible .. Latest : ReadVersion(v)
  BY <1>1 DEF AtomicStep, Begin, ReadMetadata, ReadFenceName, ReadFenceBody, ReadFails,
     RenameApplied, RenameRefused, RenameUnanswered, Probe, LateRename
<1>. QED BY <1>4, <1>5, <1>6, <1>7

(* So does a step of the other clients.                                          *)
LEMMA OthersKeepWrites ==
  ASSUME FileInv, Others, UNCHANGED writeVars
  PROVE  FileInv'
<1>1. PICK s \in OtherSnapshots(Current) : Write(s.state, s.body, Elsewhere)
  BY DEF Others, OtherWriter
<1>2. s.state \in States(Object) /\ s.body \in Body
  BY NewestTyped, OtherSnapshotsTyped DEF FileInv
<1>. QED BY <1>1, <1>2, ForeignStep DEF Write

-----------------------------------------------------------------------------
(* Going on and reporting.                                                       *)
Moves(c, next) == writeStage' = [writeStage EXCEPT ![c] = next] /\ writeOutcome' = writeOutcome
Reports(c, result) ==
  /\ writeStage' = [writeStage EXCEPT ![c] = "done"]
  /\ writeOutcome' = [writeOutcome EXCEPT ![c] = result]

(* They are what Keeper calls them.                                              *)
LEMMA KeeperPieces ==
  /\ \A c, next : Keeper!Goto(c, next) <=> Moves(c, next)
  /\ \A c, result : Keeper!Report(c, result) <=> Reports(c, result)
BY DEF Keeper!Goto, Keeper!Report, Moves, Reports

(* A step of c that moves or reports is typed, and leaves the others alone.      *)
LEMMA StepTyped ==
  ASSUME FileTyped, NEW c \in Writes, log' = log, visible' \in visible .. Len(log),
         \/ \E next \in Keeper!Stage : Moves(c, next)
         \/ \E result \in Keeper!Outcome : Reports(c, result),
         \/ writeToken' = writeToken
         \/ \E v \in visible .. Len(log) : writeToken' = [writeToken EXCEPT ![c] = v],
         \/ writeFence' = writeFence
         \/ \E v \in visible .. Len(log) : writeFence' = [writeFence EXCEPT ![c] = v],
         writesInFlight' \in {writesInFlight, writesInFlight \cup {c}}
  PROVE  FileTyped' /\ \A u \in Writes \ {c} : Unmoved(u)
<1>. DEFINE Follows ==
            /\ writeStage' \in [Writes -> Keeper!Stage]
            /\ writeOutcome' \in [Writes -> Keeper!Outcome \cup {Keeper!Undecided}]
            /\ \A u \in Writes \ {c} : writeStage'[u] = writeStage[u] /\ writeOutcome'[u] = writeOutcome[u]
<1>1. Follows
  <2>1. writeStage \in [Writes -> Keeper!Stage] /\ "done" \in Keeper!Stage
        /\ writeOutcome \in [Writes -> Keeper!Outcome \cup {Keeper!Undecided}]
    BY DEF FileTyped, Keeper!Stage
  <2>2. ASSUME NEW next \in Keeper!Stage, Moves(c, next)
        PROVE  Follows
    BY <2>1, <2>2 DEF Moves
  <2>3. ASSUME NEW result \in Keeper!Outcome, Reports(c, result)
        PROVE  Follows
    BY <2>1, <2>3 DEF Reports
  <2>. QED BY <2>2, <2>3
<1>2. visible \in 1 .. Len(log) /\ Len(log) \in Nat
  BY DEF FileTyped
<1>3. /\ writeToken' \in [Writes -> Nat] /\ writeFence' \in [Writes -> Nat]
      /\ \A u \in Writes \ {c} : writeToken'[u] = writeToken[u] /\ writeFence'[u] = writeFence[u]
  <2>1. visible .. Len(log) \subseteq Nat
    BY <1>2
  <2>2. /\ writeToken' \in [Writes -> Nat]
        /\ \A u \in Writes \ {c} : writeToken'[u] = writeToken[u]
    BY <2>1 DEF FileTyped
  <2>3. /\ writeFence' \in [Writes -> Nat]
        /\ \A u \in Writes \ {c} : writeFence'[u] = writeFence[u]
    BY <2>1 DEF FileTyped
  <2>. QED BY <2>2, <2>3
<1>4. /\ writesInFlight' \subseteq Writes
      /\ \A u \in Writes \ {c} : u \in writesInFlight' <=> u \in writesInFlight
  BY DEF FileTyped
<1>5. log' \in Seq(Entry) /\ log' # << >> /\ visible' \in 1 .. Len(log')
  BY <1>2 DEF FileTyped
<1>. QED BY <1>1, <1>3, <1>4, <1>5 DEF FileTyped, Unmoved

(* Before the request is sent: the call goes on ...                              *)
LEMMA GoOnUnsent ==
  ASSUME FileInv, NEW c \in Writes, writeStage[c] \in Unsent, NEW next \in Unsent \ {"begin"},
         Moves(c, next), log' = log, writesInFlight' = writesInFlight, Entitled(c),
         next \in {"preName", "preBody"} => PreReads(c)',
         next \in {"check", "send"} => Owns(c)'
  PROVE  WriteInv(c)'
<1>1. writeStage'[c] = next /\ writeOutcome'[c] = writeOutcome[c]
  BY DEF FileInv, FileTyped, Moves
<1>2. c \notin writesInFlight' /\ NoEffect(c)' /\ writeOutcome[c] = Keeper!Undecided
  BY DEF FileInv, WriteInv, UnsentIsSilent, ReportedWhenDone, Unsent, NoEffect
<1>3. Entitled(c)'
  BY DEF Entitled, Keeper!FenceFitsBody
<1>4. EntitledWhenRead(c)' /\ UnsentIsSilent(c)' /\ LastInFlight(c)'
  BY <1>2, <1>3 DEF EntitledWhenRead, UnsentIsSilent, LastInFlight
<1>5. PreReads(c)'
  BY <1>1 DEF PreReads
<1>6. OwnsWhileAsking(c)'
  BY <1>1, <1>2 DEF OwnsWhileAsking, Sent, Unsent
<1>7. OneWrite(c)' /\ WritesOwned(c)'
  BY <1>2 DEF NoEffect, OneWrite, WritesOwned
<1>8. ReportedWhenDone(c)' /\ Seen(c)'
  BY <1>1, <1>2 DEF ReportedWhenDone, Seen, Unsent, Keeper!Undecided
<1>. QED BY <1>4, <1>5, <1>6, <1>7, <1>8 DEF WriteInv

(* ... or reports, and that is not a success.                                    *)
LEMMA ReportUnsent ==
  ASSUME FileInv, NEW c \in Writes, writeStage[c] \in Unsent,
         NEW result \in Keeper!Outcome \ {"VERIFIED_SUCCESS"},
         Reports(c, result), log' = log, writesInFlight' = writesInFlight
  PROVE  WriteInv(c)'
<1>1. writeStage'[c] = "done" /\ writeOutcome'[c] = result
  BY DEF FileInv, FileTyped, Reports
<1>2. c \notin writesInFlight' /\ NoEffect(c)'
  BY DEF FileInv, WriteInv, UnsentIsSilent, NoEffect
<1>3. OneWrite(c)' /\ WritesOwned(c)'
  BY <1>2 DEF NoEffect, OneWrite, WritesOwned
<1>. QED BY <1>1, <1>2, <1>3 DEF WriteInv, EntitledWhenRead, UnsentIsSilent, PreReads,
     OwnsWhileAsking, LastInFlight, ReportedWhenDone, Seen, Unsent, Sent,
     Keeper!Outcome, Keeper!Undecided
(* After the request was sent: the call polls on, compares its fence, or         *)
(* reports; a report of success has seen the body.                               *)
LEMMA GoOnSent ==
  ASSUME FileInv, NEW c \in Writes, writeStage[c] \in Sent, log' = log,
         visible' \in visible .. Len(log), writesInFlight' = writesInFlight,
         writeToken' = writeToken,
         \/ \E next \in Sent : Moves(c, next)
         \/ \E result \in Keeper!Outcome : Reports(c, result),
         writeStage'[c] \in {"postName", "postBody"} \/ writeOutcome'[c] = "VERIFIED_SUCCESS" =>
           \E i \in writeToken[c] .. Len(log) : log[i].body = WritePlan[c].body
  PROVE  WriteInv(c)'
<1>1. /\ writeStage'[c] \in Sent \cup {"done"}
      /\ writeStage'[c] = "done" <=> writeOutcome'[c] # Keeper!Undecided
  <2>1. writeOutcome[c] = Keeper!Undecided
    BY DEF FileInv, WriteInv, ReportedWhenDone, Sent
  <2>. QED BY <2>1 DEF FileInv, FileTyped, Moves, Reports, Sent, Keeper!Outcome, Keeper!Undecided
<1>2. Entitled(c) /\ Owns(c) /\ visible \in 1 .. Len(log) /\ Len(log) \in Nat
  <2>1. EntitledWhenRead(c) /\ OwnsWhileAsking(c)
    BY DEF FileInv, WriteInv
  <2>2. visible \in 1 .. Len(log) /\ Len(log) \in Nat
    BY DEF FileInv, FileTyped
  <2>. QED BY <2>1, <2>2 DEF EntitledWhenRead, OwnsWhileAsking, Sent
<1>3. Entitled(c)'
  BY <1>2 DEF Entitled, Keeper!FenceFitsBody
<1>4. Owns(c)' /\ writeToken[c] \in 1 .. Len(log)
  BY <1>2 DEF Owns
<1>5. LastInFlight(c)' /\ OneWrite(c)' /\ WritesOwned(c)'
  BY DEF FileInv, WriteInv, LastInFlight, OneWrite, WritesOwned, NoEffect
<1>6. EntitledWhenRead(c)' /\ UnsentIsSilent(c)' /\ PreReads(c)' /\ OwnsWhileAsking(c)'
  BY <1>1, <1>3, <1>4 DEF EntitledWhenRead, UnsentIsSilent, PreReads, OwnsWhileAsking, Sent, Unsent
<1>7. Seen(c)' /\ ReportedWhenDone(c)'
  BY <1>1, <1>4 DEF Seen, ReportedWhenDone
<1>. QED BY <1>5, <1>6, <1>7 DEF WriteInv

(* Who claims an attempt goes on, or gives up.                                   *)
LEMMA Claims ==
  ASSUME NEW c \in Writes, Keeper!Claim(c)
  PROVE  (\E next \in {"check", "send"} : Moves(c, next)) \/ Reports(c, "FAILURE")
BY KeeperPieces DEF Keeper!Claim

(* Who is refused starts over, or gives up.                                      *)
LEMMA Refusals ==
  ASSUME NEW c \in Writes, Keeper!Refused(c)
  PROVE  Moves(c, "read") \/ \E result \in {"STATE_CONFLICT", "FAILURE"} : Reports(c, result)
BY KeeperPieces DEF Keeper!Refused

-----------------------------------------------------------------------------
(* One lemma for each step of a write: it begins,                                *)
LEMMA WriteBeginInv ==
  ASSUME FileInv, NEW c \in Writes, Keeper!Begin(c)
  PROVE  FileInv'
<1>1. /\ writeStage[c] = "begin" /\ log' = log /\ visible' = visible
      /\ writeToken' = writeToken /\ writeFence' = writeFence /\ writesInFlight' = writesInFlight
  BY DEF Keeper!Begin, Keeper!driveVars
<1>2. visible' \in visible .. Len(log)
  BY <1>1 DEF FileInv, FileTyped
<1>3. WritePlan[c].local \in Keeper!LocalVerdict
  BY WritesPlanned
<1>4. \/ \E result \in Keeper!Outcome \ {"VERIFIED_SUCCESS"} : Reports(c, result)
      \/ Moves(c, "read") /\ Entitled(c)
  <2>1. CASE WritePlan[c].local # "sound"
    <3>1. Reports(c, WritePlan[c].local)
      BY <2>1, KeeperPieces DEF Keeper!Begin
    <3>. QED BY <2>1, <3>1, <1>3 DEF Keeper!Outcome, Keeper!LocalVerdict
  <2>2. CASE WritePlan[c].local = "sound"
    <3>1. Reports(c, "STATE_CONFLICT") \/ (Moves(c, "read") /\ Entitled(c))
      BY <2>2, KeeperPieces DEF Keeper!Begin, Entitled
    <3>. QED BY <3>1 DEF Keeper!Outcome
  <2>. QED BY <2>1, <2>2
<1>5. FileTyped' /\ \A u \in Writes \ {c} : Unmoved(u)
  BY <1>1, <1>2, <1>4, StepTyped DEF FileInv, Keeper!Stage
<1>6. WriteInv(c)'
  BY <1>1, <1>4, GoOnUnsent, ReportUnsent DEF Unsent
<1>. QED BY <1>1, <1>2, <1>5, <1>6, QuietWriteStep

(* ... reads the metadata,                                                       *)
LEMMA WriteReadInv ==
  ASSUME FileInv, NEW c \in Writes, Keeper!ReadMetadata(c)
  PROVE  FileInv'
<1>1. /\ writeStage[c] = "read" /\ writeFence' = writeFence /\ writesInFlight' = writesInFlight
  BY DEF Keeper!ReadMetadata
<1>0. WritePlan[c].fenced \in BOOLEAN
  BY WritesPlanned
<1>2. PICK v \in visible .. Len(log) :
        /\ log' = log /\ visible' = v /\ writeToken' = [writeToken EXCEPT ![c] = v]
        /\ \/ Reports(c, "STATE_CONFLICT")
           \/ Moves(c, "preName") /\ log[v].state = WritePlan[c].state
           \/ /\ Keeper!Claim(c) /\ log[v].state = WritePlan[c].state
              /\ ~WritePlan[c].fenced
  <2>1. PICK v \in visible .. Keeper!Latest :
          /\ Keeper!ReadVersion(v)
          /\ writeToken' = [writeToken EXCEPT ![c] = v]
          /\ CASE log[v].state # WritePlan[c].state ->
                    Keeper!Report(c, "STATE_CONFLICT") /\ UNCHANGED writeAttempts
               [] log[v].state = WritePlan[c].state /\ WritePlan[c].fenced ->
                    Keeper!Goto(c, "preName") /\ UNCHANGED writeAttempts
               [] OTHER -> Keeper!Claim(c)
    BY DEF Keeper!ReadMetadata
  <2>2. log' = log /\ visible' = v /\ Keeper!Latest = Len(log)
    BY <2>1 DEF Keeper!ReadVersion, Keeper!Latest
  <2>3. CASE log[v].state # WritePlan[c].state
    BY <2>1, <2>2, <2>3, KeeperPieces
  <2>4. CASE log[v].state = WritePlan[c].state /\ WritePlan[c].fenced
    BY <2>1, <2>2, <2>4, KeeperPieces
  <2>5. CASE log[v].state = WritePlan[c].state /\ ~WritePlan[c].fenced
    BY <2>1, <2>2, <2>5, KeeperPieces
  <2>. QED BY <1>0, <2>3, <2>4, <2>5
<1>3. /\ v \in 1 .. visible' /\ visible' \in visible .. Len(log) /\ writeToken'[c] = v
      /\ v \in 1 .. Len(log) /\ Len(log) \in Nat
  BY <1>2 DEF FileInv, FileTyped
<1>4. \/ Reports(c, "STATE_CONFLICT") \/ Reports(c, "FAILURE")
      \/ /\ \E next \in {"preName", "check", "send"} : Moves(c, next)
         /\ log[v].state = WritePlan[c].state
         /\ Moves(c, "preName") \/ ~WritePlan[c].fenced
  BY <1>2, Claims
<1>5. FileTyped' /\ \A u \in Writes \ {c} : Unmoved(u)
  <2>1. \/ \E next \in Keeper!Stage : Moves(c, next)
        \/ \E result \in Keeper!Outcome : Reports(c, result)
    BY <1>4 DEF Keeper!Stage, Keeper!Outcome
  <2>. QED BY <1>1, <1>2, <1>3, <2>1, StepTyped DEF FileInv
<1>6. WriteInv(c)'
  <2>1. CASE Reports(c, "STATE_CONFLICT") \/ Reports(c, "FAILURE")
    BY <1>1, <1>2, <2>1, ReportUnsent DEF Unsent, Keeper!Outcome
  <2>2. ASSUME NEW next \in {"preName", "check", "send"}, Moves(c, next),
               log[v].state = WritePlan[c].state, Moves(c, "preName") \/ ~WritePlan[c].fenced
        PROVE  WriteInv(c)'
    <3>1. Entitled(c)
      BY <1>1 DEF FileInv, WriteInv, EntitledWhenRead
    <3>2. writeStage'[c] = next
      BY <2>2 DEF FileInv, FileTyped, Moves
    <3>3. next = "preName" => PreReads(c)'
      BY <1>2, <1>3, <2>2, <3>2 DEF PreReads
    <3>4. next \in {"check", "send"} => Owns(c)'
      <4>1. next \in {"check", "send"} => ~Moves(c, "preName")
        BY <2>2, <3>2 DEF FileInv, FileTyped, Moves
      <4>. QED BY <1>2, <1>3, <2>2, <4>1 DEF Owns
    <3>. QED BY <1>1, <1>2, <2>2, <3>1, <3>3, <3>4, GoOnUnsent DEF Unsent
  <2>. QED BY <1>4, <2>1, <2>2
<1>. QED BY <1>2, <1>3, <1>5, <1>6, QuietWriteStep

(* ... takes the name for its fence,                                             *)
LEMMA WriteFenceNameInv ==
  ASSUME FileInv, NEW c \in Writes, Keeper!ReadFenceName(c)
  PROVE  FileInv'
<1>1. writeToken' = writeToken /\ writesInFlight' = writesInFlight
  BY DEF Keeper!ReadFenceName
<1>2. PICK v \in visible .. Len(log) :
        log' = log /\ visible' = v /\ writeFence' = [writeFence EXCEPT ![c] = v]
  BY DEF Keeper!ReadFenceName, Keeper!ReadVersion, Keeper!Latest
<1>3. /\ visible' \in visible .. Len(log) /\ writeFence'[c] = v /\ v \in 1 .. visible'
      /\ visible \in 1 .. Len(log) /\ Len(log) \in Nat
  BY <1>2 DEF FileInv, FileTyped
<1>4. \/ writeStage[c] = "preName" /\ Moves(c, "preBody")
      \/ writeStage[c] = "postName" /\ Moves(c, "postBody")
  BY KeeperPieces DEF Keeper!ReadFenceName
<1>5. FileTyped' /\ \A u \in Writes \ {c} : Unmoved(u)
  BY <1>1, <1>2, <1>3, <1>4, StepTyped DEF FileInv, Keeper!Stage
<1>6. WriteInv(c)'
  <2>1. CASE writeStage[c] = "preName" /\ Moves(c, "preBody")
    <3>1. writeToken[c] \in 1 .. visible /\ log[writeToken[c]].state = WritePlan[c].state
      BY <2>1 DEF FileInv, WriteInv, PreReads
    <3>2. writeToken'[c] \in 1 .. visible' /\ writeFence'[c] \in writeToken'[c] .. visible'
      BY <1>1, <1>2, <1>3, <3>1
    <3>3. PreReads(c)'
      BY <1>1, <1>2, <3>1, <3>2 DEF PreReads
    <3>4. Entitled(c)
      BY <2>1 DEF FileInv, WriteInv, EntitledWhenRead
    <3>. QED BY <1>1, <1>2, <2>1, <3>3, <3>4, GoOnUnsent DEF Unsent
  <2>2. CASE writeStage[c] = "postName" /\ Moves(c, "postBody")
    <3>1. \E i \in writeToken[c] .. Len(log) : log[i].body = WritePlan[c].body
      BY <2>2 DEF FileInv, WriteInv, Seen
    <3>. QED BY <1>1, <1>2, <1>3, <2>2, <3>1, GoOnSent DEF Sent
  <2>. QED BY <1>4, <2>1, <2>2
<1>. QED BY <1>2, <1>3, <1>5, <1>6, QuietWriteStep
(* ... compares its fence, before the write or after it,                         *)
LEMMA WriteFenceBodyInv ==
  ASSUME FileInv, NEW c \in Writes, Keeper!ReadFenceBody(c)
  PROVE  FileInv'
<1>1. /\ log' = log /\ visible' = visible /\ writeToken' = writeToken
      /\ writeFence' = writeFence /\ writesInFlight' = writesInFlight
      /\ writeStage[c] \in {"preBody", "postBody"}
  BY DEF Keeper!ReadFenceBody, Keeper!driveVars
<1>2. visible' \in visible .. Len(log) /\ visible \in 1 .. Len(log) /\ Len(log) \in Nat
  BY <1>1 DEF FileInv, FileTyped
<1>3. PICK v \in visible .. Len(log) :
        LET expected == Keeper!FenceToken(WritePlan[c].operation, WritePlan[c].generation,
                                          WritePlan[c].state)
            observed == Keeper!FenceToken(log[v].body.operation, log[v].body.generation,
                                          log[writeFence[c]].state)
            decision == Keeper!CompareFence(expected, observed)
        IN CASE decision = "STALE" -> Keeper!Report(c, "STALE_FENCE") /\ UNCHANGED writeAttempts
             [] decision = "MISMATCH" -> Keeper!Report(c, "STATE_CONFLICT") /\ UNCHANGED writeAttempts
             [] decision = "VALID" /\ writeStage[c] = "preBody" -> Keeper!Claim(c)
             [] OTHER -> Keeper!Report(c, "VERIFIED_SUCCESS") /\ UNCHANGED writeAttempts
  BY DEF Keeper!ReadFenceBody, Keeper!Latest
<1>. DEFINE expected == Keeper!FenceToken(WritePlan[c].operation, WritePlan[c].generation,
                                          WritePlan[c].state)
            observed == Keeper!FenceToken(log[v].body.operation, log[v].body.generation,
                                          log[writeFence[c]].state)
            decision == Keeper!CompareFence(expected, observed)
<1>4. /\ decision \in {"STALE", "MISMATCH", "VALID"}
      /\ decision = "VALID" => observed = expected
  BY DEF Keeper!CompareFence
<1>5. observed = expected =>
        /\ log[v].body.operation = WritePlan[c].operation
        /\ log[v].body.generation = WritePlan[c].generation
  BY DEF Keeper!FenceToken
<1>6. \/ Reports(c, "STALE_FENCE") \/ Reports(c, "STATE_CONFLICT") \/ Reports(c, "FAILURE")
      \/ /\ writeStage[c] = "preBody" /\ observed = expected
         /\ \E next \in {"check", "send"} : Moves(c, next)
      \/ writeStage[c] = "postBody" /\ Reports(c, "VERIFIED_SUCCESS")
  <2>. HIDE DEF decision, expected, observed
  <2>1. CASE decision = "STALE"
    BY <1>3, <2>1, KeeperPieces DEF decision, expected, observed
  <2>2. CASE decision = "MISMATCH"
    BY <1>3, <2>2, KeeperPieces DEF decision, expected, observed
  <2>3. CASE decision = "VALID" /\ writeStage[c] = "preBody"
    <3>1. Keeper!Claim(c)
      BY <1>3, <2>3 DEF decision, expected, observed
    <3>. QED BY <1>4, <2>3, <3>1, Claims
  <2>4. CASE decision = "VALID" /\ writeStage[c] = "postBody"
    BY <1>3, <2>4, KeeperPieces DEF decision, expected, observed
  <2>. QED BY <1>1, <1>4, <2>1, <2>2, <2>3, <2>4
<1>. HIDE DEF decision, expected, observed
<1>7. FileTyped' /\ \A u \in Writes \ {c} : Unmoved(u)
  <2>1. \/ \E next \in Keeper!Stage : Moves(c, next)
        \/ \E result \in Keeper!Outcome : Reports(c, result)
    BY <1>6 DEF Keeper!Stage, Keeper!Outcome
  <2>. QED BY <1>1, <1>2, <2>1, StepTyped DEF FileInv
<1>8. WriteInv(c)'
  <2>1. ASSUME NEW result \in {"STALE_FENCE", "STATE_CONFLICT", "FAILURE"}, Reports(c, result)
        PROVE  WriteInv(c)'
    <3>1. CASE writeStage[c] = "preBody"
      BY <1>1, <2>1, <3>1, ReportUnsent DEF Unsent, Keeper!Outcome
    <3>2. CASE writeStage[c] = "postBody"
      <4>1. writeOutcome'[c] = result /\ writeStage'[c] = "done"
        BY <2>1 DEF FileInv, FileTyped, Reports
      <4>. QED BY <1>1, <1>2, <2>1, <3>2, <4>1, GoOnSent DEF Sent, Keeper!Outcome
    <3>. QED BY <1>1, <3>1, <3>2
  <2>2. ASSUME writeStage[c] = "preBody", observed = expected,
               NEW next \in {"check", "send"}, Moves(c, next)
        PROVE  WriteInv(c)'
    <3>1. /\ writeToken[c] \in 1 .. visible /\ log[writeToken[c]].state = WritePlan[c].state
          /\ Entitled(c)
      BY <2>2 DEF FileInv, WriteInv, PreReads, EntitledWhenRead
    <3>2. writeToken[c] = Len(log) => v = writeToken[c]
      BY <1>2, <3>1
    <3>3. Owns(c)'
      BY <1>1, <1>5, <2>2, <3>1, <3>2 DEF Owns
    <3>. QED BY <1>1, <2>2, <3>1, <3>3, GoOnUnsent DEF Unsent
  <2>3. CASE writeStage[c] = "postBody" /\ Reports(c, "VERIFIED_SUCCESS")
    <3>1. \E i \in writeToken[c] .. Len(log) : log[i].body = WritePlan[c].body
      BY <2>3 DEF FileInv, WriteInv, Seen
    <3>. QED BY <1>1, <1>2, <2>3, <3>1, GoOnSent DEF Sent, Keeper!Outcome
  <2>. QED BY <1>6, <2>1, <2>2, <2>3
<1>. QED BY <1>1, <1>2, <1>7, <1>8, QuietWriteStep

(* ... fails to read,                                                            *)
LEMMA WriteReadFailsInv ==
  ASSUME FileInv, NEW c \in Writes, Keeper!ReadFails(c)
  PROVE  FileInv'
<1>1. /\ log' = log /\ visible' = visible /\ writeToken' = writeToken
      /\ writeFence' = writeFence /\ writesInFlight' = writesInFlight
      /\ writeStage[c] \in {"read", "preName", "preBody", "postName", "postBody"}
  BY DEF Keeper!ReadFails, Keeper!driveVars
<1>2. visible' \in visible .. Len(log)
  BY <1>1 DEF FileInv, FileTyped
<1>3. PICK result \in {"UNCONFIRMED", "FAILURE"} : Reports(c, result)
  BY KeeperPieces DEF Keeper!ReadFails
<1>4. FileTyped' /\ \A u \in Writes \ {c} : Unmoved(u)
  BY <1>1, <1>2, <1>3, StepTyped DEF FileInv, Keeper!Outcome
<1>5. WriteInv(c)'
  <2>1. CASE writeStage[c] \in Unsent
    BY <1>1, <1>3, <2>1, ReportUnsent DEF Keeper!Outcome
  <2>2. CASE writeStage[c] \in Sent
    <3>1. writeOutcome'[c] = result /\ writeStage'[c] = "done"
      BY <1>3 DEF FileInv, FileTyped, Reports
    <3>. QED BY <1>1, <1>2, <1>3, <2>2, <3>1, GoOnSent DEF Keeper!Outcome
  <2>. QED BY <1>1, <2>1, <2>2 DEF Unsent, Sent
<1>. QED BY <1>1, <1>2, <1>4, <1>5, QuietWriteStep

(* ... is refused,                                                               *)
LEMMA WriteRefusedInv ==
  ASSUME FileInv, NEW c \in Writes, Keeper!WriteRefused(c)
  PROVE  FileInv'
<1>1. /\ log' = log /\ visible' = visible /\ writeToken' = writeToken
      /\ writeFence' = writeFence /\ writesInFlight' = writesInFlight
      /\ writeStage[c] = "send"
  BY DEF Keeper!WriteRefused, Keeper!driveVars
<1>2. visible' \in visible .. Len(log)
  BY <1>1 DEF FileInv, FileTyped
<1>3. Moves(c, "read") \/ \E result \in {"STATE_CONFLICT", "FAILURE"} : Reports(c, result)
  BY Refusals, KeeperPieces DEF Keeper!WriteRefused
<1>4. FileTyped' /\ \A u \in Writes \ {c} : Unmoved(u)
  <2>1. \/ \E next \in Keeper!Stage : Moves(c, next)
        \/ \E result \in Keeper!Outcome : Reports(c, result)
    BY <1>3 DEF Keeper!Stage, Keeper!Outcome
  <2>. QED BY <1>1, <1>2, <2>1, StepTyped DEF FileInv
<1>5. WriteInv(c)'
  <2>1. Entitled(c)
    BY <1>1 DEF FileInv, WriteInv, EntitledWhenRead
  <2>. QED BY <1>1, <1>3, <2>1, GoOnUnsent, ReportUnsent DEF Unsent, Keeper!Outcome
<1>. QED BY <1>1, <1>2, <1>4, <1>5, QuietWriteStep

(* ... is not answered,                                                          *)
LEMMA WriteUnansweredInv ==
  ASSUME FileInv, NEW c \in Writes, Keeper!WriteUnanswered(c)
  PROVE  FileInv'
<1>1. /\ log' = log /\ visible' = visible /\ writeToken' = writeToken
      /\ writeFence' = writeFence /\ writeStage[c] = "send" /\ Moves(c, "confirm")
      /\ writesInFlight' \in {writesInFlight, writesInFlight \cup {c}}
  BY KeeperPieces DEF Keeper!WriteUnanswered, Keeper!driveVars
<1>2. visible' \in visible .. Len(log)
  BY <1>1 DEF FileInv, FileTyped
<1>3. FileTyped' /\ \A u \in Writes \ {c} : Unmoved(u)
  BY <1>1, <1>2, StepTyped DEF FileInv, Keeper!Stage
<1>4. Entitled(c) /\ Owns(c) /\ NoEffect(c) /\ writeOutcome[c] = Keeper!Undecided
  BY <1>1 DEF FileInv, WriteInv, EntitledWhenRead, OwnsWhileAsking, UnsentIsSilent, Unsent,
     ReportedWhenDone
<1>5. writeStage'[c] = "confirm" /\ writeOutcome'[c] = writeOutcome[c]
  BY <1>1 DEF FileInv, FileTyped, Moves
<1>6. Entitled(c)' /\ Owns(c)' /\ NoEffect(c)'
  BY <1>1, <1>4 DEF Entitled, Keeper!FenceFitsBody, Owns, NoEffect
<1>7. OneWrite(c)' /\ WritesOwned(c)'
  BY <1>6 DEF NoEffect, OneWrite, WritesOwned
<1>8. WriteInv(c)'
  BY <1>4, <1>5, <1>6, <1>7 DEF WriteInv, EntitledWhenRead, UnsentIsSilent, PreReads,
     OwnsWhileAsking, LastInFlight, ReportedWhenDone, Seen, Unsent, Keeper!Undecided
<1>. QED BY <1>1, <1>2, <1>3, <1>8, QuietWriteStep

(* ... reads the body back;                                                      *)
LEMMA ReadsBack ==
  ASSUME NEW c \in Writes, NEW faults, Keeper!KeepReading(c, faults)
  PROVE  \/ Moves(c, "confirm")
         \/ \E result \in {"UNCONFIRMED", "SCHEMA_INVALID", "HASH_MISMATCH"} : Reports(c, result)
<1>1. Keeper!Unconfirmed(c, faults) \in {"UNCONFIRMED", "SCHEMA_INVALID", "HASH_MISMATCH"}
  BY DEF Keeper!Unconfirmed
<1>. QED BY <1>1, KeeperPieces DEF Keeper!KeepReading

(* ... one probe,                                                                *)
LEMMA WriteProbeInv ==
  ASSUME FileInv, NEW c \in Writes, Keeper!Probe(c)
  PROVE  FileInv'
<1>1. /\ writeToken' = writeToken /\ writeFence' = writeFence
      /\ writesInFlight' = writesInFlight /\ writeStage[c] = "confirm"
  BY DEF Keeper!Probe
<1>2. visible \in 1 .. Len(log) /\ Len(log) \in Nat
  BY DEF FileInv, FileTyped
<1>. DEFINE Read ==
            /\ log' = log /\ visible' \in visible .. Len(log)
            /\ \/ Moves(c, "confirm")
               \/ \E result \in {"UNCONFIRMED", "SCHEMA_INVALID", "HASH_MISMATCH"} : Reports(c, result)
               \/ /\ Moves(c, "postName") \/ Reports(c, "VERIFIED_SUCCESS")
                  /\ \E i \in visible .. Len(log) : log[i].body = WritePlan[c].body
<1>3. Read
  <2>1. ASSUME NEW version \in visible .. Keeper!Latest, Keeper!ReadVersion(version),
               NEW text \in version .. Keeper!Latest, Keeper!ReadBack(c, version, text)
        PROVE  Read
    <3>1. log' = log /\ visible' \in visible .. Len(log) /\ text \in visible .. Len(log)
      BY <1>2, <2>1 DEF Keeper!ReadVersion, Keeper!Latest
    <3>2. \/ \E faults : Keeper!KeepReading(c, faults)
          \/ /\ log[text].body = WritePlan[c].body
             /\ Keeper!Goto(c, "postName") \/ Keeper!Report(c, "VERIFIED_SUCCESS")
      BY <2>1 DEF Keeper!ReadBack
    <3>3. CASE \E faults : Keeper!KeepReading(c, faults)
      BY <3>1, <3>3, ReadsBack
    <3>4. CASE /\ log[text].body = WritePlan[c].body
               /\ Keeper!Goto(c, "postName") \/ Keeper!Report(c, "VERIFIED_SUCCESS")
      BY <3>1, <3>4, KeeperPieces
    <3>. QED BY <3>2, <3>3, <3>4
  <2>2. ASSUME UNCHANGED <<log, visible>>, \E faults : Keeper!KeepReading(c, faults)
        PROVE  Read
    BY <1>2, <2>2, ReadsBack
  <2>3. ASSUME UNCHANGED <<log, visible>>, Keeper!Report(c, "UNCONFIRMED")
        PROVE  Read
    BY <1>2, <2>3, KeeperPieces
  <2>. QED BY <2>1, <2>2, <2>3 DEF Keeper!Probe, Keeper!driveVars
<1>4. FileTyped' /\ \A u \in Writes \ {c} : Unmoved(u)
  <2>1. \/ \E next \in Keeper!Stage : Moves(c, next)
        \/ \E result \in Keeper!Outcome : Reports(c, result)
    BY <1>3 DEF Keeper!Stage, Keeper!Outcome
  <2>. QED BY <1>1, <1>3, <2>1, StepTyped DEF FileInv
<1>5. WriteInv(c)'
  <2>0. writeOutcome[c] = Keeper!Undecided /\ writeToken[c] \in 1 .. visible
    BY <1>1 DEF FileInv, WriteInv, ReportedWhenDone, OwnsWhileAsking, Owns, Sent
  <2>1. CASE Moves(c, "confirm")
    <3>1. writeStage'[c] = "confirm" /\ writeOutcome'[c] # "VERIFIED_SUCCESS"
      BY <2>0, <2>1 DEF FileInv, FileTyped, Moves, Keeper!Undecided
    <3>. QED BY <1>1, <1>3, <2>1, <3>1, GoOnSent DEF Sent
  <2>2. ASSUME NEW result \in {"UNCONFIRMED", "SCHEMA_INVALID", "HASH_MISMATCH"}, Reports(c, result)
        PROVE  WriteInv(c)'
    <3>1. writeStage'[c] = "done" /\ writeOutcome'[c] = result
      BY <2>2 DEF FileInv, FileTyped, Reports
    <3>. QED BY <1>1, <1>3, <2>2, <3>1, GoOnSent DEF Sent, Keeper!Outcome
  <2>3. ASSUME Moves(c, "postName") \/ Reports(c, "VERIFIED_SUCCESS"),
               NEW i \in visible .. Len(log), log[i].body = WritePlan[c].body
        PROVE  WriteInv(c)'
    <3>1. i \in writeToken[c] .. Len(log)
      BY <1>2, <2>0, <2>3
    <3>. QED BY <1>1, <1>3, <2>3, <3>1, GoOnSent DEF Sent, Keeper!Outcome
  <2>. QED BY <1>3, <2>1, <2>2, <2>3
<1>. QED BY <1>1, <1>3, <1>4, <1>5, QuietWriteStep
(* A body that lands, in time or late, lands on the version its call owns.       *)
LEMMA WriteLands ==
  ASSUME FileInv, AtomicPrecondition, NEW c \in Writes,
         writeStage[c] = "send" \/ c \in writesInFlight,
         Keeper!PreconditionHolds(writeToken[c]), Keeper!ReplaceText(c)
  PROVE  /\ LogGrows /\ Len(log') = Len(log) + 1
         /\ log' \in Seq(Entry) /\ log' # << >> /\ visible' = visible /\ visible' \in 1 .. Len(log')
         /\ log'[Len(log) + 1] = [state |-> Current.state, body |-> WritePlan[c].body, by |-> c]
         /\ \A u \in Writes \ {c} : NothingNewBy(u)
         /\ OneWrite(c)' /\ WritesOwned(c)'
<1>1. Entitled(c) /\ Owns(c) /\ NoEffect(c)
  BY DEF FileInv, WriteInv, EntitledWhenRead, OwnsWhileAsking, UnsentIsSilent, Unsent, LastInFlight
<1>2. /\ Len(log) \in Nat \ {0} /\ Latest = Len(log) /\ Current = log[Len(log)]
      /\ Current.state \in States(Object) /\ Current.body \in Body
      /\ visible \in 1 .. Len(log)
  BY NewestTyped DEF FileInv
<1>3. writeToken[c] = Len(log)
  BY DEF Keeper!PreconditionHolds, Keeper!Latest
<1>4. /\ log' = Append(log, [state |-> Current.state, body |-> WritePlan[c].body, by |-> c])
      /\ visible' = visible
  BY DEF Keeper!ReplaceText, Keeper!Write, Keeper!Current, Keeper!Latest, Current, Latest
<1>5. /\ LogGrows /\ Len(log') = Len(log) + 1
      /\ log'[Len(log) + 1] = [state |-> Current.state, body |-> WritePlan[c].body, by |-> c]
      /\ log' \in Seq(Entry) /\ log' # << >> /\ visible' \in 1 .. Len(log')
      /\ \A u : u # c => NothingNewBy(u)
  BY <1>2, <1>4, FileGrows, WritesPlanned DEF FileInv
<1>6. \A i \in 1 .. Len(log) : log'[i] = log[i]
  BY <1>5 DEF LogGrows
<1>7. ASSUME NEW i \in 1 .. Len(log'), log'[i].by = c
      PROVE  i = Len(log) + 1
  <2>1. i \in 1 .. Len(log) \/ i = Len(log) + 1
    BY <1>2, <1>5
  <2>2. i \in 1 .. Len(log) => log'[i].by # c
    BY <1>1, <1>6 DEF NoEffect
  <2>. QED BY <1>7, <2>1, <2>2
<1>8. OneWrite(c)'
  BY <1>7 DEF OneWrite
<1>9. OwnedBody(c, log[Len(log)], log'[Len(log) + 1])
  BY <1>1, <1>2, <1>3, <1>5 DEF Owns, Entitled, OwnedBody, Keeper!FenceFitsBody
<1>10. WritesOwned(c)'
  <2>1. ASSUME NEW i \in 1 .. Len(log'), log'[i].by = c
        PROVE  i > 1 /\ OwnedBody(c, log'[i - 1], log'[i])
    <3>1. i = Len(log) + 1 /\ i - 1 = Len(log) /\ i > 1 /\ Len(log) \in 1 .. Len(log)
      BY <1>2, <1>7, <2>1
    <3>2. log'[i - 1] = log[Len(log)]
      BY <1>6, <3>1
    <3>. QED BY <1>9, <3>1, <3>2
  <2>. QED BY <2>1 DEF WritesOwned, OwnedBody, Keeper!CanWriteBody, Keeper!BodyWriters
<1>. QED BY <1>4, <1>5, <1>8, <1>10

(* What c knew stays as good as it was while c itself writes.                    *)
LEMMA OwnsStays ==
  ASSUME FileTyped, LogGrows, Len(log') = Len(log) + 1, NEW c \in Writes, Owns(c),
         writeToken' = writeToken
  PROVE  Owns(c)' /\ writeToken[c] \in 1 .. Len(log)
<1>1. /\ writeToken[c] \in 1 .. Len(log) /\ Len(log) \in Nat /\ visible <= visible'
      /\ writeToken[c] \in 1 .. visible'
  BY DEF FileTyped, LogGrows, Owns
<1>2. log'[writeToken[c]] = log[writeToken[c]] /\ writeToken[c] # Len(log')
  BY <1>1 DEF LogGrows
<1>. QED BY <1>1, <1>2 DEF Owns

(* ... is applied,                                                               *)
LEMMA WriteAppliedInv ==
  ASSUME FileInv, AtomicPrecondition, NEW c \in Writes, Keeper!WriteApplied(c)
  PROVE  FileInv'
<1>1. /\ writeStage[c] = "send" /\ Keeper!PreconditionHolds(writeToken[c]) /\ Keeper!ReplaceText(c)
      /\ Moves(c, "confirm")
      /\ writeToken' = writeToken /\ writeFence' = writeFence /\ writesInFlight' = writesInFlight
  BY KeeperPieces DEF Keeper!WriteApplied
<1>2. /\ LogGrows /\ Len(log') = Len(log) + 1
      /\ log' \in Seq(Entry) /\ log' # << >> /\ visible' \in 1 .. Len(log')
      /\ \A u \in Writes \ {c} : NothingNewBy(u)
      /\ OneWrite(c)' /\ WritesOwned(c)'
  BY <1>1, WriteLands
<1>3. writeStage'[c] = "confirm" /\ writeOutcome'[c] = writeOutcome[c]
  BY <1>1 DEF FileInv, FileTyped, Moves
<1>4. FileTyped' /\ \A u \in Writes \ {c} : Unmoved(u)
  BY <1>1, <1>2 DEF FileInv, FileTyped, Moves, Keeper!Stage, Unmoved
<1>5. /\ Entitled(c) /\ Owns(c) /\ c \notin writesInFlight
      /\ writeOutcome[c] = Keeper!Undecided
  BY <1>1 DEF FileInv, WriteInv, EntitledWhenRead, OwnsWhileAsking, UnsentIsSilent, Unsent,
     ReportedWhenDone
<1>6. Owns(c)' /\ Entitled(c)'
  BY <1>1, <1>2, <1>5, OwnsStays DEF FileInv, Entitled, Keeper!FenceFitsBody
<1>7. WriteInv(c)'
  BY <1>1, <1>2, <1>3, <1>5, <1>6 DEF WriteInv, EntitledWhenRead, UnsentIsSilent, PreReads,
     OwnsWhileAsking, LastInFlight, ReportedWhenDone, Seen, Unsent, Keeper!Undecided
<1>. QED BY <1>2, <1>4, <1>7, BystanderWrite DEF FileInv

(* ... or comes late.                                                            *)
LEMMA LateWriteInv ==
  ASSUME FileInv, AtomicPrecondition, NEW c \in Writes, Keeper!LateWrite(c)
  PROVE  FileInv'
<1>1. /\ c \in writesInFlight /\ writesInFlight' = writesInFlight \ {c}
      /\ writeStage' = writeStage /\ writeToken' = writeToken /\ writeFence' = writeFence
      /\ writeOutcome' = writeOutcome
  BY DEF Keeper!LateWrite, Keeper!callVars
<1>2. \A u \in Writes \ {c} : Unmoved(u)
  BY <1>1 DEF Unmoved
<1>3. writeStage[c] \notin Unsent
  BY <1>1 DEF FileInv, WriteInv, UnsentIsSilent
<1>4. CASE UNCHANGED <<log, visible>>
  <2>1. FileTyped' /\ visible' \in visible .. Len(log)
    BY <1>1, <1>4 DEF FileInv, FileTyped
  <2>2. WriteInv(c)'
    BY <1>1, <1>3, <1>4 DEF FileInv, WriteInv, EntitledWhenRead, Entitled, Keeper!FenceFitsBody,
       UnsentIsSilent, PreReads, OwnsWhileAsking, Owns, LastInFlight, NoEffect, OneWrite,
       ReportedWhenDone, Seen, WritesOwned
  <2>. QED BY <1>2, <1>4, <2>1, <2>2, QuietWriteStep
<1>5. CASE Keeper!PreconditionHolds(writeToken[c]) /\ Keeper!ReplaceText(c)
  <2>1. /\ LogGrows /\ Len(log') = Len(log) + 1
        /\ log' \in Seq(Entry) /\ log' # << >> /\ visible' \in 1 .. Len(log')
        /\ \A u \in Writes \ {c} : NothingNewBy(u)
        /\ OneWrite(c)' /\ WritesOwned(c)'
    BY <1>1, <1>5, WriteLands
  <2>2. FileTyped'
    BY <1>1, <2>1 DEF FileInv, FileTyped
  <2>3. Entitled(c) /\ Owns(c)
    BY <1>1 DEF FileInv, WriteInv, EntitledWhenRead, OwnsWhileAsking
  <2>4. Owns(c)' /\ Entitled(c)' /\ writeToken[c] \in 1 .. Len(log)
    BY <1>1, <2>1, <2>3, OwnsStays DEF FileInv, Entitled, Keeper!FenceFitsBody
  <2>5. EntitledWhenRead(c)' /\ UnsentIsSilent(c)' /\ PreReads(c)' /\ OwnsWhileAsking(c)'
        /\ LastInFlight(c)'
    BY <1>1, <1>3, <2>4 DEF EntitledWhenRead, UnsentIsSilent, PreReads, OwnsWhileAsking,
       LastInFlight, Unsent
  <2>6. Seen(c)' /\ ReportedWhenDone(c)'
    <3>1. ASSUME writeStage[c] \in {"postName", "postBody"} \/ writeOutcome[c] = "VERIFIED_SUCCESS"
          PROVE  \E i \in writeToken[c] .. Len(log') : log'[i].body = WritePlan[c].body
      <4>1. PICK i \in writeToken[c] .. Len(log) : log[i].body = WritePlan[c].body
        BY <3>1 DEF FileInv, WriteInv, Seen
      <4>2. i \in writeToken[c] .. Len(log') /\ log'[i] = log[i]
        BY <2>1, <2>4, <4>1 DEF LogGrows
      <4>. QED BY <4>1, <4>2
    <3>2. writeToken[c] \in 1 .. Len(log') /\ ReportedWhenDone(c)
      BY <2>1, <2>4 DEF LogGrows, FileInv, WriteInv
    <3>. QED BY <1>1, <3>1, <3>2 DEF Seen, ReportedWhenDone
  <2>7. WriteInv(c)'
    BY <2>1, <2>5, <2>6 DEF WriteInv
  <2>. QED BY <1>2, <2>1, <2>2, <2>7, BystanderWrite DEF FileInv
<1>. QED BY <1>4, <1>5 DEF Keeper!LateWrite, Keeper!driveVars

-----------------------------------------------------------------------------
(* The invariant holds at first,                                                 *)
LEMMA InitFileInv == InitFile => FileInv
<1>. SUFFICES ASSUME InitFile PROVE FileInv
  OBVIOUS
<1>1. PICK s \in FirstSnapshots :
        log = <<[state |-> s.state, body |-> s.body, by |-> Elsewhere]>>
  BY DEF InitFile, Init
<1>2. s.state \in States(Object) /\ s.body \in Body
  BY <1>1, ChannelAssumption DEF FirstSnapshots, Body
<1>3. /\ visible = 1 /\ writeStage = [c \in Writes |-> "begin"]
      /\ writeToken = [c \in Writes |-> 0] /\ writeFence = [c \in Writes |-> 0]
      /\ writeOutcome = [c \in Writes |-> Keeper!Undecided] /\ writesInFlight = {}
  BY DEF InitFile, Keeper!Init
<1>4. Len(log) = 1 /\ log \in Seq(Entry) /\ log # << >> /\ log[1].by = Elsewhere
  BY <1>1, <1>2 DEF Entry
<1>5. FileTyped
  BY <1>3, <1>4 DEF FileTyped, Keeper!Stage
<1>6. ASSUME NEW c \in Writes PROVE WriteInv(c)
  <2>1. NoEffect(c) /\ OneWrite(c) /\ WritesOwned(c)
    BY <1>4, WritesPlanned DEF NoEffect, OneWrite, WritesOwned
  <2>. QED BY <1>3, <2>1 DEF WriteInv, EntitledWhenRead, UnsentIsSilent, PreReads, OwnsWhileAsking,
       LastInFlight, ReportedWhenDone, Seen, Sent, Keeper!Undecided
<1>. QED BY <1>5, <1>6 DEF FileInv

(* ... and after every step.                                                     *)
LEMMA NextFileInv ==
  ASSUME AtomicPrecondition, FileInv, [NextFile]_fileVars
  PROVE  FileInv'
<1>1. CASE UNCHANGED fileVars
  <2>1. UNCHANGED writeVars /\ log' = log /\ visible' = visible
    BY <1>1 DEF fileVars, vars
  <2>2. visible' \in visible .. Len(log)
    BY <2>1 DEF FileInv, FileTyped
  <2>. QED BY <2>1, <2>2, ForeignStep
<1>2. CASE WalkersStep
  BY <1>2, WalkersKeepWrites
<1>3. CASE Others /\ UNCHANGED writeVars
  BY <1>3, OthersKeepWrites
<1>4. CASE KeepersStep
  <2>1. PICK c \in Writes : Keeper!AtomicStep(c) \/ Keeper!LateWrite(c)
    BY <1>4 DEF KeepersStep
  <2>. QED BY <2>1, WriteBeginInv, WriteReadInv, WriteFenceNameInv, WriteFenceBodyInv,
              WriteReadFailsInv, WriteAppliedInv, WriteRefusedInv, WriteUnansweredInv,
              WriteProbeInv, LateWriteInv DEF Keeper!AtomicStep
<1>. QED BY <1>1, <1>2, <1>3, <1>4 DEF NextFile

(* ... hence always.                                                             *)
LEMMA FileInvHolds == AtomicPrecondition => (FileSpec => []FileInv)
<1>. SUFFICES ASSUME AtomicPrecondition PROVE FileSpec => []FileInv
  OBVIOUS
<1>1. FileInv /\ [NextFile]_fileVars => FileInv'
  BY NextFileInv
<1>. QED BY <1>1, InitFileInv, PTL DEF FileSpec

(* However many answers are lost, a call writes its body once at most, also      *)
(* while walks move the file and others write it (body_keeper.py:222).           *)
THEOREM BodiesAreWrittenOnce == AtomicPrecondition => (FileSpec => []Keeper!AtMostOneEffect)
<1>. SUFFICES ASSUME AtomicPrecondition PROVE FileSpec => []Keeper!AtMostOneEffect
  OBVIOUS
<1>1. FileInv => Keeper!AtMostOneEffect
  <2>. SUFFICES ASSUME FileInv PROVE Keeper!AtMostOneEffect
    OBVIOUS
  <2>1. DOMAIN log = 1 .. Len(log)
    BY DEF FileInv, FileTyped
  <2>. QED BY <2>1 DEF FileInv, WriteInv, OneWrite, Keeper!AtMostOneEffect, Keeper!EffectsOf
<1>. QED BY <1>1, FileInvHolds, PTL

(* A body is replaced only in the state its writer asked for, by a role that may *)
(* write there, and a fenced write never takes the file from one job to another: *)
(* not even when the channel was recycled between the fence read and the write.  *)
THEOREM WritesAreOwned == AtomicPrecondition => (FileSpec => []BodiesAreOwned)
<1>. SUFFICES ASSUME AtomicPrecondition PROVE FileSpec => []BodiesAreOwned
  OBVIOUS
<1>1. FileInv => BodiesAreOwned
  <2>. SUFFICES ASSUME FileInv PROVE BodiesAreOwned
    OBVIOUS
  <2>1. DOMAIN log = 1 .. Len(log)
    BY DEF FileInv, FileTyped
  <2>. QED BY <2>1 DEF FileInv, WriteInv, WritesOwned, OwnedBody, BodiesAreOwned,
              Keeper!BodiesAreOwned, Keeper!EffectsOf
<1>. QED BY <1>1, FileInvHolds, PTL

(* A write that lands after its call has reported success finds its own body     *)
(* there, and changes nothing a reader of the body can see.                      *)
THEOREM LateWritesAreHarmless == AtomicPrecondition => (FileSpec => LateWritesRepeat)
<1>. SUFFICES ASSUME AtomicPrecondition PROVE FileSpec => LateWritesRepeat
  OBVIOUS
<1>. DEFINE Repeats ==
       \A c \in Writes :
         writeOutcome[c] = "VERIFIED_SUCCESS" /\ Keeper!EffectsOf(c)' # Keeper!EffectsOf(c) =>
           Keeper!Current'.body = Keeper!Current.body
<1>1. ASSUME FileInv, [NextFile]_fileVars
      PROVE  Repeats
  <2>. SUFFICES ASSUME NEW c \in Writes, writeOutcome[c] = "VERIFIED_SUCCESS",
                       Keeper!EffectsOf(c)' # Keeper!EffectsOf(c)
                PROVE  Keeper!Current'.body = Keeper!Current.body
    OBVIOUS
  <2>1. log' # log
    BY DEF Keeper!EffectsOf
  <2>3. ASSUME NEW state \in States(Object), NEW body \in Body,
               NEW author \in Walks \cup Writes \cup {Elsewhere}, author # c,
               log' = Append(log, [state |-> state, body |-> body, by |-> author]),
               visible' = visible
        PROVE  FALSE
    <3>1. /\ LogGrows /\ Len(log') = Len(log) + 1 /\ NothingNewBy(c)
          /\ log' \in Seq(Entry)
      BY <1>1, <2>3, FileGrows DEF FileInv
    <3>2. DOMAIN log = 1 .. Len(log) /\ DOMAIN log' = 1 .. Len(log')
      BY <1>1, <3>1 DEF FileInv, FileTyped
    <3>3. \A i \in DOMAIN log' : log'[i].by = c => i \in DOMAIN log
      BY <3>1, <3>2 DEF NothingNewBy, LogGrows
    <3>4. \A i \in DOMAIN log : i \in DOMAIN log' /\ log'[i] = log[i]
      BY <3>1, <3>2 DEF LogGrows
    <3>. QED BY <3>3, <3>4 DEF Keeper!EffectsOf
  <2>4. /\ Latest = Len(log) /\ Current.state \in States(Object) /\ Current.body \in Body
        /\ Current = log[Len(log)] /\ Len(log) \in Nat \ {0}
    BY <1>1, NewestTyped DEF FileInv
  <2>5. CASE WalkersStep
    <3>1. PICK w \in Walks : RenameObject(w)
      BY <2>1, <2>5 DEF WalkersStep, AtomicStep, Begin, ReadMetadata, ReadFenceName, ReadFenceBody,
         ReadFails, RenameApplied, RenameRefused, RenameUnanswered, Probe, LateRename,
         driveVars, ReadVersion
    <3>2. w # c /\ Plan[w].to \in States(Object)
      BY WritesPlanned, WalkAssumption
    <3>. QED BY <2>3, <2>4, <3>1, <3>2 DEF RenameObject, Write
  <2>6. CASE Others
    <3>1. PICK s \in OtherSnapshots(Current) : Write(s.state, s.body, Elsewhere)
      BY <2>6 DEF Others, OtherWriter
    <3>2. s.state \in States(Object) /\ s.body \in Body /\ Elsewhere # c
      BY <2>4, OtherSnapshotsTyped, WritesPlanned
    <3>. QED BY <2>3, <3>1, <3>2 DEF Write
  <2>7. ASSUME NEW u \in Writes, Keeper!AtomicStep(u) \/ Keeper!LateWrite(u)
        PROVE  Keeper!Current'.body = Keeper!Current.body
    <3>1. /\ Keeper!ReplaceText(u) /\ Keeper!PreconditionHolds(writeToken[u])
          /\ writeStage[u] = "send" \/ u \in writesInFlight
      BY <2>1, <2>7 DEF Keeper!AtomicStep, Keeper!Begin, Keeper!ReadMetadata, Keeper!ReadFenceName,
         Keeper!ReadFenceBody, Keeper!ReadFails, Keeper!WriteApplied, Keeper!WriteRefused,
         Keeper!WriteUnanswered, Keeper!Probe, Keeper!LateWrite, Keeper!driveVars, Keeper!ReadVersion
    <3>2. log' = Append(log, [state |-> Current.state, body |-> WritePlan[u].body, by |-> u])
          /\ visible' = visible
      BY <3>1 DEF Keeper!ReplaceText, Keeper!Write, Keeper!Current, Keeper!Latest, Current, Latest
    <3>3. u = c
      BY <2>3, <2>4, <3>2, WritesPlanned
    <3>4. writeToken[c] = Len(log)
      BY <3>1, <3>3 DEF Keeper!PreconditionHolds, Keeper!Latest
    <3>5. PICK i \in writeToken[c] .. Len(log) : log[i].body = WritePlan[c].body
      BY <1>1 DEF FileInv, WriteInv, Seen
    <3>6. Current.body = WritePlan[c].body
      BY <2>4, <3>4, <3>5
    <3>7. Len(log') = Len(log) + 1 /\ log'[Len(log) + 1].body = WritePlan[c].body
      <4>1. WriteInv(c) /\ LogGrows /\ Len(log') = Len(log) + 1
            /\ log'[Len(log) + 1] = [state |-> Current.state, body |-> WritePlan[c].body, by |-> c]
        BY <1>1, <3>1, <3>3, WriteLands DEF FileInv
      <4>. QED BY <4>1
    <3>. QED BY <2>4, <3>6, <3>7 DEF Keeper!Current, Keeper!Latest
  <2>. QED BY <1>1, <2>1, <2>5, <2>6, <2>7 DEF NextFile, KeepersStep, fileVars, vars
<1>2. FileInv /\ [NextFile]_fileVars => [Repeats]_(Keeper!vars)
  <2>. HIDE DEF Repeats
  <2>. QED BY <1>1
<1>3. FileSpec => [][Repeats]_(Keeper!vars)
  <2>. HIDE DEF Repeats
  <2>. QED BY <1>2, FileInvHolds, PTL DEF FileSpec
<1>. QED BY <1>3 DEF LateWritesRepeat, Keeper!LateWritesRepeat

=============================================================================
