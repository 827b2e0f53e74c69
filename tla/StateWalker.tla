------------------------------ MODULE StateWalker ------------------------------
(***************************************************************************)
(* StateWalker.walk, src/src/tb4/drive/state_walker.py: the one way TB4    *)
(* moves a stateful object from one state to the next.  A walk reads the   *)
(* metadata, compares its fence, claims one of a bounded number of         *)
(* attempts, asks for a version-checked rename and then polls until the    *)
(* target is remotely visible.  A transient refusal starts over; an        *)
(* ambiguous answer never does, because the rename may have been, or may   *)
(* still be, applied.                                                      *)
(*                                                                         *)
(* Every element of Walks is one call of walk() with the arguments         *)
(* Plan[w], running concurrently with the other calls and with everybody   *)
(* else who writes the file.  Each remote request is a step of its own.    *)
(***************************************************************************)
EXTENDS DriveObject

CONSTANTS Walks,      \* the calls of walk()
          Plan,       \* their arguments
          Attempts,   \* RetryPolicy.operation_attempts
          Probes      \* 1 + length of RetryPolicy.confirmation_backoff_s

ASSUME WalkAssumption ==
  /\ Elsewhere \notin Walks
  /\ Plan \in [Walks -> [from : States(Object), to : States(Object), actor : Role,
                         fenced : BOOLEAN, operation : Operations, generation : Nat]]
  /\ Attempts \in Nat \ {0}
  /\ Probes \in Nat \ {0, 1}

Undecided == "undecided"
Outcome == {"NEW_SUCCESS", "IDEMPOTENT_SUCCESS", "STATE_CONFLICT", "STALE_FENCE",
            "UNCONFIRMED", "FAILURE"}
Stage == {"begin", "read", "fenceName", "fenceBody", "check", "send", "confirm", "done"}

VARIABLES stage,      \* where each call stands
          token,      \* version its metadata read returned
          fenceName,  \* version the fence reader took the state from
          attempts,   \* OperationAttemptBudget.claimed
          probes,     \* confirmation probes made
          receipt,    \* version a SUCCESS receipt named, 0 without one
          outcome,    \* the StateWalkOutcome reported
          inFlight    \* walks whose request the provider may still apply

callVars == <<stage, token, fenceName, attempts, probes, receipt, outcome>>
vars == <<log, visible, callVars, inFlight>>

Init ==
  /\ \E s \in FirstSnapshots :
       StartsIn(s) /\ log = <<[state |-> s.state, body |-> s.body, by |-> Elsewhere]>>
  /\ visible = 1
  /\ stage = [w \in Walks |-> "begin"]
  /\ token = [w \in Walks |-> 0]
  /\ fenceName = [w \in Walks |-> 0]
  /\ attempts = [w \in Walks |-> 0]
  /\ probes = [w \in Walks |-> 0]
  /\ receipt = [w \in Walks |-> 0]
  /\ outcome = [w \in Walks |-> Undecided]
  /\ inFlight = {}

-----------------------------------------------------------------------------
Goto(w, next) ==
  /\ stage' = [stage EXCEPT ![w] = next]
  /\ UNCHANGED outcome

Report(w, result) ==
  /\ stage' = [stage EXCEPT ![w] = "done"]
  /\ outcome' = [outcome EXCEPT ![w] = result]

ExpectedFence(w) == FenceToken(Plan[w].operation, Plan[w].generation, Plan[w].from)

(* The fence a reader assembles: the state from the name at one version, the  *)
(* rest from the body at another.                                             *)
ObservedFence(name, text) ==
  FenceToken(log[text].body.operation, log[text].body.generation, log[name].state)

Begin(w) ==
  /\ stage[w] = "begin"
  /\ IF ValidateTransition(Object, Plan[w].from, Plan[w].to, Plan[w].actor) = "ILLEGAL"
       THEN Report(w, "STATE_CONFLICT")
       ELSE Goto(w, "read")
  /\ UNCHANGED <<driveVars, token, fenceName, attempts, probes, receipt, inFlight>>

(* After name and fence are accepted: done already, or one more attempt, or    *)
(* out of budget or past the deadline.                                         *)
Decide_Uncounted(w, name) ==
  \/ /\ name = Plan[w].to
     /\ Report(w, "IDEMPOTENT_SUCCESS")
     /\ UNCHANGED attempts
  \/ /\ name # Plan[w].to
     /\ Goto(w, IF AtomicPrecondition THEN "send" ELSE "check")
     /\ UNCHANGED attempts
Decide(w, name) ==
  \/ /\ name = Plan[w].to
     /\ Report(w, "IDEMPOTENT_SUCCESS")
     /\ UNCHANGED attempts
  \/ /\ name # Plan[w].to
     /\ attempts[w] < Attempts
     /\ Goto(w, IF AtomicPrecondition THEN "send" ELSE "check")
     /\ attempts' = [attempts EXCEPT ![w] = @ + 1]
  \/ /\ name # Plan[w].to
     /\ Report(w, "FAILURE")
     /\ UNCHANGED attempts

ReadMetadata(w) ==
  /\ stage[w] = "read"
  /\ \E v \in visible .. Latest :
       /\ ReadVersion(v)
       /\ token' = [token EXCEPT ![w] = v]
       /\ CASE log[v].state \notin {Plan[w].from, Plan[w].to} ->
                 Report(w, "STATE_CONFLICT") /\ UNCHANGED attempts
            [] log[v].state \in {Plan[w].from, Plan[w].to} /\ Plan[w].fenced ->
                 Goto(w, "fenceName") /\ UNCHANGED attempts
            [] OTHER -> Decide(w, log[v].state)
  /\ UNCHANGED <<fenceName, probes, receipt, inFlight>>

ReadFenceName(w) ==
  /\ stage[w] = "fenceName"
  /\ \E v \in visible .. Latest :
       /\ ReadVersion(v)
       /\ fenceName' = [fenceName EXCEPT ![w] = v]
  /\ Goto(w, "fenceBody")
  /\ UNCHANGED <<token, attempts, probes, receipt, inFlight>>

ReadFenceBody_Unfenced(w) ==
  /\ stage[w] = "fenceBody"
  /\ Decide(w, log[token[w]].state)
  /\ UNCHANGED <<driveVars, token, fenceName, probes, receipt, inFlight>>
ReadFenceBody(w) ==
  /\ stage[w] = "fenceBody"
  /\ \E v \in visible .. Latest :
       LET decision == CompareFence(ExpectedFence(w), ObservedFence(fenceName[w], v))
       IN CASE decision = "STALE" -> Report(w, "STALE_FENCE") /\ UNCHANGED attempts
            [] decision = "MISMATCH" -> Report(w, "STATE_CONFLICT") /\ UNCHANGED attempts
            [] OTHER -> Decide(w, log[token[w]].state)
  /\ UNCHANGED <<driveVars, token, fenceName, probes, receipt, inFlight>>

(* A read before the mutation that fails ends the walk.                        *)
ReadFails(w) ==
  /\ stage[w] \in {"read", "fenceName", "fenceBody"}
  /\ \E result \in {"UNCONFIRMED", "FAILURE"} : Report(w, result)
  /\ UNCHANGED <<driveVars, token, fenceName, attempts, probes, receipt, inFlight>>

(* rename() was refused without being applied: a conflict or a permanent error  *)
(* ends the walk, a transient one is tried again within the budget.             *)
Refused(w) ==
  \/ \E result \in {"STATE_CONFLICT", "FAILURE"} : Report(w, result)
  \/ attempts[w] < Attempts /\ Goto(w, "read")

(* The Google adapter compares the version by a read of its own.               *)
CheckVersion(w) ==
  /\ stage[w] = "check"
  /\ \/ \E v \in visible .. Latest :
          /\ ReadVersion(v)
          /\ IF v = token[w] THEN Goto(w, "send") ELSE Report(w, "STATE_CONFLICT")
     \/ Refused(w) /\ UNCHANGED driveVars
  /\ UNCHANGED <<token, fenceName, attempts, probes, receipt, inFlight>>

RenameObject(w) == Write(Plan[w].to, Current.body, w)

RenameApplied(w) ==
  /\ stage[w] = "send"
  /\ PreconditionHolds(token[w])
  /\ RenameObject(w)
  /\ \E answer \in {0, Latest + 1} : receipt' = [receipt EXCEPT ![w] = answer]
  /\ Goto(w, "confirm")
  /\ probes' = [probes EXCEPT ![w] = 0]
  /\ UNCHANGED <<token, fenceName, attempts, inFlight>>

RenameRefused(w) ==
  /\ stage[w] = "send"
  /\ IF PreconditionHolds(token[w]) THEN Refused(w) ELSE Report(w, "STATE_CONFLICT")
  /\ UNCHANGED <<driveVars, token, fenceName, attempts, probes, receipt, inFlight>>

(* The answer was AMBIGUOUS and nothing has been applied: the request is lost,  *)
(* or still on its way.                                                         *)
RenameUnanswered(w) ==
  /\ stage[w] = "send"
  /\ PreconditionHolds(token[w])
  /\ receipt' = [receipt EXCEPT ![w] = 0]
  /\ inFlight' \in {inFlight, inFlight \cup {w}}
  /\ Goto(w, "confirm")
  /\ probes' = [probes EXCEPT ![w] = 0]
  /\ UNCHANGED <<driveVars, token, fenceName, attempts>>

LateRename(w) ==
  /\ w \in inFlight
  /\ inFlight' = inFlight \ {w}
  /\ IF PreconditionHolds(token[w]) THEN RenameObject(w) ELSE UNCHANGED driveVars
  /\ UNCHANGED callVars

(* One confirmation probe.  An unexpected state or a read that is refused ends   *)
(* the polling; the old state, a version other than the receipt's and a          *)
(* transient error do not, until probes or time run out.                         *)
KeepPolling(w) ==
  \/ probes[w] + 1 < Probes /\ Goto(w, "confirm")
  \/ Report(w, "UNCONFIRMED")

Probe_AnyReceipt(w) ==
  /\ stage[w] = "confirm"
  /\ probes' = [probes EXCEPT ![w] = @ + 1]
  /\ \/ \E v \in visible .. Latest :
          /\ ReadVersion(v)
          /\ IF log[v].state \in {Plan[w].from, Plan[w].to}
               THEN Report(w, "NEW_SUCCESS") ELSE Report(w, "STATE_CONFLICT")
     \/ KeepPolling(w) /\ UNCHANGED driveVars
  /\ UNCHANGED <<token, fenceName, attempts, receipt, inFlight>>
Probe(w) ==
  /\ stage[w] = "confirm"
  /\ probes' = [probes EXCEPT ![w] = @ + 1]
  /\ \/ \E v \in visible .. Latest :
          /\ ReadVersion(v)
          /\ CASE log[v].state = Plan[w].to /\ receipt[w] \in {0, v} ->
                    Report(w, "NEW_SUCCESS")
               [] log[v].state \notin {Plan[w].from, Plan[w].to} ->
                    Report(w, "STATE_CONFLICT")
               [] OTHER -> KeepPolling(w)
     \/ KeepPolling(w) /\ UNCHANGED driveVars
  /\ UNCHANGED <<token, fenceName, attempts, receipt, inFlight>>

Others ==
  /\ OtherWriter
  /\ UNCHANGED <<callVars, inFlight>>

-----------------------------------------------------------------------------
AtomicStep(w) ==
  \/ Begin(w) \/ ReadMetadata(w) \/ ReadFenceName(w) \/ ReadFenceBody(w)
  \/ ReadFails(w) \/ RenameApplied(w) \/ RenameRefused(w)
  \/ RenameUnanswered(w) \/ Probe(w)
WalkStep(w) == AtomicStep(w) \/ CheckVersion(w)

Next == (\E w \in Walks : WalkStep(w) \/ LateRename(w)) \/ Others

Spec == Init /\ [][Next]_vars

(* Where the version is compared inside the mutation, no walk ever stands before a  *)
(* comparison of its own (theorem AtomicWalksCompareInside).                        *)
AtomicNext == (\E w \in Walks : AtomicStep(w) \/ LateRename(w)) \/ Others
AtomicSpec == Init /\ [][AtomicNext]_vars

-----------------------------------------------------------------------------
TypeOK ==
  /\ log \in Seq([state : States(Object), body : Body, by : Walks \cup {Elsewhere}])
  /\ log # << >>
  /\ visible \in 1 .. Latest
  /\ stage \in [Walks -> Stage]
  /\ token \in [Walks -> 0 .. Latest]
  /\ fenceName \in [Walks -> 0 .. Latest]
  /\ attempts \in [Walks -> 0 .. Attempts]
  /\ probes \in [Walks -> 0 .. Probes]
  /\ receipt \in [Walks -> 0 .. Latest]
  /\ outcome \in [Walks -> Outcome \cup {Undecided}]
  /\ inFlight \subseteq Walks

EffectsOf(w) == {i \in DOMAIN log : log[i].by = w}

(* A walk renames the file at most once: transient refusals are retried, an    *)
(* ambiguous answer - applied, lost or still on its way - never is             *)
(* (state_walker.py:330-332, FAILURE_RECOVERY.md:80).                          *)
AtMostOneEffect ==
  \A w \in Walks : \A i, j \in EffectsOf(w) : i = j

(* Whatever other clients did between the reads and the rename, an atomic      *)
(* precondition lets a walk rename only a file it owns: in the expected state, *)
(* under its operation and generation when it is fenced, along an edge of its  *)
(* role, and leaving the body alone.                                           *)
OwnedEffect(w, before, after) ==
  /\ before.state = Plan[w].from /\ after.state = Plan[w].to
  /\ after.body = before.body
  /\ <<Plan[w].from, Plan[w].to, Plan[w].actor>> \in Edges(Object)
  /\ Plan[w].fenced => /\ before.body.operation = Plan[w].operation
                       /\ before.body.generation = Plan[w].generation

EffectsAreOwned ==
  \A w \in Walks : \A i \in EffectsOf(w) : i > 1 /\ OwnedEffect(w, log[i - 1], log[i])

(* A walk that reports FAILURE, STALE_FENCE or IDEMPOTENT_SUCCESS has changed   *)
(* nothing and nothing of it is still on its way, so its caller may start over. *)
HarmlessOutcome == {"FAILURE", "STALE_FENCE", "IDEMPOTENT_SUCCESS"}

HarmlessMeansNoEffect ==
  \A w \in Walks : outcome[w] \in HarmlessOutcome => EffectsOf(w) = {} /\ w \notin inFlight

(* Reported success is remote fact: the file was in the target state at some    *)
(* version newer than the one the walk started from, or at that one when the    *)
(* report is idempotent; and a receipt vouches for the walk's own rename.       *)
SuccessIsRemote ==
  \A w \in Walks :
    /\ outcome[w] = "NEW_SUCCESS" =>
         /\ \E i \in token[w] + 1 .. Latest : log[i].state = Plan[w].to
         /\ receipt[w] # 0 => receipt[w] \in EffectsOf(w)
    /\ outcome[w] = "IDEMPOTENT_SUCCESS" => log[token[w]].state = Plan[w].to

(* All of this in one sentence: against an atomic precondition a walk is one      *)
(* atomic, owned rename followed by a report (AtomicWalk).                        *)
Atomic == INSTANCE AtomicWalk
            WITH file <- [state |-> Current.state, body |-> Current.body],
                 moved <- {w \in Walks : EffectsOf(w) # {}}
WalkIsAtomic == Atomic!Spec
================================================================================
