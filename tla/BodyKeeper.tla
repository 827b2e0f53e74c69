------------------------------- MODULE BodyKeeper -------------------------------
(***************************************************************************)
(* BodyKeeper.replace_verified, src/src/tb4/drive/body_keeper.py: the one  *)
(* way TB4 replaces the body of a control file.  After local checks a call *)
(* reads the name, compares its fence, claims an attempt and asks for a    *)
(* version-checked replacement; it then reads the body back until it is    *)
(* the one it sent, and compares its fence a second time before it reports *)
(* VERIFIED_SUCCESS.                                                       *)
(*                                                                         *)
(* Every element of Calls is one call with the arguments Plan[c]; each     *)
(* remote request is a step of its own.                                    *)
(***************************************************************************)
EXTENDS DriveObject

CONSTANTS Calls,       \* the calls of replace_verified()
          Plan,        \* their arguments
          Unreadable,  \* texts that fail the schema the body is read back with
          Attempts,    \* RetryPolicy.operation_attempts
          Probes       \* 1 + length of RetryPolicy.confirmation_backoff_s

LocalVerdict == {"sound", "FAILURE", "HASH_MISMATCH", "SCHEMA_INVALID"}

KeeperAssumption ==
  /\ Elsewhere \notin Calls
  /\ Plan \in [Calls -> [state : States(Object), actor : Role, body : Body,
                         local : LocalVerdict, fenced : BOOLEAN,
                         operation : Operations, generation : Nat]]
  /\ Unreadable \subseteq Texts
  /\ \A c \in Calls : Plan[c].local = "sound" => Plan[c].body.text \notin Unreadable
  /\ Attempts \in Nat \ {0}
  /\ Probes \in Nat \ {0, 1}

Undecided == "undecided"
Outcome == {"VERIFIED_SUCCESS", "STATE_CONFLICT", "STALE_FENCE", "SCHEMA_INVALID",
            "HASH_MISMATCH", "UNCONFIRMED", "FAILURE"}
Stage == {"begin", "read", "preName", "preBody", "check", "send", "confirm",
          "postName", "postBody", "done"}

VARIABLES stage,      \* where each call stands
          token,      \* version its metadata read returned
          fenceName,  \* version the fence reader took the state from
          attempts,   \* OperationAttemptBudget.claimed
          probes,     \* read-backs made
          receipt,    \* version a SUCCESS receipt named, 0 when AMBIGUOUS
          misread,    \* what read-backs found wrong with the body so far
          outcome,    \* the BodyWriteOutcome reported
          inFlight    \* calls whose request the provider may still apply

callVars == <<stage, token, fenceName, attempts, probes, receipt, misread, outcome>>
vars == <<log, visible, callVars, inFlight>>

Init ==
  /\ \E s \in FirstSnapshots :
       StartsIn(s) /\ log = <<[state |-> s.state, body |-> s.body, by |-> Elsewhere]>>
  /\ visible = 1
  /\ stage = [c \in Calls |-> "begin"]
  /\ token = [c \in Calls |-> 0]
  /\ fenceName = [c \in Calls |-> 0]
  /\ attempts = [c \in Calls |-> 0]
  /\ probes = [c \in Calls |-> 0]
  /\ receipt = [c \in Calls |-> 0]
  /\ misread = [c \in Calls |-> {}]
  /\ outcome = [c \in Calls |-> Undecided]
  /\ inFlight = {}

-----------------------------------------------------------------------------
Goto(c, next) ==
  /\ stage' = [stage EXCEPT ![c] = next]
  /\ UNCHANGED outcome

Report(c, result) ==
  /\ stage' = [stage EXCEPT ![c] = "done"]
  /\ outcome' = [outcome EXCEPT ![c] = result]

(* The fence names the state, operation and generation of the body it is sent    *)
(* with, or the call is refused before anything is read.                         *)
FenceFitsBody(c) ==
  Plan[c].fenced => /\ Plan[c].body.operation = Plan[c].operation
                    /\ Plan[c].body.generation = Plan[c].generation

Begin(c) ==
  /\ stage[c] = "begin"
  /\ CASE Plan[c].local # "sound" -> Report(c, Plan[c].local)
       [] Plan[c].local = "sound"
            /\ ~(CanWriteBody(Object, Plan[c].state, Plan[c].actor) /\ FenceFitsBody(c)) ->
            Report(c, "STATE_CONFLICT")
       [] OTHER -> Goto(c, "read")
  /\ UNCHANGED <<driveVars, token, fenceName, attempts, probes, receipt, misread, inFlight>>

(* One more attempt, or out of budget or past the deadline.                      *)
Claim(c) ==
  \/ /\ attempts[c] < Attempts
     /\ Goto(c, IF AtomicPrecondition THEN "send" ELSE "check")
     /\ attempts' = [attempts EXCEPT ![c] = @ + 1]
  \/ Report(c, "FAILURE") /\ UNCHANGED attempts

ReadMetadata(c) ==
  /\ stage[c] = "read"
  /\ \E v \in visible .. Latest :
       /\ ReadVersion(v)
       /\ token' = [token EXCEPT ![c] = v]
       /\ CASE log[v].state # Plan[c].state -> Report(c, "STATE_CONFLICT") /\ UNCHANGED attempts
            [] log[v].state = Plan[c].state /\ Plan[c].fenced ->
                 Goto(c, "preName") /\ UNCHANGED attempts
            [] OTHER -> Claim(c)
  /\ UNCHANGED <<fenceName, probes, receipt, misread, inFlight>>

ReadFenceName(c) ==
  /\ \/ stage[c] = "preName" /\ Goto(c, "preBody")
     \/ stage[c] = "postName" /\ Goto(c, "postBody")
  /\ \E v \in visible .. Latest :
       /\ ReadVersion(v)
       /\ fenceName' = [fenceName EXCEPT ![c] = v]
  /\ UNCHANGED <<token, attempts, probes, receipt, misread, inFlight>>

(* The same comparison before the write, where it admits an attempt, and after    *)
(* the read-back, where it admits success.                                        *)
ReadFenceBody(c) ==
  /\ stage[c] \in {"preBody", "postBody"}
  /\ \E v \in visible .. Latest :
       LET expected == FenceToken(Plan[c].operation, Plan[c].generation, Plan[c].state)
           observed == FenceToken(log[v].body.operation, log[v].body.generation,
                                  log[fenceName[c]].state)
           decision == CompareFence(expected, observed)
       IN CASE decision = "STALE" -> Report(c, "STALE_FENCE") /\ UNCHANGED attempts
            [] decision = "MISMATCH" -> Report(c, "STATE_CONFLICT") /\ UNCHANGED attempts
            [] decision = "VALID" /\ stage[c] = "preBody" -> Claim(c)
            [] OTHER -> Report(c, "VERIFIED_SUCCESS") /\ UNCHANGED attempts
  /\ UNCHANGED <<driveVars, token, fenceName, probes, receipt, misread, inFlight>>

(* A metadata or fence read that fails ends the call - also after the write.      *)
ReadFails(c) ==
  /\ stage[c] \in {"read", "preName", "preBody", "postName", "postBody"}
  /\ \E result \in {"UNCONFIRMED", "FAILURE"} : Report(c, result)
  /\ UNCHANGED <<driveVars, token, fenceName, attempts, probes, receipt, misread, inFlight>>

Refused(c) ==
  \/ \E result \in {"STATE_CONFLICT", "FAILURE"} : Report(c, result)
  \/ attempts[c] < Attempts /\ Goto(c, "read")

(* The Google adapter compares the version by a read of its own.                  *)
CheckVersion(c) ==
  /\ stage[c] = "check"
  /\ \/ \E v \in visible .. Latest :
          /\ ReadVersion(v)
          /\ IF v = token[c] THEN Goto(c, "send") ELSE Report(c, "STATE_CONFLICT")
     \/ Refused(c) /\ UNCHANGED driveVars
  /\ UNCHANGED <<token, fenceName, attempts, probes, receipt, misread, inFlight>>

ReplaceText(c) == Write(Current.state, Plan[c].body, c)

WriteApplied(c) ==
  /\ stage[c] = "send"
  /\ PreconditionHolds(token[c])
  /\ ReplaceText(c)
  /\ \E answer \in {0, Latest + 1} : receipt' = [receipt EXCEPT ![c] = answer]
  /\ Goto(c, "confirm")
  /\ probes' = [probes EXCEPT ![c] = 0]
  /\ misread' = [misread EXCEPT ![c] = {}]
  /\ UNCHANGED <<token, fenceName, attempts, inFlight>>

WriteRefused(c) ==
  /\ stage[c] = "send"
  /\ IF PreconditionHolds(token[c]) THEN Refused(c) ELSE Report(c, "STATE_CONFLICT")
  /\ UNCHANGED <<driveVars, token, fenceName, attempts, probes, receipt, misread, inFlight>>

WriteUnanswered(c) ==
  /\ stage[c] = "send"
  /\ PreconditionHolds(token[c])
  /\ receipt' = [receipt EXCEPT ![c] = 0]
  /\ inFlight' \in {inFlight, inFlight \cup {c}}
  /\ Goto(c, "confirm")
  /\ probes' = [probes EXCEPT ![c] = 0]
  /\ misread' = [misread EXCEPT ![c] = {}]
  /\ UNCHANGED <<driveVars, token, fenceName, attempts>>

LateWrite(c) ==
  /\ c \in inFlight
  /\ inFlight' = inFlight \ {c}
  /\ IF PreconditionHolds(token[c]) THEN ReplaceText(c) ELSE UNCHANGED driveVars
  /\ UNCHANGED callVars

(* The report of a write the read-backs never confirmed.                          *)
Unconfirmed(c, faults) ==
  CASE receipt[c] = 0 \/ faults = {} -> "UNCONFIRMED"
    [] receipt[c] # 0 /\ "SCHEMA_INVALID" \in faults -> "SCHEMA_INVALID"
    [] OTHER -> "HASH_MISMATCH"

KeepReading(c, faults) ==
  /\ misread' = [misread EXCEPT ![c] = faults]
  /\ \/ probes[c] + 1 < Probes /\ Goto(c, "confirm")
     \/ Report(c, Unconfirmed(c, faults))

(* One read-back: read_text takes the version first and the body afterwards.      *)
ReadBack_AnyBody(c, version, text) ==
  /\ UNCHANGED misread
  /\ IF Plan[c].fenced THEN Goto(c, "postName") ELSE Report(c, "VERIFIED_SUCCESS")
ReadBack(c, version, text) ==
  LET body == log[text].body
  IN CASE body.text \in Unreadable -> KeepReading(c, misread[c] \cup {"SCHEMA_INVALID"})
       [] body.text \notin Unreadable /\ body # Plan[c].body ->
            KeepReading(c, misread[c] \cup {"HASH_MISMATCH"})
       [] body = Plan[c].body /\ receipt[c] \notin {0, version} -> KeepReading(c, misread[c])
       [] OTHER -> /\ UNCHANGED misread
                   /\ IF Plan[c].fenced THEN Goto(c, "postName")
                                        ELSE Report(c, "VERIFIED_SUCCESS")

Probe(c) ==
  /\ stage[c] = "confirm"
  /\ probes' = [probes EXCEPT ![c] = @ + 1]
  /\ \/ \E version \in visible .. Latest :
          /\ ReadVersion(version)
          /\ \E text \in version .. Latest : ReadBack(c, version, text)
     \/ KeepReading(c, misread[c]) /\ UNCHANGED driveVars
     \/ Report(c, "UNCONFIRMED") /\ UNCHANGED <<misread, driveVars>>
  /\ UNCHANGED <<token, fenceName, attempts, receipt, inFlight>>

Others ==
  /\ OtherWriter
  /\ UNCHANGED <<callVars, inFlight>>

-----------------------------------------------------------------------------
(* Where the version is compared inside the mutation, no call ever stands before a  *)
(* comparison of its own.                                                           *)
AtomicStep(c) ==
  \/ Begin(c) \/ ReadMetadata(c) \/ ReadFenceName(c) \/ ReadFenceBody(c)
  \/ ReadFails(c) \/ WriteApplied(c) \/ WriteRefused(c)
  \/ WriteUnanswered(c) \/ Probe(c)
CallStep(c) == AtomicStep(c) \/ CheckVersion(c)

Next == (\E c \in Calls : CallStep(c) \/ LateWrite(c)) \/ Others

Spec == Init /\ [][Next]_vars

-----------------------------------------------------------------------------
TypeOK ==
  /\ log \in Seq([state : States(Object), body : Body, by : Calls \cup {Elsewhere}])
  /\ log # << >>
  /\ visible \in 1 .. Latest
  /\ stage \in [Calls -> Stage]
  /\ token \in [Calls -> 0 .. Latest]
  /\ fenceName \in [Calls -> 0 .. Latest]
  /\ attempts \in [Calls -> 0 .. Attempts]
  /\ probes \in [Calls -> 0 .. Probes]
  /\ receipt \in [Calls -> 0 .. Latest]
  /\ misread \in [Calls -> SUBSET {"SCHEMA_INVALID", "HASH_MISMATCH"}]
  /\ outcome \in [Calls -> Outcome \cup {Undecided}]
  /\ inFlight \subseteq Calls

EffectsOf(c) == {i \in DOMAIN log : log[i].by = c}

(* However the answers were lost or delayed, a call writes its body once at most   *)
(* (body_keeper.py:222, an ambiguous write is read back and never repeated).       *)
AtMostOneEffect ==
  \A c \in Calls : \A i, j \in EffectsOf(c) : i = j

(* Against an atomic precondition a body is replaced only in the state its writer  *)
(* asked for, by a role that may write there, and a fenced write never takes the   *)
(* file from one job to another: not even when the channel was recycled between    *)
(* the fence read and the write (IP-25, "Helper overwrites newer generation body").*)
BodiesAreOwned ==
  \A c \in Calls : \A i \in EffectsOf(c) :
    /\ i > 1 /\ log[i].state = log[i - 1].state /\ log[i].state = Plan[c].state
    /\ CanWriteBody(Object, log[i].state, Plan[c].actor)
    /\ Plan[c].fenced => /\ log[i].body.operation = log[i - 1].body.operation
                         /\ log[i].body.generation = log[i - 1].body.generation

(* VERIFIED_SUCCESS means that the file was, since the call read it, at once in    *)
(* the state and with the body the caller asked for - although the state, the      *)
(* body and the fence are all read by different requests.                          *)
VerifiedIsRemote ==
  \A c \in Calls : outcome[c] = "VERIFIED_SUCCESS" =>
    \E i \in token[c] .. Latest : log[i].state = Plan[c].state /\ log[i].body = Plan[c].body

(* A write that lands after its call has reported success repeats the body that is *)
(* there, so the caller's next step never meets a surprise from its own past.      *)
LateWritesRepeat ==
  [][\A c \in Calls :
       outcome[c] = "VERIFIED_SUCCESS" /\ EffectsOf(c)' # EffectsOf(c) =>
         Current'.body = Current.body]_vars
================================================================================
