------------------------------ MODULE WatchdogWork ------------------------------
(***************************************************************************)
(* The work that WATCHDOGs do under the role: NativeWatchdogRuntime.cycle  *)
(* and perform (watchdog/leadership_runtime.py), the shared ledger of      *)
(* effects every operation is entered in before it is done                 *)
(* (reconfiguration_effects.py), the shared records written by             *)
(* RecordMutation (drive/authority_transaction.py), and the maintenance    *)
(* that may begin on any dog's machine meanwhile and that is resolved when *)
(* nothing is left open (reconfiguration_maintenance.py).                  *)
(*                                                                         *)
(* On the machine of each dog two processes write: its daemon, and the     *)
(* owner's maintenance command.  Each works in steps; what is between two  *)
(* steps is only what the checkpoint, the journal and the maintenance WAL  *)
(* keep.  Leadership is what Tenure says: a dog takes the role over, at    *)
(* any moment, with the next epoch.  A write is made from the newest       *)
(* document or refused, and any other write before it lands voids it.      *)
(***************************************************************************)
EXTENDS Integers
LOCAL INSTANCE Functions

CONSTANTS Dogs, Nobody,
          External, Shared,   \* actions: one bounded call; one shared record
          MaxOperations,      \* bound: operations of all actions
          MaxEpoch,           \* bound: changes of the leader
          MaxFaults           \* bound: processes that die, writes lost or refused

ASSUME WorkAssumption ==
  /\ Nobody \notin Dogs /\ External \cap Shared = {}
  /\ MaxOperations \in Nat /\ MaxEpoch \in Nat \ {0} /\ MaxFaults \in Nat

VARIABLES document, flight,    \* and the replacements that may still be applied
          receipt, mutation,   \* the checkpoint of each dog: receipts by action, the
          reserved,            \*   record it may have written, maintenance reserved?
          journal,             \* its WAL of the ledger: the plan that may be out
          upkeep,              \* its maintenance WAL
          task,                \* where its daemon and its owner's command stand
          open, calls,         \* external calls not yet over; how often each was made
          minted, faults       \* newest operation of each action

checkpoint == <<receipt, mutation, reserved>>
outside == <<open, calls>>
vars == <<document, flight, checkpoint, journal, upkeep, task, outside, minted, faults>>

Actions == External \cup Shared
Operations == 1 .. MaxOperations

NoEntry == [owner |-> Nobody, epoch |-> 0, op |-> 0, outcome |-> "NONE"]
NoReceipt == [op |-> 0, epoch |-> 0, outcome |-> "NONE"]
NoBarrier == [source |-> Nobody, epoch |-> 0, clear |-> FALSE]
NoLedger ==
  [kept |-> FALSE, entries |-> [action \in Actions |-> NoEntry], barrier |-> NoBarrier]
NoPlan == [epoch |-> 0]
NoUpkeep == [phase |-> "NONE", adopted |-> FALSE, plan |-> NoPlan]
AtRest ==
  [at |-> "rest", sent |-> FALSE, action |-> Nobody, op |-> 0, epoch |-> 0, outcome |-> "NONE"]

(* Who is at work: the daemon of a dog, or its owner with the maintenance      *)
(* command.                                                                    *)
Hands == {"daemon", "owner"}

Init ==
  /\ document \in [owner : Dogs, epoch : {1}, asked : {FALSE}, phase : {"ACTIVE"},
                   ledger : {NoLedger}, records : {[action \in Shared |-> 0]}]
  /\ flight = {}
  /\ receipt = [dog \in Dogs |-> [action \in Actions |-> NoReceipt]]
  /\ mutation = [dog \in Dogs |-> NoPlan]
  /\ reserved = [dog \in Dogs |-> FALSE]
  /\ journal = [dog \in Dogs |-> NoPlan]
  /\ upkeep = [dog \in Dogs |-> NoUpkeep]
  /\ task = [dog \in Dogs |-> [hand \in Hands |-> AtRest]]
  /\ open = {} /\ calls = [action \in External |-> [op \in Operations |-> 0]]
  /\ minted = [action \in Actions |-> 0] /\ faults = 0

Fault == faults < MaxFaults /\ faults' = faults + 1

Put(desired) == document' = desired /\ flight' = {}

-----------------------------------------------------------------------------
(* OwnerGuard.matches; a grant names the owner and the epoch.                  *)
Owns(dog, epoch) ==
  document.owner = dog /\ document.epoch = epoch /\ ~document.asked

(* _admit.                                                                     *)
Admitted(dog) ==
  Owns(dog, document.epoch) /\ ~reserved[dog] /\ document.phase = "ACTIVE"

Entry(action) == document.ledger.entries[action]

(* EffectMutation.evaluate: what is there counts, whoever leads.               *)
EvaluateEffect(dog, plan) ==
  CASE document.ledger = plan.after -> "CONFIRMED"
    [] document.ledger # plan.after /\ ~Owns(dog, plan.epoch) -> "SUPERSEDED"
    [] document.ledger = plan.before /\ document.phase = plan.phase
         /\ Owns(dog, plan.epoch) -> "READY"
    [] OTHER -> "CONFLICT"

(* RecordMutation.evaluate: the owner first, then maintenance.                 *)
EvaluateRecord(dog, plan) ==
  CASE ~Owns(dog, plan.epoch) -> "SUPERSEDED"
    [] Owns(dog, plan.epoch) /\ document.phase = "MAINTENANCE" -> "CONFLICT"
    [] OTHER -> CASE document.records[plan.action] = plan.op -> "CONFIRMED"
                  [] document.records[plan.action] = plan.before -> "READY"
                  [] OTHER -> "CONFLICT"

(* MaintenanceMutation.evaluate.                                               *)
EvaluateEnter(dog, plan) ==
  CASE document.phase = "MAINTENANCE" /\ document.ledger = plan.after -> "CONFIRMED"
    [] document.ledger # plan.after /\ ~Owns(dog, plan.epoch) -> "SUPERSEDED"
    [] document.phase = "ACTIVE" /\ document.ledger = plan.before
         /\ Owns(dog, plan.epoch) -> "READY"
    [] OTHER -> "CONFLICT"

-----------------------------------------------------------------------------
(* reconcile: each plan is in the journal, the checkpoint or the WAL before    *)
(* the first write; the answer is what a later read shows.  A write that is    *)
(* refused for good and a read that fails leave what Interrupted leaves.       *)

JournalStages == {"ensure", "start", "finish", "certify"}
WriteStages == JournalStages \cup {"record", "enter"}

Evaluate(dog, stage) ==
  CASE stage \in JournalStages -> EvaluateEffect(dog, journal[dog])
    [] stage = "record" -> EvaluateRecord(dog, mutation[dog])
    [] stage = "enter" -> EvaluateEnter(dog, upkeep[dog].plan)

Desired(dog, stage) ==
  CASE stage \in JournalStages -> [document EXCEPT !.ledger = journal[dog].after]
    [] stage = "record" ->
         [document EXCEPT !.records[mutation[dog].action] = mutation[dog].op]
    [] stage = "enter" ->
         [document EXCEPT !.phase = "MAINTENANCE", !.ledger = upkeep[dog].plan.after]

Go(dog, hand, stage) ==
  task' = [task EXCEPT ![dog][hand].at = stage, ![dog][hand].sent = FALSE]
Stop(dog, hand) == task' = [task EXCEPT ![dog][hand] = AtRest]

Receive(dog, action, op, epoch, outcome) ==
  receipt' = [receipt EXCEPT ![dog][action] = [op |-> op, epoch |-> epoch, outcome |-> outcome]]

(* Effects._commit: a plan that is not settled stays in the journal.           *)
JournalEnds_Optimistic(dog, hand, outcome) ==
  LET stage == task[dog][hand].at IN
  /\ journal' = IF outcome \in {"CONFIRMED", "SUPERSEDED"}
                THEN [journal EXCEPT ![dog] = NoPlan] ELSE journal
  /\ CASE outcome = "CONFIRMED" /\ stage = "ensure" ->
            Go(dog, hand, IF hand = "daemon" THEN "intend" ELSE "reserved")
       [] outcome \in {"CONFIRMED", "UNKNOWN"} /\ stage = "start" -> Go(dog, hand, "proceed")
       [] OTHER -> Stop(dog, hand)
  /\ UNCHANGED <<checkpoint, upkeep>>
JournalEnds(dog, hand, outcome) ==
  LET stage == task[dog][hand].at IN
  /\ journal' = IF outcome \in {"CONFIRMED", "SUPERSEDED"}
                THEN [journal EXCEPT ![dog] = NoPlan] ELSE journal
  /\ CASE outcome = "CONFIRMED" /\ stage = "ensure" ->
            Go(dog, hand, IF hand = "daemon" THEN "intend" ELSE "reserved")
       [] outcome = "CONFIRMED" /\ stage = "start" -> Go(dog, hand, "proceed")
       [] OTHER -> Stop(dog, hand)
  /\ UNCHANGED <<checkpoint, upkeep>>

(* perform: only a confirmed write takes the mutation off the checkpoint.      *)
RecordEnds(dog, outcome) ==
  LET work == task[dog]["daemon"] IN
  /\ IF outcome = "CONFIRMED"
     THEN /\ Receive(dog, work.action, work.op, work.epoch, "COMPLETE")
          /\ mutation' = [mutation EXCEPT ![dog] = NoPlan]
          /\ task' = [task EXCEPT ![dog]["daemon"].at = "settle",
                        ![dog]["daemon"].sent = FALSE, ![dog]["daemon"].outcome = "COMPLETE"]
     ELSE Stop(dog, "daemon") /\ UNCHANGED <<receipt, mutation>>
  /\ UNCHANGED <<reserved, journal, upkeep>>

EnterEnds(dog, outcome) == Stop(dog, "owner") /\ UNCHANGED <<checkpoint, journal, upkeep>>

Ends(dog, hand, outcome) ==
  \/ task[dog][hand].at \in JournalStages /\ JournalEnds(dog, hand, outcome)
  \/ task[dog][hand].at = "record" /\ RecordEnds(dog, outcome)
  \/ task[dog][hand].at = "enter" /\ EnterEnds(dog, outcome)

Sent(dog, hand) ==
  /\ task' = [task EXCEPT ![dog][hand].sent = TRUE]
  /\ UNCHANGED <<checkpoint, journal, upkeep>>

Write(dog, hand) ==
  LET stage == task[dog][hand].at
      state == Evaluate(dog, stage) IN
  /\ stage \in WriteStages /\ ~task[dog][hand].sent
  /\ \/ /\ state # "READY" /\ Ends(dog, hand, state)
        /\ UNCHANGED <<document, flight, faults>>
     \/ /\ state = "READY" /\ Put(Desired(dog, stage)) /\ Sent(dog, hand)
        /\ UNCHANGED faults
     \/ /\ state = "READY" /\ Fault /\ Sent(dog, hand)
        /\ flight' = flight \cup {Desired(dog, stage)} /\ UNCHANGED document
  /\ UNCHANGED <<outside, minted>>

ReadBack(dog, hand) ==
  LET state == Evaluate(dog, task[dog][hand].at) IN
  /\ task[dog][hand].sent
  /\ Ends(dog, hand, IF state = "READY" THEN "UNKNOWN" ELSE state)
  /\ UNCHANGED <<document, flight, outside, minted, faults>>

(* A change of the ledger, from the document as it is; saved before it is      *)
(* sent.  Another change that may be out forbids it.                           *)
Plan(dog, epoch, after) ==
  /\ journal[dog] = NoPlan
  /\ journal' = [journal EXCEPT ![dog] =
       [epoch |-> epoch, phase |-> document.phase, before |-> document.ledger, after |-> after]]
Journal(dog, hand, stage, epoch, after) == Plan(dog, epoch, after) /\ Go(dog, hand, stage)

(* Effects.ensure, where there is no ledger yet: only its first owner, with    *)
(* nothing in doubt, begins one.                                               *)
Initial(dog) ==
  [NoLedger EXCEPT !.kept = TRUE, !.entries =
     [action \in Actions |->
        IF receipt[dog][action] = NoReceipt THEN NoEntry
        ELSE [owner |-> dog, epoch |-> receipt[dog][action].epoch,
              op |-> receipt[dog][action].op, outcome |-> receipt[dog][action].outcome]]]

FirstLedger(dog) ==
  /\ document.epoch = 1 /\ mutation[dog] = NoPlan /\ document.phase = "ACTIVE"
  /\ Plan(dog, 1, Initial(dog))

-----------------------------------------------------------------------------
(* cycle: a mutation that may be out is looked for before any new work; it is  *)
(* settled with the one shared receipt that is UNKNOWN, or the cycle fails.    *)
InDoubt(dog) == {action \in Shared : receipt[dog][action].outcome = "UNKNOWN"}

InspectShared(dog) ==
  LET state == EvaluateRecord(dog, mutation[dog]) IN
  /\ state \in {"CONFIRMED", "SUPERSEDED"}
  /\ \E action \in Shared :
       LET old == receipt[dog][action]
           outcome == IF state = "CONFIRMED" THEN "COMPLETE" ELSE "SUPERSEDED" IN
       /\ InDoubt(dog) = {action}
       /\ Receive(dog, action, old.op, old.epoch, outcome)
       /\ task' = [task EXCEPT ![dog]["daemon"] =
            [AtRest EXCEPT !.at = "settle", !.action = action, !.op = old.op,
                           !.epoch = document.epoch, !.outcome = outcome]]
  /\ mutation' = [mutation EXCEPT ![dog] = NoPlan]

Cycle(dog) ==
  /\ task[dog]["daemon"].at = "rest" /\ Admitted(dog) /\ mutation[dog] # NoPlan
  /\ \/ /\ EvaluateRecord(dog, mutation[dog]) \notin {"CONFIRMED", "SUPERSEDED"}
        /\ Go(dog, "daemon", "ready") /\ UNCHANGED <<receipt, mutation>>
     \/ InspectShared(dog)
  /\ UNCHANGED <<document, flight, reserved, journal, upkeep, outside, minted, faults>>

(* next_work offers the newest operation of an action or a new one; perform    *)
(* does not repeat what its receipt has, nor what is still UNKNOWN.            *)
Perform(dog) ==
  /\ Admitted(dog)
  /\ \/ task[dog]["daemon"].at = "ready"
     \/ task[dog]["daemon"].at = "rest" /\ mutation[dog] = NoPlan
  /\ \E action \in Actions, op \in Operations :
       /\ \/ op = minted[action]
          \/ op = minted[action] + 1 /\ FoldFunction(+, 0, minted) < MaxOperations
       /\ receipt[dog][action].op # op /\ receipt[dog][action].outcome # "UNKNOWN"
       /\ minted' = [minted EXCEPT ![action] = op]
       /\ journal[dog] = NoPlan
       /\ task' = [task EXCEPT ![dog]["daemon"] =
            [AtRest EXCEPT !.at = IF document.ledger.kept THEN "intend" ELSE "ensure",
                           !.action = action, !.op = op, !.epoch = document.epoch]]
       /\ IF document.ledger.kept THEN UNCHANGED journal ELSE FirstLedger(dog)
  /\ UNCHANGED <<document, flight, checkpoint, upkeep, outside, faults>>

(* The ledger's receipt is read, then the dog's own is saved as UNKNOWN.       *)
Intend(dog) ==
  LET work == task[dog]["daemon"] IN
  /\ work.at = "intend"
  /\ IF Entry(work.action).op = work.op \/ Entry(work.action).outcome = "UNKNOWN"
     THEN Stop(dog, "daemon") /\ UNCHANGED receipt
     ELSE /\ Receive(dog, work.action, work.op, work.epoch, "UNKNOWN")
          /\ Go(dog, "daemon", "begin")
  /\ UNCHANGED <<document, flight, mutation, reserved, journal, upkeep, outside, minted, faults>>

(* Effects.start and the checks of a START plan.                               *)
MayStart(dog, work) ==
  /\ journal[dog] = NoPlan
  /\ Owns(dog, work.epoch) /\ document.phase = "ACTIVE"
  /\ Entry(work.action).outcome # "UNKNOWN" /\ Entry(work.action).op # work.op

Start(dog) ==
  LET work == task[dog]["daemon"] IN
  /\ work.at = "begin" /\ MayStart(dog, work)
  /\ Journal(dog, "daemon", "start", work.epoch,
       [document.ledger EXCEPT !.entries[work.action] =
          [owner |-> dog, epoch |-> work.epoch, op |-> work.op, outcome |-> "UNKNOWN"]])
  /\ UNCHANGED <<document, flight, checkpoint, upkeep, outside, minted, faults>>

(* The second admission: a shared action needs the place of the mutation.      *)
Prepare(dog) ==
  LET work == task[dog]["daemon"] IN
  /\ work.at = "proceed" /\ work.action \in Shared /\ Admitted(dog)
  /\ IF mutation[dog] = NoPlan
     THEN /\ mutation' = [mutation EXCEPT ![dog] =
               [epoch |-> document.epoch, action |-> work.action, op |-> work.op,
                before |-> document.records[work.action]]]
          /\ Go(dog, "daemon", "record")
     ELSE Stop(dog, "daemon") /\ UNCHANGED mutation
  /\ UNCHANGED <<document, flight, receipt, reserved, journal, upkeep, outside, minted, faults>>

(* An external action is admitted a third time before it is called, and any    *)
(* reason to refuse it then is recorded.                                       *)
Dispatch(dog) ==
  LET work == task[dog]["daemon"] IN
  /\ work.at = "proceed" /\ work.action \in External
  /\ \/ /\ Admitted(dog) /\ Go(dog, "daemon", "cleared") /\ UNCHANGED <<receipt, faults>>
     \/ /\ IF Admitted(dog) THEN Fault ELSE UNCHANGED faults
        /\ Receive(dog, work.action, work.op, work.epoch, "NOT_DISPATCHED")
        /\ Stop(dog, "daemon")
  /\ UNCHANGED <<document, flight, mutation, reserved, journal, upkeep, outside, minted>>

(* The call is made; the role may have been lost since the admission.          *)
Invoke(dog) ==
  LET work == task[dog]["daemon"] IN
  /\ work.at = "cleared"
  /\ open' = open \cup {[dog |-> dog, action |-> work.action, op |-> work.op, epoch |-> work.epoch]}
  /\ calls' = [calls EXCEPT ![work.action][work.op] = @ + 1]
  /\ Go(dog, "daemon", "out")
  /\ UNCHANGED <<document, flight, checkpoint, journal, upkeep, minted, faults>>

Call(dog) ==
  {call \in open : call.dog = dog /\ call.action = task[dog]["daemon"].action
                   /\ call.op = task[dog]["daemon"].op}

Return_NotDispatched(dog) ==
  LET work == task[dog]["daemon"] IN
  /\ work.at = "out"
  /\ \E result \in {"COMPLETE", "NO_WORK", "NOT_DISPATCHED"} :
       /\ Receive(dog, work.action, work.op, work.epoch, result)
       /\ open' = open \ Call(dog)
       /\ task' = [task EXCEPT ![dog]["daemon"].at = "settle",
                               ![dog]["daemon"].outcome = result]
  /\ UNCHANGED <<document, flight, mutation, reserved, journal, upkeep, calls, minted, faults>>
Return(dog) ==
  LET work == task[dog]["daemon"] IN
  /\ work.at = "out"
  /\ \E result \in {"COMPLETE", "NO_WORK", "UNKNOWN"} :
       /\ Receive(dog, work.action, work.op, work.epoch, result)
       /\ IF result = "UNKNOWN" THEN Stop(dog, "daemon") /\ UNCHANGED open
          ELSE /\ open' = open \ Call(dog)
               /\ task' = [task EXCEPT ![dog]["daemon"].at = "settle",
                                       ![dog]["daemon"].outcome = result]
  /\ UNCHANGED <<document, flight, mutation, reserved, journal, upkeep, calls, minted, faults>>

(* Effects.finish: the entry must be the dog's own, of the epoch it now has.   *)
MaySettle(dog, work) ==
  /\ journal[dog] = NoPlan /\ Owns(dog, work.epoch)
  /\ Entry(work.action) =
       [owner |-> dog, epoch |-> work.epoch, op |-> work.op, outcome |-> "UNKNOWN"]

Settle(dog) ==
  LET work == task[dog]["daemon"] IN
  /\ work.at = "settle" /\ MaySettle(dog, work)
  /\ Journal(dog, "daemon", "finish", work.epoch,
       [document.ledger EXCEPT !.entries[work.action].outcome = work.outcome])
  /\ UNCHANGED <<document, flight, checkpoint, upkeep, outside, minted, faults>>

(* A check that fails raises, and the cycle is over; what was saved stays.     *)
Fails(dog) ==
  LET work == task[dog]["daemon"] IN
  /\ \/ work.at = "ready"
     \/ work.at = "begin" /\ ~MayStart(dog, work)
     \/ work.at = "proceed" /\ ~Admitted(dog)
     \/ work.at = "settle" /\ ~MaySettle(dog, work)
  /\ Stop(dog, "daemon")
  /\ UNCHANGED <<document, flight, checkpoint, journal, upkeep, outside, minted, faults>>

-----------------------------------------------------------------------------
(* The owner's command: begin, inspect, refresh_local_evidence, resolve.  Every *)
(* step asks again whether this dog leads (_current).                          *)

LocallyClear(dog) ==
  /\ mutation[dog] = NoPlan
  /\ \A action \in Actions : receipt[dog][action].outcome # "UNKNOWN"

Leads(dog) == Owns(dog, document.epoch)

(* begin reserves the checkpoint first: from then on the daemon is refused.     *)
Begin(dog) ==
  /\ task[dog]["owner"].at = "rest" /\ upkeep[dog] = NoUpkeep /\ Leads(dog)
  /\ reserved' = [reserved EXCEPT ![dog] = TRUE]
  /\ Go(dog, "owner", "reserved")
  /\ UNCHANGED <<document, flight, receipt, mutation, journal, upkeep, outside, minted, faults>>

EnsureForUpkeep(dog) ==
  /\ task[dog]["owner"].at = "reserved" /\ Leads(dog)
  /\ document.phase = "ACTIVE" /\ ~document.ledger.kept
  /\ FirstLedger(dog) /\ Go(dog, "owner", "ensure")
  /\ UNCHANGED <<document, flight, checkpoint, upkeep, outside, minted, faults>>

(* A maintenance that another leader entered is adopted; else the plan to      *)
(* enter it says whether this checkpoint is clear of doubt.                    *)
Baseline(dog) ==
  /\ task[dog]["owner"].at = "reserved" /\ Leads(dog)
  /\ \/ /\ document.phase = "MAINTENANCE"
        /\ upkeep' = [upkeep EXCEPT ![dog] =
             [phase |-> "MAINTENANCE", adopted |-> TRUE, plan |-> NoPlan]]
        /\ Stop(dog, "owner")
     \/ /\ document.phase = "ACTIVE" /\ document.ledger.kept /\ journal[dog] = NoPlan
        /\ upkeep' = [upkeep EXCEPT ![dog] =
             [phase |-> "ENTERING", adopted |-> FALSE,
              plan |-> [epoch |-> document.epoch, before |-> document.ledger,
                        after |-> [document.ledger EXCEPT !.barrier =
                          [source |-> dog, epoch |-> document.epoch,
                           clear |-> LocallyClear(dog)]]]]]
        /\ Go(dog, "owner", "enter")
  /\ UNCHANGED <<document, flight, checkpoint, journal, outside, minted, faults>>

(* inspect never writes: it looks for the plan that may be out.  begin ends     *)
(* with it, and it can be asked for by itself.                                 *)
InspectUpkeep(dog) ==
  LET state == EvaluateEnter(dog, upkeep[dog].plan) IN
  /\ task[dog]["owner"].at = "rest" /\ upkeep[dog].phase = "ENTERING"
  /\ state \in {"CONFIRMED", "SUPERSEDED"}
  /\ upkeep' = [upkeep EXCEPT ![dog].plan = NoPlan, ![dog].phase =
       IF state = "CONFIRMED" THEN "MAINTENANCE" ELSE "SUPERSEDED"]
  /\ UNCHANGED <<document, flight, checkpoint, journal, task, outside, minted, faults>>

(* _proposal.                                                                  *)
Proposed(dog) ==
  /\ upkeep[dog].phase \in {"MAINTENANCE", "RESOLVED"} /\ journal[dog] = NoPlan
  /\ Leads(dog) /\ document.phase = "MAINTENANCE"

(* Only the leader that entered, in its epoch, can say that it is clear now.   *)
Certify(dog) ==
  LET barrier == document.ledger.barrier IN
  /\ task[dog]["owner"].at = "rest" /\ Proposed(dog)
  /\ ~upkeep[dog].adopted /\ LocallyClear(dog)
  /\ ~barrier.clear /\ barrier.source = dog /\ barrier.epoch = document.epoch
  /\ Journal(dog, "owner", "certify", document.epoch, [document.ledger EXCEPT !.barrier.clear = TRUE])
  /\ UNCHANGED <<document, flight, checkpoint, upkeep, outside, minted, faults>>

(* inspect (reconfiguration_inspection.py): what keeps it from being resolved. *)
Unblocked_HereOnly(dog) == document.ledger.barrier.clear /\ LocallyClear(dog)
Unblocked(dog) ==
  /\ \A action \in Actions : Entry(action).outcome # "UNKNOWN"
  /\ document.ledger.barrier.clear /\ LocallyClear(dog)

Approve(dog) ==
  /\ task[dog]["owner"].at = "rest" /\ Proposed(dog) /\ Unblocked(dog)
  /\ upkeep[dog].phase = "MAINTENANCE"
  /\ Go(dog, "owner", "approved")
  /\ UNCHANGED <<document, flight, checkpoint, journal, upkeep, outside, minted, faults>>

Resolve(dog) ==
  /\ task[dog]["owner"].at = "approved"
  /\ upkeep' = [upkeep EXCEPT ![dog].phase = "RESOLVED"]
  /\ Stop(dog, "owner")
  /\ UNCHANGED <<document, flight, checkpoint, journal, outside, minted, faults>>

-----------------------------------------------------------------------------
(* A process dies, or an exception or a refusal ends it, between two steps;    *)
(* what it had called goes on, for as long as may be.                          *)
Interrupted(dog, hand) ==
  /\ task[dog][hand].at # "rest" /\ Fault
  /\ Stop(dog, hand)
  /\ UNCHANGED <<document, flight, checkpoint, journal, upkeep, outside, minted>>

(* The next epoch, of any dog whose daemon is between two cycles (Tenure).     *)
TakeOver(dog) ==
  /\ task[dog]["daemon"].at = "rest" /\ document.epoch < MaxEpoch
  /\ Put([document EXCEPT !.owner = dog, !.epoch = @ + 1, !.asked = FALSE])
  /\ UNCHANGED <<checkpoint, journal, upkeep, task, outside, minted, faults>>

(* A request for the role, and its end.                                        *)
Asked ==
  /\ \/ ~document.asked /\ Fault /\ Put([document EXCEPT !.asked = TRUE])
     \/ document.asked /\ UNCHANGED faults /\ Put([document EXCEPT !.asked = FALSE])
  /\ UNCHANGED <<checkpoint, journal, upkeep, task, outside, minted>>

Land ==
  /\ \E desired \in flight : Put(desired)
  /\ UNCHANGED <<checkpoint, journal, upkeep, task, outside, minted, faults>>

DaemonStep(dog) ==
  Cycle(dog) \/ Perform(dog) \/ Intend(dog) \/ Start(dog)
  \/ Prepare(dog) \/ Dispatch(dog) \/ Invoke(dog) \/ Return(dog) \/ Settle(dog) \/ Fails(dog)
OwnerStep(dog) ==
  Begin(dog) \/ EnsureForUpkeep(dog) \/ Baseline(dog) \/ InspectUpkeep(dog)
  \/ Certify(dog) \/ Approve(dog) \/ Resolve(dog)

Next ==
  \/ \E dog \in Dogs : DaemonStep(dog) \/ OwnerStep(dog) \/ TakeOver(dog)
  \/ \E dog \in Dogs, hand \in Hands :
       Write(dog, hand) \/ ReadBack(dog, hand) \/ Interrupted(dog, hand)
  \/ Asked \/ Land

Spec == Init /\ [][Next]_vars

-----------------------------------------------------------------------------
Outcome == {"NONE", "UNKNOWN", "COMPLETE", "NO_WORK", "NOT_DISPATCHED", "SUPERSEDED"}
Receipts == [op : 0 .. MaxOperations, epoch : Nat, outcome : Outcome]
Ledger ==
  [kept : BOOLEAN,
   entries : [Actions -> [owner : Dogs \cup {Nobody}, epoch : Nat, op : 0 .. MaxOperations,
                          outcome : Outcome]],
   barrier : [source : Dogs \cup {Nobody}, epoch : Nat, clear : BOOLEAN]]
Documents ==
  [owner : Dogs, epoch : Nat \ {0}, asked : BOOLEAN, phase : {"ACTIVE", "MAINTENANCE"},
   ledger : Ledger, records : [Shared -> 0 .. MaxOperations]]
Tasks ==
  [at : {"rest", "ready", "intend", "begin", "proceed", "cleared", "out", "settle",
         "reserved", "approved"} \cup WriteStages,
   sent : BOOLEAN, action : Actions \cup {Nobody}, op : 0 .. MaxOperations, epoch : Nat,
   outcome : Outcome]

TypeOK ==
  /\ document \in Documents /\ flight \subseteq Documents
  /\ receipt \in [Dogs -> [Actions -> Receipts]] /\ reserved \in [Dogs -> BOOLEAN]
  /\ mutation \in [Dogs -> {NoPlan} \cup
       [epoch : Nat \ {0}, action : Shared, op : Operations, before : 0 .. MaxOperations]]
  /\ journal \in [Dogs -> {NoPlan} \cup
       [epoch : Nat \ {0}, phase : {"ACTIVE", "MAINTENANCE"}, before : Ledger, after : Ledger]]
  /\ upkeep \in [Dogs ->
       [phase : {"NONE", "ENTERING", "MAINTENANCE", "SUPERSEDED", "RESOLVED"}, adopted : BOOLEAN,
        plan : {NoPlan} \cup [epoch : Nat \ {0}, before : Ledger, after : Ledger]]]
  /\ task \in [Dogs -> [Hands -> Tasks]]
  /\ open \subseteq [dog : Dogs, action : External, op : Operations, epoch : Nat]
  /\ calls \in [External -> [Operations -> Nat]] /\ minted \in [Actions -> 0 .. MaxOperations]
  /\ faults \in 0 .. MaxFaults

(* A call that is not over has its own UNKNOWN entry in the ledger that every  *)
(* leader reads, whoever leads now, and no operation is called twice: whatever *)
(* died, was lost, or was deposed after its last admission                     *)
(* (NATIVE_WATCHDOG_STARTUP.md:63-65).                                         *)
CallsAreEvidenced ==
  /\ \A call \in open :
       /\ Entry(call.action) = [owner |-> call.dog, epoch |-> call.epoch,
                                op |-> call.op, outcome |-> "UNKNOWN"]
       /\ receipt[call.dog][call.action].op = call.op
       /\ receipt[call.dog][call.action].outcome = "UNKNOWN"
  /\ \A action \in External, op \in Operations : calls[action][op] <= 1

(* A receipt that is not UNKNOWN can be relied on.  COMPLETE of a shared action *)
(* says its record was written, and by a later operation alone replaced;       *)
(* SUPERSEDED that it will not be written any more; NOT_DISPATCHED that        *)
(* nothing was called; and the ledger says the same.                           *)
Reliable(action, op, outcome) ==
  CASE action \in Shared /\ outcome = "COMPLETE" -> document.records[action] >= op
    [] action \in Shared /\ outcome = "SUPERSEDED" ->
         \/ document.records[action] = op
         \/ \A desired \in flight : desired.records[action] # op
    [] action \in External /\ outcome = "NOT_DISPATCHED" -> calls[action][op] = 0
    [] action \in External /\ outcome \in {"COMPLETE", "NO_WORK"} -> calls[action][op] > 0
    [] OTHER -> TRUE
ReceiptsAreReliable ==
  /\ \A dog \in Dogs, action \in Actions :
       Reliable(action, receipt[dog][action].op, receipt[dog][action].outcome)
  /\ \A action \in Actions : Entry(action).outcome \notin {"NONE", "UNKNOWN"} =>
       /\ Reliable(action, Entry(action).op, Entry(action).outcome)
       /\ receipt[Entry(action).owner][action].op = Entry(action).op =>
            receipt[Entry(action).owner][action].outcome = Entry(action).outcome

(* When maintenance is resolved, on any machine, nothing is under way on any:  *)
(* no call is open or about to be made, and no record will be written          *)
(* (reconfiguration_inspection.py:1-5).                                        *)
ResolvedIsQuiet ==
  (\E dog \in Dogs : upkeep[dog].phase = "RESOLVED") =>
    /\ open = {} /\ document.phase = "MAINTENANCE"
    /\ \A dog \in Dogs : task[dog]["daemon"].at \notin {"cleared", "out"}
    /\ \A desired \in flight : desired.records = document.records
================================================================================
