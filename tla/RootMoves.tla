------------------------------- MODULE RootMoves -------------------------------
(***************************************************************************)
(* The files of the park are moved into another root folder while every    *)
(* daemon rests: DocsRootMoves (reconfiguration_roots.py), the settlement  *)
(* of moves that another leader left open                                  *)
(* (reconfiguration_root_settlement.py), and the continuation from new     *)
(* local stores (reconfiguration_root_resume.py).                          *)
(*                                                                         *)
(* A move is one request to the provider that is never repeated: it is     *)
(* prepared in the WAL of the dog, entered as UNKNOWN in the shared ledger,*)
(* marked INVOKING, sent, and looked for.  What is told apart here is      *)
(* whether a request was made, is still on its way, and was applied.       *)
(*                                                                         *)
(* The state is that of the whole reconfiguration; Reconfiguration has the *)
(* steps before and after the moves.                                       *)
(***************************************************************************)
EXTENDS Integers, FiniteSets

CONSTANTS Dogs, Nobody,
          Last,             \* objects are 1 .. Last, moved in that order; Last holds
                            \*   the shared document itself
          MaxEpoch,         \* bound: changes of the leader
          MaxFaults         \* bound: processes that die, answers and requests lost

ASSUME RootAssumption ==
  /\ Nobody \notin Dogs /\ Last \in Nat \ {0}
  /\ MaxEpoch \in Nat \ {0} /\ MaxFaults \in Nat

VARIABLES document, flight,    \* and the replacements that may still be applied
          moved, moving,       \* objects in the new root; requests not yet applied
          sends,               \* how often the move of each object was requested
          files,               \* the private stores on the machine of each dog
          frame,               \* the store of it that was staged and not replaced
          journal,             \* the plan for the ledger that may be out
          task, faults         \* where a command of several steps stands

drive == <<moved, moving, sends>>
vars == <<document, flight, drive, files, frame, journal, task, faults>>

Objects == 1 .. Last

NoReceipt == [owner |-> Nobody, epoch |-> 0, op |-> 0, outcome |-> "NONE"]
NoPending == [epoch |-> 0, dispatch |-> "NONE"]
NoWal == [index |-> -1, pending |-> NoPending, resumed |-> FALSE, edited |-> FALSE]
NoFrame == [store |-> "NONE"]
NoPlan == [epoch |-> 0]
NoDecision == [owner |-> Nobody, epoch |-> 0]

(* What a WAL of the moves may hold.                                           *)
RootsWal ==
  [index : -1 .. Last, resumed : BOOLEAN, edited : BOOLEAN,
   pending : [epoch : 0 .. MaxEpoch,
              dispatch : {"NONE", "PREPARED", "INVOKING", "REVOKED"}]]

AtRest == [at |-> "rest", epoch |-> 0, op |-> 0]

(* PrivateSettings: what each store holds; checkpoint is checkpoint.maintenance *)
(* (the daemon of the dog is refused), profile the settings it runs by.         *)
NewMachine ==
  [checkpoint |-> FALSE, resolved |-> 0, stage |-> [at |-> 0, edited |-> FALSE],
   roots |-> NoWal, evidence |-> FALSE,
   rebind |-> [at |-> "NONE", epoch |-> 0], post |-> [at |-> 0, epoch |-> 0],
   commit |-> [at |-> "NONE", epoch |-> 0, kind |-> "none"], promotion |-> "NONE",
   adoption |-> [at |-> 0, epoch |-> 0], profile |-> [by |-> "base", root |-> "old"]]

(* Maintenance was entered and resolved by the leader; nothing is left open.   *)
Init ==
  /\ document \in [owner : Dogs, epoch : {1}, phase : {"MAINTENANCE"}, route : {"old"},
                   plan : {FALSE}, receipt : {NoReceipt}, decision : {NoDecision}]
  /\ flight = {} /\ moved = {} /\ moving = {} /\ sends = [o \in Objects |-> 0]
  /\ files = [dog \in Dogs |-> [NewMachine EXCEPT !.checkpoint = dog = document.owner]]
  /\ frame = [dog \in Dogs |-> NoFrame] /\ journal = [dog \in Dogs |-> NoPlan]
  /\ task = [dog \in Dogs |-> AtRest] /\ faults = 0

Fault == faults < MaxFaults /\ faults' = faults + 1

-----------------------------------------------------------------------------
(* A store is staged and then replaced; a process that dies between the two    *)
(* leaves a frame, and nothing reads the store until it is recovered.          *)
Reads(dog, store) == frame[dog].store # store

(* Bound: one frame at a time on a machine.                                    *)
Save(dog, store, value) ==
  /\ Reads(dog, store)
  /\ \/ files' = [files EXCEPT ![dog][store] = value] /\ UNCHANGED <<frame, faults>>
     \/ /\ frame[dog] = NoFrame /\ Fault
        /\ frame' = [frame EXCEPT ![dog] = [store |-> store, value |-> value]]
        /\ UNCHANGED files

(* The command goes on if its process lives.                                   *)
Go(dog, next) ==
  task' = [task EXCEPT ![dog] = IF faults' = faults THEN next ELSE AtRest]

Promote(dog) ==
  /\ files' = [files EXCEPT ![dog][frame[dog].store] = frame[dog].value]
  /\ frame' = [frame EXCEPT ![dog] = NoFrame]

(* The store is locked from the mark INVOKING to the end of the request.       *)
Locked(dog) == task[dog].at \in {"send", "rebind", "commit"}

(* compare_replace: every write voids those prepared from an older document.   *)
Put(desired) == document' = desired /\ flight' = {}

(* A write that is not answered: applied, late, or never.                      *)
PutInDoubt(desired) ==
  \/ Put(desired)
  \/ flight' = flight \cup {desired} /\ UNCHANGED document

LateWrite ==
  /\ \E desired \in flight : Put(desired)
  /\ UNCHANGED <<drive, files, frame, journal, task, faults>>

(* Leadership, as Tenure has it: any dog, at any moment, with the next epoch.  *)
Takeover(dog) ==
  /\ document.epoch < MaxEpoch
  /\ Put([document EXCEPT !.owner = dog, !.epoch = @ + 1])
  /\ UNCHANGED <<drive, files, frame, journal, task, faults>>

LateMove ==
  /\ \E o \in moving : moved' = moved \cup {o} /\ moving' = moving \ {o}
  /\ UNCHANGED <<document, flight, sends, files, frame, journal, task, faults>>

Die(dog) ==
  /\ task[dog] # AtRest /\ Fault /\ task' = [task EXCEPT ![dog] = AtRest]
  /\ UNCHANGED <<document, flight, drive, files, frame, journal>>

-----------------------------------------------------------------------------
(* Effects: the ledger is changed by one plan at a time, saved before it is    *)
(* sent; an unanswered one stays until what it did can be seen.                *)
Leads(dog) == document.owner = dog
Ledger(shared) == <<shared.plan, shared.receipt>>

Commit(dog, after, next) ==
  /\ Leads(dog) /\ journal[dog] = NoPlan
  /\ \/ /\ Put(after) /\ UNCHANGED <<journal, faults>>
     \/ /\ Fault /\ PutInDoubt(after)
        /\ journal' = [journal EXCEPT ![dog] =
             [epoch |-> document.epoch, before |-> Ledger(document), after |-> Ledger(after)]]
  /\ Go(dog, next)

(* Effects.inspect, which every command begins with: it never writes again, so *)
(* that a plan that was lost stays until another leader voids it.              *)
InspectEffects(dog) ==
  /\ journal[dog] # NoPlan
  /\ \/ journal[dog].after = Ledger(document)
     \/ ~(Leads(dog) /\ document.epoch = journal[dog].epoch)
  /\ journal' = [journal EXCEPT ![dog] = NoPlan]
  /\ UNCHANGED <<document, flight, drive, files, frame, task, faults>>

Unknown == document.receipt.outcome = "UNKNOWN"

(* Where the maintenance of the park is still as the moves found it.           *)
AtOldRoot == document.phase = "MAINTENANCE" /\ document.route = "old"

(* checkpoint.reserve, first in every command of a dog that leads anew.        *)
Reserve(dog) ==
  /\ Leads(dog) /\ document.phase = "MAINTENANCE" /\ ~files[dog].checkpoint
  /\ files' = [files EXCEPT ![dog].checkpoint = TRUE]
  /\ UNCHANGED <<document, flight, drive, frame, journal, task, faults>>

-----------------------------------------------------------------------------
(* DocsRootMoves.                                                              *)
Wal(dog) == files[dog].roots
Operation(dog) == Wal(dog).index + 1

(* ResumedDocsRootMoves._proof: what was moved is what the index says.         *)
ResumedProof(wal, dispatch) ==
  dispatch /\ wal.pending = NoPending => moved = 1 .. wal.index

(* _proof: all that may be UNKNOWN is what this WAL has prepared.              *)
Proof(dog, wal, dispatch) ==
  /\ AtOldRoot /\ files[dog].checkpoint
  /\ IF wal.resumed THEN ResumedProof(wal, dispatch)
     ELSE Reads(dog, "stage") /\ wal.edited = files[dog].stage.edited
  /\ dispatch => Leads(dog)
  /\ Unknown => /\ wal.pending # NoPending /\ document.receipt.owner = dog
                /\ document.receipt.epoch = wal.pending.epoch
                /\ document.receipt.op = wal.index + 1

(* begin, once the candidate is validated: every object is where it was.       *)
BeginMoves(dog) ==
  LET wal == [NoWal EXCEPT !.index = 0, !.edited = files[dog].stage.edited] IN
  /\ Wal(dog) = NoWal /\ moved = {} /\ Proof(dog, wal, TRUE)
  /\ Save(dog, "roots", wal) /\ UNCHANGED <<document, flight, drive, journal, task>>

(* _ensure_plan, at the end of begin and at the start of every advance.        *)
EnsurePlan(dog) ==
  /\ Wal(dog) # NoWal /\ Wal(dog).pending = NoPending /\ Reads(dog, "roots")
  /\ ~document.plan /\ Proof(dog, Wal(dog), TRUE)
  /\ Commit(dog, [document EXCEPT !.plan = TRUE], AtRest)
  /\ UNCHANGED <<drive, files, frame>>

Remains(wal) == wal # NoWal /\ wal.pending = NoPending /\ wal.index < Last

Advance(dog) ==
  LET wal == Wal(dog) IN
  /\ Remains(wal) /\ Reads(dog, "roots")
  /\ document.plan /\ journal[dog] = NoPlan /\ Proof(dog, wal, TRUE)
  /\ Operation(dog) \notin moved
  /\ Save(dog, "roots",
       [wal EXCEPT !.pending = [epoch |-> document.epoch, dispatch |-> "PREPARED"]])
  /\ Go(dog, [at |-> "start", epoch |-> document.epoch, op |-> Operation(dog)])
  /\ UNCHANGED <<document, flight, drive, journal>>

(* Effects.start: ROOT_START, or ROOT_RETRY of a move proven unsent.           *)
MayStart(dog, work) ==
  /\ Leads(dog) /\ document.epoch = work.epoch /\ files[dog].checkpoint
  /\ document.phase = "MAINTENANCE" /\ journal[dog] = NoPlan
  /\ ~Unknown /\ (document.receipt.op = work.op => document.receipt.outcome = "NOT_DISPATCHED")

Start(dog) ==
  LET work == task[dog] IN
  /\ work.at = "start" /\ MayStart(dog, work)
  /\ Commit(dog, [document EXCEPT !.receipt =
       [owner |-> dog, epoch |-> work.epoch, op |-> work.op, outcome |-> "UNKNOWN"]],
       [work EXCEPT !.at = "arm"])
  /\ UNCHANGED <<drive, files, frame>>

(* Under the lock: the WAL is what this command saved, whatever another        *)
(* command of the owner did meanwhile.                                         *)
MayArm(dog, work) ==
  /\ Proof(dog, Wal(dog), TRUE) /\ work.op \notin moved /\ Reads(dog, "roots")
  /\ Operation(dog) = work.op
  /\ Wal(dog).pending = [epoch |-> work.epoch, dispatch |-> "PREPARED"]
  /\ document.receipt =
       [owner |-> dog, epoch |-> work.epoch, op |-> work.op, outcome |-> "UNKNOWN"]

Arm(dog) ==
  LET work == task[dog] IN
  /\ work.at = "arm" /\ MayArm(dog, work)
  /\ Save(dog, "roots", [Wal(dog) EXCEPT !.pending.dispatch = "INVOKING"])
  /\ Go(dog, [work EXCEPT !.at = "send"])
  /\ UNCHANGED <<document, flight, drive, journal>>

(* The request; the last proof was before it.                                  *)
Send(dog) ==
  LET o == task[dog].op IN
  /\ task[dog].at = "send" /\ sends' = [sends EXCEPT ![o] = @ + 1]
  /\ \/ moved' = moved \cup {o} /\ UNCHANGED <<moving, faults>>
     \/ Fault /\ moving' = moving \cup {o} /\ UNCHANGED moved
  /\ task' = [task EXCEPT ![dog] = AtRest]
  /\ UNCHANGED <<document, flight, files, frame, journal>>

(* A check that fails raises; what was saved stays.                            *)
MoveFails(dog) ==
  LET work == task[dog] IN
  /\ \/ work.at = "start" /\ ~MayStart(dog, work)
     \/ work.at = "arm" /\ ~MayArm(dog, work)
     \/ work.at = "send" /\ ~Proof(dog, Wal(dog), TRUE)
  /\ task' = [task EXCEPT ![dog] = AtRest]
  /\ UNCHANGED <<document, flight, drive, files, frame, journal, faults>>

(* inspect: the object where it should be ends the operation, in the ledger    *)
(* and then in the WAL; only for the leader, and the epoch, that began it.     *)
Applied_OnAnswer(dog) ==
  LET wal == Wal(dog) IN
  /\ wal # NoWal /\ Reads(dog, "roots") /\ wal.pending.dispatch = "INVOKING"
  /\ Proof(dog, wal, TRUE)
  /\ document.epoch = wal.pending.epoch /\ document.receipt.op = Operation(dog)
  /\ journal[dog] = NoPlan
Applied(dog) ==
  LET wal == Wal(dog) IN
  /\ wal # NoWal /\ Reads(dog, "roots") /\ wal.pending.dispatch = "INVOKING"
  /\ Operation(dog) \in moved /\ Proof(dog, wal, TRUE)
  /\ document.epoch = wal.pending.epoch /\ document.receipt.op = Operation(dog)
  /\ journal[dog] = NoPlan

Finish(dog) ==
  /\ task[dog] = AtRest /\ Applied(dog) /\ Unknown
  /\ Commit(dog, [document EXCEPT !.receipt.outcome = "COMPLETE"], [AtRest EXCEPT !.at = "record"])
  /\ UNCHANGED <<drive, files, frame>>

Record(dog) ==
  /\ \/ task[dog].at = "record"
     \/ task[dog] = AtRest /\ Applied(dog) /\ document.receipt.outcome = "COMPLETE"
  /\ Save(dog, "roots", [Wal(dog) EXCEPT !.index = @ + 1, !.pending = NoPending])
  /\ task' = [task EXCEPT ![dog] = AtRest]
  /\ UNCHANGED <<document, flight, drive, journal>>

-----------------------------------------------------------------------------
(* A command that died before it was armed is revoked, from another process if *)
(* need be, and only then is its move proven unsent.                           *)
RevokePrepared_Invoking(dog) ==
  LET wal == Wal(dog) IN
  /\ wal.pending.dispatch \in {"PREPARED", "INVOKING"} /\ Reads(dog, "roots") /\ ~Locked(dog)
  /\ Proof(dog, wal, TRUE) /\ document.epoch = wal.pending.epoch
  /\ Operation(dog) \notin moved
  /\ Save(dog, "roots", [wal EXCEPT !.pending.dispatch = "REVOKED"])
  /\ UNCHANGED <<document, flight, drive, journal, task>>
RevokePrepared(dog) ==
  LET wal == Wal(dog) IN
  /\ wal.pending.dispatch = "PREPARED" /\ Reads(dog, "roots") /\ ~Locked(dog)
  /\ Proof(dog, wal, TRUE) /\ document.epoch = wal.pending.epoch
  /\ Operation(dog) \notin moved
  /\ Save(dog, "roots", [wal EXCEPT !.pending.dispatch = "REVOKED"])
  /\ UNCHANGED <<document, flight, drive, journal, task>>

(* revocation: read again each time it is used; the dog need not lead.         *)
Revoked(dog) ==
  /\ Wal(dog).pending.dispatch = "REVOKED" /\ Reads(dog, "roots")
  /\ Proof(dog, Wal(dog), FALSE) /\ Operation(dog) \notin moved

(* ProvenNoDispatchSettlement.settle, by the same leader or a later one.       *)
Unsent(dog, other) ==
  LET receipt == document.receipt IN
  /\ Revoked(other) /\ files[dog].checkpoint /\ document.plan
  /\ Unknown /\ receipt.owner = other /\ receipt.epoch = Wal(other).pending.epoch
  /\ receipt.op = Operation(other)
  /\ receipt.epoch = document.epoch => other = dog

SettleUnsent(dog, other) ==
  /\ ~Locked(dog) /\ Unsent(dog, other)
  /\ Commit(dog, [document EXCEPT !.receipt.outcome = "NOT_DISPATCHED"], task[dog])
  /\ UNCHANGED <<drive, files, frame>>

ResumeRevoked(dog) ==
  /\ ~Locked(dog) /\ Revoked(dog) /\ Proof(dog, Wal(dog), TRUE) /\ journal[dog] = NoPlan
  /\ document.receipt = [owner |-> dog, epoch |-> document.epoch, op |-> Operation(dog),
                         outcome |-> "NOT_DISPATCHED"]
  /\ Wal(dog).pending.epoch = document.epoch
  /\ Save(dog, "roots", [Wal(dog) EXCEPT !.pending = NoPending])
  /\ UNCHANGED <<document, flight, drive, journal, task>>

(* InheritedRootSettlement.settle: a later leader finds the object in the new  *)
(* root.                                                                       *)
Inherited_OnTrust(dog) ==
  /\ AtOldRoot /\ files[dog].checkpoint /\ document.plan
  /\ Unknown /\ document.receipt.epoch < document.epoch
Inherited(dog) ==
  /\ AtOldRoot /\ files[dog].checkpoint /\ document.plan
  /\ Unknown /\ document.receipt.epoch < document.epoch /\ document.receipt.op \in moved

SettleApplied(dog) ==
  /\ ~Locked(dog) /\ Inherited(dog)
  /\ Commit(dog, [document EXCEPT !.receipt.outcome = "COMPLETE"], task[dog])
  /\ UNCHANGED <<drive, files, frame>>

-----------------------------------------------------------------------------
(* ResumedDocsRootMoves.begin, with new stores: what was moved is a beginning   *)
(* of the order, and the last receipt ends it.                                 *)
Found == Cardinality(moved)

Resumable(dog) ==
  LET receipt == document.receipt IN
  /\ AtOldRoot /\ Leads(dog) /\ files[dog].checkpoint /\ document.plan /\ ~Unknown
  /\ journal[dog] = NoPlan /\ moved = 1 .. Found
  /\ \/ receipt.outcome = "COMPLETE" /\ receipt.op = Found
     \/ receipt.outcome = "NOT_DISPATCHED" /\ receipt.op = Found + 1
     \/ Found = 0 /\ receipt = NoReceipt
  /\ Reads(dog, "evidence")

Preserve(dog) ==
  /\ task[dog] = AtRest /\ Resumable(dog) /\ Wal(dog) = NoWal /\ ~files[dog].evidence
  /\ Save(dog, "evidence", TRUE)
  /\ UNCHANGED <<document, flight, drive, journal, task>>

ResumeMoves(dog) ==
  /\ task[dog] = AtRest /\ Resumable(dog) /\ Wal(dog) = NoWal /\ files[dog].evidence
  /\ Reads(dog, "roots")
  /\ Save(dog, "roots", [NoWal EXCEPT !.index = Found, !.resumed = TRUE])
  /\ UNCHANGED <<document, flight, drive, journal, task>>

(* recover_local, recover_evidence: the very frame that was staged, if it      *)
(* would still be saved.                                                       *)
RecoverMoves(dog) ==
  /\ \/ frame[dog].store = "roots" /\ Proof(dog, frame[dog].value, FALSE)
     \/ frame[dog].store = "evidence"
        /\ AtOldRoot /\ Leads(dog) /\ document.plan /\ ~Unknown
  /\ Promote(dog)
  /\ UNCHANGED <<document, flight, drive, journal, task, faults>>

-----------------------------------------------------------------------------
(* The commands of a dog's owner, one at a time; those of another process of   *)
(* his come in between.                                                        *)
MoveStep(dog) ==
  \/ task[dog] = AtRest /\ (EnsurePlan(dog) \/ Advance(dog))
  \/ Start(dog) \/ Arm(dog) \/ Send(dog) \/ MoveFails(dog)
  \/ Finish(dog) \/ Record(dog)
  \/ Reserve(dog) \/ InspectEffects(dog)
  \/ RevokePrepared(dog) \/ ResumeRevoked(dog) \/ SettleApplied(dog)
  \/ \E other \in Dogs : SettleUnsent(dog, other)
  \/ Preserve(dog) \/ ResumeMoves(dog) \/ RecoverMoves(dog)

Outside ==
  \/ LateWrite \/ LateMove
  \/ \E dog \in Dogs : Takeover(dog) \/ Die(dog)
=============================================================================
