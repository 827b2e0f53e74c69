-------------------------- MODULE WatchdogWork_proofs --------------------------
(***************************************************************************)
(* Proofs about the work under the role, for any dogs, actions, numbers of *)
(* operations, changes of the leader and faults: every call is in evidence *)
(* and made once, every receipt can be relied on, and nothing is under way *)
(* on any machine when maintenance is resolved.                            *)
(***************************************************************************)
EXTENDS WatchdogWork, TLAPS

Daemon(d) == task[d]["daemon"]
Owner(d) == task[d]["owner"]

(* The entry of an operation that has begun and is not settled.                  *)
Begun(d, epoch, op) == [owner |-> d, epoch |-> epoch, op |-> op, outcome |-> "UNKNOWN"]

(* The ledger still has what the receipt of this dog began.                      *)
Holds(d, action) == Entry(action) = Begun(d, receipt[d][action].epoch, receipt[d][action].op)

(* Before there is a ledger there is nothing to be entered.                      *)
Ledgered ==
  ~document.ledger.kept =>
    /\ document.phase = "ACTIVE"
    /\ document.ledger.entries = [action \in Actions |-> NoEntry]
    /\ \A d \in Dogs : receipt[d] = [action \in Actions |-> NoReceipt] /\ mutation[d] = NoPlan

(* The ledger runs ahead of the calls and the records, and behind what was       *)
(* offered.                                                                      *)
Counted ==
  /\ \A action \in Actions : Entry(action).op <= minted[action]
  /\ \A action \in Shared : document.records[action] <= Entry(action).op
  /\ \A action \in External, op \in Operations :
       /\ calls[action][op] <= 1
       /\ op > Entry(action).op => calls[action][op] = 0

(* What the ledger says is over.                                                 *)
Settled ==
  \A action \in Actions :
    /\ Entry(action).outcome \in {"NONE", "UNKNOWN", "COMPLETE", "NO_WORK"}
    /\ Entry(action).outcome \in {"COMPLETE", "NO_WORK"} =>
         /\ Entry(action).owner \in Dogs /\ Entry(action).op \in Operations
         /\ Reliable(action, Entry(action).op, Entry(action).outcome)
         /\ receipt[Entry(action).owner][action].op = Entry(action).op =>
              receipt[Entry(action).owner][action].outcome = Entry(action).outcome

(* Every call that is out.                                                       *)
Evident ==
  \A call \in open :
    /\ receipt[call.dog][call.action] = [op |-> call.op, epoch |-> call.epoch, outcome |-> "UNKNOWN"]
    /\ Holds(call.dog, call.action) /\ calls[call.action][call.op] > 0

(* What may replace the document: nothing an operation knows of, the entry of a  *)
(* new operation, its settlement, or the record it is for.                       *)
Mild(f) ==
  /\ f.ledger.entries = document.ledger.entries /\ f.ledger.kept
  /\ f.records = document.records /\ f.phase \in {document.phase, "MAINTENANCE"}
Begins(f) ==
  /\ document.phase = "ACTIVE" /\ f.phase = "ACTIVE" /\ f.records = document.records
  /\ f.ledger.kept
  /\ \E action \in Actions, op \in Operations :
       /\ Entry(action).op < op /\ op <= minted[action] /\ Entry(action).outcome # "UNKNOWN"
       /\ f.ledger.entries =
            [document.ledger.entries EXCEPT ![action] = Begun(document.owner, document.epoch, op)]
Finishes(f) ==
  /\ f.phase = document.phase /\ f.records = document.records /\ f.ledger.kept
  /\ \E action \in Actions :
       LET mine == receipt[document.owner][action] IN
       /\ mine.outcome \in {"COMPLETE", "NO_WORK"}
       /\ Entry(action) = Begun(document.owner, document.epoch, mine.op)
       /\ f.ledger.entries = [document.ledger.entries EXCEPT ![action].outcome = mine.outcome]
Records(f) ==
  LET plan == mutation[document.owner] IN
  /\ f.phase = document.phase /\ f.ledger = document.ledger
  /\ document.phase = "ACTIVE" /\ plan # NoPlan /\ plan.epoch = document.epoch
  /\ document.records[plan.action] = plan.before
  /\ f.records = [document.records EXCEPT ![plan.action] = plan.op]
Legal(f) ==
  /\ f \in Documents
  /\ f.owner = document.owner /\ f.epoch = document.epoch /\ f.asked = document.asked
  /\ Mild(f) \/ Begins(f) \/ Finishes(f) \/ Records(f)
Flight == \A f \in flight : Legal(f)

(* A receipt, once it is saved.                                                  *)
Receipted(d) ==
  \A action \in Actions :
    LET mine == receipt[d][action] IN
    /\ mine.outcome # "NONE" => mine.op \in Operations
    /\ action \in External /\ mine.outcome \in {"COMPLETE", "NO_WORK"} => calls[action][mine.op] > 0
    /\ action \in Shared /\ mine.outcome = "COMPLETE" => document.records[action] >= mine.op
    /\ mine.outcome = "NOT_DISPATCHED" =>
         action \in External /\ Holds(d, action) /\ calls[action][mine.op] = 0
    /\ mine.outcome = "SUPERSEDED" =>
         action \in Shared /\ Holds(d, action) /\ mine.epoch < document.epoch

(* A record that may have been written.                                          *)
InHand(d) ==
  LET plan == mutation[d] IN
  plan # NoPlan =>
    /\ receipt[d][plan.action] = [op |-> plan.op, epoch |-> plan.epoch, outcome |-> "UNKNOWN"]
    /\ Holds(d, plan.action) /\ plan.before < plan.op /\ plan.epoch <= document.epoch

(* A plan of the ledger: nothing an operation knows of, a beginning, or an end    *)
(* that its receipt has, with the daemon not about to replace that.               *)
Begetting(d, plan) ==
  /\ plan.phase = "ACTIVE"
  /\ \E action \in Actions, op \in Operations :
       /\ plan.before.entries[action].op < op /\ op <= minted[action]
       /\ plan.before.entries[action].outcome # "UNKNOWN"
       /\ plan.after.entries = [plan.before.entries EXCEPT ![action] = Begun(d, plan.epoch, op)]
Ending(d, plan) ==
  /\ \E action \in Actions :
       LET mine == receipt[d][action] IN
       /\ mine.outcome \in {"COMPLETE", "NO_WORK"}
       /\ plan.before.entries[action] = Begun(d, plan.epoch, mine.op)
       /\ plan.after.entries = [plan.before.entries EXCEPT ![action].outcome = mine.outcome]
  /\ Daemon(d).at \in {"rest", "ready", "settle", "finish"}
Planned(d) ==
  LET plan == journal[d] IN
  plan # NoPlan =>
    /\ plan.after.kept
    /\ plan.after.entries = plan.before.entries \/ Begetting(d, plan) \/ Ending(d, plan)

(* The maintenance of this machine.                                              *)
Maintained(d) ==
  /\ upkeep[d].phase = "ENTERING" =>
       /\ upkeep[d].plan # NoPlan /\ upkeep[d].plan.after.kept
       /\ upkeep[d].plan.after.entries = upkeep[d].plan.before.entries
  /\ Owner(d).at = "enter" => upkeep[d].phase = "ENTERING"
  /\ Owner(d).at = "approved" \/ upkeep[d].phase = "RESOLVED" =>
       /\ document.phase = "MAINTENANCE"
       /\ \A action \in Actions : Entry(action).outcome # "UNKNOWN"

(* One hand at most writes the ledger, and the journal has what it writes.       *)
OneHand(d) ==
  /\ \A hand \in Hands : task[d][hand].at \in JournalStages => journal[d] # NoPlan
  /\ Daemon(d).at \in JournalStages => Owner(d).at \notin JournalStages
  /\ Owner(d).at \notin {"record", "start", "finish"}
  /\ Daemon(d).at \notin {"enter", "certify"}

(* An operation belongs to the epoch in which it was offered.                    *)
Engaged(d) == Daemon(d).at \notin {"rest", "ready"}
Dated(d) ==
  Engaged(d) =>
    /\ Daemon(d).action \in Actions /\ Daemon(d).op \in Operations
    /\ Daemon(d).epoch >= 1 /\ Daemon(d).epoch <= document.epoch
    /\ document.owner = d <=> document.epoch = Daemon(d).epoch

(* The steps of an operation.                                                    *)
Mine(d) == [op |-> Daemon(d).op, epoch |-> Daemon(d).epoch, outcome |-> "UNKNOWN"]
Offered(d) ==
  LET work == Daemon(d) IN
  /\ work.at \in {"ensure", "intend"} =>
       receipt[d][work.action].op # work.op /\ receipt[d][work.action].outcome # "UNKNOWN"
  /\ work.at \in {"ensure", "intend", "begin"} /\ work.epoch = document.epoch =>
       minted[work.action] = work.op
  /\ work.at = "intend" => document.ledger.kept
Undertaken(d) ==
  LET work == Daemon(d) IN
  /\ work.at \in {"begin", "start", "proceed", "record", "cleared", "out"} =>
       receipt[d][work.action] = Mine(d)
  /\ work.at = "start" =>
       journal[d].after.entries[work.action] = Begun(d, work.epoch, work.op)
  /\ work.at \in {"proceed", "record", "cleared", "out"} => Holds(d, work.action)
  /\ work.at \in {"begin", "start", "proceed"} =>
       mutation[d] = NoPlan \/ mutation[d].action # work.action
Untouched(d) ==
  LET work == Daemon(d) IN
  /\ work.at \in {"start", "proceed", "cleared"} /\ work.action \in External
     /\ Holds(d, work.action) => calls[work.action][work.op] = 0
  /\ work.at \in {"start", "proceed"} /\ work.action \in Shared
     /\ Holds(d, work.action) => document.records[work.action] < work.op
Done(d) ==
  LET work == Daemon(d) IN
  /\ work.at \in {"cleared", "out"} => work.action \in External
  /\ work.at = "out" => calls[work.action][work.op] > 0
  /\ work.at = "record" =>
       /\ mutation[d] # NoPlan /\ mutation[d].action = work.action
       /\ mutation[d].op = work.op /\ mutation[d].epoch = work.epoch
  /\ work.at = "settle" =>
       /\ receipt[d][work.action].op = work.op
       /\ receipt[d][work.action].outcome = work.outcome
       /\ work.outcome \in {"COMPLETE", "NO_WORK", "SUPERSEDED"}
Working(d) == Offered(d) /\ Undertaken(d) /\ Untouched(d) /\ Done(d)

DogInv(d) ==
  /\ Receipted(d) /\ InHand(d) /\ Planned(d) /\ Maintained(d) /\ OneHand(d) /\ Dated(d)
  /\ Working(d)
Inv ==
  /\ TypeOK /\ Ledgered /\ Counted /\ Settled /\ Evident /\ Flight
  /\ \A d \in Dogs : DogInv(d)
-----------------------------------------------------------------------------
(* The constants.                                                                *)
LEMMA Given ==
  /\ Nobody \notin Dogs /\ External \cap Shared = {}
  /\ MaxOperations \in Nat /\ MaxEpoch \in Nat /\ MaxFaults \in Nat
  /\ Operations \subseteq 0 .. MaxOperations /\ \A op \in Operations : op # 0
BY WorkAssumption DEF Operations

(* What a step does to one hand of one dog.                                      *)
OneTask(dog, hand) ==
  /\ task' \in [Dogs -> [Hands -> Tasks]]
  /\ \A d \in Dogs \ {dog} : task'[d] = task[d]
  /\ \A h \in Hands \ {hand} : task'[dog][h] = task[dog][h]
SameWork(dog, hand) ==
  /\ task'[dog][hand].action = task[dog][hand].action /\ task'[dog][hand].op = task[dog][hand].op
  /\ task'[dog][hand].epoch = task[dog][hand].epoch
  /\ task'[dog][hand].outcome = task[dog][hand].outcome

(* One hand of one dog turns to other work.                                      *)
LEMMA Assigned ==
  ASSUME task \in [Dogs -> [Hands -> Tasks]], NEW dog \in Dogs, NEW hand \in Hands,
         NEW work \in Tasks, task' = [task EXCEPT ![dog][hand] = work]
  PROVE  OneTask(dog, hand) /\ task'[dog][hand] = work
BY DEF OneTask

(* A hand goes on to another stage with the work it has.                         *)
LEMMA Goes ==
  ASSUME task \in [Dogs -> [Hands -> Tasks]], NEW dog \in Dogs, NEW hand \in Hands,
         NEW stage, [task[dog][hand] EXCEPT !.at = stage] \in Tasks, Go(dog, hand, stage)
  PROVE  /\ OneTask(dog, hand) /\ SameWork(dog, hand)
         /\ task'[dog][hand].at = stage
<1> DEFINE work == [task[dog][hand] EXCEPT !.at = stage, !.sent = FALSE]
<1>1. task[dog][hand] \in Tasks
  OBVIOUS
<1>2. work \in Tasks /\ work.at = stage
      /\ work.action = task[dog][hand].action /\ work.op = task[dog][hand].op
      /\ work.epoch = task[dog][hand].epoch /\ work.outcome = task[dog][hand].outcome
  BY <1>1 DEF Tasks
<1>3. task' = [task EXCEPT ![dog][hand] = work]
  BY DEF Go
<1> HIDE DEF work
<1>. QED BY <1>2, <1>3, Assigned DEF SameWork

(* The stages there are.                                                         *)
LEMMA Stages ==
  ASSUME NEW work \in Tasks
  PROVE  \A stage \in {"rest", "ready", "intend", "begin", "proceed", "cleared", "out", "settle",
                       "reserved", "approved"} \cup WriteStages :
           [work EXCEPT !.at = stage] \in Tasks
BY DEF Tasks

(* A hand is at rest.                                                            *)
LEMMA Stops ==
  ASSUME task \in [Dogs -> [Hands -> Tasks]], NEW dog \in Dogs, NEW hand \in Hands,
         Stop(dog, hand)
  PROVE  OneTask(dog, hand) /\ task'[dog][hand] = AtRest
<1>1. AtRest \in Tasks
  BY Given DEF AtRest, Tasks, Outcome
<1>. QED BY <1>1, Assigned DEF Stop

(* A request is sent.                                                            *)
LEMMA Sends ==
  ASSUME task \in [Dogs -> [Hands -> Tasks]], NEW dog \in Dogs, NEW hand \in Hands,
         Sent(dog, hand)
  PROVE  /\ OneTask(dog, hand) /\ SameWork(dog, hand)
         /\ task'[dog][hand].at = task[dog][hand].at
<1> DEFINE work == [task[dog][hand] EXCEPT !.sent = TRUE]
<1>1. task[dog][hand] \in Tasks
  OBVIOUS
<1>2. work \in Tasks /\ work.at = task[dog][hand].at
      /\ work.action = task[dog][hand].action /\ work.op = task[dog][hand].op
      /\ work.epoch = task[dog][hand].epoch /\ work.outcome = task[dog][hand].outcome
  BY <1>1 DEF Tasks
<1>3. task' = [task EXCEPT ![dog][hand] = work]
  BY DEF Sent
<1> HIDE DEF work
<1>. QED BY <1>2, <1>3, Assigned DEF SameWork

(* A receipt is replaced.                                                        *)
LEMMA Receives ==
  ASSUME receipt \in [Dogs -> [Actions -> Receipts]], NEW dog \in Dogs, NEW action \in Actions,
         NEW op \in 0 .. MaxOperations, NEW epoch \in Nat, NEW outcome \in Outcome,
         Receive(dog, action, op, epoch, outcome)
  PROVE  /\ receipt' \in [Dogs -> [Actions -> Receipts]]
         /\ receipt'[dog][action] = [op |-> op, epoch |-> epoch, outcome |-> outcome]
         /\ \A d \in Dogs, a \in Actions :
              d # dog \/ a # action => receipt'[d][a] = receipt[d][a]
<1>1. [op |-> op, epoch |-> epoch, outcome |-> outcome] \in Receipts
  BY DEF Receipts
<1>. QED BY <1>1 DEF Receive
-----------------------------------------------------------------------------
(* How one entry of the ledger, and one record, may change.                      *)
Begun1(action) ==
  /\ Entry(action).outcome # "UNKNOWN" /\ document.phase = "ACTIVE" /\ document'.phase = "ACTIVE"
  /\ \E op \in Operations :
       /\ Entry(action).op < op /\ op <= minted[action]
       /\ document'.ledger.entries[action] = Begun(document.owner, document.epoch, op)
Opened(d, action) ==
  /\ Entry(action).owner = d /\ Entry(action).op = receipt[d][action].op
  /\ Entry(action).outcome = "UNKNOWN"
Ended1(action) ==
  \E d \in Dogs :
    /\ receipt[d][action].outcome \in {"COMPLETE", "NO_WORK"}
    /\ Opened(d, action)
    /\ document'.ledger.entries[action] =
         [Entry(action) EXCEPT !.outcome = receipt[d][action].outcome]
Recorded1(action) ==
  \E d \in Dogs :
    /\ mutation[d] # NoPlan /\ mutation[d].action = action
    /\ document.records[action] = mutation[d].before
    /\ document'.records[action] = mutation[d].op

(* How the document may change.                                                  *)
Advances ==
  /\ document' \in Documents
  /\ document.epoch <= document'.epoch
  /\ document.phase = "MAINTENANCE" => document'.phase = "MAINTENANCE"
  /\ document.ledger.kept => document'.ledger.kept
  /\ ~document'.ledger.kept =>
       document'.ledger = document.ledger /\ document'.phase = document.phase
  /\ \A action \in Actions :
       \/ document'.ledger.entries[action] = Entry(action)
       \/ Begun1(action) \/ Ended1(action)
  /\ \A action \in Shared :
       document'.records[action] = document.records[action] \/ Recorded1(action)

(* Whoever leads is replaced only by a dog that has no operation in hand.        *)
Succeeds ==
  \/ document'.epoch = document.epoch /\ document'.owner = document.owner
  \/ document'.epoch > document.epoch /\ ~Engaged(document'.owner)

(* What stays when the document is replaced.                                     *)
Elsewhere ==
  /\ flight' = {} /\ UNCHANGED <<receipt, mutation, reserved, journal, upkeep, open, calls, minted>>
SameStages ==
  /\ task' \in [Dogs -> [Hands -> Tasks]]
  /\ \A d \in Dogs, hand \in Hands : task'[d][hand].at = task[d][hand].at /\ SameWork(d, hand)

(* What an entry is, by what it was.                                             *)
LEMMA Entries ==
  ASSUME Inv, Advances, Elsewhere
  PROVE  /\ \A action \in Actions : Entry(action).op <= document'.ledger.entries[action].op
         /\ \A d \in Dogs, action \in Actions :
              /\ Holds(d, action) /\ receipt[d][action].outcome \notin {"COMPLETE", "NO_WORK"} =>
                   document'.ledger.entries[action] = Entry(action)
              /\ document'.ledger.entries[action] = Begun(d, receipt[d][action].epoch, receipt[d][action].op) =>
                   Holds(d, action) \/ Entry(action).op < receipt[d][action].op
         /\ \A action \in Actions :
              document'.ledger.entries[action].op <= minted[action]
<1>1. /\ document \in Documents /\ document' \in Documents
      /\ receipt \in [Dogs -> [Actions -> Receipts]] /\ minted \in [Actions -> 0 .. MaxOperations]
      /\ MaxOperations \in Nat /\ document.owner \in Dogs
  BY Given DEF Inv, TypeOK, Advances, Documents
<1>2. SUFFICES ASSUME NEW action \in Actions
               PROVE  /\ Entry(action).op <= document'.ledger.entries[action].op
                      /\ document'.ledger.entries[action].op <= minted[action]
                      /\ \A d \in Dogs :
                           /\ Holds(d, action) /\ receipt[d][action].outcome \notin {"COMPLETE", "NO_WORK"} =>
                                document'.ledger.entries[action] = Entry(action)
                           /\ document'.ledger.entries[action] =
                                  Begun(d, receipt[d][action].epoch, receipt[d][action].op) =>
                                Holds(d, action) \/ Entry(action).op < receipt[d][action].op
  OBVIOUS
<1>3. /\ Entry(action).op \in Nat /\ Entry(action).op <= minted[action]
      /\ minted[action] \in Nat /\ \A d \in Dogs : receipt[d][action].op \in Nat
      /\ document'.ledger.entries[action].op \in Nat
  BY <1>1 DEF Inv, Counted, Documents, Ledger, Entry, Receipts
<1>4. CASE document'.ledger.entries[action] = Entry(action)
  BY <1>3, <1>4 DEF Holds
<1>5. CASE Begun1(action)
  <2>1. PICK op \in Operations :
          /\ Entry(action).op < op /\ op <= minted[action]
          /\ document'.ledger.entries[action] = Begun(document.owner, document.epoch, op)
    BY <1>5 DEF Begun1
  <2>2. document'.ledger.entries[action].op = op /\ op \in Nat
    BY <2>1, Given DEF Begun, Operations
  <2>3. \A d \in Dogs : ~Holds(d, action)
    BY <1>5 DEF Begun1, Holds, Begun
  <2>4. \A d \in Dogs :
          document'.ledger.entries[action] =
              Begun(d, receipt[d][action].epoch, receipt[d][action].op) =>
            receipt[d][action].op = op
    BY <2>2 DEF Begun
  <2>. QED BY <1>3, <2>1, <2>2, <2>3, <2>4
<1>6. CASE Ended1(action)
  <2>1. PICK e \in Dogs :
          /\ receipt[e][action].outcome \in {"COMPLETE", "NO_WORK"} /\ Opened(e, action)
          /\ document'.ledger.entries[action] =
               [Entry(action) EXCEPT !.outcome = receipt[e][action].outcome]
    BY <1>6 DEF Ended1
  <2>2. Entry(action).owner = e
    BY <2>1 DEF Opened
  <2>3. /\ document'.ledger.entries[action].op = Entry(action).op
        /\ document'.ledger.entries[action].outcome = receipt[e][action].outcome
    BY <1>1, <2>1 DEF Documents, Ledger, Entry
  <2>4. \A d \in Dogs : Holds(d, action) => d = e
    BY <2>2 DEF Holds, Begun
  <2>5. \A d \in Dogs :
          document'.ledger.entries[action] #
            Begun(d, receipt[d][action].epoch, receipt[d][action].op)
    BY <2>1, <2>3 DEF Begun
  <2>. QED BY <1>3, <2>1, <2>3, <2>4, <2>5
<1>. QED BY <1>4, <1>5, <1>6 DEF Advances

(* Records grow.                                                                 *)
LEMMA RecordsGrow ==
  ASSUME Inv, Advances
  PROVE  \A action \in Shared :
           /\ document.records[action] \in Nat /\ document'.records[action] \in Nat
           /\ document.records[action] <= document'.records[action]
           /\ document'.records[action] <= Entry(action).op
<1>1. document \in Documents /\ document' \in Documents /\ MaxOperations \in Nat
  BY Given DEF Inv, TypeOK, Advances
<1>2. SUFFICES ASSUME NEW action \in Shared
               PROVE  /\ document.records[action] \in Nat /\ document'.records[action] \in Nat
                      /\ document.records[action] <= document'.records[action]
                      /\ document'.records[action] <= Entry(action).op
  OBVIOUS
<1>3. /\ document.records[action] \in Nat /\ document'.records[action] \in Nat
      /\ Entry(action).op \in Nat /\ document.records[action] <= Entry(action).op
  BY <1>1 DEF Inv, Counted, Documents, Ledger, Entry, Actions
<1>4. CASE document'.records[action] = document.records[action]
  BY <1>3, <1>4
<1>5. CASE Recorded1(action)
  <2>1. PICK d \in Dogs :
          /\ mutation[d] # NoPlan /\ mutation[d].action = action
          /\ document.records[action] = mutation[d].before
          /\ document'.records[action] = mutation[d].op
    BY <1>5 DEF Recorded1
  <2>2. /\ mutation[d].before < mutation[d].op /\ Holds(d, action)
        /\ receipt[d][action].op = mutation[d].op
    <3>1. InHand(d)
      BY DEF Inv, DogInv
    <3>2. receipt[d][action] = [op |-> mutation[d].op, epoch |-> mutation[d].epoch, outcome |-> "UNKNOWN"]
      BY <2>1, <3>1 DEF InHand
    <3>. QED BY <2>1, <3>1, <3>2 DEF InHand
  <2>3. Entry(action).op = mutation[d].op
    BY <2>2 DEF Holds, Begun
  <2>. QED BY <1>3, <2>1, <2>2, <2>3
<1>. QED BY <1>4, <1>5 DEF Advances

(* The parts of the invariant that are about all, when the document is replaced.  *)
LEMMA ReplacedLedgered ==
  ASSUME Inv, Advances, Elsewhere
  PROVE  Ledgered'
<1>1. SUFFICES ASSUME ~document'.ledger.kept
               PROVE  Ledgered'
  BY DEF Ledgered
<1>2. /\ ~document.ledger.kept /\ document'.ledger = document.ledger
      /\ document'.phase = document.phase
  BY <1>1 DEF Advances
<1>. QED BY <1>2 DEF Inv, Ledgered, Elsewhere

(* ... the counts stay in order,                                                *)
LEMMA ReplacedCounted ==
  ASSUME Inv, Advances, Elsewhere
  PROVE  Counted'
<1>1. /\ minted \in [Actions -> 0 .. MaxOperations] /\ MaxOperations \in Nat
      /\ document \in Documents /\ document' \in Documents
  BY Given DEF Inv, TypeOK, Advances
<1>2. \A action \in Actions :
        /\ Entry(action).op \in Nat /\ document'.ledger.entries[action].op \in Nat
        /\ Entry(action).op <= document'.ledger.entries[action].op
        /\ document'.ledger.entries[action].op <= minted[action]
  BY <1>1, Entries DEF Documents, Ledger, Entry
<1>3. \A action \in Shared : document'.records[action] <= document'.ledger.entries[action].op
  <2>1. SUFFICES ASSUME NEW action \in Shared
                 PROVE  document'.records[action] <= document'.ledger.entries[action].op
    OBVIOUS
  <2>2. /\ document'.records[action] \in Nat /\ document'.records[action] <= Entry(action).op
    BY RecordsGrow
  <2>3. action \in Actions
    BY DEF Actions
  <2>. QED BY <1>2, <2>2, <2>3
<1>4. \A action \in External, op \in Operations :
        op > document'.ledger.entries[action].op => calls[action][op] = 0
  <2>1. SUFFICES ASSUME NEW action \in External, NEW op \in Operations,
                        op > document'.ledger.entries[action].op
                 PROVE  calls[action][op] = 0
    OBVIOUS
  <2>2. op \in Nat /\ action \in Actions
    BY Given DEF Actions, Operations
  <2>3. op > Entry(action).op
    BY <1>2, <2>1, <2>2
  <2>. QED BY <2>3 DEF Inv, Counted
<1>. QED BY <1>2, <1>3, <1>4 DEF Inv, Counted, Elsewhere, Entry

(* ... every call stays in evidence,                                            *)
LEMMA ReplacedEvident ==
  ASSUME Inv, Advances, Elsewhere
  PROVE  Evident'
<1>1. SUFFICES ASSUME NEW call \in open
               PROVE  /\ receipt[call.dog][call.action] =
                           [op |-> call.op, epoch |-> call.epoch, outcome |-> "UNKNOWN"]
                      /\ document'.ledger.entries[call.action] = Entry(call.action)
                      /\ Holds(call.dog, call.action) /\ calls[call.action][call.op] > 0
  BY DEF Evident, Holds, Elsewhere, Entry
<1>2. /\ receipt[call.dog][call.action] =
           [op |-> call.op, epoch |-> call.epoch, outcome |-> "UNKNOWN"]
      /\ Holds(call.dog, call.action) /\ calls[call.action][call.op] > 0
  BY DEF Inv, Evident
<1>3. call.dog \in Dogs /\ call.action \in Actions
  BY DEF Inv, TypeOK, Actions
<1>. QED BY <1>2, <1>3, Entries

(* What a reliable entry rests on only grows.                                    *)
LEMMA StillReliable ==
  ASSUME Inv, Advances, Elsewhere, NEW action \in Actions, NEW op \in Operations,
         NEW outcome \in {"COMPLETE", "NO_WORK"}, Reliable(action, op, outcome)
  PROVE  Reliable(action, op, outcome)'
<1>1. CASE action \in Shared /\ outcome = "COMPLETE"
  <2>0. action \notin External
    BY <1>1, Given
  <2>1. document.records[action] >= op
    BY <1>1, <2>0 DEF Reliable
  <2>2. /\ document.records[action] \in Nat /\ document'.records[action] \in Nat /\ op \in Nat
        /\ document.records[action] <= document'.records[action]
    BY <1>1, RecordsGrow, Given DEF Operations
  <2>3. document'.records[action] >= op
    BY <2>1, <2>2
  <2>. QED BY <1>1, <2>0, <2>3 DEF Reliable
<1>2. CASE action \in External
  <2>1. action \notin Shared
    BY <1>2, Given
  <2>2. calls[action][op] > 0
    BY <1>2, <2>1 DEF Reliable
  <2>. QED BY <1>2, <2>1, <2>2 DEF Reliable, Elsewhere
<1>3. CASE action \in Shared /\ outcome = "NO_WORK"
  <2>1. action \notin External
    BY <1>3, Given
  <2>. QED BY <1>3, <2>1 DEF Reliable
<1>. QED BY <1>1, <1>2, <1>3 DEF Actions

(* An operation that its receipt has is reliable.                                *)
LEMMA ReceiptIsReliable ==
  ASSUME Inv, NEW d \in Dogs, NEW action \in Actions,
         receipt[d][action].outcome \in {"COMPLETE", "NO_WORK"}
  PROVE  /\ receipt[d][action].op \in Operations
         /\ Reliable(action, receipt[d][action].op, receipt[d][action].outcome)
<1>1. Receipted(d)
  BY DEF Inv, DogInv
<1>2. receipt[d][action].op \in Operations
  BY <1>1 DEF Receipted
<1>3. CASE action \in External
  <2>1. action \notin Shared
    BY <1>3, Given
  <2>2. calls[action][receipt[d][action].op] > 0
    BY <1>1, <1>3 DEF Receipted
  <2>. QED BY <1>2, <1>3, <2>1, <2>2 DEF Reliable
<1>4. CASE action \in Shared
  <2>1. action \notin External
    BY <1>4, Given
  <2>2. receipt[d][action].outcome = "COMPLETE" => document.records[action] >= receipt[d][action].op
    BY <1>1, <1>4 DEF Receipted
  <2>. QED BY <1>2, <1>4, <2>1, <2>2 DEF Reliable
<1>. QED BY <1>2, <1>3, <1>4 DEF Actions

(* What the ledger says of one action is over.                                   *)
SettledEntry(action, entry) ==
  /\ entry.outcome \in {"NONE", "UNKNOWN", "COMPLETE", "NO_WORK"}
  /\ entry.outcome \in {"COMPLETE", "NO_WORK"} =>
       /\ entry.owner \in Dogs /\ entry.op \in Operations
       /\ Reliable(action, entry.op, entry.outcome)
       /\ receipt[entry.owner][action].op = entry.op =>
            receipt[entry.owner][action].outcome = entry.outcome

(* ... what the ledger says is over stays so,                                   *)
LEMMA ReplacedSettled ==
  ASSUME Inv, Advances, Elsewhere
  PROVE  Settled'
<1> DEFINE next(action) == document'.ledger.entries[action]
<1>1. SUFFICES ASSUME NEW action \in Actions, NEW entry, entry = next(action)
               PROVE  SettledEntry(action, entry)'
  <2>1. \A action \in Actions : \A entry : entry = next(action) => SettledEntry(action, entry)'
    OBVIOUS
  <2>. QED BY <2>1 DEF Settled, SettledEntry, Entry
<1>2. entry = document'.ledger.entries[action]
  BY <1>1
<1>3. CASE entry = Entry(action)
  <2>1. SettledEntry(action, entry)
    BY <1>3 DEF Inv, Settled, SettledEntry
  <2>2. entry.outcome \in {"COMPLETE", "NO_WORK"} => Reliable(action, entry.op, entry.outcome)'
    BY <2>1, StillReliable DEF SettledEntry
  <2>. QED BY <2>1, <2>2 DEF SettledEntry, Elsewhere
<1>4. CASE Begun1(action)
  <2>1. entry.outcome = "UNKNOWN"
    BY <1>2, <1>4 DEF Begun1, Begun
  <2>. QED BY <2>1 DEF SettledEntry
<1>5. CASE Ended1(action)
  <2>1. PICK d \in Dogs :
          /\ receipt[d][action].outcome \in {"COMPLETE", "NO_WORK"} /\ Opened(d, action)
          /\ entry = [Entry(action) EXCEPT !.outcome = receipt[d][action].outcome]
    BY <1>2, <1>5 DEF Ended1
  <2>2. /\ entry.owner = d /\ entry.op = receipt[d][action].op
        /\ entry.outcome = receipt[d][action].outcome
    <3>1. document \in Documents
      BY DEF Inv, TypeOK
    <3>. QED BY <2>1, <3>1 DEF Opened, Documents, Ledger, Entry
  <2>3. /\ entry.op \in Operations /\ entry.outcome \in {"COMPLETE", "NO_WORK"}
        /\ Reliable(action, entry.op, entry.outcome)
    BY <2>1, <2>2, ReceiptIsReliable
  <2>4. Reliable(action, entry.op, entry.outcome)'
    BY <2>3, StillReliable
  <2>. QED BY <2>2, <2>3, <2>4 DEF SettledEntry, Elsewhere
<1>. QED BY <1>2, <1>3, <1>4, <1>5 DEF Advances

(* A dog, when the document is replaced.                                         *)
LEMMA ReplacedReceipted ==
  ASSUME Inv, Advances, Elsewhere, NEW d \in Dogs
  PROVE  Receipted(d)'
<1>1. SUFFICES ASSUME NEW action \in Actions
               PROVE  /\ receipt[d][action].outcome # "NONE" => receipt[d][action].op \in Operations
                      /\ action \in External /\ receipt[d][action].outcome \in {"COMPLETE", "NO_WORK"} =>
                           calls[action][receipt[d][action].op] > 0
                      /\ action \in Shared /\ receipt[d][action].outcome = "COMPLETE" =>
                           document'.records[action] >= receipt[d][action].op
                      /\ receipt[d][action].outcome = "NOT_DISPATCHED" =>
                           /\ action \in External /\ Holds(d, action)'
                           /\ calls[action][receipt[d][action].op] = 0
                      /\ receipt[d][action].outcome = "SUPERSEDED" =>
                           /\ action \in Shared /\ Holds(d, action)'
                           /\ receipt[d][action].epoch < document'.epoch
  BY DEF Receipted, Elsewhere
<1>2. Receipted(d)
  BY DEF Inv, DogInv
<1>3. /\ receipt \in [Dogs -> [Actions -> Receipts]] /\ document \in Documents
      /\ document' \in Documents /\ MaxOperations \in Nat
  BY Given DEF Inv, TypeOK, Advances
<1>4. /\ receipt[d][action].epoch \in Nat /\ receipt[d][action].op \in Nat
      /\ document.epoch \in Nat /\ document'.epoch \in Nat /\ document.epoch <= document'.epoch
  BY <1>3 DEF Receipts, Documents, Advances
<1>5. Holds(d, action) /\ receipt[d][action].outcome \notin {"COMPLETE", "NO_WORK"} => Holds(d, action)'
  BY Entries DEF Holds, Entry, Elsewhere
<1>6. action \in Shared /\ receipt[d][action].outcome = "COMPLETE" =>
        document'.records[action] >= receipt[d][action].op
  <2>1. SUFFICES ASSUME action \in Shared, receipt[d][action].outcome = "COMPLETE"
                 PROVE  document'.records[action] >= receipt[d][action].op
    OBVIOUS
  <2>2. document.records[action] >= receipt[d][action].op
    BY <1>2, <2>1 DEF Receipted
  <2>3. /\ document.records[action] \in Nat /\ document'.records[action] \in Nat
        /\ document.records[action] <= document'.records[action]
    BY <2>1, RecordsGrow
  <2>. QED BY <1>4, <2>2, <2>3
<1>7. receipt[d][action].outcome = "SUPERSEDED" => receipt[d][action].epoch < document'.epoch
  <2>1. receipt[d][action].outcome = "SUPERSEDED" => receipt[d][action].epoch < document.epoch
    BY <1>2 DEF Receipted
  <2>. QED BY <1>4, <2>1
<1>. QED BY <1>2, <1>5, <1>6, <1>7 DEF Receipted

(* A record in hand keeps its entry.                                            *)
LEMMA ReplacedInHand ==
  ASSUME Inv, Advances, Elsewhere, NEW d \in Dogs
  PROVE  InHand(d)'
<1>1. SUFFICES ASSUME mutation[d] # NoPlan
               PROVE  /\ receipt[d][mutation[d].action] =
                           [op |-> mutation[d].op, epoch |-> mutation[d].epoch, outcome |-> "UNKNOWN"]
                      /\ Holds(d, mutation[d].action)' /\ mutation[d].before < mutation[d].op
                      /\ mutation[d].epoch <= document'.epoch
  BY DEF InHand, Elsewhere
<1>2. InHand(d)
  BY DEF Inv, DogInv
<1>3. /\ mutation[d].action \in Actions /\ mutation[d].epoch \in Nat
      /\ document.epoch \in Nat /\ document'.epoch \in Nat /\ document.epoch <= document'.epoch
  BY <1>1 DEF Inv, TypeOK, Actions, Documents, Advances
<1>4. /\ receipt[d][mutation[d].action] =
           [op |-> mutation[d].op, epoch |-> mutation[d].epoch, outcome |-> "UNKNOWN"]
      /\ Holds(d, mutation[d].action) /\ mutation[d].before < mutation[d].op
      /\ mutation[d].epoch <= document.epoch
  BY <1>1, <1>2 DEF InHand
<1>5. Holds(d, mutation[d].action)'
  BY <1>3, <1>4, Entries DEF Holds, Entry, Elsewhere
<1>6. mutation[d].epoch <= document'.epoch
  BY <1>3, <1>4
<1>. QED BY <1>4, <1>5, <1>6

(* The plans of the ledger do not rest on the document.                         *)
LEMMA ReplacedPlanned ==
  ASSUME Inv, Elsewhere, SameStages, NEW d \in Dogs
  PROVE  Planned(d)'
<1>1. Daemon(d)'.at = Daemon(d).at
  BY DEF SameStages, Daemon, Hands
<1>. QED BY <1>1 DEF Inv, DogInv, Planned, Begetting, Ending, Elsewhere

(* Maintenance is not left, and nothing begins in it.                           *)
LEMMA ReplacedMaintained ==
  ASSUME Inv, Advances, Elsewhere, SameStages, NEW d \in Dogs
  PROVE  Maintained(d)'
<1>1. Owner(d)'.at = Owner(d).at
  BY DEF SameStages, Owner, Hands
<1>2. Maintained(d)
  BY DEF Inv, DogInv
<1>3. ASSUME Owner(d).at = "approved" \/ upkeep[d].phase = "RESOLVED"
      PROVE  /\ document'.phase = "MAINTENANCE"
             /\ \A action \in Actions : document'.ledger.entries[action].outcome # "UNKNOWN"
  <2>1. document.phase = "MAINTENANCE" /\ \A action \in Actions : Entry(action).outcome # "UNKNOWN"
    BY <1>2, <1>3 DEF Maintained
  <2>2. \A action \in Actions : ~Begun1(action)
    BY <2>1 DEF Begun1
  <2>3. \A action \in Actions : ~Ended1(action)
    <3>1. \A action \in Actions, e \in Dogs : ~Opened(e, action)
      BY <2>1 DEF Opened
    <3>. QED BY <3>1 DEF Ended1
  <2>. QED BY <2>1, <2>2, <2>3 DEF Advances
<1>. QED BY <1>1, <1>2, <1>3 DEF Maintained, Elsewhere, Entry

(* Nor does it matter to the hands.                                             *)
LEMMA ReplacedOneHand ==
  ASSUME Inv, Elsewhere, SameStages, NEW d \in Dogs
  PROVE  OneHand(d)'
BY DEF Inv, DogInv, OneHand, Elsewhere, SameStages, Daemon, Owner, Hands

(* A dog with an operation in hand leads on, or another does.                   *)
LEMMA ReplacedDated ==
  ASSUME Inv, Advances, Succeeds, Elsewhere, SameStages, NEW d \in Dogs
  PROVE  Dated(d)'
<1>1. /\ Daemon(d)'.at = Daemon(d).at /\ Daemon(d)'.action = Daemon(d).action
      /\ Daemon(d)'.op = Daemon(d).op /\ Daemon(d)'.epoch = Daemon(d).epoch
  BY DEF SameStages, SameWork, Daemon, Hands
<1>2. SUFFICES ASSUME Engaged(d)
               PROVE  /\ Daemon(d).action \in Actions /\ Daemon(d).op \in Operations
                      /\ Daemon(d).epoch >= 1 /\ Daemon(d).epoch <= document'.epoch
                      /\ document'.owner = d <=> document'.epoch = Daemon(d).epoch
  BY <1>1 DEF Dated, Engaged
<1>3. /\ Daemon(d).action \in Actions /\ Daemon(d).op \in Operations
      /\ Daemon(d).epoch >= 1 /\ Daemon(d).epoch <= document.epoch
      /\ document.owner = d <=> document.epoch = Daemon(d).epoch
  BY <1>2 DEF Inv, DogInv, Dated
<1>4. Daemon(d).epoch \in Nat /\ document.epoch \in Nat /\ document'.epoch \in Nat
  BY DEF Inv, TypeOK, Daemon, Hands, Tasks, Documents, Advances
<1>5. CASE document'.epoch = document.epoch /\ document'.owner = document.owner
  BY <1>3, <1>5
<1>6. CASE document'.epoch > document.epoch /\ ~Engaged(document'.owner)
  <2>1. document'.owner # d
    BY <1>2, <1>6
  <2>. QED BY <1>3, <1>4, <1>6, <2>1
<1>. QED BY <1>5, <1>6 DEF Succeeds

(* Whatever stage an operation has come to, it finds what it needs.             *)
LEMMA ReplacedWorking ==
  ASSUME Inv, Advances, Succeeds, Elsewhere, SameStages, NEW d \in Dogs
  PROVE  Working(d)'
<1> SUFFICES ASSUME NEW action, action = Daemon(d).action
             PROVE  Working(d)'
  OBVIOUS
<1>1. /\ Daemon(d)'.at = Daemon(d).at /\ Daemon(d)'.action = action
      /\ Daemon(d)'.op = Daemon(d).op /\ Daemon(d)'.epoch = Daemon(d).epoch
      /\ Daemon(d)'.outcome = Daemon(d).outcome
  BY DEF SameStages, SameWork, Daemon, Hands
<1>2. Dated(d) /\ Offered(d) /\ Undertaken(d) /\ Untouched(d) /\ Done(d)
  BY DEF Inv, DogInv, Working
<1>3. Engaged(d) => /\ Daemon(d).action \in Actions /\ Daemon(d).op \in Operations
                    /\ Daemon(d).epoch <= document.epoch
  BY <1>2 DEF Dated
<1>4. /\ Daemon(d).epoch \in Nat /\ document.epoch \in Nat /\ document'.epoch \in Nat
      /\ document.epoch <= document'.epoch
  BY DEF Inv, TypeOK, Daemon, Hands, Tasks, Documents, Advances
<1>5. Offered(d)'
  <2>1. Engaged(d) /\ Daemon(d).epoch = document'.epoch => Daemon(d).epoch = document.epoch
    BY <1>3, <1>4
  <2>. QED BY <1>1, <1>2, <2>1 DEF Offered, Elsewhere, Advances, Engaged
<1>6. Undertaken(d)'
  <2>1. ASSUME Daemon(d).at \in {"proceed", "record", "cleared", "out"}
        PROVE  Holds(d, action)'
    <3>1. Holds(d, action) /\ receipt[d][action].outcome = "UNKNOWN"
      BY <1>2, <2>1 DEF Undertaken, Mine
    <3>2. action \in Actions
      BY <1>3, <2>1 DEF Engaged
    <3>. QED BY <3>1, <3>2, Entries DEF Holds, Entry, Elsewhere
  <2>2. Mine(d)' = Mine(d)
    BY <1>1 DEF Mine
  <2>. QED BY <1>1, <1>2, <2>1, <2>2 DEF Undertaken, Elsewhere, Holds, Entry
<1>7. Untouched(d)'
  <2>1. SUFFICES ASSUME Daemon(d).at \in {"start", "proceed", "cleared"},
                        Holds(d, action)'
                 PROVE  /\ action \in External => calls[action][Daemon(d).op] = 0
                        /\ action \in Shared /\ Daemon(d).at \in {"start", "proceed"} =>
                             document'.records[action] < Daemon(d).op
    <3>1. SUFFICES ASSUME TRUE PROVE Untouched(d)'
      OBVIOUS
    <3>. QED BY <1>1, <2>1 DEF Untouched, Elsewhere, Holds, Entry
  <2> DEFINE op == Daemon(d).op
  <2>2. action \in Actions /\ op \in Operations /\ op \in Nat
    BY <1>3, <2>1, Given DEF Engaged, Operations
  <2>3. receipt[d][action].op = op
    BY <1>2, <2>1 DEF Undertaken, Mine
  <2>4. Holds(d, action) \/ Entry(action).op < op
    <3>1. document'.ledger.entries[action] = Begun(d, receipt[d][action].epoch, receipt[d][action].op)
      BY <2>1 DEF Holds, Entry, Elsewhere
    <3>. QED BY <2>2, <2>3, <3>1, Entries
  <2>5. ASSUME action \in External
        PROVE  calls[action][op] = 0
    <3>1. CASE Holds(d, action)
      BY <1>2, <2>1, <2>5, <3>1 DEF Untouched
    <3>2. CASE Entry(action).op < op
      <4>1. Entry(action).op \in Nat
        BY <2>2, Given DEF Inv, TypeOK, Documents, Ledger, Entry
      <4>2. op > Entry(action).op
        BY <2>2, <3>2, <4>1
      <4>. QED BY <2>2, <2>5, <4>2 DEF Inv, Counted
    <3>. QED BY <2>4, <3>1, <3>2
  <2>6. ASSUME action \in Shared, Daemon(d).at \in {"start", "proceed"}
        PROVE  document'.records[action] < op
    <3>1. CASE Entry(action).op < op
      <4>1. Entry(action).op \in Nat /\ document'.records[action] \in Nat
            /\ document'.records[action] <= Entry(action).op
        BY <2>2, <2>6, Given, RecordsGrow DEF Inv, TypeOK, Documents, Ledger, Entry
      <4>. QED BY <2>2, <3>1, <4>1
    <3>2. CASE Holds(d, action)
      <4>1. document.records[action] < op
        BY <1>2, <2>1, <2>6, <3>2 DEF Untouched
      <4>2. ~Recorded1(action)
        <5>1. SUFFICES ASSUME NEW e \in Dogs, mutation[e] # NoPlan, mutation[e].action = action
                       PROVE  FALSE
          BY DEF Recorded1
        <5>2. Holds(e, action)
          <6>1. InHand(e)
            BY DEF Inv, DogInv
          <6>. QED BY <5>1, <6>1 DEF InHand
        <5>3. e = d
          BY <3>2, <5>2 DEF Holds, Begun
        <5>. QED BY <1>2, <2>6, <5>1, <5>3 DEF Undertaken
      <4>. QED BY <2>6, <4>1, <4>2 DEF Advances
    <3>. QED BY <2>4, <3>1, <3>2
  <2>. QED BY <2>5, <2>6
<1>8. Done(d)'
  BY <1>1, <1>2 DEF Done, Elsewhere
<1>. QED BY <1>5, <1>6, <1>7, <1>8 DEF Working
-----------------------------------------------------------------------------
(* What is legal is an advance.                                                  *)
LEMMA LegalAdvances ==
  ASSUME Inv, NEW f, Legal(f), document' = f
  PROVE  Advances /\ Succeeds
<1>1. /\ document \in Documents /\ f \in Documents /\ f.owner = document.owner
      /\ f.epoch = document.epoch
  BY DEF Inv, TypeOK, Legal
<1>2. /\ document.epoch \in Nat /\ document.epoch <= document.epoch
      /\ document.owner \in Dogs /\ document.phase \in {"ACTIVE", "MAINTENANCE"}
  BY <1>1 DEF Documents
<1>3. Succeeds
  BY <1>1 DEF Succeeds
<1>4. SUFFICES /\ document.phase = "MAINTENANCE" => f.phase = "MAINTENANCE"
               /\ document.ledger.kept => f.ledger.kept
               /\ ~f.ledger.kept => f.ledger = document.ledger /\ f.phase = document.phase
               /\ \A action \in Actions :
                    f.ledger.entries[action] = Entry(action) \/ Begun1(action) \/ Ended1(action)
               /\ \A action \in Shared :
                    f.records[action] = document.records[action] \/ Recorded1(action)
  BY <1>1, <1>2, <1>3 DEF Advances
<1>5. CASE Mild(f)
  BY <1>5 DEF Mild, Entry
<1>6. CASE Begins(f)
  <2>1. PICK action \in Actions, op \in Operations :
          /\ Entry(action).op < op /\ op <= minted[action] /\ Entry(action).outcome # "UNKNOWN"
          /\ f.ledger.entries =
               [document.ledger.entries EXCEPT ![action] = Begun(document.owner, document.epoch, op)]
    BY <1>6 DEF Begins
  <2>2. document.ledger.entries \in [Actions -> [owner : Dogs \cup {Nobody}, epoch : Nat,
           op : 0 .. MaxOperations, outcome : Outcome]]
    BY <1>1 DEF Documents, Ledger
  <2>3. f.ledger.entries[action] = Begun(document.owner, document.epoch, op)
    BY <2>1, <2>2
  <2>4. Begun1(action)
    BY <1>6, <2>1, <2>3 DEF Begun1, Begins
  <2>5. \A a \in Actions \ {action} : f.ledger.entries[a] = Entry(a)
    BY <2>1, <2>2 DEF Entry
  <2>. QED BY <1>6, <2>4, <2>5 DEF Begins
<1>7. CASE Finishes(f)
  <2>1. PICK action \in Actions :
          /\ receipt[document.owner][action].outcome \in {"COMPLETE", "NO_WORK"}
          /\ Entry(action) = Begun(document.owner, document.epoch, receipt[document.owner][action].op)
          /\ f.ledger.entries = [document.ledger.entries EXCEPT
               ![action].outcome = receipt[document.owner][action].outcome]
    BY <1>7 DEF Finishes
  <2>2. document.ledger.entries \in [Actions -> [owner : Dogs \cup {Nobody}, epoch : Nat,
           op : 0 .. MaxOperations, outcome : Outcome]]
    BY <1>1 DEF Documents, Ledger
  <2>3. f.ledger.entries[action] =
          [Entry(action) EXCEPT !.outcome = receipt[document.owner][action].outcome]
    BY <2>1, <2>2 DEF Entry
  <2>4. Ended1(action)
    BY <1>2, <2>1, <2>3 DEF Ended1, Opened, Begun
  <2>5. \A a \in Actions \ {action} : f.ledger.entries[a] = Entry(a)
    BY <2>1, <2>2 DEF Entry
  <2>. QED BY <1>7, <2>4, <2>5 DEF Finishes
<1>8. CASE Records(f)
  <2> DEFINE plan == mutation[document.owner]
  <2>1. /\ plan # NoPlan /\ document.records[plan.action] = plan.before
        /\ f.records = [document.records EXCEPT ![plan.action] = plan.op]
        /\ f.phase = document.phase /\ f.ledger = document.ledger
    BY <1>8 DEF Records
  <2>2. document.records \in [Shared -> 0 .. MaxOperations] /\ plan.action \in Shared
    BY <1>1, <1>2, <2>1 DEF Documents, Inv, TypeOK
  <2>3. Recorded1(plan.action)
    BY <1>2, <2>1, <2>2 DEF Recorded1
  <2>4. \A a \in Shared \ {plan.action} : f.records[a] = document.records[a]
    BY <2>1, <2>2
  <2>. QED BY <2>1, <2>3, <2>4 DEF Entry
<1>. QED BY <1>5, <1>6, <1>7, <1>8 DEF Legal

(* ... and whatever advances keeps the invariant.                                 *)
LEMMA Replaced ==
  ASSUME Inv, Advances, Succeeds, Elsewhere, SameStages, faults' \in 0 .. MaxFaults
  PROVE  Inv'
<1>1. TypeOK'
  BY DEF Inv, TypeOK, Advances, Elsewhere, SameStages
<1>2. Ledgered' /\ Counted' /\ Settled' /\ Evident'
  BY ReplacedLedgered, ReplacedCounted, ReplacedSettled, ReplacedEvident
<1>3. Flight'
  BY DEF Flight, Elsewhere
<1>4. \A d \in Dogs : DogInv(d)'
  BY ReplacedReceipted, ReplacedInHand, ReplacedPlanned, ReplacedMaintained, ReplacedOneHand,
     ReplacedDated, ReplacedWorking DEF DogInv
<1>. QED BY <1>1, <1>2, <1>3, <1>4 DEF Inv

(* Only the stage of a request is told apart.                                     *)
LEMMA SameTask ==
  ASSUME Inv, UNCHANGED task
  PROVE  SameStages
BY DEF Inv, TypeOK, SameStages, SameWork

(* A late write lands.                                                          *)
LEMMA LandKeeps ==
  ASSUME Inv, Land
  PROVE  Inv'
<1>1. PICK f \in flight : Put(f)
  BY DEF Land
<1>2. Legal(f) /\ document' = f
  BY <1>1 DEF Inv, Flight, Put
<1>3. Advances /\ Succeeds
  BY <1>2, LegalAdvances
<1>4. Elsewhere /\ UNCHANGED task /\ faults' \in 0 .. MaxFaults
  BY <1>1 DEF Land, Put, Elsewhere, Inv, TypeOK, checkpoint, outside
<1>. QED BY <1>3, <1>4, SameTask, Replaced

(* The owner, the epoch or the request for the role changes.                      *)
LEMMA Reigns ==
  ASSUME Inv, document' \in Documents, document.epoch <= document'.epoch,
         document'.phase = document.phase, document'.ledger = document.ledger,
         document'.records = document.records
  PROVE  Advances
BY DEF Advances, Entry

(* A dog that has nothing in hand takes the role over.                          *)
LEMMA TakeOverKeeps ==
  ASSUME Inv, NEW dog \in Dogs, TakeOver(dog)
  PROVE  Inv'
<1>1. document \in Documents /\ document.epoch \in Nat
  BY DEF Inv, TypeOK, Documents
<1>2. document' = [document EXCEPT !.owner = dog, !.epoch = @ + 1, !.asked = FALSE]
  BY DEF TakeOver, Put
<1>3. /\ document'.owner = dog /\ document'.epoch = document.epoch + 1
      /\ document'.phase = document.phase /\ document'.ledger = document.ledger
      /\ document'.records = document.records
  BY <1>1, <1>2 DEF Documents
<1>4. document' \in Documents
  <2>1. document.epoch + 1 \in Nat \ {0}
    BY <1>1
  <2>. QED BY <1>1, <1>2, <2>1 DEF Documents
<1>5. document.epoch <= document'.epoch /\ document'.epoch > document.epoch
  BY <1>1, <1>3
<1>6. Advances
  BY <1>3, <1>4, <1>5, Reigns
<1>7. Succeeds
  BY <1>3, <1>5 DEF Succeeds, Engaged, TakeOver, Daemon
<1>8. Elsewhere /\ UNCHANGED task /\ faults' \in 0 .. MaxFaults
  BY DEF TakeOver, Put, Elsewhere, Inv, TypeOK, checkpoint, outside
<1>. QED BY <1>6, <1>7, <1>8, SameTask, Replaced

(* Faults are counted.                                                          *)
LEMMA FaultCounts ==
  ASSUME faults \in 0 .. MaxFaults, Fault \/ UNCHANGED faults
  PROVE  faults' \in 0 .. MaxFaults
BY Given DEF Fault

(* The role is asked for, or the request ends.                                  *)
LEMMA AskedKeeps ==
  ASSUME Inv, Asked
  PROVE  Inv'
<1>1. document \in Documents /\ document.epoch \in Nat /\ faults \in 0 .. MaxFaults
  BY DEF Inv, TypeOK, Documents
<1>2. PICK asked \in BOOLEAN : document' = [document EXCEPT !.asked = asked]
  BY DEF Asked, Put
<1>3. /\ document'.owner = document.owner /\ document'.epoch = document.epoch
      /\ document'.phase = document.phase /\ document'.ledger = document.ledger
      /\ document'.records = document.records
  BY <1>1, <1>2 DEF Documents
<1>4. document' \in Documents
  BY <1>1, <1>2 DEF Documents
<1>5. Advances
  BY <1>1, <1>3, <1>4, Reigns
<1>6. Succeeds
  BY <1>3 DEF Succeeds
<1>7. faults' \in 0 .. MaxFaults
  BY <1>1, FaultCounts DEF Asked
<1>8. Elsewhere /\ UNCHANGED task
  BY DEF Asked, Put, Elsewhere, checkpoint, outside
<1>. QED BY <1>5, <1>6, <1>7, <1>8, SameTask, Replaced
-----------------------------------------------------------------------------
(* What a step leaves alone that only the plans and the stages of one dog change. *)
Still == UNCHANGED <<document, receipt, mutation, open, calls, minted>>
OneDog(dog) ==
  \A d \in Dogs \ {dog} : task'[d] = task[d] /\ journal'[d] = journal[d] /\ upkeep'[d] = upkeep[d]
Permitted == \A f \in flight' : f \in flight \/ Legal(f)

JournalPlans ==
  [epoch : Nat \ {0}, phase : {"ACTIVE", "MAINTENANCE"}, before : Ledger, after : Ledger]
UpkeepPlans == [epoch : Nat \ {0}, before : Ledger, after : Ledger]
Upkeeps ==
  [phase : {"NONE", "ENTERING", "MAINTENANCE", "SUPERSEDED", "RESOLVED"}, adopted : BOOLEAN,
   plan : {NoPlan} \cup UpkeepPlans]
TypedOwn ==
  /\ task' \in [Dogs -> [Hands -> Tasks]] /\ reserved' \in [Dogs -> BOOLEAN]
  /\ journal' \in [Dogs -> {NoPlan} \cup JournalPlans] /\ upkeep' \in [Dogs -> Upkeeps]
  /\ faults' \in 0 .. MaxFaults

(* When only one dog moves, it is enough to look at that dog.                   *)
LEMMA StillKeeps ==
  ASSUME Inv, NEW dog \in Dogs, Still, OneDog(dog), TypedOwn, Permitted,
         Planned(dog)', Maintained(dog)', OneHand(dog)', Dated(dog)', Working(dog)'
  PROVE  Inv'
<1>1. TypeOK'
  <2>1. flight' \subseteq Documents
    BY DEF Inv, TypeOK, Permitted, Legal
  <2>. QED BY <2>1 DEF Inv, TypeOK, TypedOwn, Still, JournalPlans, Upkeeps, UpkeepPlans
<1>2. Ledgered' /\ Counted'
  BY DEF Inv, Ledgered, Counted, Still, Entry
<1>3. Settled'
  BY DEF Inv, Settled, Still, Entry, Reliable
<1>4. Evident'
  BY DEF Inv, Evident, Still, Entry, Holds
<1>5. Flight'
  <2>1. ASSUME NEW f, Legal(f)
        PROVE  Legal(f)'
    <3>1. Mild(f) => Mild(f)'
      BY DEF Mild, Still
    <3>2. Begins(f) => Begins(f)'
      BY DEF Begins, Entry, Still
    <3>3. Finishes(f) => Finishes(f)'
      BY DEF Finishes, Entry, Still
    <3>4. Records(f) => Records(f)'
      BY DEF Records, Still
    <3>. QED BY <2>1, <3>1, <3>2, <3>3, <3>4 DEF Legal, Still
  <2>. QED BY <2>1 DEF Inv, Flight, Permitted
<1>6. \A d \in Dogs : Receipted(d)' /\ InHand(d)'
  BY DEF Inv, DogInv, Receipted, InHand, Holds, Entry, Still
<1>7. ASSUME NEW d \in Dogs \ {dog}
      PROVE  DogInv(d)'
  <2>1. /\ task'[d] = task[d] /\ journal'[d] = journal[d] /\ upkeep'[d] = upkeep[d]
        /\ Daemon(d)' = Daemon(d) /\ Owner(d)' = Owner(d)
    BY DEF OneDog, Daemon, Owner
  <2>2. Planned(d)'
    <3>1. \A plan : Begetting(d, plan) => Begetting(d, plan)'
      BY DEF Begetting, Still
    <3>2. \A plan : Ending(d, plan) => Ending(d, plan)'
      BY <2>1 DEF Ending, Still
    <3>. QED BY <2>1, <3>1, <3>2 DEF Inv, DogInv, Planned
  <2>3. Maintained(d)' /\ OneHand(d)'
    BY <2>1 DEF Inv, DogInv, Maintained, OneHand, Still, Entry
  <2>4. Dated(d)'
    BY <2>1 DEF Inv, DogInv, Dated, Engaged, Still
  <2>5. Working(d)'
    BY <2>1 DEF Inv, DogInv, Working, Offered, Undertaken, Untouched, Done, Mine, Holds, Entry, Still
  <2>. QED BY <1>6, <2>2, <2>3, <2>4, <2>5 DEF DogInv
<1>8. DogInv(dog)'
  BY <1>6 DEF DogInv
<1>. QED BY <1>1, <1>2, <1>3, <1>4, <1>5, <1>7, <1>8 DEF Inv

(* A daemon that is not at work promises nothing.                                *)
LEMMA Resting ==
  ASSUME NEW dog \in Dogs, task'[dog]["daemon"].at \in {"rest", "ready"}
  PROVE  Dated(dog)' /\ Working(dog)'
BY DEF Dated, Engaged, Working, Offered, Undertaken, Untouched, Done, Daemon

(* The owner's command leaves the daemon where it is.                            *)
LEMMA Beside ==
  ASSUME Inv, NEW dog \in Dogs, Still, task'[dog]["daemon"] = task[dog]["daemon"],
         journal'[dog] = journal[dog] \/ Daemon(dog).at # "start"
  PROVE  Dated(dog)' /\ Working(dog)'
<1>1. Daemon(dog)' = Daemon(dog)
  BY DEF Daemon
<1>2. Dated(dog)'
  BY <1>1 DEF Inv, DogInv, Dated, Engaged, Still
<1>3. Offered(dog)' /\ Untouched(dog)' /\ Done(dog)'
  BY <1>1 DEF Inv, DogInv, Working, Offered, Untouched, Done, Mine, Holds, Entry, Still
<1>4. Undertaken(dog)'
  BY <1>1 DEF Inv, DogInv, Working, Undertaken, Mine, Holds, Entry, Still
<1>. QED BY <1>2, <1>3, <1>4 DEF Working

(* When its owner's command moves, it is enough to look at the plans.           *)
LEMMA OwnerKeeps ==
  ASSUME Inv, NEW dog \in Dogs, Still, OneTask(dog, "owner"), TypedOwn, Permitted,
         \A d \in Dogs \ {dog} : journal'[d] = journal[d] /\ upkeep'[d] = upkeep[d],
         journal'[dog] = journal[dog] \/ Daemon(dog).at # "start",
         Planned(dog)', Maintained(dog)', OneHand(dog)'
  PROVE  Inv'
<1>1. task'[dog]["daemon"] = task[dog]["daemon"]
  BY DEF OneTask, Hands
<1>2. OneDog(dog)
  BY DEF OneTask, OneDog
<1>. QED BY <1>1, <1>2, Beside, StillKeeps

(* A plan of the ledger is saved.                                                *)
LEMMA Plans ==
  ASSUME Inv, NEW dog \in Dogs, NEW epoch \in Nat \ {0}, NEW after \in Ledger,
         Plan(dog, epoch, after)
  PROVE  /\ journal[dog] = NoPlan /\ journal' \in [Dogs -> {NoPlan} \cup JournalPlans]
         /\ \A d \in Dogs \ {dog} : journal'[d] = journal[d]
         /\ journal'[dog] # NoPlan /\ journal'[dog].epoch = epoch
         /\ journal'[dog].phase = document.phase /\ journal'[dog].before = document.ledger
         /\ journal'[dog].after = after
<1> DEFINE plan == [epoch |-> epoch, phase |-> document.phase, before |-> document.ledger,
                    after |-> after]
<1>1. document.phase \in {"ACTIVE", "MAINTENANCE"} /\ document.ledger \in Ledger
  BY DEF Inv, TypeOK, Documents
<1>2. plan \in JournalPlans
  BY <1>1 DEF JournalPlans
<1>3. /\ plan.epoch = epoch /\ plan.phase = document.phase /\ plan.before = document.ledger
      /\ plan.after = after
  OBVIOUS
<1>4. plan # NoPlan
  <2>1. plan.epoch # 0 => plan # [epoch |-> plan.epoch] \/ plan.epoch # 0
    OBVIOUS
  <2>. QED BY <1>3 DEF NoPlan
<1>5. journal' = [journal EXCEPT ![dog] = plan] /\ journal[dog] = NoPlan
  BY DEF Plan
<1>6. journal \in [Dogs -> {NoPlan} \cup JournalPlans]
  BY DEF Inv, TypeOK, JournalPlans
<1> HIDE DEF plan
<1>. QED BY <1>2, <1>3, <1>4, <1>5, <1>6

(* The plan that was there is still right, and so is none.                       *)
LEMMA SamePlan ==
  ASSUME Inv, NEW dog \in Dogs, Still, journal'[dog] = journal[dog],
         Daemon(dog)'.at = Daemon(dog).at \/ Daemon(dog)'.at \in {"rest", "ready", "settle", "finish"}
  PROVE  Planned(dog)'
<1>1. \A plan : Begetting(dog, plan) => Begetting(dog, plan)'
  BY DEF Begetting, Still
<1>2. \A plan : Ending(dog, plan) => Ending(dog, plan)'
  BY DEF Ending, Still
<1>. QED BY <1>1, <1>2 DEF Inv, DogInv, Planned

(* A plan that no operation knows of needs nothing else.                        *)
LEMMA QuietPlan ==
  ASSUME NEW dog \in Dogs,
         \/ journal'[dog] = NoPlan
         \/ journal'[dog].after.kept /\ journal'[dog].after.entries = journal'[dog].before.entries
  PROVE  Planned(dog)'
BY DEF Planned

(* A maintenance WAL and a command that are where they were.                     *)
LEMMA SameUpkeep ==
  ASSUME Inv, NEW dog \in Dogs, Still, upkeep'[dog] = upkeep[dog],
         \/ Owner(dog)'.at = Owner(dog).at
         \/ Owner(dog)'.at \notin {"enter", "approved"}
  PROVE  Maintained(dog)'
BY DEF Inv, DogInv, Maintained, Still, Entry

(* The first ledger of a park has what there is: nothing.                        *)
LEMMA FirstPlan ==
  ASSUME Inv, NEW dog \in Dogs, ~document.ledger.kept, FirstLedger(dog)
  PROVE  /\ journal[dog] = NoPlan /\ journal' \in [Dogs -> {NoPlan} \cup JournalPlans]
         /\ \A d \in Dogs \ {dog} : journal'[d] = journal[d]
         /\ journal'[dog] # NoPlan /\ journal'[dog].after.kept
         /\ journal'[dog].after.entries = journal'[dog].before.entries
<1>1. /\ receipt[dog] = [action \in Actions |-> NoReceipt]
      /\ document.ledger.entries = [action \in Actions |-> NoEntry]
  BY DEF Inv, Ledgered
<1>2. /\ Initial(dog).kept /\ Initial(dog).entries = [action \in Actions |-> NoEntry]
      /\ Initial(dog).barrier = NoBarrier
      /\ Initial(dog) = [kept |-> TRUE, entries |-> [action \in Actions |-> NoEntry],
                         barrier |-> NoBarrier]
  <2> DEFINE copied == [action \in Actions |->
        IF receipt[dog][action] = NoReceipt THEN NoEntry
        ELSE [owner |-> dog, epoch |-> receipt[dog][action].epoch,
              op |-> receipt[dog][action].op, outcome |-> receipt[dog][action].outcome]]
  <2>1. \A action \in Actions : receipt[dog][action] = NoReceipt
    BY <1>1
  <2>2. copied = [action \in Actions |-> NoEntry]
    BY <2>1
  <2>3. Initial(dog) = [NoLedger EXCEPT !.kept = TRUE, !.entries = copied]
    BY DEF Initial
  <2> HIDE DEF copied
  <2>. QED BY <2>2, <2>3 DEF NoLedger
<1>3. NoEntry \in [owner : Dogs \cup {Nobody}, epoch : Nat, op : 0 .. MaxOperations,
                   outcome : Outcome]
  BY Given DEF NoEntry, Outcome
<1>4. Initial(dog) \in Ledger
  BY <1>2, <1>3, Given DEF Ledger, NoBarrier
<1>5. Plan(dog, 1, Initial(dog))
  BY DEF FirstLedger
<1>6. 1 \in Nat \ {0}
  OBVIOUS
<1>7. /\ journal[dog] = NoPlan /\ journal' \in [Dogs -> {NoPlan} \cup JournalPlans]
      /\ \A d \in Dogs \ {dog} : journal'[d] = journal[d]
      /\ journal'[dog] # NoPlan /\ journal'[dog].before = document.ledger
      /\ journal'[dog].after = Initial(dog)
  BY <1>4, <1>5, <1>6, Plans
<1>. QED BY <1>1, <1>2, <1>7

(* A command goes on, and nothing else changes.                                  *)
LEMMA OwnTypes ==
  ASSUME Inv
  PROVE  /\ task \in [Dogs -> [Hands -> Tasks]] /\ reserved \in [Dogs -> BOOLEAN]
         /\ journal \in [Dogs -> {NoPlan} \cup JournalPlans] /\ upkeep \in [Dogs -> Upkeeps]
         /\ faults \in 0 .. MaxFaults /\ "daemon" \in Hands /\ "owner" \in Hands
         /\ \A dog \in Dogs : Daemon(dog) \in Tasks /\ Owner(dog) \in Tasks
BY DEF Inv, TypeOK, JournalPlans, Upkeeps, UpkeepPlans, Hands, Daemon, Owner

(* The owner's hand goes to another stage.                                       *)
LEMMA OwnerGoes ==
  ASSUME Inv, NEW dog \in Dogs,
         NEW stage \in {"reserved", "approved", "ensure", "certify", "enter"}, Go(dog, "owner", stage)
  PROVE  /\ OneTask(dog, "owner") /\ Owner(dog)'.at = stage /\ Daemon(dog)' = Daemon(dog)
<1>1. Owner(dog) \in Tasks /\ task \in [Dogs -> [Hands -> Tasks]] /\ "owner" \in Hands
      /\ "daemon" \in Hands \ {"owner"}
  BY OwnTypes
<1>2. stage \in {"reserved", "approved"} \cup WriteStages
  BY DEF WriteStages, JournalStages
<1>3. [Owner(dog) EXCEPT !.at = stage] \in Tasks
  BY <1>1, <1>2, Stages
<1>4. OneTask(dog, "owner") /\ task'[dog]["owner"].at = stage
  BY <1>1, <1>3, Goes DEF Owner
<1>. QED BY <1>1, <1>4 DEF OneTask, Owner, Daemon

(* The owner's command comes to rest.                                           *)
LEMMA OwnerStops ==
  ASSUME Inv, NEW dog \in Dogs, Stop(dog, "owner")
  PROVE  /\ OneTask(dog, "owner") /\ Owner(dog)'.at = "rest" /\ Daemon(dog)' = Daemon(dog)
<1>1. task \in [Dogs -> [Hands -> Tasks]] /\ "owner" \in Hands /\ "daemon" \in Hands \ {"owner"}
  BY OwnTypes
<1>2. OneTask(dog, "owner") /\ task'[dog]["owner"] = AtRest
  BY <1>1, Stops
<1>. QED BY <1>1, <1>2 DEF OneTask, Owner, Daemon, AtRest

(* One hand at the journal.                                                      *)
LEMMA OwnerOneHand ==
  ASSUME Inv, NEW dog \in Dogs, Daemon(dog)' = Daemon(dog),
         \/ /\ journal'[dog] = journal[dog]
            /\ Owner(dog)'.at \in {"rest", "reserved", "approved", "enter"} \cup {Owner(dog).at}
         \/ /\ journal[dog] = NoPlan /\ journal'[dog] # NoPlan
            /\ Owner(dog)'.at \in {"ensure", "certify"}
  PROVE  OneHand(dog)'
<1>1. OneHand(dog)
  BY DEF Inv, DogInv
<1>2. /\ \A hand \in Hands : hand = "daemon" \/ hand = "owner"
      /\ "daemon" \in Hands /\ "owner" \in Hands
  BY DEF Hands
<1>3. CASE /\ journal'[dog] = journal[dog]
           /\ Owner(dog)'.at \in {"rest", "reserved", "approved", "enter"} \cup {Owner(dog).at}
  BY <1>1, <1>2, <1>3 DEF OneHand, JournalStages, Daemon, Owner
<1>4. CASE /\ journal[dog] = NoPlan /\ journal'[dog] # NoPlan
           /\ Owner(dog)'.at \in {"ensure", "certify"}
  BY <1>1, <1>2, <1>4 DEF OneHand, JournalStages, Daemon, Owner
<1>. QED BY <1>3, <1>4

(* begin, and the ledger it may have to begin.                                   *)
LEMMA BeginKeeps ==
  ASSUME Inv, NEW dog \in Dogs, Begin(dog)
  PROVE  Inv'
<1>1. Go(dog, "owner", "reserved") /\ reserved' = [reserved EXCEPT ![dog] = TRUE]
  BY DEF Begin
<1>2. /\ Still /\ Permitted /\ UNCHANGED <<journal, upkeep, faults>>
  BY DEF Begin, Still, Permitted, outside
<1>3. OneTask(dog, "owner") /\ Owner(dog)'.at = "reserved" /\ Daemon(dog)' = Daemon(dog)
  BY <1>1, OwnerGoes
<1>4. TypedOwn
  BY <1>1, <1>2, <1>3, OwnTypes DEF TypedOwn, OneTask
<1>5. Planned(dog)' /\ Maintained(dog)' /\ OneHand(dog)'
  BY <1>2, <1>3, SamePlan, SameUpkeep, OwnerOneHand
<1>. QED BY <1>2, <1>3, <1>4, <1>5, OwnerKeeps

(* The first ledger is planned for maintenance.                                 *)
LEMMA EnsureKeeps ==
  ASSUME Inv, NEW dog \in Dogs, EnsureForUpkeep(dog)
  PROVE  Inv'
<1>1. Go(dog, "owner", "ensure") /\ FirstLedger(dog) /\ ~document.ledger.kept
  BY DEF EnsureForUpkeep
<1>2. /\ Still /\ Permitted /\ UNCHANGED <<upkeep, reserved, faults>>
  BY DEF EnsureForUpkeep, Still, Permitted, outside, checkpoint
<1>3. OneTask(dog, "owner") /\ Owner(dog)'.at = "ensure" /\ Daemon(dog)' = Daemon(dog)
  BY <1>1, OwnerGoes
<1>4. /\ journal[dog] = NoPlan /\ journal' \in [Dogs -> {NoPlan} \cup JournalPlans]
      /\ \A d \in Dogs \ {dog} : journal'[d] = journal[d]
      /\ journal'[dog] # NoPlan /\ journal'[dog].after.kept
      /\ journal'[dog].after.entries = journal'[dog].before.entries
  BY <1>1, FirstPlan
<1>5. TypedOwn
  BY <1>2, <1>3, <1>4, OwnTypes DEF TypedOwn, OneTask
<1>6. Planned(dog)' /\ Maintained(dog)' /\ OneHand(dog)'
  BY <1>2, <1>3, <1>4, QuietPlan, SameUpkeep, OwnerOneHand
<1>7. Daemon(dog).at # "start"
  BY <1>4, OwnTypes DEF Inv, DogInv, OneHand, JournalStages, Daemon
<1>. QED BY <1>2, <1>3, <1>4, <1>5, <1>6, <1>7, OwnerKeeps

(* A resolved maintenance certified.                                             *)
LEMMA CertifyKeeps ==
  ASSUME Inv, NEW dog \in Dogs, Certify(dog)
  PROVE  Inv'
<1> DEFINE after == [document.ledger EXCEPT !.barrier.clear = TRUE]
<1>1. Go(dog, "owner", "certify") /\ Plan(dog, document.epoch, after)
      /\ document.phase = "MAINTENANCE"
  BY DEF Certify, Journal, Proposed
<1>2. /\ Still /\ Permitted /\ UNCHANGED <<upkeep, reserved, faults>>
  BY DEF Certify, Still, Permitted, outside, checkpoint
<1>3. OneTask(dog, "owner") /\ Owner(dog)'.at = "certify" /\ Daemon(dog)' = Daemon(dog)
  BY <1>1, OwnerGoes
<1>4. document.ledger.kept /\ document.ledger \in Ledger /\ document.epoch \in Nat \ {0}
  BY <1>1 DEF Inv, Ledgered, TypeOK, Documents
<1>5. after \in Ledger /\ after.kept /\ after.entries = document.ledger.entries
  BY <1>4 DEF Ledger
<1> HIDE DEF after
<1>6. /\ journal[dog] = NoPlan /\ journal' \in [Dogs -> {NoPlan} \cup JournalPlans]
      /\ \A d \in Dogs \ {dog} : journal'[d] = journal[d]
      /\ journal'[dog] # NoPlan /\ journal'[dog].before = document.ledger
      /\ journal'[dog].after = after
  BY <1>1, <1>4, <1>5, Plans
<1>7. TypedOwn
  BY <1>2, <1>3, <1>6, OwnTypes DEF TypedOwn, OneTask
<1>8. Planned(dog)' /\ Maintained(dog)' /\ OneHand(dog)'
  BY <1>2, <1>3, <1>5, <1>6, QuietPlan, SameUpkeep, OwnerOneHand
<1>9. Daemon(dog).at # "start"
  BY <1>6, OwnTypes DEF Inv, DogInv, OneHand, JournalStages, Daemon
<1>. QED BY <1>2, <1>3, <1>6, <1>7, <1>8, <1>9, OwnerKeeps

(* The maintenance WAL of one dog is replaced.                                   *)
LEMMA Upkept ==
  ASSUME Inv, NEW dog \in Dogs, NEW wal \in Upkeeps, upkeep' = [upkeep EXCEPT ![dog] = wal]
  PROVE  /\ upkeep' \in [Dogs -> Upkeeps] /\ upkeep'[dog] = wal
         /\ \A d \in Dogs \ {dog} : upkeep'[d] = upkeep[d]
BY OwnTypes

(* A maintenance is adopted, or the plan to enter it is saved.                    *)
LEMMA BaselineKeeps ==
  ASSUME Inv, NEW dog \in Dogs, Baseline(dog)
  PROVE  Inv'
<1>1. /\ Still /\ Permitted /\ UNCHANGED <<journal, reserved, faults>>
  BY DEF Baseline, Still, Permitted, outside, checkpoint
<1>2. CASE /\ upkeep' = [upkeep EXCEPT ![dog] =
                [phase |-> "MAINTENANCE", adopted |-> TRUE, plan |-> NoPlan]]
           /\ Stop(dog, "owner")
  <2> DEFINE wal == [phase |-> "MAINTENANCE", adopted |-> TRUE, plan |-> NoPlan]
  <2>1. wal \in Upkeeps /\ wal.phase = "MAINTENANCE"
    BY DEF Upkeeps
  <2>2. OneTask(dog, "owner") /\ Owner(dog)'.at = "rest" /\ Daemon(dog)' = Daemon(dog)
    BY <1>2, OwnerStops
  <2> HIDE DEF wal
  <2>3. /\ upkeep' \in [Dogs -> Upkeeps] /\ upkeep'[dog] = wal
        /\ \A d \in Dogs \ {dog} : upkeep'[d] = upkeep[d]
    BY <1>2, <2>1, Upkept DEF wal
  <2>4. TypedOwn
    BY <1>1, <2>2, <2>3, OwnTypes DEF TypedOwn, OneTask
  <2>5. Planned(dog)' /\ OneHand(dog)'
    BY <1>1, <2>2, SamePlan, OwnerOneHand
  <2>6. Maintained(dog)'
    BY <2>1, <2>2, <2>3 DEF Maintained
  <2>. QED BY <1>1, <2>2, <2>3, <2>4, <2>5, <2>6, OwnerKeeps
<1>3. CASE /\ document.ledger.kept
           /\ upkeep' = [upkeep EXCEPT ![dog] =
                [phase |-> "ENTERING", adopted |-> FALSE,
                 plan |-> [epoch |-> document.epoch, before |-> document.ledger,
                           after |-> [document.ledger EXCEPT !.barrier =
                             [source |-> dog, epoch |-> document.epoch,
                              clear |-> LocallyClear(dog)]]]]]
           /\ Go(dog, "owner", "enter")
  <2> DEFINE barrier == [source |-> dog, epoch |-> document.epoch, clear |-> LocallyClear(dog)]
  <2> DEFINE after == [document.ledger EXCEPT !.barrier = barrier]
  <2> DEFINE plan == [epoch |-> document.epoch, before |-> document.ledger, after |-> after]
  <2> DEFINE wal == [phase |-> "ENTERING", adopted |-> FALSE, plan |-> plan]
  <2>1. OneTask(dog, "owner") /\ Owner(dog)'.at = "enter" /\ Daemon(dog)' = Daemon(dog)
    BY <1>3, OwnerGoes
  <2>2. document.ledger \in Ledger /\ document.epoch \in Nat \ {0}
    BY DEF Inv, TypeOK, Documents
  <2>3. LocallyClear(dog) \in BOOLEAN
    BY DEF LocallyClear
  <2>4. barrier \in [source : Dogs \cup {Nobody}, epoch : Nat, clear : BOOLEAN]
    BY <2>2, <2>3
  <2>5. after \in Ledger /\ after.kept = document.ledger.kept
        /\ after.entries = document.ledger.entries
    <3> HIDE DEF barrier
    <3>. QED BY <2>2, <2>4 DEF Ledger
  <2>6. plan \in UpkeepPlans /\ plan # NoPlan /\ plan.after = after /\ plan.before = document.ledger
    <3> HIDE DEF after
    <3>1. plan \in UpkeepPlans /\ plan.epoch # 0 /\ plan.after = after /\ plan.before = document.ledger
      BY <2>2, <2>5 DEF UpkeepPlans
    <3>. QED BY <3>1 DEF NoPlan
  <2>7. wal \in Upkeeps /\ wal.phase = "ENTERING" /\ wal.plan = plan
    <3> HIDE DEF plan
    <3>. QED BY <2>6 DEF Upkeeps
  <2>8. upkeep' = [upkeep EXCEPT ![dog] = wal]
    BY <1>3
  <2> HIDE DEF wal, plan, after, barrier
  <2>9. /\ upkeep' \in [Dogs -> Upkeeps] /\ upkeep'[dog] = wal
        /\ \A d \in Dogs \ {dog} : upkeep'[d] = upkeep[d]
    BY <2>7, <2>8, Upkept
  <2>10. TypedOwn
    BY <1>1, <2>1, <2>9, OwnTypes DEF TypedOwn, OneTask
  <2>11. Planned(dog)' /\ OneHand(dog)'
    BY <1>1, <2>1, SamePlan, OwnerOneHand
  <2>12. Maintained(dog)'
    BY <1>3, <2>1, <2>5, <2>6, <2>7, <2>9 DEF Maintained
  <2>. QED BY <1>1, <2>1, <2>9, <2>10, <2>11, <2>12, OwnerKeeps
<1>. QED BY <1>2, <1>3 DEF Baseline

(* The plan that may be out is found, or will not come.                           *)
LEMMA InspectUpkeepKeeps ==
  ASSUME Inv, NEW dog \in Dogs, InspectUpkeep(dog)
  PROVE  Inv'
<1>1. /\ Still /\ Permitted /\ UNCHANGED <<journal, reserved, faults, task>>
  BY DEF InspectUpkeep, Still, Permitted, outside, checkpoint
<1>2. PICK phase \in {"MAINTENANCE", "SUPERSEDED"} :
        upkeep' = [upkeep EXCEPT ![dog].plan = NoPlan, ![dog].phase = phase]
  BY DEF InspectUpkeep
<1> DEFINE wal == [upkeep[dog] EXCEPT !.plan = NoPlan, !.phase = phase]
<1>3. upkeep[dog] \in Upkeeps
  BY OwnTypes
<1>4. wal \in Upkeeps /\ wal.phase = phase
  BY <1>3 DEF Upkeeps
<1>5. upkeep' = [upkeep EXCEPT ![dog] = wal]
  BY <1>2, OwnTypes
<1> HIDE DEF wal
<1>6. /\ upkeep' \in [Dogs -> Upkeeps] /\ upkeep'[dog] = wal
      /\ \A d \in Dogs \ {dog} : upkeep'[d] = upkeep[d]
  BY <1>4, <1>5, Upkept
<1>7. OneTask(dog, "owner") /\ Daemon(dog)' = Daemon(dog) /\ Owner(dog)' = Owner(dog)
  BY <1>1, OwnTypes DEF OneTask, Daemon, Owner
<1>8. TypedOwn
  BY <1>1, <1>6, OwnTypes DEF TypedOwn
<1>9. Planned(dog)' /\ OneHand(dog)'
  BY <1>1, <1>7, SamePlan, OwnerOneHand
<1>10. Maintained(dog)'
  <2>1. Owner(dog).at = "rest"
    BY DEF InspectUpkeep, Owner
  <2>. QED BY <1>4, <1>6, <1>7, <2>1 DEF Maintained
<1>. QED BY <1>1, <1>6, <1>7, <1>8, <1>9, <1>10, OwnerKeeps

(* What is found to be quiet is resolved.                                        *)
LEMMA ApproveKeeps ==
  ASSUME Inv, NEW dog \in Dogs, Approve(dog)
  PROVE  Inv'
<1>1. Go(dog, "owner", "approved") /\ Proposed(dog) /\ Unblocked(dog)
  BY DEF Approve
<1>2. /\ Still /\ Permitted /\ UNCHANGED <<journal, upkeep, reserved, faults>>
  BY DEF Approve, Still, Permitted, outside, checkpoint
<1>3. OneTask(dog, "owner") /\ Owner(dog)'.at = "approved" /\ Daemon(dog)' = Daemon(dog)
  BY <1>1, OwnerGoes
<1>4. TypedOwn
  BY <1>2, <1>3, OwnTypes DEF TypedOwn, OneTask
<1>5. Planned(dog)' /\ OneHand(dog)'
  BY <1>2, <1>3, SamePlan, OwnerOneHand
<1>6. Maintained(dog)'
  <2>1. /\ document.phase = "MAINTENANCE"
        /\ \A action \in Actions : Entry(action).outcome # "UNKNOWN"
    BY <1>1 DEF Proposed, Unblocked
  <2>. QED BY <1>2, <1>3, <2>1 DEF Inv, DogInv, Maintained, Still, Entry
<1>. QED BY <1>2, <1>3, <1>4, <1>5, <1>6, OwnerKeeps

(* Maintenance is resolved.                                                     *)
LEMMA ResolveKeeps ==
  ASSUME Inv, NEW dog \in Dogs, Resolve(dog)
  PROVE  Inv'
<1>1. Stop(dog, "owner") /\ upkeep' = [upkeep EXCEPT ![dog].phase = "RESOLVED"]
      /\ Owner(dog).at = "approved"
  BY DEF Resolve, Owner
<1>2. /\ Still /\ Permitted /\ UNCHANGED <<journal, reserved, faults>>
  BY DEF Resolve, Still, Permitted, outside, checkpoint
<1>3. OneTask(dog, "owner") /\ Owner(dog)'.at = "rest" /\ Daemon(dog)' = Daemon(dog)
  BY <1>1, OwnerStops
<1> DEFINE wal == [upkeep[dog] EXCEPT !.phase = "RESOLVED"]
<1>4. wal \in Upkeeps /\ wal.phase = "RESOLVED"
  BY OwnTypes DEF Upkeeps
<1>5. upkeep' = [upkeep EXCEPT ![dog] = wal]
  BY <1>1, OwnTypes
<1> HIDE DEF wal
<1>6. /\ upkeep' \in [Dogs -> Upkeeps] /\ upkeep'[dog] = wal
      /\ \A d \in Dogs \ {dog} : upkeep'[d] = upkeep[d]
  BY <1>4, <1>5, Upkept
<1>7. TypedOwn
  BY <1>2, <1>3, <1>6, OwnTypes DEF TypedOwn, OneTask
<1>8. Planned(dog)' /\ OneHand(dog)'
  BY <1>2, <1>3, SamePlan, OwnerOneHand
<1>9. Maintained(dog)'
  <2>1. /\ document.phase = "MAINTENANCE"
        /\ \A action \in Actions : Entry(action).outcome # "UNKNOWN"
    BY <1>1 DEF Inv, DogInv, Maintained
  <2>. QED BY <1>2, <1>3, <1>4, <1>6, <2>1 DEF Maintained, Still, Entry
<1>. QED BY <1>2, <1>3, <1>6, <1>7, <1>8, <1>9, OwnerKeeps
-----------------------------------------------------------------------------
(* What an evaluation says.                                                      *)
LEMMA EffectMeans ==
  ASSUME NEW dog \in Dogs, NEW plan
  PROVE  /\ EvaluateEffect(dog, plan) = "READY" =>
              /\ document.ledger = plan.before /\ document.phase = plan.phase
              /\ Owns(dog, plan.epoch)
         /\ EvaluateEffect(dog, plan) = "CONFIRMED" => document.ledger = plan.after
<1> DEFINE confirmed == document.ledger = plan.after
<1> DEFINE own == Owns(dog, plan.epoch)
<1> DEFINE ready == document.ledger = plan.before /\ document.phase = plan.phase
<1>1. EvaluateEffect(dog, plan) =
        CASE confirmed -> "CONFIRMED" [] ~confirmed /\ ~own -> "SUPERSEDED"
          [] ready /\ own -> "READY" [] OTHER -> "CONFLICT"
  BY Zenon DEF EvaluateEffect
<1> HIDE DEF confirmed, own, ready
<1>2. CASE confirmed /\ ready /\ own
  BY <1>2 DEF confirmed, ready, own
<1>3. CASE confirmed /\ ~(ready /\ own)
  <2>1. EvaluateEffect(dog, plan) = "CONFIRMED"
    BY <1>1, <1>3
  <2>. QED BY <2>1, <1>3 DEF confirmed
<1>4. CASE ~confirmed /\ ~own
  <2>1. EvaluateEffect(dog, plan) = "SUPERSEDED"
    BY <1>1, <1>4
  <2>. QED BY <2>1
<1>5. CASE ~confirmed /\ own /\ ready
  <2>1. EvaluateEffect(dog, plan) = "READY"
    BY <1>1, <1>5
  <2>. QED BY <2>1, <1>5 DEF ready, own
<1>6. CASE ~confirmed /\ own /\ ~ready
  <2>1. EvaluateEffect(dog, plan) = "CONFLICT"
    BY <1>1, <1>6
  <2>. QED BY <2>1
<1>. QED BY <1>2, <1>3, <1>4, <1>5, <1>6

(* What the evaluation of a record says.                                        *)
LEMMA RecordMeans ==
  ASSUME NEW dog \in Dogs, NEW plan, plan.before # plan.op
  PROVE  /\ EvaluateRecord(dog, plan) = "READY" =>
              /\ Owns(dog, plan.epoch) /\ document.phase # "MAINTENANCE"
              /\ document.records[plan.action] = plan.before
         /\ EvaluateRecord(dog, plan) = "CONFIRMED" =>
              Owns(dog, plan.epoch) /\ document.records[plan.action] = plan.op
         /\ EvaluateRecord(dog, plan) = "SUPERSEDED" => ~Owns(dog, plan.epoch)
<1> DEFINE own == Owns(dog, plan.epoch)
<1> DEFINE kept == document.phase = "MAINTENANCE"
<1> DEFINE written == document.records[plan.action] = plan.op
<1> DEFINE before == document.records[plan.action] = plan.before
<1> DEFINE inner == CASE written -> "CONFIRMED" [] before -> "READY" [] OTHER -> "CONFLICT"
<1>1. EvaluateRecord(dog, plan) =
        CASE ~own -> "SUPERSEDED" [] own /\ kept -> "CONFLICT" [] OTHER -> inner
  BY Zenon DEF EvaluateRecord
<1>2. /\ written /\ ~before => inner = "CONFIRMED"
      /\ before /\ ~written => inner = "READY"
      /\ ~before /\ ~written => inner = "CONFLICT"
  <2> HIDE DEF written, before
  <2>. QED OBVIOUS
<1>3. ~(written /\ before)
  OBVIOUS
<1> HIDE DEF own, kept, written, before, inner
<1>4. CASE ~own
  <2>1. EvaluateRecord(dog, plan) = "SUPERSEDED"
    BY <1>1, <1>4
  <2>. QED BY <2>1, <1>4 DEF own
<1>5. CASE own /\ kept
  <2>1. EvaluateRecord(dog, plan) = "CONFLICT"
    BY <1>1, <1>5
  <2>. QED BY <2>1
<1>6. CASE own /\ ~kept
  <2>1. EvaluateRecord(dog, plan) = inner
    BY <1>1, <1>6
  <2>. QED BY <2>1, <1>2, <1>3, <1>6 DEF own, kept, written, before
<1>. QED BY <1>4, <1>5, <1>6

(* What READY says of a plan to enter maintenance.                              *)
LEMMA EnterMeans ==
  ASSUME NEW dog \in Dogs, NEW plan, EvaluateEnter(dog, plan) = "READY"
  PROVE  /\ document.phase = "ACTIVE" /\ document.ledger = plan.before /\ Owns(dog, plan.epoch)
<1> DEFINE confirmed == document.phase = "MAINTENANCE" /\ document.ledger = plan.after
<1> DEFINE passed == document.ledger # plan.after /\ ~Owns(dog, plan.epoch)
<1> DEFINE ready == document.phase = "ACTIVE" /\ document.ledger = plan.before /\ Owns(dog, plan.epoch)
<1>1. EvaluateEnter(dog, plan) =
        CASE confirmed -> "CONFIRMED" [] passed -> "SUPERSEDED" [] ready -> "READY"
          [] OTHER -> "CONFLICT"
  BY Zenon DEF EvaluateEnter
<1>2. ~(confirmed /\ passed) /\ ~(confirmed /\ ready) /\ ~(passed /\ ready)
  OBVIOUS
<1>3. ready
  <2> HIDE DEF confirmed, passed, ready
  <2>1. SUFFICES ASSUME ~ready PROVE FALSE
    OBVIOUS
  <2>2. confirmed => EvaluateEnter(dog, plan) = "CONFIRMED"
    BY <1>1, <1>2, <2>1
  <2>3. passed => EvaluateEnter(dog, plan) = "SUPERSEDED"
    BY <1>1, <1>2, <2>1
  <2>4. ~confirmed /\ ~passed => EvaluateEnter(dog, plan) = "CONFLICT"
    BY <1>1, <2>1
  <2>. QED BY <2>2, <2>3, <2>4
<1>. QED BY <1>3

(* What is evaluated and written at each stage.                                  *)
LEMMA StageMeans ==
  ASSUME NEW dog \in Dogs, NEW stage
  PROVE  /\ stage \in JournalStages =>
              /\ Evaluate(dog, stage) = EvaluateEffect(dog, journal[dog])
              /\ Desired(dog, stage) = [document EXCEPT !.ledger = journal[dog].after]
         /\ stage = "record" =>
              /\ Evaluate(dog, stage) = EvaluateRecord(dog, mutation[dog])
              /\ Desired(dog, stage) =
                   [document EXCEPT !.records[mutation[dog].action] = mutation[dog].op]
         /\ stage = "enter" =>
              /\ Evaluate(dog, stage) = EvaluateEnter(dog, upkeep[dog].plan)
              /\ Desired(dog, stage) =
                   [document EXCEPT !.phase = "MAINTENANCE", !.ledger = upkeep[dog].plan.after]
<1>1. stage \in JournalStages => stage # "record" /\ stage # "enter"
  BY DEF JournalStages
<1>2. "record" \notin JournalStages /\ "enter" \notin JournalStages
  BY DEF JournalStages
<1>3. CASE stage \in JournalStages
  BY <1>1, <1>3 DEF Evaluate, Desired
<1>4. CASE stage = "record"
  BY <1>2, <1>4 DEF Evaluate, Desired
<1>5. CASE stage = "enter"
  BY <1>2, <1>5 DEF Evaluate, Desired
<1>. QED BY <1>3, <1>4, <1>5

(* The document that is there, and what comes of it.                              *)
LEMMA Redrafts ==
  ASSUME Inv, NEW ledger \in Ledger, NEW phase \in {"ACTIVE", "MAINTENANCE"}
  PROVE  /\ [document EXCEPT !.ledger = ledger] \in Documents
         /\ [document EXCEPT !.phase = phase, !.ledger = ledger] \in Documents
BY DEF Inv, TypeOK, Documents

(* A plan of the journal that is ready may be written.                           *)
LEMMA JournalIsLegal ==
  ASSUME Inv, NEW dog \in Dogs, journal[dog] # NoPlan,
         EvaluateEffect(dog, journal[dog]) = "READY"
  PROVE  Legal([document EXCEPT !.ledger = journal[dog].after])
<1> DEFINE plan == journal[dog]
<1> DEFINE f == [document EXCEPT !.ledger = plan.after]
<1>1. /\ document.ledger = plan.before /\ document.phase = plan.phase /\ Owns(dog, plan.epoch)
  BY EffectMeans
<1>2. document.owner = dog /\ document.epoch = plan.epoch
  BY <1>1 DEF Owns
<1>3. plan \in JournalPlans /\ document \in Documents
  BY OwnTypes DEF Inv, TypeOK
<1>4. plan.after \in Ledger
  BY <1>3 DEF JournalPlans
<1>5. f \in Documents
  BY <1>4, Redrafts
<1>6. /\ f.owner = document.owner /\ f.epoch = document.epoch /\ f.asked = document.asked
      /\ f.phase = document.phase /\ f.records = document.records /\ f.ledger = plan.after
  BY <1>3 DEF Documents
<1>7. /\ plan.after.kept
      /\ plan.after.entries = plan.before.entries \/ Begetting(dog, plan) \/ Ending(dog, plan)
  BY DEF Inv, DogInv, Planned
<1> HIDE DEF f
<1>8. plan.after.entries = plan.before.entries => Mild(f)
  BY <1>1, <1>6, <1>7 DEF Mild
<1>9. Begetting(dog, plan) => Begins(f)
  BY <1>1, <1>2, <1>6, <1>7 DEF Begetting, Begins, Entry
<1>10. ASSUME Ending(dog, plan)
       PROVE  Finishes(f)
  <2>1. PICK action \in Actions :
          /\ receipt[dog][action].outcome \in {"COMPLETE", "NO_WORK"}
          /\ plan.before.entries[action] = Begun(dog, plan.epoch, receipt[dog][action].op)
          /\ plan.after.entries =
               [plan.before.entries EXCEPT ![action].outcome = receipt[dog][action].outcome]
    BY <1>10 DEF Ending
  <2>2. Entry(action) = Begun(document.owner, document.epoch, receipt[document.owner][action].op)
    BY <1>1, <1>2, <2>1 DEF Entry
  <2>3. f.ledger.entries = [document.ledger.entries EXCEPT
          ![action].outcome = receipt[document.owner][action].outcome]
    BY <1>1, <1>2, <1>6, <2>1
  <2>4. receipt[document.owner][action].outcome \in {"COMPLETE", "NO_WORK"}
    BY <1>2, <2>1
  <2>5. f.phase = document.phase /\ f.records = document.records /\ f.ledger.kept
    BY <1>6, <1>7
  <2>. QED BY <2>2, <2>3, <2>4, <2>5 DEF Finishes
<1>11. Legal(f)
  BY <1>5, <1>6, <1>7, <1>8, <1>9, <1>10 DEF Legal
<1>. QED BY <1>11 DEF f

(* A record that is ready may be written.                                        *)
LEMMA RecordIsLegal ==
  ASSUME Inv, NEW dog \in Dogs, mutation[dog] # NoPlan,
         EvaluateRecord(dog, mutation[dog]) = "READY"
  PROVE  Legal([document EXCEPT !.records[mutation[dog].action] = mutation[dog].op])
<1> DEFINE plan == mutation[dog]
<1> DEFINE records == [document.records EXCEPT ![plan.action] = plan.op]
<1> DEFINE f == [document EXCEPT !.records = records]
<1>1. document \in Documents /\ plan.action \in Shared /\ plan.op \in Operations
      /\ plan.before \in Nat /\ plan.op \in Nat
  BY Given DEF Inv, TypeOK, Operations
<1>2. plan.before < plan.op
  BY DEF Inv, DogInv, InHand
<1>3. plan.before # plan.op
  BY <1>1, <1>2
<1>4. /\ Owns(dog, plan.epoch) /\ document.phase # "MAINTENANCE"
      /\ document.records[plan.action] = plan.before
  BY <1>3, RecordMeans
<1>5. document.owner = dog /\ document.epoch = plan.epoch /\ document.phase = "ACTIVE"
  BY <1>1, <1>4 DEF Owns, Documents
<1>6. records \in [Shared -> 0 .. MaxOperations]
  BY <1>1, Given DEF Documents
<1>7. f \in Documents /\ f.records = records /\ f.ledger = document.ledger
      /\ f.owner = document.owner /\ f.epoch = document.epoch /\ f.asked = document.asked
      /\ f.phase = document.phase
  <2> HIDE DEF records
  <2>. QED BY <1>1, <1>6 DEF Documents
<1> HIDE DEF f
<1>8. Records(f)
  BY <1>4, <1>5, <1>7 DEF Records
<1>9. Legal(f)
  BY <1>7, <1>8 DEF Legal
<1>. QED BY <1>9 DEF f

(* A maintenance that is ready may be entered.                                   *)
LEMMA EnterIsLegal ==
  ASSUME Inv, NEW dog \in Dogs, upkeep[dog].phase = "ENTERING",
         EvaluateEnter(dog, upkeep[dog].plan) = "READY"
  PROVE  Legal([document EXCEPT !.phase = "MAINTENANCE", !.ledger = upkeep[dog].plan.after])
<1> DEFINE plan == upkeep[dog].plan
<1> DEFINE f == [document EXCEPT !.phase = "MAINTENANCE", !.ledger = plan.after]
<1>1. plan # NoPlan /\ plan.after.kept /\ plan.after.entries = plan.before.entries
  BY DEF Inv, DogInv, Maintained
<1>2. document.ledger = plan.before
  BY EnterMeans
<1>3. plan \in UpkeepPlans /\ document \in Documents
  BY <1>1, OwnTypes DEF Upkeeps, Inv, TypeOK
<1>4. plan.after \in Ledger
  BY <1>3 DEF UpkeepPlans
<1>5. f \in Documents
  BY <1>4, Redrafts
<1>6. /\ f.owner = document.owner /\ f.epoch = document.epoch /\ f.asked = document.asked
      /\ f.phase = "MAINTENANCE" /\ f.records = document.records /\ f.ledger = plan.after
  BY <1>3 DEF Documents
<1> HIDE DEF f
<1>7. Mild(f)
  BY <1>1, <1>2, <1>6 DEF Mild
<1>8. Legal(f)
  BY <1>5, <1>6, <1>7 DEF Legal
<1>. QED BY <1>8 DEF f

(* ... so that nothing else is ever sent.                                        *)
LEMMA ReadyIsLegal ==
  ASSUME Inv, NEW dog \in Dogs, NEW hand \in Hands, task[dog][hand].at \in WriteStages,
         Evaluate(dog, task[dog][hand].at) = "READY"
  PROVE  Legal(Desired(dog, task[dog][hand].at))
<1> DEFINE stage == task[dog][hand].at
<1>1. OneHand(dog) /\ Working(dog) /\ Maintained(dog)
  BY DEF Inv, DogInv
<1>2. hand = "daemon" \/ hand = "owner"
  BY DEF Hands
<1>3. CASE stage \in JournalStages
  <2>1. journal[dog] # NoPlan
    BY <1>1, <1>3 DEF OneHand
  <2>2. EvaluateEffect(dog, journal[dog]) = "READY"
    BY <1>3, StageMeans
  <2>3. Desired(dog, stage) = [document EXCEPT !.ledger = journal[dog].after]
    BY <1>3, StageMeans
  <2> HIDE DEF stage
  <2>5. Legal(Desired(dog, stage))
    BY <2>1, <2>2, <2>3, JournalIsLegal
  <2>. QED BY <2>5 DEF stage
<1>4. CASE stage = "record"
  <2>1. hand = "daemon"
    BY <1>1, <1>2, <1>4 DEF OneHand, Owner
  <2>2. mutation[dog] # NoPlan
    BY <1>1, <1>4, <2>1 DEF Working, Done, Daemon
  <2>3. EvaluateRecord(dog, mutation[dog]) = "READY"
    BY <1>4, StageMeans
  <2>4. Desired(dog, stage) =
          [document EXCEPT !.records[mutation[dog].action] = mutation[dog].op]
    BY <1>4, StageMeans
  <2> HIDE DEF stage
  <2>5. Legal(Desired(dog, stage))
    BY <2>2, <2>3, <2>4, RecordIsLegal
  <2>. QED BY <2>5 DEF stage
<1>5. CASE stage = "enter"
  <2>1. hand = "owner"
    BY <1>1, <1>2, <1>5 DEF OneHand, Daemon
  <2>2. upkeep[dog].phase = "ENTERING"
    BY <1>1, <1>5, <2>1 DEF Maintained, Owner
  <2>3. EvaluateEnter(dog, upkeep[dog].plan) = "READY"
    BY <1>5, StageMeans
  <2>4. Desired(dog, stage) =
          [document EXCEPT !.phase = "MAINTENANCE", !.ledger = upkeep[dog].plan.after]
    BY <1>5, StageMeans
  <2> HIDE DEF stage
  <2>5. Legal(Desired(dog, stage))
    BY <2>2, <2>3, <2>4, EnterIsLegal
  <2>. QED BY <2>5 DEF stage
<1>. QED BY <1>3, <1>4, <1>5 DEF WriteStages

-----------------------------------------------------------------------------
(* A request is sent: applied at once, or perhaps later.                         *)
LEMMA SentStages ==
  ASSUME Inv, NEW dog \in Dogs, NEW hand \in Hands, Sent(dog, hand)
  PROVE  SameStages /\ UNCHANGED <<receipt, mutation, reserved, journal, upkeep>>
<1>1. task \in [Dogs -> [Hands -> Tasks]]
  BY OwnTypes
<1>2. OneTask(dog, hand) /\ SameWork(dog, hand) /\ task'[dog][hand].at = task[dog][hand].at
  BY <1>1, Sends
<1>. QED BY <1>2 DEF OneTask, SameStages, SameWork, Sent, checkpoint

(* A write is applied at once,                                                  *)
LEMMA AppliedKeeps ==
  ASSUME Inv, NEW dog \in Dogs, NEW hand \in Hands, task[dog][hand].at \in WriteStages,
         Evaluate(dog, task[dog][hand].at) = "READY", Put(Desired(dog, task[dog][hand].at)),
         Sent(dog, hand), UNCHANGED <<outside, minted, faults>>
  PROVE  Inv'
<1>1. Legal(document')
  BY ReadyIsLegal DEF Put
<1>2. Advances /\ Succeeds
  BY <1>1, LegalAdvances
<1>3. SameStages /\ Elsewhere
  BY SentStages DEF Elsewhere, Put, outside
<1>4. faults' \in 0 .. MaxFaults
  BY OwnTypes
<1>. QED BY <1>2, <1>3, <1>4, Replaced

(* ... or may be applied later, if nothing else is before.                      *)
LEMMA DelayedKeeps ==
  ASSUME Inv, NEW dog \in Dogs, NEW hand \in Hands, task[dog][hand].at \in WriteStages,
         Evaluate(dog, task[dog][hand].at) = "READY", Fault, Sent(dog, hand),
         flight' = flight \cup {Desired(dog, task[dog][hand].at)},
         UNCHANGED <<document, outside, minted>>
  PROVE  Inv'
<1>1. Permitted
  BY ReadyIsLegal DEF Permitted
<1>2. SameStages /\ UNCHANGED <<receipt, mutation, reserved, journal, upkeep>>
  BY SentStages
<1>3. Still
  BY <1>2 DEF Still, outside
<1>4. TypedOwn
  BY <1>2, OwnTypes, FaultCounts DEF TypedOwn, SameStages
<1>5. /\ Daemon(dog)'.at = Daemon(dog).at /\ Daemon(dog)'.action = Daemon(dog).action
      /\ Daemon(dog)'.op = Daemon(dog).op /\ Daemon(dog)'.epoch = Daemon(dog).epoch
      /\ Daemon(dog)'.outcome = Daemon(dog).outcome /\ Owner(dog)'.at = Owner(dog).at
  BY <1>2 DEF SameStages, SameWork, Daemon, Owner, Hands
<1>6. Planned(dog)' /\ Maintained(dog)'
  BY <1>2, <1>3, <1>5, SamePlan, SameUpkeep
<1>7. OneHand(dog)'
  BY <1>2 DEF Inv, DogInv, OneHand, SameStages, Daemon, Owner, Hands
<1>8. Dated(dog)'
  BY <1>3, <1>5 DEF Inv, DogInv, Dated, Engaged, Still
<1>9. Working(dog)'
  <2>1. Offered(dog)' /\ Done(dog)'
    BY <1>3, <1>5 DEF Inv, DogInv, Working, Offered, Done, Still
  <2>2. Undertaken(dog)' /\ Untouched(dog)'
    BY <1>2, <1>3, <1>5 DEF Inv, DogInv, Working, Undertaken, Untouched, Mine, Holds, Entry, Still
  <2>. QED BY <2>1, <2>2 DEF Working
<1>10. OneDog(dog)
  <2>1. OneTask(dog, hand)
    BY OwnTypes, Sends
  <2>. QED BY <1>2, <2>1 DEF OneDog, OneTask
<1>. QED BY <1>1, <1>3, <1>4, <1>6, <1>7, <1>8, <1>9, <1>10, StillKeeps
-----------------------------------------------------------------------------
(* One receipt of one dog is replaced by its daemon; a call may be over, and a   *)
(* record no longer in hand.                                                     *)
OneReceipt(dog, action, mine) ==
  /\ receipt' \in [Dogs -> [Actions -> Receipts]] /\ receipt'[dog][action] = mine
  /\ \A d \in Dogs, a \in Actions : d # dog \/ a # action => receipt'[d][a] = receipt[d][a]
MutationTypes ==
  {NoPlan} \cup [epoch : Nat \ {0}, action : Shared, op : Operations, before : 0 .. MaxOperations]
OneMutation(dog) ==
  /\ mutation' \in [Dogs -> MutationTypes]
  /\ \A d \in Dogs \ {dog} : mutation'[d] = mutation[d]

(* A receipt that may stand.                                                     *)
Sound(dog, action, mine) ==
  /\ mine.outcome # "NONE" => mine.op \in Operations
  /\ action \in External /\ mine.outcome \in {"COMPLETE", "NO_WORK"} => calls[action][mine.op] > 0
  /\ action \in Shared /\ mine.outcome = "COMPLETE" => document.records[action] >= mine.op
  /\ mine.outcome = "NOT_DISPATCHED" =>
       /\ action \in External /\ Entry(action) = Begun(dog, mine.epoch, mine.op)
       /\ calls[action][mine.op] = 0
  /\ mine.outcome = "SUPERSEDED" =>
       /\ action \in Shared /\ Entry(action) = Begun(dog, mine.epoch, mine.op)
       /\ mine.epoch < document.epoch

(* It contradicts nothing that rests on the one before.                          *)
Agrees(dog, action, mine) ==
  /\ document.ledger.kept
  /\ Entry(action).outcome # "UNKNOWN" \/ receipt[dog][action].outcome = "UNKNOWN"
  /\ Entry(action).owner = dog /\ Entry(action).outcome \in {"COMPLETE", "NO_WORK"}
     /\ mine.op = Entry(action).op => mine.outcome = Entry(action).outcome
  /\ open' \subseteq open
  /\ \A call \in open' : call.dog = dog /\ call.action = action => mine = receipt[dog][action]
  /\ \/ /\ mutation'[dog] = mutation[dog]
        /\ mutation[dog] = NoPlan \/ mutation[dog].action # action \/ mine = receipt[dog][action]
     \/ mutation'[dog] = NoPlan /\ \A f \in flight : document.owner = dog => ~Records(f)

Unmoved == UNCHANGED <<document, flight, reserved, journal, upkeep, calls, minted>>

(* What all dogs share stays as it should.                                       *)
LEMMA ReceivedAll ==
  ASSUME Inv, NEW dog \in Dogs, NEW action \in Actions, NEW mine, Unmoved,
         OneReceipt(dog, action, mine), OneMutation(dog), Agrees(dog, action, mine)
  PROVE  Ledgered' /\ Counted' /\ Settled' /\ Evident' /\ Flight'
<1>1. Ledgered' /\ Counted'
  <2>1. document'.ledger.kept
    BY DEF Agrees, Unmoved
  <2>2. Counted'
    BY DEF Inv, Counted, Unmoved, Entry
  <2>. QED BY <2>1, <2>2 DEF Ledgered
<1>2. Settled'
  <2>1. ASSUME NEW a \in Actions, Entry(a).outcome \in {"COMPLETE", "NO_WORK"},
               receipt'[Entry(a).owner][a].op = Entry(a).op
        PROVE  receipt'[Entry(a).owner][a].outcome = Entry(a).outcome
    <3>1. Entry(a).owner \in Dogs
      BY <2>1 DEF Inv, Settled
    <3>2. CASE Entry(a).owner # dog \/ a # action
      <4>1. receipt'[Entry(a).owner][a] = receipt[Entry(a).owner][a]
        BY <3>1, <3>2 DEF OneReceipt
      <4>. QED BY <2>1, <4>1 DEF Inv, Settled
    <3>3. CASE Entry(a).owner = dog /\ a = action
      BY <2>1, <3>3 DEF OneReceipt, Agrees
    <3>. QED BY <3>2, <3>3
  <2>2. \A a \in Actions :
          /\ Entry(a).outcome \in {"NONE", "UNKNOWN", "COMPLETE", "NO_WORK"}
          /\ Entry(a).outcome \in {"COMPLETE", "NO_WORK"} =>
               /\ Entry(a).owner \in Dogs /\ Entry(a).op \in Operations
               /\ Reliable(a, Entry(a).op, Entry(a).outcome)
    BY DEF Inv, Settled
  <2>3. \A a, op, outcome : Reliable(a, op, outcome)' = Reliable(a, op, outcome)
    BY DEF Reliable, Unmoved
  <2>4. \A a \in Actions : Entry(a)' = Entry(a)
    BY DEF Entry, Unmoved
  <2>5. \A a \in Actions : Entry(a).outcome \in {"COMPLETE", "NO_WORK"} =>
          Reliable(a, Entry(a).op, Entry(a).outcome)'
    BY <2>2 DEF Reliable, Unmoved, Entry
  <2>. QED BY <2>1, <2>2, <2>4, <2>5 DEF Settled
<1>3. Evident'
  <2>1. SUFFICES ASSUME NEW call \in open'
                 PROVE  receipt'[call.dog][call.action] = receipt[call.dog][call.action]
    <3>1. ASSUME NEW call \in open', receipt'[call.dog][call.action] = receipt[call.dog][call.action]
          PROVE  /\ receipt'[call.dog][call.action] =
                      [op |-> call.op, epoch |-> call.epoch, outcome |-> "UNKNOWN"]
                 /\ document'.ledger.entries[call.action] =
                      Begun(call.dog, receipt'[call.dog][call.action].epoch,
                            receipt'[call.dog][call.action].op)
                 /\ calls'[call.action][call.op] > 0
      BY <3>1 DEF Inv, Evident, Holds, Entry, Agrees, Unmoved
    <3>. QED BY <2>1, <3>1 DEF Evident, Holds, Entry
  <2>2. call.dog \in Dogs /\ call.action \in Actions
    BY DEF Inv, TypeOK, Agrees, Actions
  <2>. QED BY <2>2 DEF OneReceipt, Agrees
<1>4. Flight'
  <2>1. SUFFICES ASSUME NEW f \in flight
                 PROVE  Legal(f)'
    BY DEF Flight, Unmoved
  <2>2. Legal(f)
    BY DEF Inv, Flight
  <2>3. document.owner \in Dogs
    BY DEF Inv, TypeOK, Documents
  <2>4. Mild(f) => Mild(f)'
    BY DEF Mild, Unmoved
  <2>5. Begins(f) => Begins(f)'
    BY DEF Begins, Entry, Unmoved
  <2>6. ASSUME Finishes(f)
        PROVE  Finishes(f)'
    <3>1. PICK a \in Actions :
            /\ receipt[document.owner][a].outcome \in {"COMPLETE", "NO_WORK"}
            /\ Entry(a) = Begun(document.owner, document.epoch, receipt[document.owner][a].op)
            /\ f.ledger.entries = [document.ledger.entries EXCEPT
                 ![a].outcome = receipt[document.owner][a].outcome]
      BY <2>6 DEF Finishes
    <3>2. Entry(a).outcome = "UNKNOWN"
      BY <3>1 DEF Begun
    <3>3. receipt'[document.owner][a] = receipt[document.owner][a]
      BY <2>3, <3>1, <3>2 DEF OneReceipt, Agrees
    <3>4. document' = document
      BY DEF Unmoved
    <3>5. /\ receipt'[document'.owner][a].outcome \in {"COMPLETE", "NO_WORK"}
          /\ Entry(a)' = Begun(document'.owner, document'.epoch, receipt'[document'.owner][a].op)
      BY <3>1, <3>3, <3>4 DEF Entry, Begun
    <3>6. f.ledger.entries = [document'.ledger.entries EXCEPT
            ![a].outcome = receipt'[document'.owner][a].outcome]
      BY <3>1, <3>3, <3>4
    <3>7. f.phase = document'.phase /\ f.records = document'.records /\ f.ledger.kept
      BY <2>6, <3>4 DEF Finishes
    <3>. QED BY <3>5, <3>6, <3>7 DEF Finishes, Begun
  <2>7. Records(f) => Records(f)'
    <3>1. Records(f) => mutation'[document.owner] = mutation[document.owner]
      BY <2>3 DEF OneMutation, Agrees
    <3>. QED BY <3>1 DEF Records, Unmoved
  <2>. QED BY <2>2, <2>4, <2>5, <2>6, <2>7 DEF Legal, Unmoved
<1>. QED BY <1>1, <1>2, <1>3, <1>4

(* So does each other dog.                                                       *)
LEMMA ReceivedOthers ==
  ASSUME Inv, NEW dog \in Dogs, NEW action \in Actions, NEW mine, Unmoved,
         OneReceipt(dog, action, mine), OneMutation(dog), OneTask(dog, "daemon"),
         NEW d \in Dogs \ {dog}
  PROVE  DogInv(d)'
<1>1. /\ task'[d] = task[d] /\ journal'[d] = journal[d] /\ upkeep'[d] = upkeep[d]
      /\ Daemon(d)' = Daemon(d) /\ Owner(d)' = Owner(d) /\ mutation'[d] = mutation[d]
  BY DEF OneTask, Daemon, Owner, Unmoved, OneMutation
<1>2. \A a \in Actions : receipt'[d][a] = receipt[d][a]
  BY DEF OneReceipt
<1>3. \A a \in Actions : Holds(d, a)' <=> Holds(d, a)
  BY <1>2 DEF Holds, Entry, Unmoved
<1>4. Receipted(d)'
  BY <1>2, <1>3 DEF Inv, DogInv, Receipted, Unmoved
<1>5. InHand(d)'
  <2>1. mutation[d] # NoPlan => mutation[d].action \in Actions
    BY DEF Inv, TypeOK, Actions
  <2>2. SUFFICES ASSUME mutation[d] # NoPlan, NEW a, a = mutation[d].action
                 PROVE  /\ receipt'[d][a] =
                             [op |-> mutation[d].op, epoch |-> mutation[d].epoch, outcome |-> "UNKNOWN"]
                        /\ Holds(d, a)' /\ mutation[d].before < mutation[d].op
                        /\ mutation[d].epoch <= document.epoch
    BY <1>1 DEF InHand, Unmoved, Holds, Entry
  <2>. QED BY <1>2, <1>3, <2>1, <2>2 DEF Inv, DogInv, InHand
<1>6. Planned(d)'
  <2>1. \A plan : Begetting(d, plan) => Begetting(d, plan)'
    BY DEF Begetting, Unmoved
  <2>2. ASSUME NEW plan, Ending(d, plan)
        PROVE  Ending(d, plan)'
    BY <1>1, <1>2, <2>2 DEF Ending
  <2>. QED BY <1>1, <2>1, <2>2 DEF Inv, DogInv, Planned
<1>7. Maintained(d)' /\ OneHand(d)'
  BY <1>1 DEF Inv, DogInv, Maintained, OneHand, Unmoved, Entry
<1>8. Dated(d)'
  BY <1>1 DEF Inv, DogInv, Dated, Engaged, Unmoved
<1>9. Working(d)'
  <2>1. Engaged(d) => Daemon(d).action \in Actions
    BY DEF Inv, DogInv, Dated
  <2>2. Offered(d)' /\ Done(d)'
    BY <1>1, <1>2, <2>1 DEF Inv, DogInv, Working, Offered, Done, Unmoved, Engaged
  <2>3. Undertaken(d)'
    BY <1>1, <1>2, <2>1 DEF Inv, DogInv, Working, Undertaken, Mine, Unmoved, Engaged, Holds, Entry
  <2>4. Untouched(d)'
    BY <1>1, <1>2, <2>1 DEF Inv, DogInv, Working, Untouched, Unmoved, Engaged, Holds, Entry
  <2>. QED BY <2>2, <2>3, <2>4 DEF Working
<1>. QED BY <1>4, <1>5, <1>6, <1>7, <1>8, <1>9 DEF DogInv

(* It is enough to look at what this dog has in hand.                            *)
LEMMA Received ==
  ASSUME Inv, NEW dog \in Dogs, NEW action \in Actions, NEW mine, Unmoved,
         OneReceipt(dog, action, mine), OneMutation(dog), OneTask(dog, "daemon"),
         Sound(dog, action, mine), Agrees(dog, action, mine), faults' \in 0 .. MaxFaults,
         Planned(dog)', OneHand(dog)', Dated(dog)', Working(dog)'
  PROVE  Inv'
<1>1. TypeOK'
  BY DEF Inv, TypeOK, Unmoved, OneReceipt, OneMutation, OneTask, Agrees, MutationTypes
<1>2. Ledgered' /\ Counted' /\ Settled' /\ Evident' /\ Flight'
  BY ReceivedAll
<1>3. \A d \in Dogs \ {dog} : DogInv(d)'
  BY ReceivedOthers
<1>4. Receipted(dog)'
  <2>1. ASSUME NEW a \in Actions
        PROVE  Sound(dog, a, receipt'[dog][a])
    <3>1. CASE a = action
      BY <3>1 DEF OneReceipt
    <3>2. CASE a # action
      <4>1. receipt'[dog][a] = receipt[dog][a]
        BY <3>2 DEF OneReceipt
      <4>. QED BY <4>1 DEF Inv, DogInv, Receipted, Sound, Holds
    <3>. QED BY <3>1, <3>2
  <2>. QED BY <2>1 DEF Sound, Receipted, Holds, Entry, Unmoved
<1>5. InHand(dog)'
  <2>1. SUFFICES ASSUME mutation'[dog] # NoPlan, NEW a, a = mutation[dog].action
                 PROVE  InHand(dog)'
    BY DEF InHand
  <2>2. /\ mutation'[dog] = mutation[dog] /\ mutation[dog] # NoPlan
        /\ a # action \/ mine = receipt[dog][action]
    BY <2>1 DEF Agrees
  <2>3. a \in Actions
    BY <2>1, <2>2 DEF Inv, TypeOK, Actions
  <2>4. receipt'[dog][a] = receipt[dog][a]
    BY <2>2, <2>3 DEF OneReceipt
  <2>. QED BY <2>1, <2>2, <2>4 DEF Inv, DogInv, InHand, Holds, Entry, Unmoved
<1>6. Maintained(dog)'
  <2>1. Owner(dog)' = Owner(dog)
    BY DEF OneTask, Owner, Hands
  <2>. QED BY <2>1 DEF Inv, DogInv, Maintained, Unmoved, Entry
<1>7. DogInv(dog)'
  BY <1>4, <1>5, <1>6 DEF DogInv
<1>. QED BY <1>1, <1>2, <1>3, <1>7 DEF Inv
-----------------------------------------------------------------------------
(* How a write of the ledger ends: the journal is cleared or kept, and the hand  *)
(* goes on only when the write is confirmed.                                     *)
LEMMA JournalEndsHow ==
  ASSUME Inv, NEW dog \in Dogs, NEW hand \in Hands, NEW outcome,
         task[dog][hand].at \in JournalStages, JournalEnds(dog, hand, outcome)
  PROVE  /\ journal' \in [Dogs -> {NoPlan} \cup JournalPlans]
         /\ \A d \in Dogs \ {dog} : journal'[d] = journal[d]
         /\ journal'[dog] = journal[dog] \/ journal'[dog] = NoPlan
         /\ UNCHANGED <<checkpoint, upkeep>>
         /\ \/ /\ outcome = "CONFIRMED" /\ task[dog][hand].at = "ensure"
               /\ Go(dog, hand, IF hand = "daemon" THEN "intend" ELSE "reserved")
            \/ outcome = "CONFIRMED" /\ task[dog][hand].at = "start" /\ Go(dog, hand, "proceed")
            \/ Stop(dog, hand)
<1>1. journal \in [Dogs -> {NoPlan} \cup JournalPlans]
  BY OwnTypes
<1>2. /\ journal' = IF outcome \in {"CONFIRMED", "SUPERSEDED"}
                    THEN [journal EXCEPT ![dog] = NoPlan] ELSE journal
      /\ UNCHANGED <<checkpoint, upkeep>>
  BY DEF JournalEnds
<1>3. CASE outcome = "CONFIRMED" /\ task[dog][hand].at = "ensure"
  <2>1. Go(dog, hand, IF hand = "daemon" THEN "intend" ELSE "reserved")
    <3> DEFINE first == outcome = "CONFIRMED" /\ task[dog][hand].at = "ensure"
               second == outcome = "CONFIRMED" /\ task[dog][hand].at = "start"
               P == Go(dog, hand, IF hand = "daemon" THEN "intend" ELSE "reserved")
               Q == Go(dog, hand, "proceed")
               R == Stop(dog, hand)
    <3>1. (CASE first -> P [] second -> Q [] OTHER -> R)
      BY DEF JournalEnds
    <3>2. first /\ ~second
      BY <1>3
    <3> HIDE DEF first, second, P, Q, R
    <3>3. P
      BY <3>1, <3>2
    <3>. QED BY <3>3 DEF P
  <2>. QED BY <1>1, <1>2, <1>3, <2>1
<1>4. CASE outcome = "CONFIRMED" /\ task[dog][hand].at = "start"
  <2>1. Go(dog, hand, "proceed")
    <3> DEFINE first == outcome = "CONFIRMED" /\ task[dog][hand].at = "ensure"
               second == outcome = "CONFIRMED" /\ task[dog][hand].at = "start"
               P == Go(dog, hand, IF hand = "daemon" THEN "intend" ELSE "reserved")
               Q == Go(dog, hand, "proceed")
               R == Stop(dog, hand)
    <3>1. (CASE first -> P [] second -> Q [] OTHER -> R)
      BY DEF JournalEnds
    <3>2. ~first /\ second
      BY <1>4
    <3> HIDE DEF first, second, P, Q, R
    <3>3. Q
      BY <3>1, <3>2
    <3>. QED BY <3>3 DEF Q
  <2>. QED BY <1>1, <1>2, <1>4, <2>1
<1>5. CASE ~(outcome = "CONFIRMED" /\ task[dog][hand].at \in {"ensure", "start"})
  <2>1. Stop(dog, hand)
    <3> DEFINE first == outcome = "CONFIRMED" /\ task[dog][hand].at = "ensure"
               second == outcome = "CONFIRMED" /\ task[dog][hand].at = "start"
               P == Go(dog, hand, IF hand = "daemon" THEN "intend" ELSE "reserved")
               Q == Go(dog, hand, "proceed")
               R == Stop(dog, hand)
    <3>1. (CASE first -> P [] second -> Q [] OTHER -> R)
      BY DEF JournalEnds
    <3>2. ~first /\ ~second
      BY <1>5
    <3> HIDE DEF first, second, P, Q, R
    <3>3. R
      BY <3>1, <3>2
    <3>. QED BY <3>3 DEF R
  <2>. QED BY <1>1, <1>2, <2>1
<1>. QED BY <1>3, <1>4, <1>5

(* A confirmed write of the ledger is what the ledger now is.                    *)
LEMMA JournalConfirmed ==
  ASSUME Inv, NEW dog \in Dogs, NEW hand \in Hands, task[dog][hand].at \in JournalStages,
         Evaluate(dog, task[dog][hand].at) = "CONFIRMED"
  PROVE  /\ journal[dog] # NoPlan /\ document.ledger = journal[dog].after
         /\ document.ledger.kept
<1>1. journal[dog] # NoPlan
  BY DEF Inv, DogInv, OneHand
<1>2. EvaluateEffect(dog, journal[dog]) = "CONFIRMED"
  BY StageMeans
<1>3. document.ledger = journal[dog].after
  BY <1>2, EffectMeans
<1>. QED BY <1>1, <1>3 DEF Inv, DogInv, Planned

(* The end of a write of the ledger by the daemon, given what it then has.       *)
LEMMA DaemonJournal ==
  ASSUME Inv, NEW dog \in Dogs, Daemon(dog).at \in JournalStages, Still, flight' = flight,
         UNCHANGED <<reserved, upkeep, faults>>, OneTask(dog, "daemon"),
         journal' \in [Dogs -> {NoPlan} \cup JournalPlans],
         \A d \in Dogs \ {dog} : journal'[d] = journal[d],
         \/ journal'[dog] = NoPlan
         \/ journal'[dog] = journal[dog] /\ Daemon(dog)'.at = "rest",
         Daemon(dog)'.at \in {"rest", "intend", "proceed"}, Dated(dog)', Working(dog)'
  PROVE  Inv'
<1>1. Owner(dog)' = Owner(dog) /\ Owner(dog).at \notin JournalStages
  BY DEF OneTask, Owner, Hands, Inv, DogInv, OneHand
<1>2. TypedOwn /\ OneDog(dog) /\ Permitted
  BY OwnTypes DEF TypedOwn, OneDog, OneTask, Permitted
<1>3. Planned(dog)'
  BY SamePlan, QuietPlan
<1>4. Maintained(dog)'
  BY <1>1, SameUpkeep
<1>5. OneHand(dog)'
  <2>1. Owner(dog)'.at \notin {"record", "start", "finish"}
    BY <1>1 DEF Inv, DogInv, OneHand
  <2>. QED BY <1>1, <2>1 DEF OneHand, JournalStages, Daemon, Owner, Hands
<1>. QED BY <1>2, <1>3, <1>4, <1>5, StillKeeps

(* The daemon has written the ledger.                                            *)
LEMMA DaemonJournalEnds ==
  ASSUME Inv, NEW dog \in Dogs, NEW outcome, Daemon(dog).at \in JournalStages,
         outcome = "CONFIRMED" => Evaluate(dog, Daemon(dog).at) = "CONFIRMED",
         JournalEnds(dog, "daemon", outcome),
         UNCHANGED <<document, flight, outside, minted, faults>>
  PROVE  Inv'
<1>1. Daemon(dog) = task[dog]["daemon"] /\ "daemon" \in Hands /\ Daemon(dog) \in Tasks
  BY OwnTypes DEF Daemon
<1>2. /\ journal' \in [Dogs -> {NoPlan} \cup JournalPlans]
      /\ \A d \in Dogs \ {dog} : journal'[d] = journal[d]
      /\ journal'[dog] = journal[dog] \/ journal'[dog] = NoPlan
      /\ UNCHANGED <<checkpoint, upkeep>>
  BY <1>1, JournalEndsHow
<1>3. Still /\ UNCHANGED <<reserved, upkeep, faults>> /\ flight' = flight
  BY <1>2 DEF Still, checkpoint, outside
<1>4. task \in [Dogs -> [Hands -> Tasks]]
  BY OwnTypes
<1>5. ASSUME outcome = "CONFIRMED", Daemon(dog).at = "ensure", Go(dog, "daemon", "intend")
      PROVE  Inv'
  <2>1. OneTask(dog, "daemon") /\ SameWork(dog, "daemon") /\ Daemon(dog)'.at = "intend"
    BY <1>1, <1>4, <1>5, Goes, Stages DEF Daemon
  <2>2. document.ledger.kept
    BY <1>1, <1>5, JournalConfirmed
  <2>3. journal'[dog] = NoPlan
    BY <1>4, <1>5, OwnTypes DEF JournalEnds
  <2>4. Dated(dog)'
    BY <1>3, <1>5, <2>1 DEF SameWork, Dated, Engaged, Daemon, Still, Inv, DogInv
  <2>5. Working(dog)'
    <3>1. Offered(dog)'
      BY <1>3, <1>5, <2>1, <2>2 DEF SameWork, Offered, Daemon, Still, Inv, DogInv, Working
    <3>2. Undertaken(dog)' /\ Untouched(dog)' /\ Done(dog)'
      BY <2>1 DEF Undertaken, Untouched, Done
    <3>. QED BY <3>1, <3>2 DEF Working
  <2>. QED BY <1>2, <1>3, <2>1, <2>3, <2>4, <2>5, DaemonJournal
<1>6. ASSUME outcome = "CONFIRMED", Daemon(dog).at = "start", Go(dog, "daemon", "proceed")
      PROVE  Inv'
  <2>1. OneTask(dog, "daemon") /\ SameWork(dog, "daemon") /\ Daemon(dog)'.at = "proceed"
    BY <1>1, <1>4, <1>6, Goes, Stages DEF Daemon
  <2>2. document.ledger = journal[dog].after
    BY <1>1, <1>6, JournalConfirmed
  <2>3. journal'[dog] = NoPlan
    BY <1>4, <1>6, OwnTypes DEF JournalEnds
  <2>4. Dated(dog)'
    BY <1>3, <1>6, <2>1 DEF SameWork, Dated, Engaged, Daemon, Still, Inv, DogInv
  <2>5. /\ receipt[dog][Daemon(dog).action] = Mine(dog)
        /\ mutation[dog] = NoPlan \/ mutation[dog].action # Daemon(dog).action
        /\ document.ledger.entries[Daemon(dog).action] =
             Begun(dog, Daemon(dog).epoch, Daemon(dog).op)
    BY <1>6, <2>2 DEF Inv, DogInv, Working, Undertaken
  <2>6. Holds(dog, Daemon(dog).action)
    BY <2>5 DEF Holds, Entry, Mine, Begun
  <2>7. /\ Daemon(dog).action \in External =>
             calls[Daemon(dog).action][Daemon(dog).op] = 0
        /\ Daemon(dog).action \in Shared =>
             document.records[Daemon(dog).action] < Daemon(dog).op
    BY <1>6, <2>6 DEF Inv, DogInv, Working, Untouched
  <2>8. Daemon(dog)'.action = Daemon(dog).action /\ Daemon(dog)'.op = Daemon(dog).op
        /\ Mine(dog)' = Mine(dog)
    BY <2>1 DEF SameWork, Daemon, Mine
  <2>9. Holds(dog, Daemon(dog).action)'
    BY <1>3, <2>6, <2>8 DEF Holds, Entry, Still
  <2>10. Working(dog)'
    <3>1. Offered(dog)' /\ Done(dog)'
      BY <2>1 DEF Offered, Done
    <3>2. Undertaken(dog)'
      BY <1>3, <2>1, <2>5, <2>8, <2>9 DEF Undertaken, Still
    <3>3. Untouched(dog)'
      BY <1>3, <2>1, <2>7, <2>8 DEF Untouched, Still
    <3>. QED BY <3>1, <3>2, <3>3 DEF Working
  <2>. QED BY <1>2, <1>3, <2>1, <2>3, <2>4, <2>10, DaemonJournal
<1>7. ASSUME Stop(dog, "daemon")
      PROVE  Inv'
  <2>1. OneTask(dog, "daemon") /\ Daemon(dog)'.at = "rest"
    BY <1>1, <1>4, <1>7, Stops DEF Daemon, AtRest
  <2>2. Dated(dog)' /\ Working(dog)'
    BY <2>1, Resting DEF Daemon
  <2>. QED BY <1>2, <1>3, <2>1, <2>2, DaemonJournal
<1>. QED BY <1>1, <1>5, <1>6, <1>7, JournalEndsHow

(* The owner's command has written the ledger.                                   *)
LEMMA OwnerJournalEnds ==
  ASSUME Inv, NEW dog \in Dogs, NEW outcome, Owner(dog).at \in JournalStages,
         JournalEnds(dog, "owner", outcome),
         UNCHANGED <<document, flight, outside, minted, faults>>
  PROVE  Inv'
<1>1. Owner(dog) = task[dog]["owner"] /\ "owner" \in Hands
  BY OwnTypes DEF Owner
<1>2. /\ journal' \in [Dogs -> {NoPlan} \cup JournalPlans]
      /\ \A d \in Dogs \ {dog} : journal'[d] = journal[d]
      /\ journal'[dog] = journal[dog] \/ journal'[dog] = NoPlan
      /\ UNCHANGED <<checkpoint, upkeep>>
      /\ \/ Go(dog, "owner", "reserved")
         \/ Owner(dog).at = "start"
         \/ Stop(dog, "owner")
  BY <1>1, JournalEndsHow
<1>3. Still /\ UNCHANGED <<reserved, upkeep, faults>> /\ flight' = flight
  BY <1>2 DEF Still, checkpoint, outside
<1>4. Owner(dog).at # "start" /\ Daemon(dog).at \notin JournalStages
  BY DEF Inv, DogInv, OneHand
<1>5. OneTask(dog, "owner") /\ Owner(dog)'.at \in {"rest", "reserved"} /\ Daemon(dog)' = Daemon(dog)
  BY <1>2, <1>4, OwnerGoes, OwnerStops
<1>6. Planned(dog)'
  BY <1>2, <1>3, <1>5, SamePlan, QuietPlan
<1>7. Maintained(dog)'
  BY <1>3, <1>5, SameUpkeep
<1>8. OneHand(dog)'
  <2>1. Daemon(dog)'.at \notin {"enter", "certify"} \cup JournalStages
    BY <1>4, <1>5 DEF Inv, DogInv, OneHand
  <2>. QED BY <1>5, <2>1 DEF OneHand, JournalStages, Daemon, Owner, Hands
<1>9. TypedOwn /\ Permitted
  BY <1>2, <1>3, <1>5, OwnTypes DEF TypedOwn, OneTask, Permitted
<1>10. Daemon(dog).at # "start"
  BY <1>4 DEF JournalStages
<1>. QED BY <1>2, <1>3, <1>5, <1>6, <1>7, <1>8, <1>9, <1>10, OwnerKeeps

(* The write that enters maintenance ends at rest.                               *)
LEMMA EnterEndsKeeps ==
  ASSUME Inv, NEW dog \in Dogs, NEW outcome, EnterEnds(dog, outcome),
         UNCHANGED <<document, flight, outside, minted, faults>>
  PROVE  Inv'
<1>1. Still /\ UNCHANGED <<reserved, journal, upkeep, faults>> /\ flight' = flight
  BY DEF Still, checkpoint, outside, EnterEnds
<1>2. OneTask(dog, "owner") /\ Owner(dog)'.at = "rest" /\ Daemon(dog)' = Daemon(dog)
  BY OwnerStops DEF EnterEnds
<1>3. Planned(dog)'
  BY <1>1, <1>2, SamePlan
<1>4. Maintained(dog)'
  BY <1>1, <1>2, SameUpkeep
<1>5. OneHand(dog)'
  BY <1>1, <1>2, OwnerOneHand
<1>6. TypedOwn /\ Permitted
  BY <1>1, <1>2, OwnTypes DEF TypedOwn, OneTask, Permitted
<1>. QED BY <1>1, <1>2, <1>3, <1>4, <1>5, <1>6, OwnerKeeps
-----------------------------------------------------------------------------
Calm == {"rest", "ready", "settle", "finish"}

(* The daemon turns to a stage that writes nothing of the ledger.                *)
LEMMA DaemonOneHand ==
  ASSUME Inv, NEW dog \in Dogs, OneTask(dog, "daemon"), journal'[dog] = journal[dog],
         Daemon(dog)'.at \notin JournalStages \cup {"enter"}
  PROVE  OneHand(dog)' /\ Owner(dog)' = Owner(dog)
<1>1. Owner(dog)' = Owner(dog)
  BY DEF OneTask, Owner, Hands
<1>2. Owner(dog).at \in JournalStages => journal'[dog] # NoPlan
  BY OwnTypes DEF Inv, DogInv, OneHand, Owner
<1>3. Owner(dog)'.at \notin {"record", "start", "finish"}
  BY <1>1 DEF Inv, DogInv, OneHand
<1>. QED BY <1>1, <1>2, <1>3 DEF OneHand, JournalStages, Daemon, Owner, Hands

(* The daemon turns to another stage, and nothing else happens.                  *)
LEMMA DaemonMoves ==
  ASSUME Inv, NEW dog \in Dogs, Still, flight' = flight, UNCHANGED <<reserved, journal, upkeep>>,
         faults' \in 0 .. MaxFaults, OneTask(dog, "daemon"),
         Daemon(dog)'.at \notin JournalStages \cup {"enter"},
         Daemon(dog)'.at = Daemon(dog).at \/ Daemon(dog)'.at \in Calm \/ Daemon(dog).at \notin Calm,
         Dated(dog)', Working(dog)'
  PROVE  Inv'
<1>1. OneHand(dog)' /\ Owner(dog)' = Owner(dog)
  BY DaemonOneHand
<1>2. TypedOwn /\ OneDog(dog) /\ Permitted
  BY OwnTypes DEF TypedOwn, OneDog, OneTask, Permitted
<1>3. Planned(dog)'
  <2>1. CASE Daemon(dog)'.at = Daemon(dog).at \/ Daemon(dog)'.at \in Calm
    BY <2>1, SamePlan DEF Calm
  <2>2. CASE Daemon(dog).at \notin Calm
    <3>1. ~Ending(dog, journal[dog])
      BY <2>2 DEF Ending, Calm
    <3>2. Begetting(dog, journal[dog]) => Begetting(dog, journal[dog])'
      BY DEF Begetting, Still
    <3>. QED BY <3>1, <3>2 DEF Inv, DogInv, Planned
  <2>. QED BY <2>1, <2>2
<1>4. Maintained(dog)'
  BY <1>1, SameUpkeep
<1>. QED BY <1>1, <1>2, <1>3, <1>4, StillKeeps

(* The daemon gives up, and only its place is lost.                              *)
LEMMA DaemonRests ==
  ASSUME Inv, NEW dog \in Dogs, Stop(dog, "daemon"), faults' \in 0 .. MaxFaults,
         UNCHANGED <<document, flight, checkpoint, journal, upkeep, outside, minted>>
  PROVE  Inv'
<1>1. OneTask(dog, "daemon") /\ Daemon(dog)'.at = "rest"
  BY OwnTypes, Stops DEF Daemon, AtRest
<1>2. Dated(dog)' /\ Working(dog)'
  BY <1>1, Resting DEF Daemon
<1>3. Still /\ flight' = flight /\ UNCHANGED <<reserved, journal, upkeep>>
  BY DEF Still, checkpoint, outside
<1>. QED BY <1>1, <1>2, <1>3, DaemonMoves DEF JournalStages, Calm

(* A plan does not rest on the receipt that is replaced.                         *)
LEMMA ReceivedPlan ==
  ASSUME Inv, NEW dog \in Dogs, NEW action \in Actions, NEW mine, Unmoved,
         OneReceipt(dog, action, mine),
         \/ Daemon(dog).at \notin Calm
         \/ /\ receipt[dog][action].outcome \notin {"COMPLETE", "NO_WORK"}
            /\ Daemon(dog)'.at \in Calm
  PROVE  Planned(dog)'
<1>1. \A plan : Begetting(dog, plan) => Begetting(dog, plan)'
  BY DEF Begetting, Unmoved
<1>2. ASSUME NEW plan, Ending(dog, plan)
      PROVE  Ending(dog, plan)'
  <2>1. PICK a \in Actions :
          /\ receipt[dog][a].outcome \in {"COMPLETE", "NO_WORK"}
          /\ plan.before.entries[a] = Begun(dog, plan.epoch, receipt[dog][a].op)
          /\ plan.after.entries = [plan.before.entries EXCEPT ![a].outcome = receipt[dog][a].outcome]
    BY <1>2 DEF Ending
  <2>2. Daemon(dog).at \in Calm
    BY <1>2 DEF Ending, Calm
  <2>3. receipt'[dog][a] = receipt[dog][a]
    BY <2>1, <2>2 DEF OneReceipt
  <2>4. Daemon(dog)'.at \in Calm
    BY <2>2
  <2>. QED BY <2>1, <2>3, <2>4 DEF Ending, Calm
<1>3. journal'[dog] = journal[dog]
  BY DEF Unmoved
<1>. QED BY <1>1, <1>2, <1>3 DEF Inv, DogInv, Planned

(* What the daemon had in hand now has a result, which is to be entered.         *)
SettlesWith(dog, result) ==
  task' = [task EXCEPT ![dog]["daemon"].at = "settle", ![dog]["daemon"].sent = FALSE,
                       ![dog]["daemon"].outcome = result]
(* The daemon is then about to settle it.                                        *)
LEMMA Results ==
  ASSUME Inv, NEW dog \in Dogs, NEW result \in {"COMPLETE", "NO_WORK"}, Engaged(dog), Unmoved,
         \/ SettlesWith(dog, result)
         \/ task' = [task EXCEPT ![dog]["daemon"].at = "settle", ![dog]["daemon"].outcome = result],
         OneReceipt(dog, Daemon(dog).action,
           [op |-> Daemon(dog).op, epoch |-> Daemon(dog).epoch, outcome |-> result])
  PROVE  OneTask(dog, "daemon") /\ Daemon(dog)'.at = "settle" /\ Dated(dog)' /\ Working(dog)'
<1>1. Daemon(dog) = task[dog]["daemon"] /\ Daemon(dog) \in Tasks /\ "daemon" \in Hands
      /\ task \in [Dogs -> [Hands -> Tasks]]
  BY OwnTypes DEF Daemon
<1>2. PICK work \in Tasks :
        /\ task' = [task EXCEPT ![dog]["daemon"] = work]
        /\ work.at = "settle" /\ work.outcome = result /\ work.op = Daemon(dog).op
        /\ work.epoch = Daemon(dog).epoch /\ work.action = Daemon(dog).action
  <2>1. CASE SettlesWith(dog, result)
    <3> DEFINE work == [Daemon(dog) EXCEPT !.at = "settle", !.sent = FALSE, !.outcome = result]
    <3>1. work \in Tasks
      BY <1>1 DEF Tasks, Outcome
    <3>2. /\ work.at = "settle" /\ work.outcome = result /\ work.op = Daemon(dog).op
          /\ work.epoch = Daemon(dog).epoch /\ work.action = Daemon(dog).action
      BY <1>1 DEF Tasks
    <3>3. task' = [task EXCEPT ![dog]["daemon"] = work]
      <4> DEFINE first == [task EXCEPT ![dog]["daemon"].at = "settle",
                                       ![dog]["daemon"].sent = FALSE]
                 before == [Daemon(dog) EXCEPT !.at = "settle", !.sent = FALSE]
      <4>1. task' = [first EXCEPT ![dog]["daemon"].outcome = result]
        BY <2>1 DEF SettlesWith
      <4>2. first = [task EXCEPT ![dog]["daemon"] = before]
        BY <1>1
      <4>3. before \in Tasks
        BY <1>1 DEF Tasks
      <4>4. work = [before EXCEPT !.outcome = result]
        OBVIOUS
      <4> HIDE DEF first, before, work
      <4>5. task' = [task EXCEPT ![dog]["daemon"] = [before EXCEPT !.outcome = result]]
        BY <1>1, <4>1, <4>2, <4>3
      <4>. QED BY <4>4, <4>5
    <3> HIDE DEF work
    <3>. QED BY <3>1, <3>2, <3>3
  <2>2. CASE task' = [task EXCEPT ![dog]["daemon"].at = "settle", ![dog]["daemon"].outcome = result]
    <3> DEFINE work == [Daemon(dog) EXCEPT !.at = "settle", !.outcome = result]
    <3>1. work \in Tasks
      BY <1>1 DEF Tasks, Outcome
    <3>2. /\ work.at = "settle" /\ work.outcome = result /\ work.op = Daemon(dog).op
          /\ work.epoch = Daemon(dog).epoch /\ work.action = Daemon(dog).action
      BY <1>1 DEF Tasks
    <3>3. task' = [task EXCEPT ![dog]["daemon"] = work]
      BY <1>1, <2>2
    <3> HIDE DEF work
    <3>. QED BY <3>1, <3>2, <3>3
  <2>. QED BY <2>1, <2>2
<1>3. OneTask(dog, "daemon") /\ Daemon(dog)' = work
  BY <1>1, <1>2, Assigned DEF Daemon
<1>4. Dated(dog)'
  <2>1. Engaged(dog) => Engaged(dog)
    OBVIOUS
  <2>. QED BY <1>2, <1>3 DEF Inv, DogInv, Dated, Unmoved
<1>5. Working(dog)'
  <2>1. Done(dog)'
    BY <1>2, <1>3 DEF Done, OneReceipt
  <2>2. Offered(dog)' /\ Undertaken(dog)' /\ Untouched(dog)'
    BY <1>2, <1>3 DEF Offered, Undertaken, Untouched
  <2>. QED BY <2>1, <2>2 DEF Working
<1>. QED BY <1>2, <1>3, <1>4, <1>5

(* The write of a shared record ends: a confirmed one is the result.             *)
LEMMA RecordEndsKeeps ==
  ASSUME Inv, NEW dog \in Dogs, NEW outcome, Daemon(dog).at = "record",
         outcome = "CONFIRMED" => Evaluate(dog, "record") = "CONFIRMED",
         RecordEnds(dog, outcome), UNCHANGED <<document, flight, outside, minted, faults>>
  PROVE  Inv'
<1>1. faults' \in 0 .. MaxFaults
  BY OwnTypes
<1>2. CASE outcome # "CONFIRMED"
  BY <1>1, <1>2, DaemonRests DEF RecordEnds, checkpoint
<1>3. CASE outcome = "CONFIRMED"
  <2> DEFINE action == Daemon(dog).action
             mine == [op |-> Daemon(dog).op, epoch |-> Daemon(dog).epoch, outcome |-> "COMPLETE"]
  <2>1. /\ Receive(dog, action, Daemon(dog).op, Daemon(dog).epoch, "COMPLETE")
        /\ mutation' = [mutation EXCEPT ![dog] = NoPlan]
        /\ SettlesWith(dog, "COMPLETE") /\ UNCHANGED <<reserved, journal, upkeep>>
    BY <1>3 DEF RecordEnds, SettlesWith, Daemon
  <2>2. Unmoved
    BY <2>1 DEF Unmoved, outside
  <2>3. /\ Engaged(dog) /\ Daemon(dog).action \in Actions /\ Daemon(dog).op \in Operations
        /\ Daemon(dog).epoch \in Nat /\ Daemon(dog).op \in 0 .. MaxOperations
    BY OwnTypes, Given DEF Inv, DogInv, Dated, Engaged, Tasks
  <2>4. OneReceipt(dog, action, mine)
    <3>1. receipt \in [Dogs -> [Actions -> Receipts]] /\ "COMPLETE" \in Outcome
      BY DEF Inv, TypeOK, Outcome
    <3>. QED BY <2>1, <2>3, <3>1, Receives DEF OneReceipt
  <2>5. /\ mutation[dog] # NoPlan /\ mutation[dog].action = action /\ mutation[dog].op = Daemon(dog).op
        /\ mutation[dog].before < mutation[dog].op /\ Holds(dog, action)
        /\ receipt[dog][action].outcome = "UNKNOWN"
    <3>1. /\ mutation[dog] # NoPlan /\ mutation[dog].action = action
          /\ mutation[dog].op = Daemon(dog).op
      BY DEF Inv, DogInv, Working, Done
    <3>2. /\ receipt[dog][mutation[dog].action].outcome = "UNKNOWN"
          /\ Holds(dog, mutation[dog].action) /\ mutation[dog].before < mutation[dog].op
      <4>1. InHand(dog)
        BY DEF Inv, DogInv
      <4>. QED BY <3>1, <4>1 DEF InHand, Holds
    <3>. QED BY <3>1, <3>2
  <2>6. mutation \in [Dogs -> MutationTypes] /\ mutation[dog].action \in Shared
        /\ mutation[dog].op \in Nat /\ mutation[dog].before \in Nat
    BY <2>5, Given DEF Inv, TypeOK, MutationTypes, Operations
  <2>7. document.records[action] = Daemon(dog).op
    <3>1. EvaluateRecord(dog, mutation[dog]) = "CONFIRMED"
      BY <1>3, StageMeans
    <3>2. mutation[dog].before # mutation[dog].op
      BY <2>5, <2>6
    <3>. QED BY <2>5, <3>1, <3>2, RecordMeans
  <2>8. OneMutation(dog) /\ mutation'[dog] = NoPlan
    BY <2>1, <2>6 DEF OneMutation, MutationTypes
  <2>9. OneTask(dog, "daemon") /\ Daemon(dog)'.at = "settle" /\ Dated(dog)' /\ Working(dog)'
    BY <2>1, <2>2, <2>3, <2>4, Results
  <2>10. Sound(dog, action, mine)
    BY <2>3, <2>5, <2>6, <2>7, Given DEF Sound, Operations
  <2>11. Agrees(dog, action, mine)
    <3>1. document.ledger.kept
      BY <2>5 DEF Inv, Ledgered
    <3>2. Entry(action).outcome = "UNKNOWN"
      BY <2>5 DEF Holds, Begun
    <3>3. open' = open /\ \A call \in open : call.action # action
      BY <2>5, <2>6, Given DEF outside, Inv, TypeOK
    <3>4. document.owner = dog => \A f \in flight : ~Records(f)
      BY <2>5, <2>6, <2>7 DEF Records
    <3>. QED BY <2>5, <2>8, <3>1, <3>2, <3>3, <3>4 DEF Agrees
  <2>12. Planned(dog)' /\ OneHand(dog)'
    BY <2>2, <2>3, <2>4, <2>9, ReceivedPlan, DaemonOneHand DEF Calm, JournalStages, Unmoved
  <2> HIDE DEF mine, action
  <2>. QED BY <1>1, <2>2, <2>3, <2>4, <2>8, <2>9, <2>10, <2>11, <2>12, Received DEF action
<1>. QED BY <1>2, <1>3

(* Every end of a write.                                                         *)
LEMMA EndsKeeps ==
  ASSUME Inv, NEW dog \in Dogs, NEW hand \in Hands, NEW outcome,
         outcome = "CONFIRMED" => Evaluate(dog, task[dog][hand].at) = "CONFIRMED",
         Ends(dog, hand, outcome), UNCHANGED <<document, flight, outside, minted, faults>>
  PROVE  Inv'
<1>1. CASE task[dog][hand].at \in JournalStages /\ JournalEnds(dog, hand, outcome)
  <2>1. CASE hand = "daemon"
    BY <1>1, <2>1, DaemonJournalEnds DEF Daemon
  <2>2. CASE hand = "owner"
    BY <1>1, <2>2, OwnerJournalEnds DEF Owner
  <2>. QED BY <2>1, <2>2 DEF Hands
<1>2. CASE task[dog][hand].at = "record" /\ RecordEnds(dog, outcome)
  <2>1. hand = "daemon"
    BY <1>2 DEF Inv, DogInv, OneHand, Owner, Hands
  <2>. QED BY <1>2, <2>1, RecordEndsKeeps DEF Daemon
<1>3. CASE task[dog][hand].at = "enter" /\ EnterEnds(dog, outcome)
  BY <1>3, EnterEndsKeeps
<1>. QED BY <1>1, <1>2, <1>3 DEF Ends

(* A write, applied, delayed or refused.                                         *)
LEMMA WriteKeeps ==
  ASSUME Inv, NEW dog \in Dogs, NEW hand \in Hands, Write(dog, hand)
  PROVE  Inv'
<1> DEFINE stage == task[dog][hand].at
           state == Evaluate(dog, stage)
<1>1. stage \in WriteStages /\ UNCHANGED <<outside, minted>>
  BY DEF Write
<1>2. ASSUME state # "READY", Ends(dog, hand, state), UNCHANGED <<document, flight, faults>>
      PROVE  Inv'
  BY <1>1, <1>2, EndsKeeps
<1>3. ASSUME state = "READY", Put(Desired(dog, stage)), Sent(dog, hand), UNCHANGED faults
      PROVE  Inv'
  BY <1>1, <1>3, AppliedKeeps
<1>4. ASSUME state = "READY", Fault, Sent(dog, hand),
             flight' = flight \cup {Desired(dog, stage)}, UNCHANGED document
      PROVE  Inv'
  BY <1>1, <1>4, DelayedKeeps
<1>. QED BY <1>2, <1>3, <1>4 DEF Write

(* A read shows what a write did.                                                *)
LEMMA ReadBackKeeps ==
  ASSUME Inv, NEW dog \in Dogs, NEW hand \in Hands, ReadBack(dog, hand)
  PROVE  Inv'
<1> DEFINE state == Evaluate(dog, task[dog][hand].at)
           outcome == IF state = "READY" THEN "UNKNOWN" ELSE state
<1>1. Ends(dog, hand, outcome) /\ UNCHANGED <<document, flight, outside, minted, faults>>
  BY DEF ReadBack
<1>2. outcome = "CONFIRMED" => state = "CONFIRMED"
  OBVIOUS
<1> HIDE DEF outcome
<1>. QED BY <1>1, <1>2, EndsKeeps
-----------------------------------------------------------------------------
(* The daemon goes on to another stage of the operation it has.                  *)
LEMMA DaemonGoes ==
  ASSUME Inv, NEW dog \in Dogs,
         NEW stage \in {"ready", "begin", "cleared", "out", "start", "finish", "record"},
         Go(dog, "daemon", stage)
  PROVE  /\ OneTask(dog, "daemon") /\ SameWork(dog, "daemon") /\ Daemon(dog)'.at = stage
         /\ Daemon(dog)'.action = Daemon(dog).action /\ Daemon(dog)'.op = Daemon(dog).op
         /\ Daemon(dog)'.epoch = Daemon(dog).epoch /\ Mine(dog)' = Mine(dog)
<1>1. task \in [Dogs -> [Hands -> Tasks]] /\ "daemon" \in Hands /\ task[dog]["daemon"] \in Tasks
  BY OwnTypes DEF Daemon
<1>2. [task[dog]["daemon"] EXCEPT !.at = stage] \in Tasks
  BY <1>1, Stages DEF WriteStages, JournalStages
<1>3. OneTask(dog, "daemon") /\ SameWork(dog, "daemon") /\ task'[dog]["daemon"].at = stage
  BY <1>1, <1>2, Goes
<1>. QED BY <1>3 DEF SameWork, Daemon, Mine

(* An operation stays of its epoch.                                              *)
LEMMA StaysDated ==
  ASSUME Inv, NEW dog \in Dogs, document' = document, Engaged(dog),
         Daemon(dog)'.action = Daemon(dog).action, Daemon(dog)'.op = Daemon(dog).op,
         Daemon(dog)'.epoch = Daemon(dog).epoch
  PROVE  Dated(dog)'
BY DEF Inv, DogInv, Dated, Engaged

(* A check fails, or a process dies.                                             *)
LEMMA FailsKeeps ==
  ASSUME Inv, NEW dog \in Dogs, Fails(dog)
  PROVE  Inv'
<1>1. faults' \in 0 .. MaxFaults
  BY OwnTypes DEF Fails
<1>. QED BY <1>1, DaemonRests DEF Fails

(* A process dies between two steps.                                            *)
LEMMA InterruptedKeeps ==
  ASSUME Inv, NEW dog \in Dogs, NEW hand \in Hands, Interrupted(dog, hand)
  PROVE  Inv'
<1>1. faults' \in 0 .. MaxFaults
  BY OwnTypes, FaultCounts DEF Interrupted
<1>2. CASE hand = "daemon"
  BY <1>1, <1>2, DaemonRests DEF Interrupted
<1>3. CASE hand = "owner"
  <2>1. Still /\ UNCHANGED <<reserved, journal, upkeep>> /\ flight' = flight
    BY DEF Still, checkpoint, outside, Interrupted
  <2>2. OneTask(dog, "owner") /\ Owner(dog)'.at = "rest" /\ Daemon(dog)' = Daemon(dog)
    BY <1>3, OwnerStops DEF Interrupted
  <2>3. Planned(dog)' /\ Maintained(dog)' /\ OneHand(dog)'
    BY <2>1, <2>2, SamePlan, SameUpkeep, OwnerOneHand
  <2>4. TypedOwn /\ Permitted
    BY <1>1, <2>1, <2>2, OwnTypes DEF TypedOwn, OneTask, Permitted
  <2>. QED BY <2>1, <2>2, <2>3, <2>4, OwnerKeeps
<1>. QED BY <1>2, <1>3 DEF Hands

(* The daemon has planned a change of the ledger.                                *)
LEMMA DaemonPlans ==
  ASSUME Inv, NEW dog \in Dogs, NEW stage \in {"start", "finish"}, NEW epoch \in Nat \ {0},
         NEW after \in Ledger, Journal(dog, "daemon", stage, epoch, after), Engaged(dog),
         UNCHANGED <<document, flight, checkpoint, upkeep, outside, minted, faults>>,
         Planned(dog)', Working(dog)'
  PROVE  Inv'
<1>1. Plan(dog, epoch, after) /\ Go(dog, "daemon", stage)
  BY DEF Journal
<1>2. /\ OneTask(dog, "daemon") /\ Daemon(dog)'.at = stage
      /\ Daemon(dog)'.action = Daemon(dog).action /\ Daemon(dog)'.op = Daemon(dog).op
      /\ Daemon(dog)'.epoch = Daemon(dog).epoch
  BY <1>1, DaemonGoes
<1>3. /\ journal[dog] = NoPlan /\ journal' \in [Dogs -> {NoPlan} \cup JournalPlans]
      /\ \A d \in Dogs \ {dog} : journal'[d] = journal[d]
      /\ journal'[dog] # NoPlan
  BY <1>1, Plans
<1>4. Still /\ UNCHANGED <<reserved, upkeep, faults>> /\ flight' = flight
  BY DEF Still, checkpoint, outside
<1>5. Owner(dog)' = Owner(dog)
  BY <1>2 DEF OneTask, Owner, Hands
<1>6. Dated(dog)'
  BY <1>2, <1>4, StaysDated DEF Still
<1>7. Maintained(dog)'
  BY <1>4, <1>5, SameUpkeep
<1>8. OneHand(dog)'
  <2>1. Owner(dog).at \notin JournalStages \cup {"record", "start", "finish"}
    BY <1>3 DEF Inv, DogInv, OneHand, Owner, Hands
  <2>. QED BY <1>2, <1>3, <1>5, <2>1 DEF OneHand, JournalStages, Daemon, Owner, Hands
<1>9. TypedOwn /\ OneDog(dog) /\ Permitted
  BY <1>2, <1>3, <1>4, OwnTypes DEF TypedOwn, OneTask, OneDog, Permitted
<1>. QED BY <1>4, <1>6, <1>7, <1>8, <1>9, StillKeeps

(* What the daemon has in hand.                                                  *)
LEMMA Doing ==
  ASSUME Inv, NEW dog \in Dogs, Engaged(dog)
  PROVE  /\ Daemon(dog).action \in Actions /\ Daemon(dog).op \in Operations
         /\ Daemon(dog).op \in 0 .. MaxOperations /\ Daemon(dog).epoch \in Nat \ {0}
         /\ Daemon(dog).outcome \in Outcome
<1>1. Daemon(dog) \in Tasks
  BY OwnTypes
<1>2. /\ Daemon(dog).action \in Actions /\ Daemon(dog).op \in Operations
      /\ Daemon(dog).epoch >= 1
  BY DEF Inv, DogInv, Dated
<1>3. Daemon(dog).epoch \in Nat /\ Daemon(dog).outcome \in Outcome
      /\ Daemon(dog).op \in 0 .. MaxOperations
  BY <1>1 DEF Tasks
<1>. QED BY <1>2, <1>3

(* The ledger with one entry replaced.                                           *)
LEMMA Reenters ==
  ASSUME Inv, NEW action \in Actions,
         NEW entry \in [owner : Dogs \cup {Nobody}, epoch : Nat, op : 0 .. MaxOperations,
                        outcome : Outcome]
  PROVE  /\ [document.ledger EXCEPT !.entries[action] = entry] \in Ledger
         /\ [document.ledger EXCEPT !.entries[action] = entry].kept = document.ledger.kept
         /\ [document.ledger EXCEPT !.entries[action] = entry].entries =
              [document.ledger.entries EXCEPT ![action] = entry]
<1>1. document.ledger \in Ledger
  BY DEF Inv, TypeOK, Documents
<1>2. [document.ledger.entries EXCEPT ![action] = entry] \in
        [Actions -> [owner : Dogs \cup {Nobody}, epoch : Nat, op : 0 .. MaxOperations,
                     outcome : Outcome]]
  BY <1>1 DEF Ledger
<1>. QED BY <1>1, <1>2 DEF Ledger

(* A beginning is planned: of the newest operation, which the ledger has not.    *)
LEMMA StartKeeps ==
  ASSUME Inv, NEW dog \in Dogs, Start(dog)
  PROVE  Inv'
<1> DEFINE action == Daemon(dog).action
           begun == Begun(dog, Daemon(dog).epoch, Daemon(dog).op)
           after == [document.ledger EXCEPT !.entries[action] = begun]
<1>1. /\ Daemon(dog).at = "begin" /\ MayStart(dog, Daemon(dog))
      /\ Journal(dog, "daemon", "start", Daemon(dog).epoch, after)
      /\ UNCHANGED <<document, flight, checkpoint, upkeep, outside, minted, faults>>
  BY DEF Start, Daemon, Begun
<1>2. /\ Engaged(dog) /\ action \in Actions /\ Daemon(dog).op \in Operations
      /\ Daemon(dog).epoch \in Nat \ {0} /\ Daemon(dog).op \in 0 .. MaxOperations
  BY <1>1, Doing DEF Engaged
<1>3. /\ receipt[dog][action] = Mine(dog)
      /\ mutation[dog] = NoPlan \/ mutation[dog].action # action
  BY <1>1 DEF Inv, DogInv, Working, Undertaken
<1>4. document.ledger.kept
  <2>1. ~document.ledger.kept => receipt[dog][action] = NoReceipt
    BY <1>2 DEF Inv, Ledgered
  <2>. QED BY <1>3, <2>1 DEF Mine, NoReceipt
<1>5. /\ document.epoch = Daemon(dog).epoch /\ document.phase = "ACTIVE"
      /\ Entry(action).outcome # "UNKNOWN" /\ Entry(action).op # Daemon(dog).op
  BY <1>1 DEF MayStart, Owns
<1>6. minted[action] = Daemon(dog).op
  BY <1>1, <1>5 DEF Inv, DogInv, Working, Offered
<1>7. Entry(action).op < Daemon(dog).op /\ Daemon(dog).op <= minted[action]
  <2>1. Entry(action).op \in Nat
    BY <1>2, Given DEF Inv, TypeOK, Documents, Ledger, Entry
  <2>2. Entry(action).op <= minted[action]
    BY <1>2 DEF Inv, Counted
  <2>. QED BY <1>2, <1>5, <1>6, <2>1, <2>2
<1>8. after \in Ledger /\ after.kept
      /\ after.entries = [document.ledger.entries EXCEPT ![action] = begun]
  <2>1. begun \in [owner : Dogs \cup {Nobody}, epoch : Nat, op : 0 .. MaxOperations,
                   outcome : Outcome]
    BY <1>2 DEF Begun, Outcome
  <2> HIDE DEF begun
  <2>. QED BY <1>2, <1>4, <2>1, Reenters
<1>9. /\ journal'[dog].epoch = Daemon(dog).epoch /\ journal'[dog].phase = document.phase
      /\ journal'[dog].before = document.ledger /\ journal'[dog].after = after
  <2> HIDE DEF after
  <2>. QED BY <1>1, <1>2, <1>8, Plans DEF Journal
<1>10. /\ Daemon(dog)'.at = "start" /\ Daemon(dog)'.action = action
       /\ Daemon(dog)'.op = Daemon(dog).op /\ Daemon(dog)'.epoch = Daemon(dog).epoch
       /\ Mine(dog)' = Mine(dog)
  BY <1>1, DaemonGoes DEF Journal
<1>11. minted' = minted /\ receipt' = receipt /\ mutation' = mutation /\ document' = document
  BY <1>1 DEF checkpoint
<1>12. Planned(dog)'
  <2>1. ASSUME NEW plan, plan = journal'[dog]
        PROVE  Begetting(dog, plan)'
    <3>1. /\ plan.phase = "ACTIVE" /\ plan.before.entries[action].op < Daemon(dog).op
          /\ Daemon(dog).op <= minted'[action]
          /\ plan.before.entries[action].outcome # "UNKNOWN"
          /\ plan.after.entries =
               [plan.before.entries EXCEPT ![action] = Begun(dog, plan.epoch, Daemon(dog).op)]
      BY <1>5, <1>7, <1>8, <1>9, <1>11, <2>1 DEF Entry
    <3>. QED BY <1>2, <3>1 DEF Begetting
  <2>2. journal'[dog].after.kept
    BY <1>8, <1>9
  <2>. QED BY <2>1, <2>2 DEF Planned
<1>13. Working(dog)'
  <2>1. Offered(dog)' /\ Done(dog)'
    BY <1>10 DEF Offered, Done
  <2>2. ~Holds(dog, action)
    BY <1>5 DEF Holds, Begun
  <2>3. ~Holds(dog, action)'
    BY <1>10, <1>11, <2>2 DEF Holds, Entry
  <2>4. Untouched(dog)'
    BY <1>10, <2>3 DEF Untouched
  <2>5. journal'[dog].after.entries[action] = begun
    BY <1>2, <1>8, <1>9 DEF Inv, TypeOK, Documents, Ledger
  <2>6. Undertaken(dog)'
    BY <1>3, <1>10, <1>11, <2>5 DEF Undertaken, Begun
  <2>. QED BY <2>1, <2>4, <2>6 DEF Working
<1> HIDE DEF after
<1>. QED BY <1>1, <1>2, <1>8, <1>12, <1>13, DaemonPlans

(* An end is planned: a call superseded here is of an earlier epoch, and so is   *)
(* never settled by this one.                                                    *)
LEMMA SettleKeeps ==
  ASSUME Inv, NEW dog \in Dogs, Settle(dog)
  PROVE  Inv'
<1> DEFINE action == Daemon(dog).action
           ended == [Entry(action) EXCEPT !.outcome = Daemon(dog).outcome]
           after == [document.ledger EXCEPT !.entries[action] = ended]
<1>1. /\ Daemon(dog).at = "settle" /\ MaySettle(dog, Daemon(dog))
      /\ Journal(dog, "daemon", "finish", Daemon(dog).epoch,
           [document.ledger EXCEPT !.entries[action].outcome = Daemon(dog).outcome])
      /\ UNCHANGED <<document, flight, checkpoint, upkeep, outside, minted, faults>>
  BY DEF Settle, Daemon
<1>2. /\ Engaged(dog) /\ action \in Actions /\ Daemon(dog).op \in Operations
      /\ Daemon(dog).epoch \in Nat \ {0} /\ Daemon(dog).op \in 0 .. MaxOperations
      /\ Daemon(dog).outcome \in Outcome
  BY <1>1, Doing DEF Engaged
<1>3. [document.ledger EXCEPT !.entries[action].outcome = Daemon(dog).outcome] = after
  BY <1>2 DEF Entry, Inv, TypeOK, Documents, Ledger
<1>4. /\ document.epoch = Daemon(dog).epoch
      /\ Entry(action) = Begun(dog, Daemon(dog).epoch, Daemon(dog).op)
  BY <1>1 DEF MaySettle, Owns, Begun
<1>5. /\ receipt[dog][action].op = Daemon(dog).op
      /\ receipt[dog][action].outcome = Daemon(dog).outcome
      /\ Daemon(dog).outcome \in {"COMPLETE", "NO_WORK", "SUPERSEDED"}
  BY <1>1 DEF Inv, DogInv, Working, Done
<1>6. Daemon(dog).outcome # "SUPERSEDED"
  <2>1. SUFFICES ASSUME receipt[dog][action].outcome = "SUPERSEDED"
                 PROVE  FALSE
    BY <1>5
  <2>2. Holds(dog, action) /\ receipt[dog][action].epoch < document.epoch
    BY <1>2, <2>1 DEF Inv, DogInv, Receipted
  <2>3. receipt[dog][action].epoch = document.epoch
    BY <1>4, <2>2 DEF Holds, Begun
  <2>. QED BY <1>2, <1>4, <2>2, <2>3
<1>7. document.ledger.kept
  BY <1>2, <1>4 DEF Inv, Ledgered, Entry, Begun, NoEntry
<1>8. ended \in [owner : Dogs \cup {Nobody}, epoch : Nat, op : 0 .. MaxOperations,
                 outcome : Outcome]
  <2>1. Entry(action) \in [owner : Dogs \cup {Nobody}, epoch : Nat, op : 0 .. MaxOperations,
                           outcome : Outcome]
    BY <1>2 DEF Entry, Inv, TypeOK, Documents, Ledger
  <2> HIDE DEF action
  <2>. QED BY <1>2, <2>1
<1>9. after \in Ledger /\ after.kept
      /\ after.entries = [document.ledger.entries EXCEPT ![action] = ended]
  <2> HIDE DEF ended
  <2>. QED BY <1>2, <1>7, <1>8, Reenters
<1>10. /\ journal'[dog].epoch = Daemon(dog).epoch /\ journal'[dog].phase = document.phase
       /\ journal'[dog].before = document.ledger /\ journal'[dog].after = after
  <2> HIDE DEF after
  <2>. QED BY <1>1, <1>2, <1>3, <1>9, Plans DEF Journal
<1>11. Daemon(dog)'.at = "finish"
  BY <1>1, DaemonGoes DEF Journal
<1>12. minted' = minted /\ receipt' = receipt
  BY <1>1 DEF checkpoint
<1>13. Planned(dog)'
  <2>1. ASSUME NEW plan, plan = journal'[dog]
        PROVE  Ending(dog, plan)'
    <3>1. /\ receipt'[dog][action].outcome \in {"COMPLETE", "NO_WORK"}
          /\ plan.before.entries[action] = Begun(dog, plan.epoch, receipt'[dog][action].op)
      BY <1>4, <1>5, <1>6, <1>10, <1>12, <2>1 DEF Entry, Begun
    <3>2. [plan.before.entries EXCEPT ![action].outcome = receipt'[dog][action].outcome] =
            [document.ledger.entries EXCEPT ![action] = ended]
      BY <1>2, <1>5, <1>10, <1>12, <2>1 DEF Entry, Inv, TypeOK, Documents, Ledger
    <3>3. plan.after.entries =
            [plan.before.entries EXCEPT ![action].outcome = receipt'[dog][action].outcome]
      BY <1>9, <1>10, <2>1, <3>2
    <3>. QED BY <1>2, <1>11, <3>1, <3>3 DEF Ending
  <2>2. journal'[dog].after.kept
    BY <1>9, <1>10
  <2>. QED BY <2>1, <2>2 DEF Planned
<1>14. Working(dog)'
  BY <1>11 DEF Working, Offered, Undertaken, Untouched, Done
<1> HIDE DEF after
<1>. QED BY <1>1, <1>2, <1>3, <1>9, <1>13, <1>14, DaemonPlans
-----------------------------------------------------------------------------
(* The daemon has saved another receipt of the operation it has in hand.         *)
LEMMA Saves ==
  ASSUME Inv, NEW dog \in Dogs, Engaged(dog), NEW outcome \in Outcome,
         Receive(dog, Daemon(dog).action, Daemon(dog).op, Daemon(dog).epoch, outcome)
  PROVE  OneReceipt(dog, Daemon(dog).action,
           [op |-> Daemon(dog).op, epoch |-> Daemon(dog).epoch, outcome |-> outcome])
<1>1. receipt \in [Dogs -> [Actions -> Receipts]]
  BY DEF Inv, TypeOK
<1>2. /\ Daemon(dog).action \in Actions /\ Daemon(dog).op \in 0 .. MaxOperations
      /\ Daemon(dog).epoch \in Nat
  BY Doing
<1>3. ASSUME NEW action \in Actions, NEW op \in 0 .. MaxOperations, NEW epoch \in Nat,
             Receive(dog, action, op, epoch, outcome)
      PROVE  OneReceipt(dog, action, [op |-> op, epoch |-> epoch, outcome |-> outcome])
  BY <1>1, <1>3, Receives DEF OneReceipt
<1>. QED BY <1>2, <1>3

(* A record still in hand is of another action.                                  *)
LEMMA StillInHand ==
  ASSUME Inv, mutation' = mutation
  PROVE  \A dog \in Dogs : OneMutation(dog)
BY DEF Inv, TypeOK, OneMutation, MutationTypes

(* The intention is saved: the ledger has neither this operation nor one in      *)
(* doubt, and so no call and no record rests on the receipt.                     *)
LEMMA IntendKeeps ==
  ASSUME Inv, NEW dog \in Dogs, Intend(dog)
  PROVE  Inv'
<1> DEFINE action == Daemon(dog).action
           mine == [op |-> Daemon(dog).op, epoch |-> Daemon(dog).epoch, outcome |-> "UNKNOWN"]
<1>1. /\ Daemon(dog).at = "intend"
      /\ UNCHANGED <<document, flight, mutation, reserved, journal, upkeep, outside, minted, faults>>
  BY DEF Intend, Daemon
<1>2. Engaged(dog) /\ faults' \in 0 .. MaxFaults
  BY <1>1, OwnTypes DEF Engaged
<1>3. ASSUME Stop(dog, "daemon"), UNCHANGED receipt
      PROVE  Inv'
  BY <1>1, <1>2, <1>3, DaemonRests DEF checkpoint
<1>4. ASSUME Entry(action).op # Daemon(dog).op, Entry(action).outcome # "UNKNOWN",
             Receive(dog, action, Daemon(dog).op, Daemon(dog).epoch, "UNKNOWN"),
             Go(dog, "daemon", "begin")
      PROVE  Inv'
  <2>1. /\ OneTask(dog, "daemon") /\ Daemon(dog)'.at = "begin"
        /\ Daemon(dog)'.action = action /\ Daemon(dog)'.op = Daemon(dog).op
        /\ Daemon(dog)'.epoch = Daemon(dog).epoch /\ Mine(dog)' = Mine(dog)
    BY <1>4, DaemonGoes
  <2>2. action \in Actions /\ Daemon(dog).op \in Operations
    BY <1>2, Doing
  <2>3. Unmoved
    BY <1>1 DEF Unmoved, outside
  <2>4. OneReceipt(dog, action, mine)
    BY <1>2, <1>4, Saves DEF Outcome
  <2>5. OneMutation(dog)
    BY <1>1, StillInHand
  <2>6. Sound(dog, action, mine)
    BY <2>2 DEF Sound
  <2>7. ~Holds(dog, action)
    BY <1>4 DEF Holds, Begun
  <2>8. mutation[dog] = NoPlan \/ mutation[dog].action # action
    BY <2>7 DEF Inv, DogInv, InHand
  <2>9. Agrees(dog, action, mine)
    <3>1. document.ledger.kept
      BY <1>1 DEF Inv, DogInv, Working, Offered
    <3>2. \A call \in open : ~(call.dog = dog /\ call.action = action)
      BY <2>7 DEF Inv, Evident
    <3>3. open' = open /\ mutation' = mutation
      BY <1>1 DEF outside
    <3>. QED BY <1>4, <2>8, <3>1, <3>2, <3>3 DEF Agrees
  <2>10. Planned(dog)' /\ OneHand(dog)'
    <3>1. Daemon(dog).at \notin Calm
      BY <1>1 DEF Calm
    <3>. QED BY <2>1, <2>2, <2>3, <2>4, <3>1, ReceivedPlan, DaemonOneHand
             DEF JournalStages, Unmoved
  <2>11. Dated(dog)'
    BY <1>2, <2>1, <2>3, StaysDated DEF Unmoved
  <2>12. Working(dog)'
    <3>1. Offered(dog)'
      BY <1>1, <2>1, <2>3 DEF Offered, Inv, DogInv, Working, Unmoved
    <3>2. Undertaken(dog)'
      BY <1>1, <2>1, <2>4, <2>8 DEF Undertaken, OneReceipt, Mine
    <3>3. Untouched(dog)' /\ Done(dog)'
      BY <2>1 DEF Untouched, Done
    <3>. QED BY <3>1, <3>2, <3>3 DEF Working
  <2> HIDE DEF mine, action
  <2>. QED BY <1>2, <2>1, <2>2, <2>3, <2>4, <2>5, <2>6, <2>9, <2>10, <2>11, <2>12, Received
<1>. QED BY <1>3, <1>4 DEF Intend, Daemon

(* A call is admitted, or its operation refused before it is called.             *)
LEMMA DispatchKeeps ==
  ASSUME Inv, NEW dog \in Dogs, Dispatch(dog)
  PROVE  Inv'
<1> DEFINE action == Daemon(dog).action
           mine == [op |-> Daemon(dog).op, epoch |-> Daemon(dog).epoch,
                    outcome |-> "NOT_DISPATCHED"]
<1>1. /\ Daemon(dog).at = "proceed" /\ action \in External
      /\ UNCHANGED <<document, flight, mutation, reserved, journal, upkeep, outside, minted>>
  BY DEF Dispatch, Daemon
<1>2. /\ Engaged(dog) /\ Daemon(dog).at \notin Calm
      /\ action \in Actions /\ Daemon(dog).op \in Operations
  BY <1>1, Doing DEF Engaged, Calm
<1>3. /\ receipt[dog][action] = Mine(dog) /\ Holds(dog, action)
      /\ calls[action][Daemon(dog).op] = 0
  <2>1. receipt[dog][action] = Mine(dog) /\ Holds(dog, action)
    BY <1>1 DEF Inv, DogInv, Working, Undertaken
  <2>. QED BY <1>1, <2>1 DEF Inv, DogInv, Working, Untouched
<1>4. ASSUME Go(dog, "daemon", "cleared"), UNCHANGED <<receipt, faults>>
      PROVE  Inv'
  <2>1. /\ OneTask(dog, "daemon") /\ Daemon(dog)'.at = "cleared"
        /\ Daemon(dog)'.action = action /\ Daemon(dog)'.op = Daemon(dog).op
        /\ Daemon(dog)'.epoch = Daemon(dog).epoch /\ Mine(dog)' = Mine(dog)
    BY <1>4, DaemonGoes
  <2>2. Still /\ flight' = flight /\ UNCHANGED <<reserved, journal, upkeep>>
    BY <1>1, <1>4 DEF Still, outside
  <2>3. faults' \in 0 .. MaxFaults
    BY <1>4, OwnTypes
  <2>4. Dated(dog)'
    BY <1>2, <2>1, <2>2, StaysDated DEF Still
  <2>5. Working(dog)'
    <3>1. Holds(dog, action)'
      BY <1>3, <2>1, <2>2 DEF Holds, Entry, Still
    <3>2. Offered(dog)'
      BY <2>1 DEF Offered
    <3>3. Undertaken(dog)'
      BY <1>3, <2>1, <2>2, <3>1 DEF Undertaken, Still
    <3>4. Untouched(dog)'
      BY <1>3, <2>1, <2>2 DEF Untouched, Still
    <3>5. Done(dog)'
      BY <1>1, <2>1 DEF Done
    <3>. QED BY <3>2, <3>3, <3>4, <3>5 DEF Working
  <2>. QED BY <1>2, <2>1, <2>2, <2>3, <2>4, <2>5, DaemonMoves DEF JournalStages
<1>5. ASSUME IF Admitted(dog) THEN Fault ELSE UNCHANGED faults,
             Receive(dog, action, Daemon(dog).op, Daemon(dog).epoch, "NOT_DISPATCHED"),
             Stop(dog, "daemon")
      PROVE  Inv'
  <2>1. OneTask(dog, "daemon") /\ Daemon(dog)'.at = "rest"
    BY <1>5, OwnTypes, Stops DEF Daemon, AtRest
  <2>2. Unmoved
    BY <1>1 DEF Unmoved, outside
  <2>3. faults' \in 0 .. MaxFaults
    BY <1>5, OwnTypes, FaultCounts
  <2>4. OneReceipt(dog, action, mine)
    BY <1>2, <1>5, Saves DEF Outcome
  <2>5. OneMutation(dog)
    BY <1>1, StillInHand
  <2>6. Entry(action) = Begun(dog, Daemon(dog).epoch, Daemon(dog).op)
    BY <1>3 DEF Holds, Mine
  <2>7. Sound(dog, action, mine)
    BY <1>1, <1>2, <1>3, <2>6, Given DEF Sound
  <2>8. mutation[dog] = NoPlan \/ mutation[dog].action # action
    BY <1>1, Given DEF Inv, TypeOK
  <2>9. Agrees(dog, action, mine)
    <3>1. document.ledger.kept
      BY <1>2, <1>3 DEF Inv, Ledgered, Mine, NoReceipt
    <3>2. \A call \in open : ~(call.dog = dog /\ call.action = action)
      <4>1. SUFFICES ASSUME NEW call \in open, call.dog = dog, call.action = action
                     PROVE  FALSE
        OBVIOUS
      <4>2. /\ receipt[dog][action] = [op |-> call.op, epoch |-> call.epoch, outcome |-> "UNKNOWN"]
            /\ calls[action][call.op] > 0
        BY <4>1 DEF Inv, Evident
      <4>3. call.op = Daemon(dog).op
        BY <1>3, <4>2 DEF Mine
      <4>. QED BY <1>3, <4>2, <4>3
    <3>3. open' = open /\ mutation' = mutation
      BY <1>1 DEF outside
    <3>4. Entry(action).outcome = "UNKNOWN" /\ receipt[dog][action].outcome = "UNKNOWN"
      BY <1>3, <2>6 DEF Begun, Mine
    <3>. QED BY <2>8, <3>1, <3>2, <3>3, <3>4 DEF Agrees
  <2>10. Planned(dog)' /\ OneHand(dog)'
    BY <1>2, <2>1, <2>2, <2>4, ReceivedPlan, DaemonOneHand DEF JournalStages, Unmoved
  <2>11. Dated(dog)' /\ Working(dog)'
    BY <2>1, Resting DEF Daemon
  <2> HIDE DEF mine, action
  <2>. QED BY <1>2, <2>1, <2>2, <2>3, <2>4, <2>5, <2>7, <2>9, <2>10, <2>11, Received
<1>. QED BY <1>4, <1>5 DEF Dispatch, Daemon

(* An answer: the call is over, unless the answer is that nobody knows.          *)
LEMMA ReturnKeeps ==
  ASSUME Inv, NEW dog \in Dogs, Return(dog)
  PROVE  Inv'
<1> DEFINE action == Daemon(dog).action
<1>1. /\ Daemon(dog).at = "out"
      /\ UNCHANGED <<document, flight, mutation, reserved, journal, upkeep, calls, minted, faults>>
  BY DEF Return, Daemon
<1>2. /\ Engaged(dog) /\ Daemon(dog).at \notin Calm
      /\ action \in Actions /\ Daemon(dog).op \in Operations
  BY <1>1, Doing DEF Engaged, Calm
<1>3. /\ receipt[dog][action] = Mine(dog) /\ Holds(dog, action)
      /\ action \in External /\ calls[action][Daemon(dog).op] > 0
  BY <1>1 DEF Inv, DogInv, Working, Undertaken, Done
<1>4. Unmoved /\ faults' \in 0 .. MaxFaults /\ OneMutation(dog)
  BY <1>1, OwnTypes, StillInHand DEF Unmoved
<1>5. /\ document.ledger.kept
      /\ Entry(action).outcome = "UNKNOWN" /\ receipt[dog][action].outcome = "UNKNOWN"
  BY <1>2, <1>3 DEF Inv, Ledgered, Mine, NoReceipt, Holds, Begun
<1>6. mutation'[dog] = mutation[dog] /\ (mutation[dog] = NoPlan \/ mutation[dog].action # action)
  BY <1>1, <1>3, Given DEF Inv, TypeOK
<1>7. ASSUME Receive(dog, action, Daemon(dog).op, Daemon(dog).epoch, "UNKNOWN"),
             Stop(dog, "daemon"), UNCHANGED open
      PROVE  Inv'
  <2> DEFINE mine == Mine(dog)
  <2>1. OneTask(dog, "daemon") /\ Daemon(dog)'.at = "rest"
    BY <1>7, OwnTypes, Stops DEF Daemon, AtRest
  <2>2. OneReceipt(dog, action, mine)
    BY <1>2, <1>7, Saves DEF Outcome, Mine
  <2>3. Sound(dog, action, mine)
    BY <1>2 DEF Sound, Mine
  <2>4. Agrees(dog, action, mine)
    BY <1>3, <1>5, <1>6, <1>7 DEF Agrees
  <2>5. Planned(dog)' /\ OneHand(dog)'
    BY <1>2, <1>4, <2>1, <2>2, ReceivedPlan, DaemonOneHand DEF JournalStages, Unmoved
  <2>6. Dated(dog)' /\ Working(dog)'
    BY <2>1, Resting DEF Daemon
  <2> HIDE DEF mine, action
  <2>. QED BY <1>2, <1>4, <2>1, <2>2, <2>3, <2>4, <2>5, <2>6, Received
<1>8. ASSUME NEW result \in {"COMPLETE", "NO_WORK"},
             Receive(dog, action, Daemon(dog).op, Daemon(dog).epoch, result),
             open' = open \ Call(dog),
             task' = [task EXCEPT ![dog]["daemon"].at = "settle",
                                  ![dog]["daemon"].outcome = result]
      PROVE  Inv'
  <2> DEFINE mine == [op |-> Daemon(dog).op, epoch |-> Daemon(dog).epoch, outcome |-> result]
  <2>1. OneReceipt(dog, action, mine)
    BY <1>2, <1>8, Saves DEF Outcome
  <2>2. OneTask(dog, "daemon") /\ Daemon(dog)'.at = "settle" /\ Dated(dog)' /\ Working(dog)'
    BY <1>2, <1>4, <1>8, <2>1, Results
  <2>3. Sound(dog, action, mine)
    BY <1>2, <1>3, Given DEF Sound
  <2>4. Agrees(dog, action, mine)
    <3>1. \A call \in open' : ~(call.dog = dog /\ call.action = action)
      <4>1. SUFFICES ASSUME NEW call \in open, call.dog = dog, call.action = action
                     PROVE  call \in Call(dog)
        BY <1>8
      <4>2. receipt[dog][action] = [op |-> call.op, epoch |-> call.epoch, outcome |-> "UNKNOWN"]
        BY <4>1 DEF Inv, Evident
      <4>3. call.op = Daemon(dog).op
        BY <1>3, <4>2 DEF Mine
      <4>. QED BY <4>1, <4>3 DEF Call, Daemon
    <3>. QED BY <1>5, <1>6, <1>8, <3>1 DEF Agrees
  <2>5. Planned(dog)' /\ OneHand(dog)'
    BY <1>2, <1>4, <2>1, <2>2, ReceivedPlan, DaemonOneHand DEF JournalStages, Unmoved
  <2> HIDE DEF mine, action
  <2>. QED BY <1>2, <1>4, <2>1, <2>2, <2>3, <2>4, <2>5, Received
<1>. QED BY <1>7, <1>8 DEF Return, Daemon
-----------------------------------------------------------------------------
(* What was looked for is settled: the record was written, or belongs to an      *)
(* earlier epoch and will not be.                                                *)
LEMMA InspectSharedKeeps ==
  ASSUME Inv, NEW dog \in Dogs, Admitted(dog), mutation[dog] # NoPlan, InspectShared(dog),
         UNCHANGED <<document, flight, reserved, journal, upkeep, outside, minted, faults>>
  PROVE  Inv'
<1> DEFINE plan == mutation[dog]
           action == plan.action
           state == EvaluateRecord(dog, plan)
           outcome == IF state = "CONFIRMED" THEN "COMPLETE" ELSE "SUPERSEDED"
           mine == [op |-> plan.op, epoch |-> plan.epoch, outcome |-> outcome]
           work == [AtRest EXCEPT !.at = "settle", !.action = action, !.op = plan.op,
                                  !.epoch = document.epoch, !.outcome = outcome]
<1>1. /\ plan \in [epoch : Nat \ {0}, action : Shared, op : Operations, before : 0 .. MaxOperations]
      /\ action \in Shared /\ action \in Actions /\ plan.op \in Operations /\ plan.epoch \in Nat
      /\ plan.op \in 0 .. MaxOperations /\ plan.op \in Nat /\ plan.before \in Nat
  BY Given DEF Inv, TypeOK, Actions, Operations
<1>2. /\ receipt[dog][action] = [op |-> plan.op, epoch |-> plan.epoch, outcome |-> "UNKNOWN"]
      /\ Holds(dog, action) /\ plan.before < plan.op /\ plan.epoch <= document.epoch
  <2>1. InHand(dog)
    BY DEF Inv, DogInv
  <2>. QED BY <2>1 DEF InHand, Holds
<1>3. action \in InDoubt(dog)
  BY <1>1, <1>2 DEF InDoubt
<1>4. PICK other \in Shared :
        /\ InDoubt(dog) = {other}
        /\ Receive(dog, other, receipt[dog][other].op, receipt[dog][other].epoch, outcome)
        /\ task' = [task EXCEPT ![dog]["daemon"] =
             [AtRest EXCEPT !.at = "settle", !.action = other, !.op = receipt[dog][other].op,
                            !.epoch = document.epoch, !.outcome = outcome]]
  BY DEF InspectShared
<1>5. other = action
  BY <1>3, <1>4
<1>6. state \in {"CONFIRMED", "SUPERSEDED"} /\ mutation' = [mutation EXCEPT ![dog] = NoPlan]
  BY DEF InspectShared
<1>7. /\ Receive(dog, action, plan.op, plan.epoch, outcome)
      /\ task' = [task EXCEPT ![dog]["daemon"] = work]
  <2>1. receipt[dog][other].op = plan.op /\ receipt[dog][other].epoch = plan.epoch
    <3> HIDE DEF action
    <3>. QED BY <1>2, <1>5
  <2> HIDE DEF outcome, action, plan
  <2>. QED BY <1>4, <1>5, <2>1
<1>8. Unmoved /\ faults' \in 0 .. MaxFaults
  BY OwnTypes DEF Unmoved, outside
<1>9. OneMutation(dog) /\ mutation'[dog] = NoPlan
  BY <1>6 DEF Inv, TypeOK, OneMutation, MutationTypes
<1>10. outcome \in {"COMPLETE", "SUPERSEDED"}
  OBVIOUS
<1>11. OneReceipt(dog, action, mine)
  <2>1. receipt \in [Dogs -> [Actions -> Receipts]] /\ outcome \in Outcome
    BY <1>10 DEF Inv, TypeOK, Outcome
  <2> HIDE DEF outcome, action, plan
  <2>. QED BY <1>1, <1>7, <2>1, Receives DEF OneReceipt
<1>12. document.owner = dog /\ document.epoch \in Nat \ {0} /\ document.phase = "ACTIVE"
       /\ Owns(dog, document.epoch)
  BY DEF Admitted, Owns, Inv, TypeOK, Documents
<1>13. /\ work \in Tasks /\ work.at = "settle" /\ work.action = action /\ work.op = plan.op
       /\ work.epoch = document.epoch /\ work.outcome = outcome
  <2>1. document.epoch \in Nat
    BY <1>12
  <2> HIDE DEF outcome, action, plan
  <2>. QED BY <1>1, <1>10, <2>1 DEF AtRest, Tasks, Outcome
<1>14. OneTask(dog, "daemon") /\ Daemon(dog)' = work
  <2> HIDE DEF work
  <2>. QED BY <1>7, <1>13, Assigned, OwnTypes DEF Daemon
<1>15. plan.before # plan.op
  BY <1>1, <1>2
<1>16. ASSUME state = "CONFIRMED"
       PROVE  Sound(dog, action, mine) /\ \A f \in flight : document.owner = dog => ~Records(f)
  <2>1. document.records[action] = plan.op /\ outcome = "COMPLETE"
    BY <1>15, <1>16, RecordMeans
  <2>2. Sound(dog, action, mine)
    BY <1>1, <2>1, Given DEF Sound
  <2>3. \A f \in flight : document.owner = dog => ~Records(f)
    BY <1>1, <1>15, <2>1 DEF Records
  <2>. QED BY <2>2, <2>3
<1>17. ASSUME state = "SUPERSEDED"
       PROVE  Sound(dog, action, mine) /\ \A f \in flight : document.owner = dog => ~Records(f)
  <2>1. outcome = "SUPERSEDED" /\ ~Owns(dog, plan.epoch)
    BY <1>15, <1>17, RecordMeans
  <2>2. plan.epoch # document.epoch
    BY <1>12, <2>1
  <2>3. plan.epoch < document.epoch
    BY <1>1, <1>2, <1>12, <2>2
  <2>4. Sound(dog, action, mine)
    BY <1>1, <1>2, <2>1, <2>3 DEF Sound, Holds
  <2>5. \A f \in flight : document.owner = dog => ~Records(f)
    BY <2>2 DEF Records
  <2>. QED BY <2>4, <2>5
<1>18. Sound(dog, action, mine) /\ \A f \in flight : document.owner = dog => ~Records(f)
  <2> HIDE DEF mine, state, action, plan
  <2>. QED BY <1>6, <1>16, <1>17
<1>19. Agrees(dog, action, mine)
  <2>1. document.ledger.kept
    BY DEF Inv, Ledgered
  <2>2. Entry(action).outcome = "UNKNOWN" /\ receipt[dog][action].outcome = "UNKNOWN"
    BY <1>2 DEF Holds, Begun
  <2>3. open' = open /\ \A call \in open : call.action # action
    BY <1>1, Given DEF outside, Inv, TypeOK
  <2> HIDE DEF mine, action, plan
  <2>. QED BY <1>9, <1>18, <2>1, <2>2, <2>3 DEF Agrees
<1>20. Daemon(dog)'.at = "settle"
  BY <1>13, <1>14
<1>21. Planned(dog)' /\ OneHand(dog)'
  <2>1. receipt[dog][action].outcome \notin {"COMPLETE", "NO_WORK"}
    BY <1>2
  <2> HIDE DEF mine, action, plan
  <2>. QED BY <1>1, <1>8, <1>11, <1>14, <1>20, <2>1, ReceivedPlan, DaemonOneHand
           DEF Calm, JournalStages, Unmoved
<1>22. Dated(dog)'
  <2>1. document' = document
    BY <1>8 DEF Unmoved
  <2>2. /\ Daemon(dog)'.action \in Actions /\ Daemon(dog)'.op \in Operations
        /\ Daemon(dog)'.epoch = document.epoch
    BY <1>1, <1>13, <1>14
  <2>. QED BY <1>12, <2>1, <2>2 DEF Dated
<1>23. Working(dog)'
  <2>1. Offered(dog)' /\ Undertaken(dog)' /\ Untouched(dog)'
    BY <1>20 DEF Offered, Undertaken, Untouched
  <2>2. /\ Daemon(dog)'.action = action /\ Daemon(dog)'.op = plan.op
        /\ Daemon(dog)'.outcome = outcome /\ receipt'[dog][action] = mine
    BY <1>11, <1>13, <1>14 DEF OneReceipt
  <2>3. mine.op = plan.op /\ mine.outcome = outcome
    OBVIOUS
  <2> HIDE DEF mine, action, plan, outcome
  <2>4. Done(dog)'
    BY <1>10, <1>20, <2>2, <2>3 DEF Done
  <2>. QED BY <2>1, <2>4 DEF Working
<1> HIDE DEF mine, action, plan
<1>. QED BY <1>1, <1>8, <1>9, <1>11, <1>14, <1>18, <1>19, <1>21, <1>22, <1>23, Received

(* A cycle begins with what may be out.                                          *)
LEMMA CycleKeeps ==
  ASSUME Inv, NEW dog \in Dogs, Cycle(dog)
  PROVE  Inv'
<1>1. /\ Daemon(dog).at = "rest" /\ Admitted(dog) /\ mutation[dog] # NoPlan
      /\ UNCHANGED <<document, flight, reserved, journal, upkeep, outside, minted, faults>>
  BY DEF Cycle, Daemon
<1>2. ASSUME Go(dog, "daemon", "ready"), UNCHANGED <<receipt, mutation>>
      PROVE  Inv'
  <2>1. OneTask(dog, "daemon") /\ Daemon(dog)'.at = "ready"
    BY <1>2, DaemonGoes
  <2>2. Dated(dog)' /\ Working(dog)'
    BY <2>1, Resting DEF Daemon
  <2>3. Still /\ flight' = flight /\ UNCHANGED <<reserved, journal, upkeep>>
    BY <1>1, <1>2 DEF Still, outside
  <2>4. faults' \in 0 .. MaxFaults
    BY <1>1, OwnTypes
  <2>. QED BY <2>1, <2>2, <2>3, <2>4, DaemonMoves DEF JournalStages, Calm
<1>3. ASSUME InspectShared(dog)
      PROVE  Inv'
  BY <1>1, <1>3, InspectSharedKeeps
<1>. QED BY <1>2, <1>3 DEF Cycle
-----------------------------------------------------------------------------
(* A record is taken in hand: what a mutation is known by is what it replaces.   *)
LEMMA PrepareKeeps ==
  ASSUME Inv, NEW dog \in Dogs, Prepare(dog)
  PROVE  Inv'
<1> DEFINE action == Daemon(dog).action
           plan == [epoch |-> document.epoch, action |-> action, op |-> Daemon(dog).op,
                    before |-> document.records[action]]
<1>1. /\ Daemon(dog).at = "proceed" /\ action \in Shared /\ Admitted(dog)
      /\ UNCHANGED <<document, flight, receipt, reserved, journal, upkeep, outside, minted, faults>>
  BY DEF Prepare, Daemon
<1>2. /\ Engaged(dog) /\ action \in Actions /\ Daemon(dog).op \in Operations
      /\ faults' \in 0 .. MaxFaults
  BY <1>1, Doing, OwnTypes DEF Engaged
<1>3. ASSUME Stop(dog, "daemon"), UNCHANGED mutation
      PROVE  Inv'
  BY <1>1, <1>2, <1>3, DaemonRests DEF checkpoint
<1>4. ASSUME mutation[dog] = NoPlan, mutation' = [mutation EXCEPT ![dog] = plan],
             Go(dog, "daemon", "record")
      PROVE  Inv'
  <2>1. /\ OneTask(dog, "daemon") /\ Daemon(dog)'.at = "record"
        /\ Daemon(dog)'.action = action /\ Daemon(dog)'.op = Daemon(dog).op
        /\ Daemon(dog)'.epoch = Daemon(dog).epoch /\ Mine(dog)' = Mine(dog)
    BY <1>4, DaemonGoes
  <2>2. /\ receipt[dog][action] = Mine(dog) /\ Holds(dog, action)
        /\ document.records[action] < Daemon(dog).op
    <3>1. receipt[dog][action] = Mine(dog) /\ Holds(dog, action)
      BY <1>1 DEF Inv, DogInv, Working, Undertaken
    <3>. QED BY <1>1, <3>1 DEF Inv, DogInv, Working, Untouched
  <2>3. document.owner = dog /\ document.epoch = Daemon(dog).epoch
    BY <1>1, <1>2 DEF Admitted, Owns, Inv, DogInv, Dated
  <2>4. /\ plan \in [epoch : Nat \ {0}, action : Shared, op : Operations, before : 0 .. MaxOperations]
        /\ plan.action = action /\ plan.op = Daemon(dog).op /\ plan.epoch = document.epoch
        /\ plan.before = document.records[action]
    BY <1>1, <1>2 DEF Inv, TypeOK, Documents
  <2>5. /\ mutation' \in [Dogs -> MutationTypes] /\ mutation'[dog] = plan
        /\ \A d \in Dogs \ {dog} : mutation'[d] = mutation[d]
    <3> HIDE DEF plan
    <3>. QED BY <1>4, <2>4 DEF Inv, TypeOK, MutationTypes
  <2>6. TypeOK'
    BY <1>1, <1>2, <2>1, <2>5 DEF Inv, TypeOK, OneTask, MutationTypes, outside
  <2>7. Ledgered' /\ Counted' /\ Settled' /\ Evident'
    <3>1. document.ledger.kept
      BY <1>2, <2>2 DEF Inv, Ledgered, Mine, NoReceipt
    <3>2. document' = document /\ calls' = calls /\ open' = open /\ minted' = minted
          /\ receipt' = receipt
      BY <1>1 DEF outside
    <3>3. Counted' /\ Evident'
      BY <3>2 DEF Inv, Counted, Evident, Holds, Entry
    <3>4. ASSUME NEW a \in Actions
          PROVE  Reliable(a, Entry(a).op, Entry(a).outcome) =>
                   Reliable(a, Entry(a).op, Entry(a).outcome)'
      BY <1>1 DEF Reliable, Entry, outside
    <3>5. Settled'
      BY <3>2, <3>4 DEF Inv, Settled, Entry
    <3>. QED BY <3>1, <3>2, <3>3, <3>5 DEF Ledgered
  <2>8. Flight'
    <3>1. SUFFICES ASSUME NEW f \in flight
                   PROVE  Legal(f)'
      BY <1>1 DEF Flight
    <3>2. Legal(f) /\ ~Records(f)
      BY <1>4, <2>3 DEF Inv, Flight, Records
    <3>3. document' = document /\ minted' = minted /\ receipt' = receipt
      BY <1>1
    <3>4. Mild(f) => Mild(f)'
      BY <3>3 DEF Mild
    <3>5. Begins(f) => Begins(f)'
      BY <3>3 DEF Begins, Entry
    <3>6. Finishes(f) => Finishes(f)'
      BY <3>3 DEF Finishes, Entry
    <3>. QED BY <3>2, <3>3, <3>4, <3>5, <3>6 DEF Legal
  <2>9. ASSUME NEW d \in Dogs \ {dog}
        PROVE  DogInv(d)'
    <3>1. /\ task'[d] = task[d] /\ Daemon(d)' = Daemon(d) /\ Owner(d)' = Owner(d)
          /\ mutation'[d] = mutation[d] /\ Mine(d)' = Mine(d)
      BY <2>1, <2>5 DEF OneTask, Daemon, Owner, Mine
    <3>2. /\ document' = document /\ receipt' = receipt /\ calls' = calls /\ minted' = minted
          /\ journal' = journal /\ upkeep' = upkeep
      BY <1>1 DEF outside
    <3>3. DogInv(d)
      BY DEF Inv
    <3>4. Receipted(d)' /\ InHand(d)'
      BY <3>1, <3>2, <3>3 DEF DogInv, Receipted, InHand, Holds, Entry
    <3>5. Planned(d)'
      BY <3>1, <3>2, <3>3 DEF DogInv, Planned, Begetting, Ending
    <3>6. Maintained(d)' /\ OneHand(d)' /\ Dated(d)'
      BY <3>1, <3>2, <3>3 DEF DogInv, Maintained, OneHand, Dated, Engaged, Entry
    <3>7. Working(d)'
      BY <3>1, <3>2, <3>3 DEF DogInv, Working, Offered, Undertaken, Untouched, Done, Holds, Entry
    <3>. QED BY <3>4, <3>5, <3>6, <3>7 DEF DogInv
  <2>10. DogInv(dog)'
    <3>1. /\ document' = document /\ receipt' = receipt /\ calls' = calls /\ minted' = minted
          /\ journal' = journal /\ upkeep' = upkeep
      BY <1>1 DEF outside
    <3>2. Holds(dog, action)'
      BY <2>1, <2>2, <3>1 DEF Holds, Entry
    <3>3. Receipted(dog)'
      BY <3>1 DEF Inv, DogInv, Receipted, Holds, Entry
    <3>4. InHand(dog)'
      <4>1. /\ receipt[dog][action] = [op |-> plan.op, epoch |-> plan.epoch, outcome |-> "UNKNOWN"]
            /\ plan.before < plan.op /\ plan.epoch <= document.epoch
        <5>1. document.epoch \in Nat
          BY DEF Inv, TypeOK, Documents
        <5> HIDE DEF plan, action
        <5>. QED BY <2>2, <2>3, <2>4, <5>1 DEF Mine
      <4>2. Daemon(dog)'.action = action
        BY <2>1
      <4> HIDE DEF plan
      <4>. QED BY <2>4, <2>5, <3>1, <3>2, <4>1, <4>2 DEF InHand, Holds, Entry
    <3>5. Planned(dog)'
      <4>1. ~Ending(dog, journal[dog])
        BY <1>1 DEF Ending
      <4>2. Begetting(dog, journal[dog]) => Begetting(dog, journal[dog])'
        BY <3>1 DEF Begetting
      <4>. QED BY <3>1, <4>1, <4>2 DEF Inv, DogInv, Planned
    <3>6. OneHand(dog)' /\ Owner(dog)' = Owner(dog)
      BY <2>1, <3>1, DaemonOneHand DEF JournalStages
    <3>7. Maintained(dog)'
      BY <3>1, <3>6 DEF Inv, DogInv, Maintained, Entry
    <3>8. Dated(dog)'
      BY <1>2, <2>1, <3>1, StaysDated
    <3>9. Working(dog)'
      <4>1. Offered(dog)' /\ Untouched(dog)'
        BY <2>1 DEF Offered, Untouched
      <4>2. Undertaken(dog)'
        BY <2>1, <2>2, <3>1, <3>2 DEF Undertaken
      <4>3. mutation'[dog] # NoPlan
        <5> HIDE DEF plan
        <5>. QED BY <2>4, <2>5 DEF NoPlan
      <4>4. Done(dog)'
        <5> HIDE DEF plan
        <5>. QED BY <2>1, <2>3, <2>4, <2>5, <4>3 DEF Done
      <4>. QED BY <4>1, <4>2, <4>4 DEF Working
    <3>. QED BY <3>3, <3>4, <3>5, <3>6, <3>7, <3>8, <3>9 DEF DogInv
  <2>. QED BY <2>6, <2>7, <2>8, <2>9, <2>10 DEF Inv
<1>. QED BY <1>3, <1>4 DEF Prepare, Daemon
-----------------------------------------------------------------------------
(* The call is made, for the first time: the ledger has what it is for, and no    *)
(* other dog can have that there.                                                *)
LEMMA InvokeKeeps ==
  ASSUME Inv, NEW dog \in Dogs, Invoke(dog)
  PROVE  Inv'
<1> DEFINE action == Daemon(dog).action
           op == Daemon(dog).op
           new == [dog |-> dog, action |-> action, op |-> op, epoch |-> Daemon(dog).epoch]
<1>1. /\ Daemon(dog).at = "cleared" /\ open' = open \cup {new}
      /\ calls' = [calls EXCEPT ![action][op] = @ + 1] /\ Go(dog, "daemon", "out")
      /\ UNCHANGED <<document, flight, receipt, mutation, reserved, journal, upkeep, minted, faults>>
  BY DEF Invoke, Daemon, checkpoint
<1>2. /\ Engaged(dog) /\ action \in Actions /\ op \in Operations
      /\ Daemon(dog).epoch \in Nat
  BY <1>1, Doing DEF Engaged
<1>3. action \in External /\ receipt[dog][action] = Mine(dog) /\ Holds(dog, action)
  BY <1>1 DEF Inv, DogInv, Working, Undertaken, Done
<1>4. calls[action][op] = 0
  BY <1>1, <1>3 DEF Inv, DogInv, Working, Untouched
<1>5. Entry(action) = Begun(dog, Daemon(dog).epoch, op)
  BY <1>3 DEF Holds, Mine
<1>6. /\ OneTask(dog, "daemon") /\ Daemon(dog)'.at = "out"
      /\ Daemon(dog)'.action = action /\ Daemon(dog)'.op = op
      /\ Daemon(dog)'.epoch = Daemon(dog).epoch /\ Mine(dog)' = Mine(dog)
  BY <1>1, DaemonGoes
<1>7. /\ calls' \in [External -> [Operations -> Nat]] /\ calls'[action][op] = 1
      /\ \A a \in External, o \in Operations : a # action \/ o # op => calls'[a][o] = calls[a][o]
  <2> HIDE DEF action, op
  <2>. QED BY <1>1, <1>2, <1>3, <1>4 DEF Inv, TypeOK
<1>8. \A a \in External, o \in Operations : calls[a][o] > 0 => calls'[a][o] > 0
  <2> HIDE DEF action, op
  <2>. QED BY <1>7
<1>9. TypeOK'
  <2>1. new \in [dog : Dogs, action : External, op : Operations, epoch : Nat]
    BY <1>2, <1>3
  <2> HIDE DEF new
  <2>. QED BY <1>1, <1>6, <1>7, <2>1 DEF Inv, TypeOK, OneTask
<1>10. Ledgered' /\ Flight'
  <2>1. Ledgered'
    BY <1>1 DEF Inv, Ledgered
  <2>2. ASSUME NEW f \in flight
        PROVE  Legal(f)'
    <3>1. document' = document /\ minted' = minted /\ receipt' = receipt /\ mutation' = mutation
      BY <1>1
    <3>2. Mild(f) => Mild(f)'
      BY <3>1 DEF Mild
    <3>3. Begins(f) => Begins(f)'
      BY <3>1 DEF Begins, Entry
    <3>4. Finishes(f) => Finishes(f)'
      BY <3>1 DEF Finishes, Entry
    <3>5. Records(f) => Records(f)'
      BY <3>1 DEF Records
    <3>. QED BY <3>1, <3>2, <3>3, <3>4, <3>5 DEF Inv, Flight, Legal
  <2>. QED BY <1>1, <2>1, <2>2 DEF Flight
<1>11. Counted'
  <2>1. ASSUME NEW a \in External, NEW o \in Operations
        PROVE  calls'[a][o] <= 1 /\ (o > Entry(a).op => calls'[a][o] = 0)
    <3>1. CASE a = action /\ o = op
      <4>1. Entry(action).op = op
        BY <1>5 DEF Begun
      <4>2. op \in Nat
        BY <1>2, Given DEF Operations
      <4>3. ~(op > op)
        BY <4>2
      <4> HIDE DEF action, op
      <4>. QED BY <1>7, <3>1, <4>1, <4>3
    <3>2. CASE a # action \/ o # op
      BY <1>7, <3>2 DEF Inv, Counted
    <3>. QED BY <3>1, <3>2
  <2>. QED BY <1>1, <2>1 DEF Inv, Counted, Entry
<1>12. Settled'
  <2>1. ASSUME NEW a \in Actions, NEW o \in Operations, NEW outcome \in {"COMPLETE", "NO_WORK"},
               Reliable(a, o, outcome)
        PROVE  Reliable(a, o, outcome)'
    BY <1>1, <1>8, <2>1, Given DEF Reliable
  <2>2. ASSUME NEW a \in Actions, Entry(a).outcome \in {"COMPLETE", "NO_WORK"}
        PROVE  Reliable(a, Entry(a).op, Entry(a).outcome)'
    <3>1. /\ Entry(a).op \in Operations /\ Reliable(a, Entry(a).op, Entry(a).outcome)
      BY <2>2 DEF Inv, Settled
    <3>2. PICK o, outcome : o = Entry(a).op /\ outcome = Entry(a).outcome
      OBVIOUS
    <3>3. Reliable(a, o, outcome)'
      BY <2>1, <2>2, <3>1, <3>2
    <3>4. Entry(a)' = Entry(a)
      BY <1>1 DEF Entry
    <3>. QED BY <3>2, <3>3, <3>4
  <2>3. \A a : Entry(a)' = Entry(a)
    BY <1>1 DEF Entry
  <2>. QED BY <1>1, <2>2, <2>3 DEF Inv, Settled
<1>13. Evident'
  <2>1. ASSUME NEW call \in open
        PROVE  /\ receipt[call.dog][call.action] =
                    [op |-> call.op, epoch |-> call.epoch, outcome |-> "UNKNOWN"]
               /\ Holds(call.dog, call.action) /\ calls'[call.action][call.op] > 0
    <3>1. call.action \in External /\ call.op \in Operations
      BY DEF Inv, TypeOK
    <3>. QED BY <1>8, <3>1 DEF Inv, Evident
  <2>2. /\ receipt[new.dog][new.action] =
             [op |-> new.op, epoch |-> new.epoch, outcome |-> "UNKNOWN"]
        /\ Holds(new.dog, new.action) /\ calls'[new.action][new.op] > 0
    BY <1>3, <1>7 DEF Mine
  <2>3. \A call \in open' :
          /\ receipt[call.dog][call.action] =
               [op |-> call.op, epoch |-> call.epoch, outcome |-> "UNKNOWN"]
          /\ Holds(call.dog, call.action) /\ calls'[call.action][call.op] > 0
    <3> HIDE DEF new
    <3>. QED BY <1>1, <2>1, <2>2
  <2>. QED BY <1>1, <2>3 DEF Evident, Holds, Entry
<1>14. ASSUME NEW d \in Dogs, NEW a \in Actions, Holds(d, a), d # dog \/ a # action
       PROVE  \A o \in Operations : a \in External => calls'[a][o] = calls[a][o]
  <2>1. a # action
    BY <1>5, <1>14 DEF Holds, Begun
  <2>. QED BY <1>7, <2>1
<1>15. ASSUME NEW d \in Dogs
       PROVE  Receipted(d)'
  <2>1. SUFFICES ASSUME NEW a \in Actions
                 PROVE  /\ a \in External /\ receipt[d][a].outcome \in {"COMPLETE", "NO_WORK"} =>
                             calls'[a][receipt[d][a].op] > 0
                        /\ receipt[d][a].outcome = "NOT_DISPATCHED" =>
                             calls'[a][receipt[d][a].op] = 0
    BY <1>1 DEF Inv, DogInv, Receipted, Holds, Entry
  <2>2. /\ receipt[d][a].outcome # "NONE" => receipt[d][a].op \in Operations
        /\ a \in External /\ receipt[d][a].outcome \in {"COMPLETE", "NO_WORK"} =>
             calls[a][receipt[d][a].op] > 0
        /\ receipt[d][a].outcome = "NOT_DISPATCHED" =>
             a \in External /\ Holds(d, a) /\ calls[a][receipt[d][a].op] = 0
    BY DEF Inv, DogInv, Receipted
  <2>3. ASSUME a \in External, receipt[d][a].outcome \in {"COMPLETE", "NO_WORK"}
        PROVE  calls'[a][receipt[d][a].op] > 0
    BY <1>8, <2>2, <2>3
  <2>4. ASSUME receipt[d][a].outcome = "NOT_DISPATCHED"
        PROVE  calls'[a][receipt[d][a].op] = 0
    <3>1. d # dog \/ a # action
      BY <1>3, <2>4 DEF Mine
    <3>2. Holds(d, a) /\ a \in External /\ receipt[d][a].op \in Operations
          /\ calls[a][receipt[d][a].op] = 0
      BY <2>2, <2>4
    <3>. QED BY <1>14, <3>1, <3>2
  <2>. QED BY <2>3, <2>4
<1>16. ASSUME NEW d \in Dogs
       PROVE  InHand(d)'
  BY <1>1 DEF Inv, DogInv, InHand, Holds, Entry
<1>17. ASSUME NEW d \in Dogs \ {dog}
       PROVE  DogInv(d)'
  <2>1. /\ task'[d] = task[d] /\ Daemon(d)' = Daemon(d) /\ Owner(d)' = Owner(d)
        /\ Mine(d)' = Mine(d)
    BY <1>6 DEF OneTask, Daemon, Owner, Mine
  <2>2. DogInv(d)
    BY DEF Inv
  <2>3. Planned(d)'
    BY <1>1, <2>1, <2>2 DEF DogInv, Planned, Begetting, Ending
  <2>4. Maintained(d)' /\ OneHand(d)' /\ Dated(d)'
    BY <1>1, <2>1, <2>2 DEF DogInv, Maintained, OneHand, Dated, Engaged, Entry
  <2>5. Offered(d)' /\ Undertaken(d)'
    BY <1>1, <2>1, <2>2 DEF DogInv, Working, Offered, Undertaken, Holds, Entry
  <2>6. Engaged(d) => Daemon(d).action \in Actions /\ Daemon(d).op \in Operations
    BY Doing
  <2>7. Untouched(d)'
    <3>1. Holds(d, Daemon(d).action)' => Holds(d, Daemon(d).action)
      BY <1>1, <2>1 DEF Holds, Entry
    <3>2. \A a, o : a = Daemon(d).action /\ o = Daemon(d).op /\ Holds(d, a) /\ Engaged(d)
                      /\ a \in External => calls'[a][o] = calls[a][o]
      BY <1>14, <2>6
    <3>. QED BY <1>1, <2>1, <2>2, <3>1, <3>2 DEF DogInv, Working, Untouched, Engaged
  <2>8. Done(d)'
    <3>1. Daemon(d).at = "out" =>
            /\ Daemon(d).action \in External /\ Daemon(d).op \in Operations
            /\ calls'[Daemon(d).action][Daemon(d).op] > 0
      BY <1>8, <2>2, <2>6 DEF DogInv, Working, Done, Engaged
    <3>. QED BY <1>1, <2>1, <2>2, <3>1 DEF DogInv, Working, Done
  <2>. QED BY <1>15, <1>16, <2>3, <2>4, <2>5, <2>7, <2>8 DEF DogInv, Working
<1>18. DogInv(dog)'
  <2>1. Planned(dog)'
    <3>1. ~Ending(dog, journal[dog])
      BY <1>1 DEF Ending
    <3>2. Begetting(dog, journal[dog]) => Begetting(dog, journal[dog])'
      BY <1>1 DEF Begetting
    <3>. QED BY <1>1, <3>1, <3>2 DEF Inv, DogInv, Planned
  <2>2. OneHand(dog)' /\ Owner(dog)' = Owner(dog)
    BY <1>1, <1>6, DaemonOneHand DEF JournalStages
  <2>3. Maintained(dog)'
    BY <1>1, <2>2 DEF Inv, DogInv, Maintained, Entry
  <2>4. Dated(dog)'
    BY <1>1, <1>2, <1>6, StaysDated
  <2>5. Working(dog)'
    <3>1. Offered(dog)' /\ Untouched(dog)'
      BY <1>6 DEF Offered, Untouched
    <3>2. Holds(dog, action)'
      BY <1>1, <1>3, <1>6 DEF Holds, Entry
    <3>3. Undertaken(dog)'
      BY <1>1, <1>3, <1>6, <3>2 DEF Undertaken
    <3>4. Done(dog)'
      BY <1>3, <1>6, <1>7 DEF Done
    <3>. QED BY <3>1, <3>3, <3>4 DEF Working
  <2>. QED BY <1>15, <1>16, <2>1, <2>2, <2>3, <2>4, <2>5 DEF DogInv
<1>. QED BY <1>9, <1>10, <1>11, <1>12, <1>13, <1>17, <1>18 DEF Inv
-----------------------------------------------------------------------------
(* An operation is offered, a new one or the newest again: what was offered       *)
(* before is no more than what is offered now, and only who leads is offered one. *)
LEMMA PerformKeeps ==
  ASSUME Inv, NEW dog \in Dogs, Perform(dog)
  PROVE  Inv'
<1>1. PICK action \in Actions, op \in Operations :
        /\ op = minted[action] \/ op = minted[action] + 1
        /\ receipt[dog][action].op # op /\ receipt[dog][action].outcome # "UNKNOWN"
        /\ minted' = [minted EXCEPT ![action] = op]
        /\ journal[dog] = NoPlan
        /\ task' = [task EXCEPT ![dog]["daemon"] =
             [AtRest EXCEPT !.at = IF document.ledger.kept THEN "intend" ELSE "ensure",
                            !.action = action, !.op = op, !.epoch = document.epoch]]
        /\ IF document.ledger.kept THEN UNCHANGED journal ELSE FirstLedger(dog)
  BY DEF Perform
<1>2. /\ Admitted(dog)
      /\ UNCHANGED <<document, flight, receipt, mutation, reserved, upkeep, open, calls, faults>>
  BY DEF Perform, checkpoint, outside
<1> DEFINE at == IF document.ledger.kept THEN "intend" ELSE "ensure"
           work == [AtRest EXCEPT !.at = at, !.action = action, !.op = op, !.epoch = document.epoch]
<1>3. document.owner = dog /\ document.epoch \in Nat \ {0} /\ op \in 0 .. MaxOperations
      /\ op \in Nat
  BY <1>2, Given DEF Admitted, Owns, Inv, TypeOK, Documents
<1>4. /\ work \in Tasks /\ work.at = at /\ work.action = action /\ work.op = op
      /\ work.epoch = document.epoch
  <2>1. document.epoch \in Nat /\ at \in {"intend", "ensure"}
    BY <1>3
  <2> HIDE DEF at
  <2>. QED BY <1>3, <2>1 DEF AtRest, Tasks, Outcome, WriteStages, JournalStages
<1>5. OneTask(dog, "daemon") /\ Daemon(dog)' = work
  <2>1. task' = [task EXCEPT ![dog]["daemon"] = work]
    BY <1>1
  <2> HIDE DEF work
  <2>. QED BY <1>4, <2>1, Assigned, OwnTypes DEF Daemon
<1>6. /\ minted' \in [Actions -> 0 .. MaxOperations] /\ minted'[action] = op
      /\ \A a \in Actions : minted[a] \in Nat /\ minted'[a] \in Nat /\ minted[a] <= minted'[a]
      /\ \A a \in Actions : a # action => minted'[a] = minted[a]
  <2>1. minted \in [Actions -> 0 .. MaxOperations] /\ MaxOperations \in Nat
    BY Given DEF Inv, TypeOK
  <2>. QED BY <1>1, <1>3, <2>1
<1>7. /\ journal' \in [Dogs -> {NoPlan} \cup JournalPlans]
      /\ \A d \in Dogs \ {dog} : journal'[d] = journal[d]
      /\ ~document.ledger.kept => journal'[dog] # NoPlan
      /\ \/ journal'[dog] = NoPlan
         \/ journal'[dog].after.kept /\ journal'[dog].after.entries = journal'[dog].before.entries
  <2>1. CASE document.ledger.kept
    BY <1>1, <2>1, OwnTypes
  <2>2. CASE ~document.ledger.kept
    BY <1>1, <2>2, FirstPlan
  <2>. QED BY <2>1, <2>2
<1>8. TypeOK'
  BY <1>2, <1>5, <1>6, <1>7 DEF Inv, TypeOK, OneTask, JournalPlans
<1>9. Ledgered' /\ Counted'
  <2>1. \A a \in Actions : Entry(a).op <= minted'[a]
    <3>1. \A a \in Actions : Entry(a).op \in Nat /\ Entry(a).op <= minted[a]
      BY Given DEF Inv, TypeOK, Documents, Ledger, Entry, Counted
    <3>. QED BY <1>6, <3>1
  <2>. QED BY <1>2, <2>1 DEF Inv, Ledgered, Counted, Entry
<1>10. Settled' /\ Evident'
  <2>1. Evident'
    BY <1>2 DEF Inv, Evident, Holds, Entry
  <2>2. Settled'
    BY <1>2 DEF Inv, Settled, Entry, Reliable
  <2>. QED BY <2>1, <2>2
<1>11. Flight'
  <2>1. SUFFICES ASSUME NEW f \in flight
                 PROVE  Legal(f)'
    BY <1>2 DEF Flight
  <2>2. Legal(f)
    BY DEF Inv, Flight
  <2>3. document' = document /\ receipt' = receipt /\ mutation' = mutation
    BY <1>2
  <2>4. Mild(f) => Mild(f)'
    BY <2>3 DEF Mild
  <2>5. ASSUME Begins(f)
        PROVE  Begins(f)'
    <3>1. PICK a \in Actions, o \in Operations :
            /\ Entry(a).op < o /\ o <= minted[a] /\ Entry(a).outcome # "UNKNOWN"
            /\ f.ledger.entries =
                 [document.ledger.entries EXCEPT ![a] = Begun(document.owner, document.epoch, o)]
      BY <2>5 DEF Begins
    <3>2. o <= minted'[a]
      <4>1. o \in Nat
        BY Given DEF Operations
      <4>. QED BY <1>6, <3>1, <4>1
    <3>. QED BY <2>3, <2>5, <3>1, <3>2 DEF Begins, Entry
  <2>6. Finishes(f) => Finishes(f)'
    BY <2>3 DEF Finishes, Entry
  <2>7. Records(f) => Records(f)'
    BY <2>3 DEF Records
  <2>. QED BY <2>2, <2>3, <2>4, <2>5, <2>6, <2>7 DEF Legal
<1>12. ASSUME NEW d \in Dogs
       PROVE  Receipted(d)' /\ InHand(d)'
  BY <1>2 DEF Inv, DogInv, Receipted, InHand, Holds, Entry
<1>13. ASSUME NEW d \in Dogs \ {dog}
       PROVE  DogInv(d)'
  <2>1. /\ task'[d] = task[d] /\ Daemon(d)' = Daemon(d) /\ Owner(d)' = Owner(d)
        /\ Mine(d)' = Mine(d) /\ journal'[d] = journal[d]
    BY <1>5, <1>7 DEF OneTask, Daemon, Owner, Mine
  <2>2. DogInv(d)
    BY DEF Inv
  <2>3. Planned(d)'
    <3>1. ASSUME NEW plan, Begetting(d, plan)
          PROVE  Begetting(d, plan)'
      <4>1. PICK a \in Actions, o \in Operations :
              /\ plan.before.entries[a].op < o /\ o <= minted[a]
              /\ plan.before.entries[a].outcome # "UNKNOWN"
              /\ plan.after.entries = [plan.before.entries EXCEPT ![a] = Begun(d, plan.epoch, o)]
        BY <3>1 DEF Begetting
      <4>2. o <= minted'[a]
        <5>1. o \in Nat
          BY Given DEF Operations
        <5>. QED BY <1>6, <4>1, <5>1
      <4>. QED BY <3>1, <4>1, <4>2 DEF Begetting
    <3>2. \A plan : Ending(d, plan) => Ending(d, plan)'
      BY <1>2, <2>1 DEF Ending
    <3>. QED BY <2>1, <2>2, <3>1, <3>2 DEF DogInv, Planned
  <2>4. Maintained(d)' /\ OneHand(d)' /\ Dated(d)'
    BY <1>2, <2>1, <2>2 DEF DogInv, Maintained, OneHand, Dated, Engaged, Entry
  <2>5. Offered(d)'
    <3>1. Engaged(d) => document.epoch # Daemon(d).epoch
      BY <1>3, <2>2 DEF DogInv, Dated
    <3>. QED BY <1>2, <2>1, <2>2, <3>1 DEF DogInv, Working, Offered, Engaged
  <2>6. Undertaken(d)' /\ Untouched(d)' /\ Done(d)'
    BY <1>2, <2>1, <2>2 DEF DogInv, Working, Undertaken, Untouched, Done, Holds, Entry
  <2>. QED BY <1>12, <2>3, <2>4, <2>5, <2>6 DEF DogInv, Working
<1>14. DogInv(dog)'
  <2>1. Planned(dog)'
    BY <1>7, QuietPlan
  <2>2. Owner(dog)' = Owner(dog)
    BY <1>5 DEF OneTask, Owner, Hands
  <2>3. Daemon(dog)'.at = at
    BY <1>4, <1>5
  <2>4. OneHand(dog)'
    <3>1. Owner(dog).at \notin JournalStages \cup {"record", "start", "finish"}
      BY <1>1 DEF Inv, DogInv, OneHand, Owner, Hands
    <3>. QED BY <1>7, <2>2, <2>3, <3>1 DEF OneHand, JournalStages, Daemon, Owner, Hands
  <2>5. Maintained(dog)'
    BY <1>2, <2>2 DEF Inv, DogInv, Maintained, Entry
  <2>6. /\ Daemon(dog)'.action = action /\ Daemon(dog)'.op = op
        /\ Daemon(dog)'.epoch = document.epoch
    BY <1>4, <1>5
  <2>7. Dated(dog)'
    BY <1>2, <1>3, <2>6 DEF Dated
  <2>8. Working(dog)'
    <3>1. Offered(dog)'
      BY <1>1, <1>2, <1>6, <2>3, <2>6 DEF Offered
    <3>2. Undertaken(dog)' /\ Untouched(dog)' /\ Done(dog)'
      BY <2>3 DEF Undertaken, Untouched, Done
    <3>. QED BY <3>1, <3>2 DEF Working
  <2>. QED BY <1>12, <2>1, <2>4, <2>5, <2>7, <2>8 DEF DogInv
<1>. QED BY <1>8, <1>9, <1>10, <1>11, <1>13, <1>14 DEF Inv
-----------------------------------------------------------------------------
(* The parts hold at first.                                                      *)
LEMMA InitInv ==
  ASSUME Init
  PROVE  Inv
<1>1. /\ document.owner \in Dogs /\ document.epoch = 1 /\ document.asked = FALSE
      /\ document.phase = "ACTIVE" /\ document.ledger = NoLedger
      /\ document.records = [action \in Shared |-> 0]
      /\ document \in [owner : Dogs, epoch : {1}, asked : {FALSE}, phase : {"ACTIVE"},
                       ledger : {NoLedger}, records : {[action \in Shared |-> 0]}]
  BY DEF Init
<1>2. NoEntry \in [owner : Dogs \cup {Nobody}, epoch : Nat, op : 0 .. MaxOperations,
                   outcome : Outcome]
  BY Given DEF NoEntry, Outcome
<1>3. NoLedger \in Ledger /\ NoLedger.kept = FALSE
      /\ NoLedger.entries = [action \in Actions |-> NoEntry]
  <2>1. [action \in Actions |-> NoEntry] \in
          [Actions -> [owner : Dogs \cup {Nobody}, epoch : Nat, op : 0 .. MaxOperations,
                       outcome : Outcome]]
    BY <1>2
  <2>. QED BY <2>1 DEF NoLedger, NoBarrier, Ledger
<1>4. document \in Documents
  <2>1. /\ [action \in Shared |-> 0] \in [Shared -> 0 .. MaxOperations]
        /\ 1 \in Nat \ {0} /\ FALSE \in BOOLEAN
    BY Given
  <2> DEFINE records == [action \in Shared |-> 0]
  <2>2. PICK owner \in Dogs :
          document = [owner |-> owner, epoch |-> 1, asked |-> FALSE, phase |-> "ACTIVE",
                      ledger |-> NoLedger, records |-> records]
    BY <1>1
  <2> HIDE DEF records
  <2>. QED BY <1>3, <2>1, <2>2 DEF Documents, records
<1>5. /\ \A d \in Dogs : mutation[d] = NoPlan /\ journal[d] = NoPlan /\ upkeep[d] = NoUpkeep
      /\ \A d \in Dogs, action \in Actions : receipt[d][action] = NoReceipt
      /\ \A d \in Dogs : receipt[d] = [action \in Actions |-> NoReceipt]
      /\ \A d \in Dogs : Daemon(d) = AtRest /\ Owner(d) = AtRest
      /\ \A action \in Actions : minted[action] = 0 /\ Entry(action) = NoEntry
      /\ \A action \in External, op \in Operations : calls[action][op] = 0
      /\ open = {} /\ flight = {}
  BY <1>1, <1>3 DEF Init, Daemon, Owner, Hands, Entry
<1>6. TypeOK
  <2>1. receipt \in [Dogs -> [Actions -> Receipts]]
    <3>1. NoReceipt \in Receipts
      BY Given DEF NoReceipt, Receipts, Outcome
    <3>. QED BY <3>1 DEF Init
  <2>2. task \in [Dogs -> [Hands -> Tasks]]
    <3>1. AtRest \in Tasks
      BY Given DEF AtRest, Tasks, Outcome
    <3>. QED BY <3>1 DEF Init
  <2>3. upkeep \in [Dogs -> Upkeeps]
    BY DEF Init, NoUpkeep, Upkeeps, NoPlan
  <2>4. calls \in [External -> [Operations -> Nat]] /\ minted \in [Actions -> 0 .. MaxOperations]
        /\ faults \in 0 .. MaxFaults /\ reserved \in [Dogs -> BOOLEAN]
    BY Given DEF Init
  <2>5. mutation \in [Dogs -> {NoPlan}] /\ journal \in [Dogs -> {NoPlan}]
    BY DEF Init
  <2>. QED BY <1>4, <1>5, <2>1, <2>2, <2>3, <2>4, <2>5 DEF TypeOK, Upkeeps, UpkeepPlans
<1>7. Ledgered /\ Counted /\ Settled /\ Evident /\ Flight
  <2>1. Ledgered
    BY <1>1, <1>3, <1>5 DEF Ledgered
  <2>2. Counted
    BY <1>1, <1>5 DEF Counted, NoEntry, Actions
  <2>3. Settled
    BY <1>5 DEF Settled, NoEntry
  <2>. QED BY <1>5, <2>1, <2>2, <2>3 DEF Evident, Flight
<1>8. ASSUME NEW d \in Dogs
      PROVE  DogInv(d)
  <2>1. Receipted(d) /\ InHand(d) /\ Planned(d)
    BY <1>5 DEF Receipted, InHand, Planned, NoReceipt
  <2>2. Maintained(d) /\ OneHand(d)
    BY <1>5 DEF Maintained, OneHand, NoUpkeep, AtRest, JournalStages, Daemon, Owner, Hands
  <2>3. Dated(d) /\ Working(d)
    BY <1>5 DEF Dated, Engaged, Working, Offered, Undertaken, Untouched, Done, AtRest
  <2>. QED BY <2>1, <2>2, <2>3 DEF DogInv
<1>. QED BY <1>6, <1>7, <1>8 DEF Inv

(* A step that changes nothing.                                                  *)
LEMMA SameKeeps ==
  ASSUME Inv, UNCHANGED vars
  PROVE  Inv'
<1>1. Still /\ flight' = flight /\ UNCHANGED <<reserved, journal, upkeep, task, faults>>
  BY DEF vars, Still, checkpoint, outside
<1>2. SUFFICES ASSUME NEW dog \in Dogs
               PROVE  Inv'
  BY DEF Inv, TypeOK, Documents
<1>3. TypedOwn /\ OneDog(dog) /\ Permitted
  BY <1>1, OwnTypes DEF TypedOwn, OneDog, Permitted
<1>4. Planned(dog)' /\ Maintained(dog)'
  BY <1>1, SamePlan, SameUpkeep DEF Daemon, Owner
<1>5. OneHand(dog)'
  BY <1>1 DEF Inv, DogInv, OneHand, Daemon, Owner
<1>6. Dated(dog)' /\ Working(dog)'
  BY <1>1, Beside
<1>. QED BY <1>1, <1>3, <1>4, <1>5, <1>6, StillKeeps

(* Every step keeps them.                                                        *)
LEMMA NextInv ==
  ASSUME Inv, [Next]_vars
  PROVE  Inv'
<1>1. CASE UNCHANGED vars
  BY <1>1, SameKeeps
<1>2. ASSUME NEW dog \in Dogs, DaemonStep(dog)
      PROVE  Inv'
  BY <1>2, CycleKeeps, PerformKeeps, IntendKeeps, StartKeeps, PrepareKeeps, DispatchKeeps,
     InvokeKeeps, ReturnKeeps, SettleKeeps, FailsKeeps DEF DaemonStep
<1>3. ASSUME NEW dog \in Dogs, OwnerStep(dog)
      PROVE  Inv'
  BY <1>3, BeginKeeps, EnsureKeeps, BaselineKeeps, InspectUpkeepKeeps, CertifyKeeps,
     ApproveKeeps, ResolveKeeps DEF OwnerStep
<1>4. ASSUME NEW dog \in Dogs, TakeOver(dog)
      PROVE  Inv'
  BY <1>4, TakeOverKeeps
<1>5. ASSUME NEW dog \in Dogs, NEW hand \in Hands,
             Write(dog, hand) \/ ReadBack(dog, hand) \/ Interrupted(dog, hand)
      PROVE  Inv'
  BY <1>5, WriteKeeps, ReadBackKeeps, InterruptedKeeps
<1>6. CASE Asked \/ Land
  BY <1>6, AskedKeeps, LandKeeps
<1>. QED BY <1>1, <1>2, <1>3, <1>4, <1>5, <1>6 DEF Next

(* They hold always.                                                             *)
LEMMA InvHolds == Spec => []Inv
<1>1. Init => Inv
  BY InitInv
<1>2. Inv /\ [Next]_vars => Inv'
  BY NextInv
<1>. QED BY <1>1, <1>2, PTL DEF Spec
-----------------------------------------------------------------------------
(* The variables have their types (the checkpoint, the two WALs and the shared   *)
(* document as the code declares them).                                          *)
THEOREM WorkTyped == Spec => []TypeOK
<1>1. Inv => TypeOK
  BY DEF Inv
<1>. QED BY <1>1, InvHolds, PTL

(* A call that is not over has its own UNKNOWN entry in the ledger and in the    *)
(* checkpoint it was made from, and no operation is called twice                 *)
(* (NativeWatchdogRuntime.perform, Effects.start and finish).                    *)
THEOREM CallsStayInEvidence == Spec => []CallsAreEvidenced
<1>1. ASSUME Inv
      PROVE  CallsAreEvidenced
  <2>1. ASSUME NEW call \in open
        PROVE  /\ Entry(call.action) = [owner |-> call.dog, epoch |-> call.epoch,
                                        op |-> call.op, outcome |-> "UNKNOWN"]
               /\ receipt[call.dog][call.action].op = call.op
               /\ receipt[call.dog][call.action].outcome = "UNKNOWN"
    <3>1. /\ receipt[call.dog][call.action] =
               [op |-> call.op, epoch |-> call.epoch, outcome |-> "UNKNOWN"]
          /\ Holds(call.dog, call.action)
      BY <1>1 DEF Inv, Evident
    <3>. QED BY <3>1 DEF Holds, Begun
  <2>2. \A action \in External, op \in Operations : calls[action][op] <= 1
    BY <1>1 DEF Inv, Counted
  <2>. QED BY <2>1, <2>2 DEF CallsAreEvidenced
<1>. QED BY <1>1, InvHolds, PTL

(* What makes a receipt reliable, by its outcome.                                *)
LEMMA ReliableWhen ==
  ASSUME NEW action \in Actions, NEW op, NEW outcome,
         action \in Shared /\ outcome = "COMPLETE" => document.records[action] >= op,
         action \in Shared /\ outcome = "SUPERSEDED" =>
           \/ document.records[action] = op
           \/ \A desired \in flight : desired.records[action] # op,
         action \in External /\ outcome = "NOT_DISPATCHED" => calls[action][op] = 0,
         action \in External /\ outcome \in {"COMPLETE", "NO_WORK"} => calls[action][op] > 0
  PROVE  Reliable(action, op, outcome)
<1> DEFINE written == action \in Shared /\ outcome = "COMPLETE"
           passed == action \in Shared /\ outcome = "SUPERSEDED"
           refused == action \in External /\ outcome = "NOT_DISPATCHED"
           called == action \in External /\ outcome \in {"COMPLETE", "NO_WORK"}
           P == document.records[action] >= op
           Q == \/ document.records[action] = op
                \/ \A desired \in flight : desired.records[action] # op
           R == calls[action][op] = 0
           S == calls[action][op] > 0
<1>1. (written => P) /\ (passed => Q) /\ (refused => R) /\ (called => S)
  OBVIOUS
<1>2. /\ ~(written /\ (passed \/ refused \/ called)) /\ ~(passed /\ (refused \/ called))
      /\ ~(refused /\ called)
  BY Given
<1>3. Reliable(action, op, outcome) =
        (CASE written -> P [] passed -> Q [] refused -> R [] called -> S [] OTHER -> TRUE)
  BY DEF Reliable
<1> HIDE DEF written, passed, refused, called, P, Q, R, S
<1>4. (CASE written -> P [] passed -> Q [] refused -> R [] called -> S [] OTHER -> TRUE)
  BY <1>1, <1>2
<1>. QED BY <1>3, <1>4

(* A record that its checkpoint gave up is not the one that may still be         *)
(* applied: that one is of the epoch of now.                                     *)
LEMMA GivenUpForGood ==
  ASSUME Inv, NEW d \in Dogs, NEW action \in Shared,
         receipt[d][action].outcome = "SUPERSEDED",
         document.records[action] # receipt[d][action].op, NEW f \in flight
  PROVE  f.records[action] # receipt[d][action].op
<1>1. Holds(d, action) /\ receipt[d][action].epoch < document.epoch
  BY DEF Inv, DogInv, Receipted, Actions
<1>2. Legal(f) /\ document.epoch \in Nat /\ document.owner \in Dogs
      /\ document.records \in [Shared -> 0 .. MaxOperations]
  BY DEF Inv, Flight, TypeOK, Documents
<1>3. CASE Mild(f) \/ Begins(f) \/ Finishes(f)
  BY <1>3 DEF Mild, Begins, Finishes
<1>4. CASE Records(f)
  <2> DEFINE plan == mutation[document.owner]
  <2>1. /\ plan # NoPlan /\ plan.epoch = document.epoch
        /\ f.records = [document.records EXCEPT ![plan.action] = plan.op]
    BY <1>4 DEF Records
  <2>2. InHand(document.owner)
    BY <1>2 DEF Inv, DogInv
  <2>3. /\ receipt[document.owner][plan.action].epoch = plan.epoch
        /\ Holds(document.owner, plan.action)
    BY <2>1, <2>2 DEF InHand, Holds
  <2>4. plan.action # action
    <3>1. SUFFICES ASSUME plan.action = action
                   PROVE  FALSE
      OBVIOUS
    <3>2. receipt[d][action].epoch = receipt[document.owner][action].epoch
      BY <1>1, <2>3, <3>1 DEF Holds, Begun
    <3>3. receipt[d][action].epoch = document.epoch
      BY <2>1, <2>3, <3>1, <3>2
    <3>. QED BY <1>1, <1>2, <3>3
  <2> HIDE DEF plan
  <2>5. f.records[action] = document.records[action]
    BY <1>2, <2>1, <2>4
  <2>. QED BY <2>5
<1>. QED BY <1>2, <1>3, <1>4 DEF Legal

(* Every receipt that is not UNKNOWN, in the checkpoints and in the ledger, says *)
(* what became of its operation (perform, inspect_shared, Effects.finish).       *)
THEOREM ReceiptsCanBeReliedOn == Spec => []ReceiptsAreReliable
<1>1. ASSUME Inv
      PROVE  ReceiptsAreReliable
  <2>1. ASSUME NEW d \in Dogs, NEW action \in Actions
        PROVE  Reliable(action, receipt[d][action].op, receipt[d][action].outcome)
    <3>1. Receipted(d)
      BY <1>1 DEF Inv, DogInv
    <3>2. PICK mine : mine = receipt[d][action]
      OBVIOUS
    <3>3. /\ action \in Shared /\ mine.outcome = "COMPLETE" => document.records[action] >= mine.op
          /\ action \in External /\ mine.outcome = "NOT_DISPATCHED" => calls[action][mine.op] = 0
          /\ action \in External /\ mine.outcome \in {"COMPLETE", "NO_WORK"} =>
               calls[action][mine.op] > 0
      BY <3>1, <3>2 DEF Receipted
    <3>4. action \in Shared /\ mine.outcome = "SUPERSEDED" =>
            \/ document.records[action] = mine.op
            \/ \A desired \in flight : desired.records[action] # mine.op
      BY <1>1, <3>2, GivenUpForGood
    <3>. QED BY <3>2, <3>3, <3>4, ReliableWhen
  <2>2. ASSUME NEW action \in Actions, Entry(action).outcome \notin {"NONE", "UNKNOWN"}
        PROVE  /\ Reliable(action, Entry(action).op, Entry(action).outcome)
               /\ receipt[Entry(action).owner][action].op = Entry(action).op =>
                    receipt[Entry(action).owner][action].outcome = Entry(action).outcome
    BY <1>1, <2>2 DEF Inv, Settled
  <2>. QED BY <2>1, <2>2 DEF ReceiptsAreReliable
<1>. QED BY <1>1, InvHolds, PTL

(* When maintenance is resolved on any machine, nothing is under way on any      *)
(* (inspect and resolve of reconfiguration_maintenance.py).                      *)
THEOREM NothingUnderWayWhenResolved == Spec => []ResolvedIsQuiet
<1>1. ASSUME Inv
      PROVE  ResolvedIsQuiet
  <2>1. SUFFICES ASSUME NEW r \in Dogs, upkeep[r].phase = "RESOLVED"
                 PROVE  /\ open = {} /\ document.phase = "MAINTENANCE"
                        /\ \A dog \in Dogs : task[dog]["daemon"].at \notin {"cleared", "out"}
                        /\ \A desired \in flight : desired.records = document.records
    BY DEF ResolvedIsQuiet
  <2>2. /\ document.phase = "MAINTENANCE"
        /\ \A action \in Actions : Entry(action).outcome # "UNKNOWN"
    BY <1>1, <2>1 DEF Inv, DogInv, Maintained
  <2>3. \A d \in Dogs, action \in Actions : ~Holds(d, action)
    BY <2>2 DEF Holds, Begun
  <2>4. open = {}
    <3>1. ASSUME NEW call \in open
          PROVE  FALSE
      <4>1. call.dog \in Dogs /\ call.action \in Actions
        BY <1>1 DEF Inv, TypeOK, Actions
      <4>2. Holds(call.dog, call.action)
        BY <1>1 DEF Inv, Evident
      <4>. QED BY <2>3, <4>1, <4>2
    <3>. QED BY <3>1
  <2>5. ASSUME NEW d \in Dogs, Daemon(d).at \in {"cleared", "out"}
        PROVE  FALSE
    <3>1. Daemon(d).action \in Actions
      BY <1>1, <2>5, Doing DEF Engaged
    <3>2. Holds(d, Daemon(d).action)
      BY <1>1, <2>5 DEF Inv, DogInv, Working, Undertaken
    <3>. QED BY <2>3, <3>1, <3>2
  <2>6. \A f \in flight : f.records = document.records
    BY <1>1, <2>2 DEF Inv, Flight, Legal, Mild, Begins, Finishes, Records
  <2>. QED BY <2>2, <2>4, <2>5, <2>6 DEF Daemon
<1>. QED BY <1>1, InvHolds, PTL

=============================================================================
