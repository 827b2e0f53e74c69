------------------------- MODULE Reconfiguration_proofs -------------------------
(***************************************************************************)
(* Proofs about the reconfiguration of a park, for any number of dogs, of  *)
(* objects, of changes of the leader and of faults: no object is requested *)
(* to move twice, the ledger tells the truth about the last move, and the  *)
(* commands keep the promise of Relocation.                                *)
(***************************************************************************)
EXTENDS Reconfiguration, FiniteSetTheorems, TLAPS

(* What each store of a machine may hold, and what may be staged for it.        *)
Values ==
  [checkpoint |-> BOOLEAN, resolved |-> 0 .. MaxEpoch, stage |-> StageState,
   roots |-> RootsWal, evidence |-> BOOLEAN, rebind |-> RebindWal, post |-> PostState,
   commit |-> CommitWal, promotion |-> PromotionState, adoption |-> AdoptionState,
   profile |-> Profile]
Stores ==
  {"checkpoint", "resolved", "stage", "roots", "evidence", "rebind", "post", "commit",
   "promotion", "adoption", "profile"}
Machine ==
  [checkpoint : BOOLEAN, resolved : 0 .. MaxEpoch, stage : StageState,
   roots : RootsWal, evidence : BOOLEAN, rebind : RebindWal, post : PostState,
   commit : CommitWal, promotion : PromotionState, adoption : AdoptionState,
   profile : Profile]
Frames == {NoFrame} \cup UNION {[store : {s}, value : Values[s]] : s \in Stores}

Receipts ==
  [owner : Dogs \cup {Nobody}, epoch : 0 .. MaxEpoch, op : 0 .. Last,
   outcome : {"NONE", "UNKNOWN", "COMPLETE", "NOT_DISPATCHED"}]
Plans ==
  {NoPlan} \cup [epoch : 1 .. MaxEpoch, before : BOOLEAN \X Receipts, after : BOOLEAN \X Receipts]
Tasks ==
  [at : {"rest", "start", "arm", "send", "record", "rebind", "commit"},
   epoch : 0 .. MaxEpoch, op : 0 .. Last]

Typed ==
  /\ document \in SharedDocument /\ flight \subseteq SharedDocument
  /\ moved \subseteq Objects /\ moving \subseteq Objects /\ sends \in [Objects -> Nat]
  /\ files \in [Dogs -> Machine] /\ frame \in [Dogs -> Frames]
  /\ journal \in [Dogs -> Plans] /\ task \in [Dogs -> Tasks]
  /\ faults \in 0 .. MaxFaults

(* The objects that are in the new root are a beginning of the order, and the   *)
(* ledger says which.                                                          *)
Position ==
  LET receipt == document.receipt IN
  /\ receipt.outcome = "NONE" => moved = {}
  /\ receipt.outcome # "NONE" => receipt.op \in Objects /\ receipt.owner \in Dogs
  /\ receipt.outcome = "COMPLETE" => moved = 1 .. receipt.op
  /\ receipt.outcome = "NOT_DISPATCHED" => moved = 1 .. receipt.op - 1
  /\ Unknown => moved = 1 .. receipt.op - 1 \/ moved = 1 .. receipt.op

(* Where the park is while this is so.                                         *)
Place ==
  /\ document.route = "new" => moved = Objects
  /\ Unknown => AtOldRoot
  /\ document.phase = "ACTIVE" => flight = {} /\ (moved = {} \/ document.route = "new")

(* A request was made for what is in the new root or on its way, and once.     *)
Requests ==
  /\ moved \cap moving = {}
  /\ \A o \in Objects : sends[o] = IF o \in moved \cup moving THEN 1 ELSE 0

(* A WAL counts no more than was moved.                                        *)
Counts(wal) == wal.index \in 0 .. Last /\ 1 .. wal.index \subseteq moved
Counted(d) ==
  /\ Wal(d) # NoWal => Counts(Wal(d))
  /\ frame[d].store = "roots" => Counts(frame[d].value)

(* The WAL of this dog answers for the move that is UNKNOWN in the ledger, and  *)
(* stays as it is until that is settled.                                       *)
Pledged(d, dispatch) ==
  LET receipt == document.receipt IN
  /\ Unknown /\ receipt.owner = d /\ receipt.op \notin moved
  /\ Wal(d).pending = [epoch |-> receipt.epoch, dispatch |-> dispatch]
  /\ Wal(d).index + 1 = receipt.op
  /\ frame[d].store # "roots"

(* A request that was not answered: nobody else can have another made.         *)
Underway ==
  \A o \in moving : /\ o = document.receipt.op
                    /\ Pledged(document.receipt.owner, "INVOKING")

(* The steps of a move that is in hand.                                        *)
Starting(d) ==
  task[d].at = "start" =>
    /\ task[d].epoch <= document.epoch /\ task[d].op \in Objects
    /\ Leads(d) /\ task[d].epoch = document.epoch =>
         /\ ~Unknown /\ moved = 1 .. task[d].op - 1
         /\ \A f \in flight : f.receipt = document.receipt
Sending(d) ==
  task[d].at = "send" =>
    /\ Pledged(d, "INVOKING") /\ task[d].op = document.receipt.op /\ moving = {}
Recording(d) ==
  task[d].at = "record" =>
    /\ Wal(d).pending.dispatch = "INVOKING" /\ Operation(d) \in moved
    /\ frame[d].store # "roots"

(* What may be written next over the document that is there.                   *)
Planned(f) ==
  f.receipt = document.receipt /\ f.route = document.route /\ f.phase = document.phase
Started(f) ==
  /\ ~Unknown /\ AtOldRoot /\ f.route = "old" /\ f.phase = "MAINTENANCE"
  /\ f.receipt.outcome = "UNKNOWN" /\ f.receipt.op \in Objects
  /\ f.receipt.owner \in Dogs /\ moved = 1 .. f.receipt.op - 1
Completed(f) ==
  /\ Unknown /\ f.receipt = [document.receipt EXCEPT !.outcome = "COMPLETE"]
  /\ document.receipt.op \in moved /\ f.route = document.route /\ f.phase = document.phase
Excluded(f) ==
  /\ Unknown /\ f.receipt = [document.receipt EXCEPT !.outcome = "NOT_DISPATCHED"]
  /\ Pledged(document.receipt.owner, "REVOKED")
  /\ f.route = document.route /\ f.phase = document.phase
Redirected(f) ==
  /\ ~Unknown /\ f.receipt = document.receipt /\ document.receipt.outcome = "COMPLETE"
  /\ document.receipt.op = Last /\ f.route = "new" /\ f.phase = document.phase
Opening(f) ==
  /\ ~Unknown /\ f.receipt = document.receipt /\ f.route = document.route
  /\ f.phase = "ACTIVE" /\ (moved = {} \/ document.route = "new")
  /\ files[document.owner].checkpoint

Legal(f) ==
  /\ f \in SharedDocument /\ f.owner = document.owner /\ f.epoch = document.epoch
  /\ document.phase = "MAINTENANCE"
  /\ \/ Planned(f) \/ Started(f) \/ Completed(f) \/ Excluded(f) \/ Redirected(f) \/ Opening(f)

(* Every replacement that may still be applied is legal now, and if it concerns *)
(* a move, the plan of its leader remembers it.                                *)
Flight ==
  \A f \in flight :
    /\ Legal(f)
    /\ f.receipt # document.receipt =>
         /\ journal[document.owner].epoch = document.epoch
         /\ journal[document.owner].after = Ledger(f)

Inv ==
  /\ Typed /\ Position /\ Place /\ Requests /\ Underway /\ Flight
  /\ \A d \in Dogs : Counted(d) /\ Starting(d) /\ Sending(d) /\ Recording(d)
-----------------------------------------------------------------------------
(* The constants, as numbers.                                                    *)
LEMMA Bounds ==
  /\ Last \in Nat /\ Last >= 1 /\ MaxEpoch \in Nat /\ MaxEpoch >= 1 /\ MaxFaults \in Nat
  /\ Nobody \notin Dogs
BY RootAssumption

-----------------------------------------------------------------------------
(* One store of a machine is replaced, and the others stay.                      *)
LEMMA StoreReplaced ==
  ASSUME files \in [Dogs -> Machine], NEW dog \in Dogs, NEW store \in Stores,
         NEW value \in Values[store], files' = [files EXCEPT ![dog][store] = value]
  PROVE  /\ files' \in [Dogs -> Machine]
         /\ \A d \in Dogs \ {dog} : files'[d] = files[d]
         /\ store = "roots" => files'[dog].roots = value
         /\ store # "roots" => files'[dog].roots = files[dog].roots
         /\ store = "checkpoint" => files'[dog].checkpoint = value
         /\ store # "checkpoint" => files'[dog].checkpoint = files[dog].checkpoint
<1>1. files' \in [Dogs -> Machine]
  <2>1. CASE store = "checkpoint"
    BY <2>1 DEF Machine, Values
  <2>2. CASE store = "resolved"
    BY <2>2 DEF Machine, Values
  <2>3. CASE store = "stage"
    BY <2>3 DEF Machine, Values
  <2>4. CASE store = "roots"
    BY <2>4 DEF Machine, Values
  <2>5. CASE store = "evidence"
    BY <2>5 DEF Machine, Values
  <2>6. CASE store = "rebind"
    BY <2>6 DEF Machine, Values
  <2>7. CASE store = "post"
    BY <2>7 DEF Machine, Values
  <2>8. CASE store = "commit"
    BY <2>8 DEF Machine, Values
  <2>9. CASE store = "promotion"
    BY <2>9 DEF Machine, Values
  <2>10. CASE store = "adoption"
    BY <2>10 DEF Machine, Values
  <2>11. CASE store = "profile"
    BY <2>11 DEF Machine, Values
  <2>. QED BY <2>1, <2>2, <2>3, <2>4, <2>5, <2>6, <2>7, <2>8, <2>9, <2>10, <2>11 DEF Stores
<1>2. \A d \in Dogs \ {dog} : files'[d] = files[d]
  OBVIOUS
<1>3. /\ store = "roots" => files'[dog].roots = value
      /\ store # "roots" => files'[dog].roots = files[dog].roots
      /\ store = "checkpoint" => files'[dog].checkpoint = value
      /\ store # "checkpoint" => files'[dog].checkpoint = files[dog].checkpoint
  BY DEF Machine
<1>. QED BY <1>1, <1>2, <1>3

(* A frame holds what its store may hold.                                        *)
LEMMA FrameHolds ==
  ASSUME NEW f \in Frames, f # NoFrame
  PROVE  f.store \in Stores /\ f.value \in Values[f.store]
BY DEF Frames

(* A value of a store may be staged for it.                                      *)
LEMMA Framed ==
  ASSUME NEW store \in Stores, NEW value \in Values[store]
  PROVE  /\ [store |-> store, value |-> value] \in Frames
         /\ [store |-> store, value |-> value].store = store
         /\ [store |-> store, value |-> value].value = value
<1>1. [store |-> store, value |-> value] \in [store : {store}, value : Values[store]]
  OBVIOUS
<1>. QED BY <1>1 DEF Frames

(* Where nothing is staged.                                                      *)
LEMMA NoFrameFacts ==
  NoFrame \in Frames /\ \A s \in Stores : NoFrame.store # s
BY DEF Frames, NoFrame, Stores

(* What a step may do to the files, the address and the phase.                   *)
Effect ==
  \/ moved' = moved /\ document'.route = document.route /\ document'.phase = document.phase
  \/ /\ document.phase = "MAINTENANCE" /\ document.route = "old"
     /\ \E index \in 0 .. Last - 1 : moved = 1 .. index /\ moved' = 1 .. index + 1
     /\ document'.route = document.route /\ document'.phase = document.phase
  \/ /\ document.phase = "MAINTENANCE" /\ moved = Objects /\ document'.route = "new"
     /\ moved' = moved /\ document'.phase = document.phase
  \/ /\ document.phase = "MAINTENANCE" /\ document'.phase = "ACTIVE"
     /\ moved = {} \/ document.route = "new"
     /\ moved' = moved /\ document'.route = document.route
     /\ files'[document'.owner].checkpoint

(* What a step does to one machine.                                              *)
OneMachine(dog) ==
  /\ files' \in [Dogs -> Machine] /\ frame' \in [Dogs -> Frames]
  /\ \A d \in Dogs \ {dog} : files'[d] = files[d] /\ frame'[d] = frame[d]

SameRoots(d) ==
  /\ files'[d].roots = files[d].roots
  /\ frame'[d].store = "roots" <=> frame[d].store = "roots"
  /\ frame[d].store = "roots" => frame'[d] = frame[d]

(* A save either replaces its store, or stages what it would have been.          *)
LEMMA Saved ==
  ASSUME Typed, NEW dog \in Dogs, NEW store \in Stores, NEW value \in Values[store],
         Save(dog, store, value)
  PROVE  /\ OneMachine(dog) /\ faults' \in 0 .. MaxFaults
         /\ \/ /\ faults' = faults /\ frame' = frame
               /\ files' = [files EXCEPT ![dog][store] = value]
            \/ /\ faults' = faults + 1 /\ faults' # faults /\ files' = files /\ frame[dog] = NoFrame
               /\ frame'[dog] = [store |-> store, value |-> value]
<1>1. /\ files \in [Dogs -> Machine] /\ frame \in [Dogs -> Frames] /\ faults \in 0 .. MaxFaults
      /\ faults \in Nat /\ MaxFaults \in Nat
  BY Bounds DEF Typed
<1>2. CASE files' = [files EXCEPT ![dog][store] = value] /\ UNCHANGED <<frame, faults>>
  <2>1. files' \in [Dogs -> Machine] /\ \A d \in Dogs \ {dog} : files'[d] = files[d]
    BY <1>1, <1>2, StoreReplaced
  <2>. QED BY <1>1, <1>2, <2>1 DEF OneMachine
<1>3. CASE /\ frame[dog] = NoFrame /\ Fault
           /\ frame' = [frame EXCEPT ![dog] = [store |-> store, value |-> value]]
           /\ UNCHANGED files
  <2>1. [store |-> store, value |-> value] \in Frames
    BY Framed
  <2>2. faults' = faults + 1 /\ faults' # faults /\ faults' \in 0 .. MaxFaults
    BY <1>1, <1>3 DEF Fault
  <2>3. frame' \in [Dogs -> Frames] /\ frame'[dog] = [store |-> store, value |-> value]
        /\ \A d \in Dogs \ {dog} : frame'[d] = frame[d]
    BY <1>1, <1>3, <2>1
  <2>. QED BY <1>1, <1>3, <2>2, <2>3 DEF OneMachine
<1>. QED BY <1>2, <1>3 DEF Save

(* A save of another store leaves the moves alone.                               *)
LEMMA SavedElsewhere ==
  ASSUME Typed, NEW dog \in Dogs, NEW store \in Stores, NEW value \in Values[store],
         Save(dog, store, value), store # "roots"
  PROVE  /\ OneMachine(dog) /\ SameRoots(dog) /\ faults' \in 0 .. MaxFaults
         /\ store # "checkpoint" => files'[dog].checkpoint = files[dog].checkpoint
<1>1. OneMachine(dog) /\ faults' \in 0 .. MaxFaults /\ files \in [Dogs -> Machine]
  BY Saved DEF Typed
<1>2. CASE frame' = frame /\ files' = [files EXCEPT ![dog][store] = value]
  BY <1>1, <1>2, StoreReplaced DEF SameRoots
<1>3. CASE /\ files' = files /\ frame[dog] = NoFrame
           /\ frame'[dog] = [store |-> store, value |-> value]
  <2>1. frame'[dog].store # "roots" /\ frame[dog].store # "roots"
    BY <1>3, Framed DEF NoFrame
  <2>. QED BY <1>1, <1>3, <2>1 DEF SameRoots
<1>. QED BY <1>1, <1>2, <1>3, Saved

(* A recovery puts the staged value in its store.                                *)
LEMMA FrameReplaced ==
  ASSUME Typed, NEW dog \in Dogs, frame[dog] # NoFrame, Promote(dog)
  PROVE  /\ OneMachine(dog) /\ frame'[dog] = NoFrame
         /\ frame[dog].store \in Stores /\ frame[dog].value \in Values[frame[dog].store]
         /\ frame[dog].store = "roots" => files'[dog].roots = frame[dog].value
         /\ frame[dog].store # "roots" => SameRoots(dog)
         /\ frame[dog].store # "checkpoint" => files'[dog].checkpoint = files[dog].checkpoint
<1>1. /\ files \in [Dogs -> Machine] /\ frame \in [Dogs -> Frames] /\ frame[dog] \in Frames
  BY DEF Typed
<1>2. PICK store \in Stores :
        store = frame[dog].store /\ frame[dog].value \in Values[store]
  BY <1>1, FrameHolds
<1>3. PICK value \in Values[store] : value = frame[dog].value
  BY <1>2
<1>4. files' = [files EXCEPT ![dog][store] = value]
  BY <1>2, <1>3 DEF Promote
<1>5. files \in [Dogs -> Machine] /\ store \in Stores /\ value \in Values[store]
  BY <1>1, <1>2, <1>3
<1>6. frame' = [frame EXCEPT ![dog] = NoFrame]
  BY DEF Promote
<1>7. /\ files' \in [Dogs -> Machine]
      /\ \A d \in Dogs \ {dog} : files'[d] = files[d]
      /\ store = "roots" => files'[dog].roots = value
      /\ store # "roots" => files'[dog].roots = files[dog].roots
      /\ store = "checkpoint" => files'[dog].checkpoint = value
      /\ store # "checkpoint" => files'[dog].checkpoint = files[dog].checkpoint
  BY <1>4, <1>5, StoreReplaced, Zenon
<1>8. /\ frame' \in [Dogs -> Frames] /\ frame'[dog] = NoFrame
      /\ \A d \in Dogs \ {dog} : frame'[d] = frame[d]
  BY <1>1, <1>6, NoFrameFacts
<1>9. NoFrame.store # "roots"
  BY DEF NoFrame
<1>. QED BY <1>2, <1>7, <1>8, <1>9, <1>3 DEF OneMachine, SameRoots

-----------------------------------------------------------------------------
(* A dog whose WAL answers for the open move still does.                         *)
Kept(d) == /\ Pledged(d, "INVOKING") => Pledged(d, "INVOKING")'
           /\ Pledged(d, "REVOKED") => Pledged(d, "REVOKED")'

(* What is written may still be written while the document and the files stay,   *)
(* no WAL that answers for the open move changes, and no reservation ends.       *)
LEMMA LegalStays ==
  ASSUME Typed, Position, UNCHANGED <<document, moved>>, \A d \in Dogs : Kept(d),
         document.phase = "MAINTENANCE" =>
           (files[document.owner].checkpoint => files'[document.owner].checkpoint),
         NEW f, Legal(f)
  PROVE  Legal(f)'
<1>1. Unknown' <=> Unknown
  BY DEF Unknown
<1>2. Planned(f) => Planned(f)'
  BY DEF Planned
<1>3. Started(f) => Started(f)'
  BY <1>1 DEF Started, AtOldRoot
<1>4. Completed(f) => Completed(f)'
  BY <1>1 DEF Completed
<1>5. Excluded(f) => Excluded(f)'
  <2>1. Unknown => document.receipt.owner \in Dogs
    BY DEF Unknown, Position
  <2>. QED BY <1>1, <2>1 DEF Excluded, Kept, Pledged
<1>6. Redirected(f) => Redirected(f)'
  BY <1>1 DEF Redirected
<1>7. Opening(f) /\ document.phase = "MAINTENANCE" => Opening(f)'
  BY <1>1 DEF Opening
<1>. QED BY <1>2, <1>3, <1>4, <1>5, <1>6, <1>7 DEF Legal

(* A step that neither writes nor moves.                                         *)
LEMMA Steady ==
  ASSUME Inv, Typed', UNCHANGED <<document, flight, drive>>,
         \A d \in Dogs : Kept(d) /\ Counted(d)' /\ Starting(d)' /\ Sending(d)' /\ Recording(d)',
         document.phase = "MAINTENANCE" =>
           (files[document.owner].checkpoint => files'[document.owner].checkpoint),
         \/ journal'[document.owner] = journal[document.owner]
         \/ \A f \in flight : f.receipt = document.receipt
  PROVE  Inv' /\ Effect
<1>1. document' = document /\ flight' = flight /\ moved' = moved /\ moving' = moving /\ sends' = sends
  BY DEF drive
<1>2. Position' /\ Place' /\ Requests'
  <2>1. Position /\ Place /\ Requests
    BY DEF Inv
  <2>2. Position'
    BY <1>1, <2>1 DEF Position, Unknown
  <2>3. Place'
    BY <1>1, <2>1 DEF Place, Unknown, AtOldRoot
  <2>4. Requests'
    BY <1>1, <2>1 DEF Requests
  <2>. QED BY <2>2, <2>3, <2>4
<1>3. Underway'
  <2>1. Underway /\ Position
    BY DEF Inv
  <2>2. SUFFICES ASSUME NEW o \in moving
                 PROVE  o = document.receipt.op /\ Pledged(document.receipt.owner, "INVOKING")'
    BY <1>1 DEF Underway, Pledged
  <2>3. o = document.receipt.op /\ Pledged(document.receipt.owner, "INVOKING")
    BY <2>1 DEF Underway
  <2>4. document.receipt.owner \in Dogs
    BY <2>1, <2>3 DEF Pledged, Unknown, Position
  <2>5. Kept(document.receipt.owner)
    BY <2>4
  <2>. QED BY <2>3, <2>5, <1>1 DEF Kept, Pledged
<1>4. Flight'
  <2>1. Flight /\ Typed /\ Position
    BY DEF Inv
  <2>2. SUFFICES ASSUME NEW f \in flight
                 PROVE  /\ Legal(f)'
                        /\ f.receipt # document.receipt =>
                             /\ journal'[document.owner].epoch = document.epoch
                             /\ journal'[document.owner].after = Ledger(f)
    BY <1>1 DEF Flight
  <2>3. Legal(f)'
    BY <1>1, <2>1, LegalStays DEF Flight
  <2>4. f.receipt # document.receipt =>
          /\ journal'[document.owner].epoch = document.epoch
          /\ journal'[document.owner].after = Ledger(f)
    BY <2>1 DEF Flight
  <2>. QED BY <2>3, <2>4
<1>5. Effect
  BY <1>1 DEF Effect
<1>. QED BY <1>2, <1>3, <1>4, <1>5 DEF Inv

-----------------------------------------------------------------------------
(* The parts of the state of one dog.                                            *)
LEMMA Shapes ==
  ASSUME Typed, NEW d \in Dogs
  PROVE  /\ files[d] \in Machine /\ Wal(d) \in RootsWal /\ Wal(d).index \in -1 .. Last
         /\ frame[d] \in Frames /\ task[d] \in Tasks /\ journal[d] \in Plans
         /\ frame[d].store = "roots" => frame[d] # NoFrame /\ frame[d].value \in RootsWal
         /\ document \in SharedDocument /\ document.owner \in Dogs /\ document.epoch \in 1 .. MaxEpoch
         /\ document.receipt \in Receipts
<1>1. files[d] \in Machine /\ frame[d] \in Frames /\ task[d] \in Tasks /\ journal[d] \in Plans
  BY DEF Typed
<1>2. Wal(d) \in RootsWal
  BY <1>1 DEF Machine, Wal
<1>3. Wal(d).index \in -1 .. Last
  BY <1>2 DEF RootsWal
<1>4. document \in SharedDocument
  BY DEF Typed
<1>5. document.owner \in Dogs /\ document.epoch \in 1 .. MaxEpoch /\ document.receipt \in Receipts
  BY <1>4 DEF SharedDocument, Receipts
<1>6. frame[d].store = "roots" => frame[d] # NoFrame /\ frame[d].value \in RootsWal
  <2>1. frame[d].store = "roots" => frame[d] # NoFrame
    BY DEF NoFrame
  <2>2. frame[d] # NoFrame => frame[d].value \in Values[frame[d].store]
    BY <1>1, FrameHolds
  <2>3. Values["roots"] = RootsWal
    BY DEF Values
  <2>. QED BY <2>1, <2>2, <2>3
<1>. QED BY <1>1, <1>2, <1>3, <1>4, <1>5, <1>6

(* A command that has nothing to do with the moves, or gives one up.             *)
Quiet(dog) ==
  /\ OneMachine(dog) /\ SameRoots(dog)
  /\ document' = document /\ flight' = flight /\ moved' = moved /\ moving' = moving
  /\ sends' = sends /\ journal' = journal
  /\ document.phase = "MAINTENANCE" =>
       (files[dog].checkpoint => files'[dog].checkpoint)
  /\ task' \in [Dogs -> Tasks] /\ faults' \in 0 .. MaxFaults
  /\ \A d \in Dogs : task'[d] = task[d] \/ task'[d].at \notin {"start", "send", "record"}

(* What a dog knows of the moves, where its WAL, its frame and its task stay.    *)
LEMMA DogStays ==
  ASSUME NEW d \in Dogs, SameRoots(d), document' = document, flight' = flight,
         moved' = moved, moving' = moving,
         task'[d] = task[d] \/ task'[d].at \notin {"start", "send", "record"}
  PROVE  /\ Kept(d)
         /\ Counted(d) => Counted(d)'
         /\ Starting(d) => Starting(d)'
         /\ Sending(d) => Sending(d)'
         /\ Recording(d) => Recording(d)'
<1>1. Wal(d)' = Wal(d) /\ Operation(d)' = Operation(d) /\ (Unknown' <=> Unknown)
      /\ (Leads(d)' <=> Leads(d))
  BY DEF SameRoots, Wal, Operation, Unknown, Leads
<1>2. (frame'[d].store = "roots" <=> frame[d].store = "roots")
      /\ (frame[d].store = "roots" => frame'[d] = frame[d])
  BY DEF SameRoots
<1>3. Kept(d)
  BY <1>1, <1>2 DEF Kept, Pledged
<1>4. Counted(d) => Counted(d)'
  BY <1>1, <1>2 DEF Counted, Counts
<1>5. Starting(d) => Starting(d)'
  BY <1>1 DEF Starting
<1>6. Sending(d) => Sending(d)'
  BY <1>3 DEF Sending, Kept
<1>7. Recording(d) => Recording(d)'
  BY <1>1, <1>2 DEF Recording
<1>. QED BY <1>3, <1>4, <1>5, <1>6, <1>7

(* And so for the other dogs, whatever one of them does on its machine.          *)
LEMMA OthersStay ==
  ASSUME NEW dog \in Dogs, OneMachine(dog)
  PROVE  \A d \in Dogs \ {dog} : SameRoots(d)
BY DEF OneMachine, SameRoots

(* Such a command keeps the invariant, whichever it is.                          *)
LEMMA QuietKeeps ==
  ASSUME Inv, NEW dog \in Dogs, Quiet(dog)
  PROVE  Inv' /\ Effect
<1>1. Typed'
  BY DEF Quiet, OneMachine, Typed, Inv
<1>2. UNCHANGED <<document, flight, drive>>
  BY DEF Quiet, drive
<1>3. \A d \in Dogs : Kept(d) /\ Counted(d)' /\ Starting(d)' /\ Sending(d)' /\ Recording(d)'
  <2>1. TAKE d \in Dogs
  <2>2. SameRoots(d)
    BY OthersStay DEF Quiet
  <2>3. Counted(d) /\ Starting(d) /\ Sending(d) /\ Recording(d)
    BY DEF Inv
  <2>4. /\ document' = document /\ flight' = flight /\ moved' = moved /\ moving' = moving
        /\ task'[d] = task[d] \/ task'[d].at \notin {"start", "send", "record"}
    BY DEF Quiet
  <2>. QED BY <2>2, <2>3, <2>4, DogStays
<1>4. document.phase = "MAINTENANCE" =>
        (files[document.owner].checkpoint => files'[document.owner].checkpoint)
  <2>1. document.owner \in Dogs
    BY Shapes DEF Inv
  <2>. QED BY <2>1 DEF Quiet, OneMachine
<1>. QED BY <1>1, <1>2, <1>3, <1>4, Steady DEF Quiet

(* Saves of the stores that are not about the moves.                             *)
LEMMA SaveIsQuiet ==
  ASSUME Inv, NEW dog \in Dogs, NEW store \in Stores \ {"roots", "checkpoint"},
         NEW value \in Values[store], Save(dog, store, value),
         UNCHANGED <<document, flight, drive, journal>>,
         \/ task' = task
         \/ \E next \in Tasks : next.at \in {"rebind", "commit"} /\ Go(dog, next)
  PROVE  Quiet(dog)
<1>1. Typed /\ task \in [Dogs -> Tasks]
  BY DEF Inv, Typed
<1>2. /\ OneMachine(dog) /\ SameRoots(dog) /\ faults' \in 0 .. MaxFaults
      /\ files'[dog].checkpoint = files[dog].checkpoint
  BY <1>1, SavedElsewhere
<1>3. /\ task' \in [Dogs -> Tasks]
      /\ \A d \in Dogs : task'[d] = task[d] \/ task'[d].at \notin {"start", "send", "record"}
  <2>1. CASE task' = task
    BY <1>1, <2>1
  <2>2. CASE \E next \in Tasks : next.at \in {"rebind", "commit"} /\ Go(dog, next)
    <3>1. PICK next \in Tasks : next.at \in {"rebind", "commit"} /\ Go(dog, next)
      BY <2>2
    <3>2. AtRest \in Tasks /\ AtRest.at = "rest"
      BY Bounds DEF AtRest, Tasks
    <3>3. PICK work \in Tasks : /\ work.at \in {"rebind", "commit", "rest"}
                                /\ task' = [task EXCEPT ![dog] = work]
      BY <3>1, <3>2 DEF Go
    <3>. QED BY <1>1, <3>3
  <2>. QED BY <2>1, <2>2
<1>. QED BY <1>2, <1>3 DEF Quiet, drive

(* Where the command that is sent next stands.                                   *)
LEMMA Sends ==
  ASSUME NEW at \in {"rebind", "commit"}, NEW epoch \in 0 .. MaxEpoch
  PROVE  /\ [AtRest EXCEPT !.at = at, !.epoch = epoch] \in Tasks
         /\ [AtRest EXCEPT !.at = at, !.epoch = epoch].at = at
<1>1. AtRest \in Tasks
  BY Bounds DEF AtRest, Tasks
<1>2. [AtRest EXCEPT !.at = at, !.epoch = epoch] \in Tasks
  BY <1>1 DEF Tasks
<1>3. [AtRest EXCEPT !.at = at, !.epoch = epoch].at = at
  BY <1>1 DEF Tasks
<1>. QED BY <1>2, <1>3

(* What the stores of a dog hold.                                                *)
LEMMA StoresHold ==
  ASSUME Typed, NEW d \in Dogs
  PROVE  /\ files[d].stage \in StageState /\ files[d].rebind \in RebindWal
         /\ files[d].post \in PostState /\ files[d].commit \in CommitWal
         /\ files[d].promotion \in PromotionState /\ files[d].adoption \in AdoptionState
         /\ files[d].profile \in Profile /\ files[d].evidence \in BOOLEAN
         /\ files[d].checkpoint \in BOOLEAN
<1>1. files[d] \in Machine
  BY Shapes
<1>. QED BY <1>1 DEF Machine

(* The stores before the moves, and the rebind.                                  *)
LEMMA StagingSteps ==
  ASSUME Inv, NEW dog \in Dogs,
         \/ StageCandidate(dog) \/ Choose(dog) \/ Preserve(dog)
         \/ RebindBegin(dog) \/ RebindAdvance(dog) \/ RebindConfirm(dog) \/ StagePost(dog)
  PROVE  Inv' /\ Effect
<1>. DEFINE mine == files[dog]
<1>1. Typed
  BY DEF Inv
<1>2. /\ mine.stage \in StageState /\ mine.rebind \in RebindWal /\ mine.post \in PostState
      /\ document.epoch \in 0 .. MaxEpoch
  <2>1. document.epoch \in 1 .. MaxEpoch
    BY <1>1, Shapes
  <2>. QED BY <1>1, <2>1, StoresHold
<1>3. /\ Values["stage"] = StageState /\ Values["rebind"] = RebindWal
      /\ Values["post"] = PostState /\ Values["evidence"] = BOOLEAN
  BY DEF Values
<1>4. {"stage", "rebind", "post", "evidence"} \subseteq Stores \ {"roots", "checkpoint"}
  BY DEF Stores
<1>5. CASE StageCandidate(dog)
  <2>1. [mine.stage EXCEPT !.at = @ + 1] \in StageState
    BY <1>2, <1>5 DEF StageCandidate, StageState
  <2>2. Save(dog, "stage", [mine.stage EXCEPT !.at = @ + 1])
        /\ UNCHANGED <<document, flight, drive, journal>> /\ task' = task
    BY <1>5 DEF StageCandidate
  <2>3. Quiet(dog)
    BY <1>3, <1>4, <2>1, <2>2, SaveIsQuiet
  <2>. QED BY <2>3, QuietKeeps
<1>6. CASE Choose(dog)
  <2>1. [mine.stage EXCEPT !.edited = TRUE] \in StageState
    BY <1>2 DEF StageState
  <2>2. Save(dog, "stage", [mine.stage EXCEPT !.edited = TRUE])
        /\ UNCHANGED <<document, flight, drive, journal>> /\ task' = task
    BY <1>6 DEF Choose
  <2>3. Quiet(dog)
    BY <1>3, <1>4, <2>1, <2>2, SaveIsQuiet
  <2>. QED BY <2>3, QuietKeeps
<1>7. CASE Preserve(dog)
  <2>1. Save(dog, "evidence", TRUE) /\ UNCHANGED <<document, flight, drive, journal>> /\ task' = task
    BY <1>7 DEF Preserve
  <2>2. Quiet(dog)
    BY <1>3, <1>4, <2>1, SaveIsQuiet
  <2>. QED BY <2>2, QuietKeeps
<1>8. CASE RebindBegin(dog)
  <2>1. [at |-> "PREPARED", epoch |-> document.epoch] \in RebindWal
    BY <1>2 DEF RebindWal
  <2>2. Save(dog, "rebind", [at |-> "PREPARED", epoch |-> document.epoch])
        /\ UNCHANGED <<document, flight, drive, journal>> /\ task' = task
    BY <1>8 DEF RebindBegin
  <2>3. Quiet(dog)
    BY <1>3, <1>4, <2>1, <2>2, SaveIsQuiet
  <2>. QED BY <2>3, QuietKeeps
<1>9. CASE RebindAdvance(dog)
  <2>1. [mine.rebind EXCEPT !.at = "INVOKING"] \in RebindWal /\ mine.rebind.epoch \in 0 .. MaxEpoch
    BY <1>2 DEF RebindWal
  <2>2. Save(dog, "rebind", [mine.rebind EXCEPT !.at = "INVOKING"])
        /\ UNCHANGED <<document, flight, drive, journal>>
    BY <1>9 DEF RebindAdvance
  <2>3. /\ [AtRest EXCEPT !.at = "rebind", !.epoch = mine.rebind.epoch] \in Tasks
        /\ [AtRest EXCEPT !.at = "rebind", !.epoch = mine.rebind.epoch].at = "rebind"
    BY <2>1, Sends
  <2>4. Go(dog, [AtRest EXCEPT !.at = "rebind", !.epoch = mine.rebind.epoch])
    BY <1>9 DEF RebindAdvance
  <2>5. \E next \in Tasks : next.at \in {"rebind", "commit"} /\ Go(dog, next)
    BY <2>3, <2>4
  <2>6. Quiet(dog)
    BY <1>3, <1>4, <2>1, <2>2, <2>5, SaveIsQuiet
  <2>. QED BY <2>6, QuietKeeps
<1>10. CASE RebindConfirm(dog)
  <2>1. [mine.rebind EXCEPT !.at = "CONFIRMED"] \in RebindWal
    BY <1>2 DEF RebindWal
  <2>2. Save(dog, "rebind", [mine.rebind EXCEPT !.at = "CONFIRMED"])
        /\ UNCHANGED <<document, flight, drive, journal>> /\ task' = task
    BY <1>10 DEF RebindConfirm
  <2>3. Quiet(dog)
    BY <1>3, <1>4, <2>1, <2>2, SaveIsQuiet
  <2>. QED BY <2>3, QuietKeeps
<1>11. CASE StagePost(dog)
  <2>1. [at |-> mine.post.at + 1, epoch |-> document.epoch] \in PostState
    BY <1>2, <1>11 DEF StagePost, PostState
  <2>2. Save(dog, "post", [at |-> mine.post.at + 1, epoch |-> document.epoch])
        /\ UNCHANGED <<document, flight, drive, journal>> /\ task' = task
    BY <1>11 DEF StagePost
  <2>3. Quiet(dog)
    BY <1>3, <1>4, <2>1, <2>2, SaveIsQuiet
  <2>. QED BY <2>3, QuietKeeps
<1>. QED BY <1>5, <1>6, <1>7, <1>8, <1>9, <1>10, <1>11

(* The commit, the promotion and the adoption.                                   *)
LEMMA PublishingSteps ==
  ASSUME Inv, NEW dog \in Dogs,
         \/ CommitBegin(dog) \/ CommitAdvance(dog) \/ CommitConfirm(dog)
         \/ PromotionBegin(dog) \/ PromotionAdvance(dog)
         \/ AdoptionBegin(dog) \/ AdoptionAdvance(dog)
  PROVE  Inv' /\ Effect
<1>. DEFINE mine == files[dog]
<1>1. Typed
  BY DEF Inv
<1>2. /\ mine.commit \in CommitWal /\ mine.promotion \in PromotionState
      /\ mine.adoption \in AdoptionState /\ document.epoch \in 0 .. MaxEpoch
      /\ document.route \in {"old", "new"}
  <2>1. document.epoch \in 1 .. MaxEpoch /\ document.route \in {"old", "new"}
    BY <1>1 DEF Typed, SharedDocument
  <2>. QED BY <1>1, <2>1, StoresHold
<1>3. /\ Values["commit"] = CommitWal /\ Values["promotion"] = PromotionState
      /\ Values["adoption"] = AdoptionState /\ Values["profile"] = Profile
  BY DEF Values
<1>4. {"commit", "promotion", "adoption", "profile"} \subseteq Stores \ {"roots", "checkpoint"}
  BY DEF Stores
<1>5. CASE CommitBegin(dog)
  <2>1. PICK kind \in {"moved", "retained"} :
          Save(dog, "commit", [at |-> "PREPARED", epoch |-> document.epoch, kind |-> kind])
    BY <1>5 DEF CommitBegin
  <2>2. [at |-> "PREPARED", epoch |-> document.epoch, kind |-> kind] \in CommitWal
    BY <1>2 DEF CommitWal
  <2>3. UNCHANGED <<document, flight, drive, journal>> /\ task' = task
    BY <1>5 DEF CommitBegin
  <2>4. Quiet(dog)
    BY <1>3, <1>4, <2>1, <2>2, <2>3, SaveIsQuiet
  <2>. QED BY <2>4, QuietKeeps
<1>6. CASE CommitAdvance(dog)
  <2>1. [mine.commit EXCEPT !.at = "INVOKING"] \in CommitWal /\ mine.commit.epoch \in 0 .. MaxEpoch
    BY <1>2 DEF CommitWal
  <2>2. Save(dog, "commit", [mine.commit EXCEPT !.at = "INVOKING"])
        /\ UNCHANGED <<document, flight, drive, journal>>
    BY <1>6 DEF CommitAdvance
  <2>3. /\ [AtRest EXCEPT !.at = "commit", !.epoch = mine.commit.epoch] \in Tasks
        /\ [AtRest EXCEPT !.at = "commit", !.epoch = mine.commit.epoch].at = "commit"
    BY <2>1, Sends
  <2>4. Go(dog, [AtRest EXCEPT !.at = "commit", !.epoch = mine.commit.epoch])
    BY <1>6 DEF CommitAdvance
  <2>5. \E next \in Tasks : next.at \in {"rebind", "commit"} /\ Go(dog, next)
    BY <2>3, <2>4
  <2>6. Quiet(dog)
    BY <1>3, <1>4, <2>1, <2>2, <2>5, SaveIsQuiet
  <2>. QED BY <2>6, QuietKeeps
<1>7. CASE CommitConfirm(dog)
  <2>1. [mine.commit EXCEPT !.at = "CONFIRMED"] \in CommitWal
    BY <1>2 DEF CommitWal
  <2>2. Save(dog, "commit", [mine.commit EXCEPT !.at = "CONFIRMED"])
        /\ UNCHANGED <<document, flight, drive, journal>> /\ task' = task
    BY <1>7 DEF CommitConfirm
  <2>3. Quiet(dog)
    BY <1>3, <1>4, <2>1, <2>2, SaveIsQuiet
  <2>. QED BY <2>3, QuietKeeps
<1>8. CASE PromotionBegin(dog)
  <2>1. Save(dog, "promotion", "PREPARED")
        /\ UNCHANGED <<document, flight, drive, journal>> /\ task' = task
    BY <1>8 DEF PromotionBegin
  <2>2. "PREPARED" \in PromotionState
    BY DEF PromotionState
  <2>3. Quiet(dog)
    BY <1>3, <1>4, <2>1, <2>2, SaveIsQuiet
  <2>. QED BY <2>3, QuietKeeps
<1>9. CASE PromotionAdvance(dog)
  <2>1. UNCHANGED <<document, flight, drive, journal>> /\ task' = task
    BY <1>9 DEF PromotionAdvance
  <2>2. "PROMOTED" \in PromotionState /\ Promoted(dog) \in Profile
    BY DEF PromotionState, Promoted, Profile
  <2>3. CASE Save(dog, "profile", Promoted(dog))
    <3>1. Quiet(dog)
      BY <1>3, <1>4, <2>1, <2>2, <2>3, SaveIsQuiet
    <3>. QED BY <3>1, QuietKeeps
  <2>4. CASE Save(dog, "promotion", "PROMOTED")
    <3>1. Quiet(dog)
      BY <1>3, <1>4, <2>1, <2>2, <2>4, SaveIsQuiet
    <3>. QED BY <3>1, QuietKeeps
  <2>. QED BY <1>9, <2>3, <2>4 DEF PromotionAdvance
<1>10. CASE AdoptionBegin(dog)
  <2>1. [at |-> 1, epoch |-> document.epoch] \in AdoptionState
    BY <1>2 DEF AdoptionState
  <2>2. Save(dog, "adoption", [at |-> 1, epoch |-> document.epoch])
        /\ UNCHANGED <<document, flight, drive, journal>> /\ task' = task
    BY <1>10 DEF AdoptionBegin
  <2>3. Quiet(dog)
    BY <1>3, <1>4, <2>1, <2>2, SaveIsQuiet
  <2>. QED BY <2>3, QuietKeeps
<1>11. CASE AdoptionAdvance(dog)
  <2>1. UNCHANGED <<document, flight, drive, journal>> /\ task' = task
    BY <1>11 DEF AdoptionAdvance
  <2>2. Adopted \in Profile /\ [mine.adoption EXCEPT !.at = 4] \in AdoptionState
    BY <1>2 DEF Adopted, Profile, AdoptionState
  <2>3. CASE mine.adoption.at \in 1 .. 3 /\ mine.adoption.at < 3
             /\ Save(dog, "adoption", [mine.adoption EXCEPT !.at = @ + 1])
    <3>1. [mine.adoption EXCEPT !.at = @ + 1] \in AdoptionState
      BY <1>2, <2>3 DEF AdoptionState
    <3>2. Quiet(dog)
      BY <1>3, <1>4, <2>1, <2>3, <3>1, SaveIsQuiet
    <3>. QED BY <3>2, QuietKeeps
  <2>4. CASE Save(dog, "profile", Adopted)
    <3>1. Quiet(dog)
      BY <1>3, <1>4, <2>1, <2>2, <2>4, SaveIsQuiet
    <3>. QED BY <3>1, QuietKeeps
  <2>5. CASE Save(dog, "adoption", [mine.adoption EXCEPT !.at = 4])
    <3>1. Quiet(dog)
      BY <1>3, <1>4, <2>1, <2>2, <2>5, SaveIsQuiet
    <3>. QED BY <3>1, QuietKeeps
  <2>. QED BY <1>11, <2>3, <2>4, <2>5 DEF AdoptionAdvance
<1>. QED BY <1>5, <1>6, <1>7, <1>8, <1>9, <1>10, <1>11

(* The reservation of the maintenance, which only the open park ends.            *)
LEMMA ReservationSteps ==
  ASSUME Inv, NEW dog \in Dogs,
         Resolve(dog) \/ Reserve(dog) \/ AdoptionReserve(dog) \/ Release(dog)
  PROVE  Inv' /\ Effect
<1>1. /\ Typed /\ files \in [Dogs -> Machine] /\ frame \in [Dogs -> Frames]
      /\ task \in [Dogs -> Tasks] /\ faults \in 0 .. MaxFaults
  BY DEF Inv, Typed
<1>2. document.epoch \in 0 .. MaxEpoch
  <2>1. document.epoch \in 1 .. MaxEpoch
    BY <1>1, Shapes
  <2>. QED BY <2>1
<1>3. SUFFICES Quiet(dog)
  BY QuietKeeps
<1>4. CASE Resolve(dog)
  <2>1. /\ files' = [files EXCEPT ![dog].resolved = document.epoch, ![dog].checkpoint = TRUE]
        /\ UNCHANGED <<document, flight, drive, frame, journal, task, faults>>
    BY <1>4 DEF Resolve
  <2>2. files[dog] \in Machine
    BY <1>1
  <2>3. PICK mine \in Machine : /\ mine = [files[dog] EXCEPT !.resolved = document.epoch,
                                                           !.checkpoint = TRUE]
                                /\ mine.roots = files[dog].roots /\ mine.checkpoint = TRUE
    <3>1. [files[dog] EXCEPT !.resolved = document.epoch, !.checkpoint = TRUE] \in Machine
      BY <1>2, <2>2 DEF Machine
    <3>2. [files[dog] EXCEPT !.resolved = document.epoch, !.checkpoint = TRUE].roots
            = files[dog].roots
      BY <2>2 DEF Machine
    <3>3. [files[dog] EXCEPT !.resolved = document.epoch, !.checkpoint = TRUE].checkpoint = TRUE
      BY <2>2 DEF Machine
    <3>. QED BY <3>1, <3>2, <3>3
  <2>4. files' = [files EXCEPT ![dog] = mine]
    BY <1>1, <2>1, <2>3
  <2>5. /\ files' \in [Dogs -> Machine] /\ \A d \in Dogs \ {dog} : files'[d] = files[d]
        /\ files'[dog].roots = files[dog].roots /\ files'[dog].checkpoint = TRUE
    BY <1>1, <2>3, <2>4
  <2>. QED BY <1>1, <2>1, <2>5 DEF Quiet, OneMachine, SameRoots, drive
<1>5. CASE Reserve(dog) \/ AdoptionReserve(dog)
  <2>1. /\ files' = [files EXCEPT ![dog].checkpoint = TRUE]
        /\ UNCHANGED <<document, flight, drive, frame, journal, task, faults>>
    BY <1>5 DEF Reserve, AdoptionReserve
  <2>2. /\ files' \in [Dogs -> Machine] /\ \A d \in Dogs \ {dog} : files'[d] = files[d]
        /\ files'[dog].roots = files[dog].roots /\ files'[dog].checkpoint = TRUE
    BY <1>1, <2>1 DEF Machine
  <2>. QED BY <1>1, <2>1, <2>2 DEF Quiet, OneMachine, SameRoots, drive
<1>6. CASE Release(dog)
  <2>1. document.phase = "ACTIVE" /\ Save(dog, "checkpoint", FALSE)
        /\ UNCHANGED <<document, flight, drive, journal, task>>
    BY <1>6 DEF Release, Releasable, Fits
  <2>2. FALSE \in Values["checkpoint"] /\ "checkpoint" \in Stores
    BY DEF Values, Stores
  <2>3. OneMachine(dog) /\ SameRoots(dog) /\ faults' \in 0 .. MaxFaults
    BY <1>1, <2>1, <2>2, SavedElsewhere
  <2>. QED BY <1>1, <2>1, <2>3 DEF Quiet, drive
<1>. QED BY <1>4, <1>5, <1>6

(* Frames and new stores that are not about the moves.                           *)
LEMMA RecoverySteps ==
  ASSUME Inv, NEW dog \in Dogs,
         \/ Recover(dog)
         \/ RecoverMoves(dog) /\ frame[dog].store # "roots"
         \/ \E store \in {"rebind", "post", "commit", "adoption"} : NewStore(dog, store)
  PROVE  Inv' /\ Effect
<1>1. /\ Typed /\ files \in [Dogs -> Machine] /\ frame \in [Dogs -> Frames]
      /\ task \in [Dogs -> Tasks] /\ faults \in 0 .. MaxFaults
  BY DEF Inv, Typed
<1>2. SUFFICES Quiet(dog)
  BY QuietKeeps
<1>3. CASE Recover(dog)
  <2>1. /\ frame[dog] # NoFrame /\ Promote(dog)
        /\ UNCHANGED <<document, flight, drive, journal, task, faults>>
    BY <1>3 DEF Recover
  <2>2. frame[dog].store # "roots" /\ (frame[dog].store = "checkpoint" => document.phase = "ACTIVE")
    BY <1>3 DEF Recover, Recoverable, Releasable, Fits
  <2>3. /\ OneMachine(dog) /\ SameRoots(dog)
        /\ frame[dog].store # "checkpoint" => files'[dog].checkpoint = files[dog].checkpoint
    BY <1>1, <2>1, <2>2, FrameReplaced
  <2>. QED BY <1>1, <2>1, <2>2, <2>3 DEF Quiet, drive
<1>4. CASE RecoverMoves(dog) /\ frame[dog].store # "roots"
  <2>1. /\ frame[dog].store = "evidence" /\ Promote(dog)
        /\ UNCHANGED <<document, flight, drive, journal, task, faults>>
    BY <1>4 DEF RecoverMoves
  <2>2. frame[dog] # NoFrame
    BY <2>1 DEF NoFrame
  <2>3. /\ OneMachine(dog) /\ SameRoots(dog)
        /\ files'[dog].checkpoint = files[dog].checkpoint
    BY <1>1, <2>1, <2>2, FrameReplaced
  <2>. QED BY <1>1, <2>1, <2>3 DEF Quiet, drive
<1>5. CASE \E store \in {"rebind", "post", "commit", "adoption"} : NewStore(dog, store)
  <2>1. PICK store \in {"rebind", "post", "commit", "adoption"} : NewStore(dog, store)
    BY <1>5
  <2>2. /\ files' = [files EXCEPT ![dog][store] = NewMachine[store]]
        /\ frame' = [frame EXCEPT ![dog] = IF Reads(dog, store) THEN @ ELSE NoFrame]
        /\ UNCHANGED <<document, flight, drive, journal, task, faults>>
    BY <2>1 DEF NewStore
  <2>3. store \in Stores /\ NewMachine[store] \in Values[store]
    <3>1. NewMachine["rebind"] \in RebindWal /\ Values["rebind"] = RebindWal
      <4>1. NewMachine["rebind"] = [at |-> "NONE", epoch |-> 0]
        BY DEF NewMachine
      <4>2. [at |-> "NONE", epoch |-> 0] \in RebindWal
        BY Bounds DEF RebindWal
      <4>3. Values["rebind"] = RebindWal
        BY DEF Values
      <4>. QED BY <4>1, <4>2, <4>3
    <3>2. NewMachine["post"] \in PostState /\ Values["post"] = PostState
      <4>1. NewMachine["post"] = [at |-> 0, epoch |-> 0]
        BY DEF NewMachine
      <4>2. [at |-> 0, epoch |-> 0] \in PostState
        BY Bounds DEF PostState
      <4>3. Values["post"] = PostState
        BY DEF Values
      <4>. QED BY <4>1, <4>2, <4>3
    <3>3. NewMachine["commit"] \in CommitWal /\ Values["commit"] = CommitWal
      <4>1. NewMachine["commit"] = [at |-> "NONE", epoch |-> 0, kind |-> "none"]
        BY DEF NewMachine
      <4>2. [at |-> "NONE", epoch |-> 0, kind |-> "none"] \in CommitWal
        BY Bounds DEF CommitWal
      <4>3. Values["commit"] = CommitWal
        BY DEF Values
      <4>. QED BY <4>1, <4>2, <4>3
    <3>4. NewMachine["adoption"] \in AdoptionState /\ Values["adoption"] = AdoptionState
      <4>1. NewMachine["adoption"] = [at |-> 0, epoch |-> 0]
        BY DEF NewMachine
      <4>2. [at |-> 0, epoch |-> 0] \in AdoptionState
        BY Bounds DEF AdoptionState
      <4>3. Values["adoption"] = AdoptionState
        BY DEF Values
      <4>. QED BY <4>1, <4>2, <4>3
    <3>5. NewMachine[store] \in Values[store]
      BY <2>1, <3>1, <3>2, <3>3, <3>4
    <3>. QED BY <2>1, <3>5 DEF Stores
  <2>4. PICK value \in Values[store] : value = NewMachine[store]
    BY <2>3
  <2>5. files' = [files EXCEPT ![dog][store] = value] /\ files \in [Dogs -> Machine]
    BY <1>1, <2>2, <2>4
  <2>6. /\ files' \in [Dogs -> Machine]
        /\ \A d \in Dogs \ {dog} : files'[d] = files[d]
        /\ store = "roots" => files'[dog].roots = value
        /\ store # "roots" => files'[dog].roots = files[dog].roots
        /\ store = "checkpoint" => files'[dog].checkpoint = value
        /\ store # "checkpoint" => files'[dog].checkpoint = files[dog].checkpoint
    BY <2>3, <2>5, StoreReplaced, Zenon
  <2>7. store # "roots" /\ store # "checkpoint"
    BY <2>1
  <2>8. /\ frame' \in [Dogs -> Frames] /\ \A d \in Dogs \ {dog} : frame'[d] = frame[d]
        /\ frame'[dog] = frame[dog] \/ (frame[dog].store = store /\ frame'[dog] = NoFrame)
    BY <1>1, <2>2, NoFrameFacts DEF Reads
  <2>9. NoFrame.store # "roots"
    BY DEF NoFrame
  <2>10. OneMachine(dog) /\ SameRoots(dog)
    BY <2>6, <2>7, <2>8, <2>9 DEF OneMachine, SameRoots
  <2>. QED BY <1>1, <2>2, <2>6, <2>7, <2>10 DEF Quiet, drive
<1>. QED BY <1>3, <1>4, <1>5

(* A process that dies, a check that fails, and a plan whose end is seen.        *)
LEMMA EndingSteps ==
  ASSUME Inv, NEW dog \in Dogs, Die(dog) \/ MoveFails(dog) \/ InspectEffects(dog)
  PROVE  Inv' /\ Effect
<1>1. /\ Typed /\ files \in [Dogs -> Machine] /\ frame \in [Dogs -> Frames]
      /\ journal \in [Dogs -> Plans] /\ task \in [Dogs -> Tasks] /\ faults \in 0 .. MaxFaults
      /\ MaxFaults \in Nat
  BY Bounds DEF Inv, Typed
<1>2. CASE Die(dog) \/ MoveFails(dog)
  <2>1. /\ task' = [task EXCEPT ![dog] = AtRest] /\ faults' \in 0 .. MaxFaults
        /\ UNCHANGED <<document, flight, drive, files, frame, journal>>
    <3>1. CASE Die(dog)
      <4>1. faults < MaxFaults /\ faults' = faults + 1
        BY <3>1 DEF Die, Fault
      <4>2. faults' \in 0 .. MaxFaults
        BY <1>1, <4>1
      <4>. QED BY <3>1, <4>2 DEF Die
    <3>2. CASE MoveFails(dog)
      BY <1>1, <3>2 DEF MoveFails
    <3>. QED BY <1>2, <3>1, <3>2
  <2>2. AtRest \in Tasks /\ AtRest.at = "rest"
    BY Bounds DEF AtRest, Tasks
  <2>3. /\ task' \in [Dogs -> Tasks]
        /\ \A d \in Dogs : task'[d] = task[d] \/ task'[d].at \notin {"start", "send", "record"}
    BY <1>1, <2>1, <2>2
  <2>4. OneMachine(dog) /\ SameRoots(dog)
    BY <1>1, <2>1 DEF OneMachine, SameRoots
  <2>5. Quiet(dog)
    BY <2>1, <2>3, <2>4 DEF Quiet, drive
  <2>. QED BY <2>5, QuietKeeps
<1>3. CASE InspectEffects(dog)
  <2>1. /\ journal' = [journal EXCEPT ![dog] = NoPlan]
        /\ UNCHANGED <<document, flight, drive, files, frame, task, faults>>
    BY <1>3 DEF InspectEffects
  <2>2. Typed'
    <3>1. NoPlan \in Plans
      BY DEF Plans
    <3>2. journal' \in [Dogs -> Plans]
      BY <1>1, <2>1, <3>1
    <3>. QED BY <1>1, <2>1, <3>2 DEF Typed, drive
  <2>3. \A d \in Dogs : Kept(d) /\ Counted(d)' /\ Starting(d)' /\ Sending(d)' /\ Recording(d)'
    <3>1. TAKE d \in Dogs
    <3>2. SameRoots(d) /\ document' = document /\ flight' = flight
          /\ moved' = moved /\ moving' = moving /\ task'[d] = task[d]
      BY <2>1 DEF SameRoots, drive
    <3>3. Counted(d) /\ Starting(d) /\ Sending(d) /\ Recording(d)
      BY DEF Inv
    <3>. QED BY <3>2, <3>3, DogStays
  <2>4. \/ journal'[document.owner] = journal[document.owner]
        \/ \A f \in flight : f.receipt = document.receipt
    <3>1. CASE document.owner # dog
      BY <1>1, <2>1, <3>1, Shapes
    <3>2. CASE document.owner = dog
      <4>1. SUFFICES ASSUME NEW f \in flight, f.receipt # document.receipt PROVE FALSE
        OBVIOUS
      <4>2. journal[dog].epoch = document.epoch /\ journal[dog].after = Ledger(f)
        BY <3>2, <4>1 DEF Inv, Flight
      <4>3. Ledger(f) # Ledger(document)
        BY <4>1 DEF Ledger
      <4>. QED BY <1>3, <3>2, <4>2, <4>3 DEF InspectEffects, Leads
    <3>. QED BY <3>1, <3>2
  <2>5. files'[document.owner].checkpoint = files[document.owner].checkpoint
    BY <2>1
  <2>. QED BY <2>1, <2>2, <2>3, <2>4, <2>5, Steady
<1>. QED BY <1>2, <1>3

-----------------------------------------------------------------------------
(* The WAL of the moves changes while it does not answer for an open move.       *)
LEMMA RootsKeeps ==
  ASSUME Inv, NEW dog \in Dogs, OneMachine(dog),
         files'[dog].checkpoint = files[dog].checkpoint,
         UNCHANGED <<document, flight, drive, journal>>,
         ~Pledged(dog, "INVOKING"), ~Pledged(dog, "REVOKED"),
         task' \in [Dogs -> Tasks], faults' \in 0 .. MaxFaults,
         \A d \in Dogs \ {dog} : task'[d] = task[d],
         Counted(dog)', Starting(dog)', Sending(dog)', Recording(dog)'
  PROVE  Inv' /\ Effect
<1>1. Typed'
  BY DEF OneMachine, Typed, Inv, drive
<1>2. \A d \in Dogs : Kept(d) /\ Counted(d)' /\ Starting(d)' /\ Sending(d)' /\ Recording(d)'
  <2>1. TAKE d \in Dogs
  <2>2. CASE d = dog
    BY <2>2 DEF Kept
  <2>3. CASE d # dog
    <3>1. SameRoots(d) /\ document' = document /\ flight' = flight
          /\ moved' = moved /\ moving' = moving /\ task'[d] = task[d]
      BY <2>3, OthersStay DEF drive
    <3>2. Counted(d) /\ Starting(d) /\ Sending(d) /\ Recording(d)
      BY DEF Inv
    <3>. QED BY <3>1, <3>2, DogStays
  <2>. QED BY <2>2, <2>3
<1>3. document.phase = "MAINTENANCE" =>
        (files[document.owner].checkpoint => files'[document.owner].checkpoint)
  <2>1. document.owner \in Dogs
    BY Shapes DEF Inv
  <2>. QED BY <2>1 DEF OneMachine
<1>. QED BY <1>1, <1>2, <1>3, Steady

(* The new WAL is there, or staged.                                              *)
LEMMA RootsSaved ==
  ASSUME Typed, NEW dog \in Dogs, NEW wal \in RootsWal, Save(dog, "roots", wal),
         Counts(wal), Counted(dog), moved' = moved
  PROVE  /\ OneMachine(dog) /\ faults' \in 0 .. MaxFaults
         /\ files'[dog].checkpoint = files[dog].checkpoint /\ Counted(dog)'
         /\ frame[dog].store # "roots"
         /\ \/ faults' = faults /\ Wal(dog)' = wal /\ frame'[dog].store # "roots"
            \/ faults' # faults /\ Wal(dog)' = Wal(dog)
<1>1. wal \in Values["roots"] /\ "roots" \in Stores
  BY DEF Values, Stores
<1>2. /\ OneMachine(dog) /\ faults' \in 0 .. MaxFaults
      /\ \/ /\ faults' = faults /\ frame' = frame
            /\ files' = [files EXCEPT ![dog]["roots"] = wal]
         \/ /\ faults' # faults /\ files' = files
            /\ frame'[dog] = [store |-> "roots", value |-> wal]
  BY <1>1, Saved
<1>3. frame[dog].store # "roots"
  BY DEF Save, Reads
<1>4. files \in [Dogs -> Machine]
  BY DEF Typed
<1>5. CASE /\ faults' = faults /\ frame' = frame
           /\ files' = [files EXCEPT ![dog]["roots"] = wal]
  <2>1. files'[dog].roots = wal /\ files'[dog].checkpoint = files[dog].checkpoint
    BY <1>4, <1>5 DEF Machine
  <2>2. Wal(dog)' = wal
    BY <2>1 DEF Wal
  <2>3. Counted(dog)'
    BY <1>3, <1>5, <2>2 DEF Counted, Counts
  <2>. QED BY <1>2, <1>3, <1>5, <2>1, <2>2, <2>3
<1>6. CASE /\ faults' # faults /\ files' = files
           /\ frame'[dog] = [store |-> "roots", value |-> wal]
  <2>1. Wal(dog)' = Wal(dog) /\ frame'[dog].value = wal
    BY <1>6 DEF Wal
  <2>2. Counted(dog)'
    BY <2>1 DEF Counted, Counts
  <2>. QED BY <1>2, <1>3, <1>6, <2>1, <2>2
<1>. QED BY <1>2, <1>5, <1>6

(* No step of a move is in hand that the change of the WAL could disturb.        *)
LEMMA NothingInHand ==
  ASSUME NEW dog \in Dogs, Starting(dog), UNCHANGED <<document, flight, drive>>,
         \/ task'[dog] = task[dog] /\ task[dog].at \notin {"send", "record"}
         \/ task'[dog].at = "rest"
  PROVE  Starting(dog)' /\ Sending(dog)' /\ Recording(dog)'
<1>1. document' = document /\ flight' = flight /\ moved' = moved
      /\ (Unknown' <=> Unknown) /\ (Leads(dog)' <=> Leads(dog))
  BY DEF drive, Unknown, Leads
<1>2. Starting(dog)'
  BY <1>1 DEF Starting
<1>3. Sending(dog)' /\ Recording(dog)'
  BY DEF Sending, Recording
<1>. QED BY <1>2, <1>3

(* A WAL answers for an open move only while it is marked so.                    *)
LEMMA NotPledged ==
  ASSUME NEW dog \in Dogs,
         \/ Wal(dog).pending.dispatch \notin {"INVOKING", "REVOKED"}
         \/ ~Unknown
         \/ Operation(dog) \in moved
         \/ frame[dog].store = "roots"
  PROVE  ~Pledged(dog, "INVOKING") /\ ~Pledged(dog, "REVOKED")
BY DEF Pledged, Operation

(* What the changes of a WAL are.                                                *)
LEMMA WalChanges ==
  ASSUME NEW wal \in RootsWal
  PROVE  /\ NoWal \in RootsWal /\ NoWal.pending.dispatch = "NONE" /\ NoPending.dispatch = "NONE"
         /\ wal.pending = [epoch |-> wal.pending.epoch, dispatch |-> wal.pending.dispatch]
         /\ wal.pending.epoch \in 0 .. MaxEpoch
         /\ \A epoch \in 0 .. MaxEpoch :
              LET new == [wal EXCEPT !.pending = [epoch |-> epoch, dispatch |-> "PREPARED"]] IN
              new \in RootsWal /\ new.index = wal.index
         /\ \A dispatch \in {"INVOKING", "REVOKED"} :
              LET new == [wal EXCEPT !.pending.dispatch = dispatch] IN
              /\ new \in RootsWal /\ new.index = wal.index
              /\ new.pending = [epoch |-> wal.pending.epoch, dispatch |-> dispatch]
         /\ LET new == [wal EXCEPT !.pending = NoPending] IN
            new \in RootsWal /\ new.index = wal.index
<1>1. NoWal \in RootsWal /\ NoWal.pending.dispatch = "NONE" /\ NoPending.dispatch = "NONE"
  BY Bounds DEF NoWal, RootsWal, NoPending
<1>2. /\ wal.pending = [epoch |-> wal.pending.epoch, dispatch |-> wal.pending.dispatch]
      /\ wal.pending.epoch \in 0 .. MaxEpoch
  BY DEF RootsWal
<1>3. ASSUME NEW epoch \in 0 .. MaxEpoch
      PROVE  LET new == [wal EXCEPT !.pending = [epoch |-> epoch, dispatch |-> "PREPARED"]] IN
             new \in RootsWal /\ new.index = wal.index
  BY DEF RootsWal
<1>4. ASSUME NEW dispatch \in {"INVOKING", "REVOKED"}
      PROVE  LET new == [wal EXCEPT !.pending.dispatch = dispatch] IN
             /\ new \in RootsWal /\ new.index = wal.index
             /\ new.pending = [epoch |-> wal.pending.epoch, dispatch |-> dispatch]
  BY DEF RootsWal
<1>5. NoPending \in [epoch : 0 .. MaxEpoch, dispatch : {"NONE", "PREPARED", "INVOKING", "REVOKED"}]
  BY Bounds DEF NoPending
<1>6. LET new == [wal EXCEPT !.pending = NoPending] IN
      new \in RootsWal /\ new.index = wal.index
  BY <1>5 DEF RootsWal
<1>. QED BY <1>1, <1>2, <1>3, <1>4, <1>6

(* A save of the WAL, where it counts what was moved.                            *)
LEMMA RootsSaveKeeps ==
  ASSUME Inv, NEW dog \in Dogs, NEW wal \in RootsWal, Save(dog, "roots", wal), Counts(wal),
         UNCHANGED <<document, flight, drive, journal>>,
         ~Pledged(dog, "INVOKING"), ~Pledged(dog, "REVOKED"),
         \/ task' = task /\ task[dog].at \notin {"send", "record"}
         \/ task' = [task EXCEPT ![dog] = AtRest]
  PROVE  Inv' /\ Effect
<1>1. Typed /\ Counted(dog) /\ Starting(dog) /\ moved' = moved /\ task \in [Dogs -> Tasks]
  BY DEF Inv, Typed, drive
<1>2. /\ OneMachine(dog) /\ faults' \in 0 .. MaxFaults
      /\ files'[dog].checkpoint = files[dog].checkpoint /\ Counted(dog)'
  BY <1>1, RootsSaved
<1>3. AtRest \in Tasks /\ AtRest.at = "rest"
  BY Bounds DEF AtRest, Tasks
<1>4. /\ task' \in [Dogs -> Tasks] /\ \A d \in Dogs \ {dog} : task'[d] = task[d]
      /\ \/ task'[dog] = task[dog] /\ task[dog].at \notin {"send", "record"}
         \/ task'[dog].at = "rest"
  BY <1>1, <1>3
<1>5. Starting(dog)' /\ Sending(dog)' /\ Recording(dog)'
  BY <1>1, <1>4, NothingInHand
<1>. QED BY <1>2, <1>4, <1>5, RootsKeeps

(* The WAL of the moves is begun (reconfiguration_roots.py, begin).              *)
LEMMA BeginRootsKeeps ==
  ASSUME Inv, NEW dog \in Dogs, BeginRoots(dog)
  PROVE  Inv' /\ Effect
<1>1. PICK wal : /\ wal = [NoWal EXCEPT !.index = 0, !.edited = files[dog].stage.edited]
                 /\ Save(dog, "roots", wal) /\ UNCHANGED <<document, flight, drive, journal, task>>
                 /\ Wal(dog) = NoWal /\ task[dog] = AtRest
  BY DEF BeginRoots, BeginMoves
<1>2. files[dog].stage.edited \in BOOLEAN
  <2>1. files[dog].stage \in StageState
    BY StoresHold DEF Inv
  <2>. QED BY <2>1 DEF StageState
<1>3. wal \in RootsWal /\ wal.index = 0
  <2>1. NoWal \in RootsWal
    BY Bounds DEF NoWal, RootsWal, NoPending
  <2>2. 0 \in -1 .. Last
    BY Bounds
  <2>. QED BY <1>1, <1>2, <2>1, <2>2 DEF RootsWal
<1>4. Counts(wal)
  BY <1>3, Bounds DEF Counts
<1>5. ~Pledged(dog, "INVOKING") /\ ~Pledged(dog, "REVOKED")
  BY <1>1, NotPledged DEF NoWal, NoPending
<1>6. task[dog].at = "rest"
  BY <1>1 DEF AtRest
<1>. QED BY <1>1, <1>3, <1>4, <1>5, <1>6, RootsSaveKeeps

(* A WAL that was begun counts what was moved.                                   *)
LEMMA CountedWal ==
  ASSUME Inv, NEW dog \in Dogs, Wal(dog) # NoWal
  PROVE  Wal(dog) \in RootsWal /\ Wal(dog).index \in 0 .. Last /\ Counts(Wal(dog))
<1>1. Counted(dog) /\ Typed
  BY DEF Inv
<1>. QED BY <1>1, Shapes DEF Counted, Counts

(* A move that is there is counted in the WAL (inspect, the save at its end).    *)
LEMMA RecordKeeps ==
  ASSUME Inv, NEW dog \in Dogs, Record(dog)
  PROVE  Inv' /\ Effect
<1>. DEFINE wal == [Wal(dog) EXCEPT !.index = @ + 1, !.pending = NoPending]
<1>1. Typed /\ moved \subseteq Objects /\ Recording(dog) /\ Last \in Nat
  BY Bounds DEF Inv, Typed
<1>2. /\ Save(dog, "roots", wal) /\ task' = [task EXCEPT ![dog] = AtRest]
      /\ UNCHANGED <<document, flight, drive, journal>>
  BY DEF Record
<1>3. Operation(dog) \in moved /\ Wal(dog).pending.dispatch = "INVOKING"
  <2>1. CASE task[dog].at = "record"
    BY <1>1, <2>1 DEF Recording
  <2>2. CASE Applied(dog)
    BY <2>2 DEF Applied
  <2>. QED BY <2>1, <2>2 DEF Record
<1>4. Wal(dog) # NoWal
  BY <1>3 DEF NoWal, NoPending
<1>5. Wal(dog) \in RootsWal /\ Wal(dog).index \in 0 .. Last /\ Counts(Wal(dog))
  BY <1>4, CountedWal
<1>6. Wal(dog).index + 1 \in 1 .. Last
  BY <1>1, <1>3 DEF Operation, Objects
<1>7. wal \in RootsWal /\ wal.index = Wal(dog).index + 1
  <2>1. NoPending \in [epoch : 0 .. MaxEpoch, dispatch : {"NONE", "PREPARED", "INVOKING", "REVOKED"}]
    BY Bounds DEF NoPending
  <2>2. Wal(dog).index + 1 \in -1 .. Last
    BY <1>6
  <2>. QED BY <1>5, <2>1, <2>2 DEF RootsWal
<1>8. Counts(wal)
  <2>1. 1 .. Wal(dog).index + 1 = (1 .. Wal(dog).index) \cup {Wal(dog).index + 1}
    BY <1>5, <1>1
  <2>2. 1 .. wal.index \subseteq moved
    BY <1>3, <1>5, <1>7, <2>1 DEF Counts, Operation
  <2>3. wal.index \in 0 .. Last
    BY <1>6, <1>7
  <2>. QED BY <2>2, <2>3 DEF Counts
<1>9. ~Pledged(dog, "INVOKING") /\ ~Pledged(dog, "REVOKED")
  BY <1>3, NotPledged
<1>. QED BY <1>2, <1>7, <1>8, <1>9, RootsSaveKeeps

(* Revoked, set free after the settlement, and begun from new stores.            *)
LEMMA RevokingSteps ==
  ASSUME Inv, NEW dog \in Dogs, RevokePrepared(dog) \/ ResumeRevoked(dog)
  PROVE  Inv' /\ Effect
<1>1. Recording(dog)
  BY DEF Inv
<1>2. CASE RevokePrepared(dog)
  <2>. DEFINE wal == [Wal(dog) EXCEPT !.pending.dispatch = "REVOKED"]
  <2>1. /\ Wal(dog).pending.dispatch = "PREPARED" /\ ~Locked(dog) /\ Save(dog, "roots", wal)
        /\ UNCHANGED <<document, flight, drive, journal>> /\ task' = task
    BY <1>2 DEF RevokePrepared
  <2>2. Wal(dog) # NoWal
    BY <2>1 DEF NoWal, NoPending
  <2>3. Wal(dog) \in RootsWal /\ Counts(Wal(dog))
    BY <2>2, CountedWal
  <2>4. wal \in RootsWal /\ wal.index = Wal(dog).index
    BY <2>3, WalChanges
  <2>5. Counts(wal)
    BY <2>3, <2>4 DEF Counts
  <2>6. task[dog].at \notin {"send", "record"}
    BY <1>1, <2>1 DEF Locked, Recording
  <2>7. ~Pledged(dog, "INVOKING") /\ ~Pledged(dog, "REVOKED")
    BY <2>1, NotPledged
  <2>. QED BY <2>1, <2>4, <2>5, <2>6, <2>7, RootsSaveKeeps
<1>3. CASE ResumeRevoked(dog)
  <2>. DEFINE wal == [Wal(dog) EXCEPT !.pending = NoPending]
  <2>1. /\ Wal(dog).pending.dispatch = "REVOKED" /\ ~Locked(dog) /\ Save(dog, "roots", wal)
        /\ document.receipt.outcome = "NOT_DISPATCHED"
        /\ UNCHANGED <<document, flight, drive, journal>> /\ task' = task
    BY <1>3 DEF ResumeRevoked, Revoked
  <2>2. Wal(dog) # NoWal
    BY <2>1 DEF NoWal, NoPending
  <2>3. Wal(dog) \in RootsWal /\ Counts(Wal(dog))
    BY <2>2, CountedWal
  <2>4. wal \in RootsWal /\ wal.index = Wal(dog).index
    BY <2>3, WalChanges
  <2>5. Counts(wal)
    BY <2>3, <2>4 DEF Counts
  <2>6. task[dog].at \notin {"send", "record"}
    BY <1>1, <2>1 DEF Locked, Recording
  <2>7. ~Pledged(dog, "INVOKING") /\ ~Pledged(dog, "REVOKED")
    BY <2>1, NotPledged DEF Unknown
  <2>. QED BY <2>1, <2>4, <2>5, <2>6, <2>7, RootsSaveKeeps
<1>. QED BY <1>2, <1>3

(* The objects that are there number as many as the order has come to.           *)
LEMMA ResumeMovesKeeps ==
  ASSUME Inv, NEW dog \in Dogs, ResumeMoves(dog)
  PROVE  Inv' /\ Effect
<1>. DEFINE wal == [NoWal EXCEPT !.index = Found, !.resumed = TRUE]
<1>1. /\ Wal(dog) = NoWal /\ task[dog] = AtRest /\ moved = 1 .. Found /\ Save(dog, "roots", wal)
      /\ UNCHANGED <<document, flight, drive, journal>> /\ task' = task
  BY DEF ResumeMoves, Resumable
<1>2. Found \in 0 .. Last
  <2>1. moved \subseteq 1 .. Last /\ Last \in Nat
    BY Bounds DEF Inv, Typed, Objects
  <2>2. IsFiniteSet(1 .. Last) /\ Cardinality(1 .. Last) = Last
    BY <2>1, FS_Interval
  <2>3. Cardinality(moved) <= Cardinality(1 .. Last) /\ IsFiniteSet(moved)
    BY <2>1, <2>2, FS_Subset
  <2>4. Cardinality(moved) \in Nat
    BY <2>3, FS_CardinalityType
  <2>. QED BY <2>1, <2>2, <2>3, <2>4 DEF Found
<1>3. wal \in RootsWal /\ wal.index = Found
  <2>1. NoWal \in RootsWal
    BY Bounds DEF NoWal, RootsWal, NoPending
  <2>2. Found \in -1 .. Last
    BY <1>2, Bounds
  <2>. QED BY <2>1, <2>2 DEF RootsWal
<1>4. Counts(wal)
  BY <1>1, <1>2, <1>3 DEF Counts
<1>5. ~Pledged(dog, "INVOKING") /\ ~Pledged(dog, "REVOKED")
  BY <1>1, NotPledged DEF NoWal, NoPending
<1>6. task[dog].at = "rest"
  BY <1>1 DEF AtRest
<1>. QED BY <1>1, <1>3, <1>4, <1>5, <1>6, RootsSaveKeeps

(* A staged WAL is recovered, or given up with the one it was staged for.        *)
LEMMA RootsRecovered ==
  ASSUME Inv, NEW dog \in Dogs,
         (RecoverMoves(dog) /\ frame[dog].store = "roots") \/ NewStore(dog, "roots")
  PROVE  Inv' /\ Effect
<1>1. /\ Typed /\ files \in [Dogs -> Machine] /\ frame \in [Dogs -> Frames] /\ Counted(dog)
      /\ Starting(dog) /\ Sending(dog) /\ Recording(dog)
      /\ task \in [Dogs -> Tasks] /\ faults \in 0 .. MaxFaults
  BY DEF Inv, Typed
<1>2. NoFrame \in Frames /\ NoFrame.store # "roots"
  BY NoFrameFacts DEF NoFrame
<1>3. CASE RecoverMoves(dog) /\ frame[dog].store = "roots"
  <2>1. Promote(dog) /\ UNCHANGED <<document, flight, drive, journal, task, faults>>
    BY <1>3 DEF RecoverMoves
  <2>2. frame[dog] # NoFrame
    BY <1>2, <1>3
  <2>3. /\ OneMachine(dog) /\ frame'[dog] = NoFrame /\ files'[dog].roots = frame[dog].value
        /\ files'[dog].checkpoint = files[dog].checkpoint
    BY <1>1, <1>3, <2>1, <2>2, FrameReplaced
  <2>4. Counted(dog)'
    BY <1>1, <1>2, <1>3, <2>1, <2>3 DEF Counted, Counts, Wal, drive
  <2>5. ~Pledged(dog, "INVOKING") /\ ~Pledged(dog, "REVOKED")
    BY <1>3, NotPledged
  <2>6. task[dog].at \notin {"send", "record"}
    BY <1>1, <1>3, <2>5 DEF Sending, Recording
  <2>7. Starting(dog)' /\ Sending(dog)' /\ Recording(dog)'
    BY <1>1, <2>1, <2>6, NothingInHand
  <2>. QED BY <1>1, <2>1, <2>3, <2>4, <2>5, <2>7, RootsKeeps
<1>4. CASE NewStore(dog, "roots")
  <2>1. /\ files' = [files EXCEPT ![dog]["roots"] = NewMachine["roots"]]
        /\ frame' = [frame EXCEPT ![dog] = IF Reads(dog, "roots") THEN @ ELSE NoFrame]
        /\ UNCHANGED <<document, flight, drive, journal, task, faults>>
        /\ task[dog] = AtRest
    BY <1>4 DEF NewStore
  <2>2. NewMachine["roots"] = NoWal /\ NoWal \in RootsWal
    BY Bounds DEF NewMachine, NoWal, RootsWal, NoPending
  <2>3. /\ files' \in [Dogs -> Machine] /\ \A d \in Dogs \ {dog} : files'[d] = files[d]
        /\ files'[dog].roots = NoWal /\ files'[dog].checkpoint = files[dog].checkpoint
    BY <1>1, <2>1, <2>2 DEF Machine
  <2>4. /\ frame' \in [Dogs -> Frames] /\ \A d \in Dogs \ {dog} : frame'[d] = frame[d]
        /\ frame'[dog].store # "roots"
    BY <1>1, <1>2, <2>1 DEF Reads
  <2>5. Counted(dog)' /\ OneMachine(dog)
    BY <2>3, <2>4 DEF Counted, Wal, OneMachine
  <2>6. ~Unknown
    BY <1>4 DEF NewStore, Over
  <2>7. ~Pledged(dog, "INVOKING") /\ ~Pledged(dog, "REVOKED")
    BY <2>6, NotPledged
  <2>8. task[dog].at = "rest"
    BY <2>1 DEF AtRest
  <2>9. Starting(dog)' /\ Sending(dog)' /\ Recording(dog)'
    BY <1>1, <2>1, <2>8, NothingInHand
  <2>. QED BY <1>1, <2>1, <2>3, <2>5, <2>7, <2>9, RootsKeeps
<1>. QED BY <1>3, <1>4

(* What was moved is always a beginning of the order.                            *)
LEMMA Beginning ==
  ASSUME Typed, Position
  PROVE  \E k \in 0 .. Last : moved = 1 .. k
<1>1. document.receipt \in Receipts /\ Last \in Nat
  BY Bounds DEF Typed, SharedDocument, Receipts
<1>2. document.receipt.outcome \in {"NONE", "UNKNOWN", "COMPLETE", "NOT_DISPATCHED"}
      /\ document.receipt.op \in 0 .. Last
  BY <1>1 DEF Receipts
<1>3. CASE document.receipt.outcome = "NONE"
  <2>1. moved = 1 .. 0
    BY <1>3 DEF Position
  <2>. QED BY <2>1, <1>1
<1>4. CASE document.receipt.outcome # "NONE"
  <2>1. document.receipt.op \in 1 .. Last
    BY <1>4 DEF Position, Objects
  <2>2. document.receipt.op - 1 \in 0 .. Last /\ document.receipt.op \in 0 .. Last
    BY <2>1, <1>1
  <2>3. moved = 1 .. document.receipt.op - 1 \/ moved = 1 .. document.receipt.op
    BY <1>2, <1>4 DEF Position, Unknown
  <2>. QED BY <2>2, <2>3
<1>. QED BY <1>3, <1>4

(* What was counted is all that was moved, while the next object was not.        *)
LEMMA NextObject ==
  ASSUME Typed, Position, NEW index \in 0 .. Last, 1 .. index \subseteq moved, index + 1 \notin moved
  PROVE  moved = 1 .. index
<1>1. PICK k \in 0 .. Last : moved = 1 .. k
  BY Beginning
<1>2. Last \in Nat
  BY Bounds
<1>3. ~(index + 1 <= k)
  BY <1>1, <1>2
<1>4. index <= k
  <2>1. CASE index = 0
    BY <2>1, <1>2
  <2>2. CASE index # 0
    <3>1. index \in 1 .. index
      BY <2>2, <1>2
    <3>. QED BY <3>1, <1>1, <1>2
  <2>. QED BY <2>1, <2>2
<1>5. k = index
  BY <1>2, <1>3, <1>4
<1>. QED BY <1>1, <1>5

(* Where a command goes on.                                                      *)
LEMMA Goes ==
  ASSUME task \in [Dogs -> Tasks], NEW dog \in Dogs, NEW next \in Tasks, Go(dog, next)
  PROVE  /\ task' \in [Dogs -> Tasks] /\ \A d \in Dogs \ {dog} : task'[d] = task[d]
         /\ faults' = faults => task'[dog] = next
         /\ faults' # faults => task'[dog].at = "rest"
<1>1. AtRest \in Tasks /\ AtRest.at = "rest"
  BY Bounds DEF AtRest, Tasks
<1>. QED BY <1>1 DEF Go

(* The next move is prepared (advance): the ledger is what it was counted from.  *)
LEMMA AdvanceKeeps ==
  ASSUME Inv, NEW dog \in Dogs, task[dog] = AtRest, Advance(dog)
  PROVE  Inv' /\ Effect
<1>. DEFINE wal == [Wal(dog) EXCEPT !.pending = [epoch |-> document.epoch, dispatch |-> "PREPARED"]]
            next == [at |-> "start", epoch |-> document.epoch, op |-> Operation(dog)]
<1>1. /\ Typed /\ Position /\ Flight /\ Counted(dog) /\ Starting(dog)
      /\ task \in [Dogs -> Tasks] /\ Last \in Nat /\ MaxEpoch \in Nat
  BY Bounds DEF Inv, Typed
<1>2. /\ Wal(dog) # NoWal /\ Wal(dog).pending = NoPending /\ Wal(dog).index < Last
      /\ journal[dog] = NoPlan /\ Proof(dog, Wal(dog), TRUE) /\ Operation(dog) \notin moved
      /\ Save(dog, "roots", wal) /\ Go(dog, next)
      /\ UNCHANGED <<document, flight, drive, journal>>
  BY DEF Advance, Remains
<1>3. Leads(dog) /\ ~Unknown
  BY <1>2 DEF Proof
<1>4. Wal(dog) \in RootsWal /\ Wal(dog).index \in 0 .. Last /\ Counts(Wal(dog))
  BY <1>2, CountedWal
<1>5. document.epoch \in 1 .. MaxEpoch /\ document.epoch \in 0 .. MaxEpoch
  <2>1. document.epoch \in 1 .. MaxEpoch
    BY <1>1, Shapes
  <2>. QED BY <2>1, <1>1
<1>6. wal \in RootsWal /\ wal.index = Wal(dog).index
  BY <1>4, <1>5, WalChanges
<1>7. Counts(wal)
  BY <1>4, <1>6 DEF Counts
<1>8. /\ OneMachine(dog) /\ faults' \in 0 .. MaxFaults
      /\ files'[dog].checkpoint = files[dog].checkpoint /\ Counted(dog)'
  BY <1>1, <1>2, <1>6, <1>7, RootsSaved DEF drive
<1>9. Operation(dog) \in 1 .. Last /\ Operation(dog) = Wal(dog).index + 1
  BY <1>1, <1>2, <1>4 DEF Operation
<1>10. next \in Tasks
  <2>1. Operation(dog) \in 0 .. Last
    BY <1>1, <1>9
  <2>. QED BY <1>5, <2>1 DEF Tasks
<1>11. /\ task' \in [Dogs -> Tasks] /\ \A d \in Dogs \ {dog} : task'[d] = task[d]
       /\ faults' = faults => task'[dog] = next
       /\ faults' # faults => task'[dog].at = "rest"
  BY <1>1, <1>2, <1>10, Goes
<1>12. ~Pledged(dog, "INVOKING") /\ ~Pledged(dog, "REVOKED")
  BY <1>3, NotPledged
<1>13. Starting(dog)' /\ Sending(dog)' /\ Recording(dog)'
  <2>1. CASE faults' # faults
    BY <1>1, <1>2, <1>11, <2>1, NothingInHand
  <2>2. CASE faults' = faults
    <3>1. task'[dog].at = "start" /\ task'[dog].epoch = document.epoch /\ task'[dog].op = Operation(dog)
      BY <1>11, <2>2
    <3>2. moved = 1 .. Operation(dog) - 1
      <4>1. moved = 1 .. Wal(dog).index
        BY <1>1, <1>2, <1>4, <1>9, NextObject DEF Counts
      <4>2. Operation(dog) - 1 = Wal(dog).index
        BY <1>4, <1>9
      <4>. QED BY <4>1, <4>2
    <3>3. \A f \in flight : f.receipt = document.receipt
      <4>1. journal[document.owner].epoch = 0
        BY <1>2, <1>3 DEF Leads, NoPlan
      <4>. QED BY <4>1, <1>1, <1>5 DEF Flight
    <3>4. document' = document /\ flight' = flight /\ moved' = moved /\ (Unknown' <=> Unknown)
      BY <1>2 DEF drive, Unknown
    <3>5. Starting(dog)'
      BY <3>1, <3>2, <3>3, <3>4, <1>3, <1>5, <1>9 DEF Starting, Objects
    <3>. QED BY <3>1, <3>5 DEF Sending, Recording
  <2>. QED BY <2>1, <2>2
<1>. QED BY <1>2, <1>8, <1>11, <1>12, <1>13, RootsKeeps

(* Marked INVOKING: the WAL answers for the move from here.                      *)
LEMMA ArmKeeps ==
  ASSUME Inv, NEW dog \in Dogs, Arm(dog)
  PROVE  Inv' /\ Effect
<1>. DEFINE work == task[dog]
            wal == [Wal(dog) EXCEPT !.pending.dispatch = "INVOKING"]
            next == [work EXCEPT !.at = "send"]
<1>1. /\ Typed /\ Underway /\ Counted(dog) /\ Starting(dog)
      /\ task \in [Dogs -> Tasks] /\ work \in Tasks
  BY DEF Inv, Typed
<1>2. /\ work.op \notin moved /\ Operation(dog) = work.op /\ frame[dog].store # "roots"
      /\ Wal(dog).pending = [epoch |-> work.epoch, dispatch |-> "PREPARED"]
      /\ document.receipt =
           [owner |-> dog, epoch |-> work.epoch, op |-> work.op, outcome |-> "UNKNOWN"]
      /\ Save(dog, "roots", wal) /\ Go(dog, next)
      /\ UNCHANGED <<document, flight, drive, journal>>
  BY DEF Arm, MayArm, Reads
<1>3. Wal(dog) # NoWal
  BY <1>2 DEF NoWal, NoPending
<1>4. Wal(dog) \in RootsWal /\ Counts(Wal(dog))
  BY <1>3, CountedWal
<1>5. /\ wal \in RootsWal /\ wal.index = Wal(dog).index
      /\ wal.pending = [epoch |-> work.epoch, dispatch |-> "INVOKING"]
  <2>1. Wal(dog).pending.epoch = work.epoch
    BY <1>2
  <2>. QED BY <1>4, <2>1, WalChanges
<1>6. Counts(wal)
  BY <1>4, <1>5 DEF Counts
<1>7. /\ OneMachine(dog) /\ faults' \in 0 .. MaxFaults
      /\ files'[dog].checkpoint = files[dog].checkpoint /\ Counted(dog)'
      /\ \/ faults' = faults /\ Wal(dog)' = wal /\ frame'[dog].store # "roots"
         \/ faults' # faults /\ Wal(dog)' = Wal(dog)
  BY <1>1, <1>2, <1>5, <1>6, RootsSaved DEF drive
<1>8. next \in Tasks /\ next.at = "send" /\ next.op = work.op
  BY <1>1 DEF Tasks
<1>9. /\ task' \in [Dogs -> Tasks] /\ \A d \in Dogs \ {dog} : task'[d] = task[d]
      /\ faults' = faults => task'[dog] = next
      /\ faults' # faults => task'[dog].at = "rest"
  BY <1>1, <1>2, <1>8, Goes
<1>10. ~Pledged(dog, "INVOKING") /\ ~Pledged(dog, "REVOKED")
  BY <1>2, NotPledged
<1>11. Starting(dog)' /\ Sending(dog)' /\ Recording(dog)'
  <2>1. CASE faults' # faults
    BY <1>1, <1>2, <1>9, <2>1, NothingInHand
  <2>2. CASE faults' = faults
    <3>1. task'[dog].at = "send" /\ task'[dog].op = work.op
      BY <1>8, <1>9, <2>2
    <3>2. Wal(dog)' = wal /\ frame'[dog].store # "roots"
      BY <1>7, <2>2
    <3>3. moving = {}
      <4>1. document.receipt.owner = dog
        BY <1>2
      <4>. QED BY <1>1, <1>10, <4>1 DEF Underway
    <3>4. document' = document /\ moved' = moved /\ moving' = moving
      BY <1>2 DEF drive
    <3>5. document.receipt.outcome = "UNKNOWN" /\ document.receipt.owner = dog
          /\ document.receipt.op = work.op /\ document.receipt.epoch = work.epoch
      BY <1>2
    <3>6. Wal(dog)'.index + 1 = work.op /\ Wal(dog)'.pending = [epoch |-> work.epoch, dispatch |-> "INVOKING"]
      BY <3>2, <1>2, <1>5 DEF Operation
    <3>7. Pledged(dog, "INVOKING")'
      BY <3>2, <3>4, <3>5, <3>6, <1>2 DEF Pledged, Unknown
    <3>8. Sending(dog)'
      BY <3>1, <3>3, <3>4, <3>5, <3>7 DEF Sending
    <3>. QED BY <3>1, <3>8 DEF Starting, Recording
  <2>. QED BY <1>7, <2>1, <2>2
<1>. QED BY <1>2, <1>7, <1>9, <1>10, <1>11, RootsKeeps

-----------------------------------------------------------------------------
(* Where no move is open, or it is settled, no request is on its way.            *)
LEMMA NoneOnTheWay ==
  ASSUME Inv, \/ ~Unknown
              \/ document.receipt.op \in moved
              \/ Pledged(document.receipt.owner, "REVOKED")
  PROVE  moving = {} /\ \A d \in Dogs : task[d].at # "send"
<1>1. ~Pledged(document.receipt.owner, "INVOKING")
  BY DEF Pledged
<1>2. moving = {}
  BY <1>1 DEF Inv, Underway
<1>3. ASSUME NEW d \in Dogs, task[d].at = "send" PROVE FALSE
  <2>1. Pledged(d, "INVOKING")
    BY <1>3 DEF Inv, Sending
  <2>2. document.receipt.owner = d
    BY <2>1 DEF Pledged
  <2>. QED BY <2>1, <2>2, <1>1
<1>. QED BY <1>2, <1>3

(* What a legal write makes of the document.                                     *)
LEMMA LegalWrite ==
  ASSUME Inv, NEW f, Legal(f), document' = f, flight' = {}, UNCHANGED <<moved, moving, files, frame>>
  PROVE  /\ Position' /\ Place' /\ Underway' /\ Effect
         /\ f.receipt # document.receipt => ~\E d \in Dogs : task[d].at = "send"
         /\ \A d \in Dogs : task[d].at = "send" => (Sending(d) => Pledged(d, "INVOKING")')
<1>1. /\ Typed /\ Position /\ Place /\ Underway /\ document.receipt \in Receipts
      /\ document.owner \in Dogs
  BY DEF Inv, Typed, SharedDocument, Receipts
<1>2. Last \in Nat /\ Objects = 1 .. Last
  BY Bounds DEF Objects
<1>3. document.phase = "MAINTENANCE" /\ document'.receipt = f.receipt /\ document'.owner = document.owner
  BY DEF Legal
<1>4. CASE Planned(f)
  <2>1. /\ document'.receipt = document.receipt /\ document'.route = document.route
        /\ document'.phase = document.phase /\ (Unknown' <=> Unknown) /\ f.receipt = document.receipt
    BY <1>4 DEF Planned, Unknown
  <2>2. \A d, dispatch : Pledged(d, dispatch) => Pledged(d, dispatch)'
    BY <2>1 DEF Pledged, Wal
  <2>3. Position' /\ Place'
    BY <1>1, <2>1 DEF Position, Place, AtOldRoot
  <2>4. Underway'
    BY <1>1, <2>1, <2>2 DEF Underway
  <2>5. Effect
    BY <2>1 DEF Effect
  <2>. QED BY <2>1, <2>2, <2>3, <2>4, <2>5 DEF Sending
<1>5. CASE Started(f)
  <2>1. moving = {} /\ \A d \in Dogs : task[d].at # "send"
    BY <1>5, NoneOnTheWay DEF Started
  <2>2. Position'
    BY <1>3, <1>5 DEF Position, Started, Unknown
  <2>3. Place'
    BY <1>5 DEF Place, Started, AtOldRoot
  <2>4. Effect
    BY <1>5 DEF Effect, Started, AtOldRoot
  <2>. QED BY <2>1, <2>2, <2>3, <2>4 DEF Underway
<1>6. CASE Completed(f)
  <2>1. moving = {} /\ \A d \in Dogs : task[d].at # "send"
    BY <1>6, NoneOnTheWay DEF Completed
  <2>2. /\ f.receipt.outcome = "COMPLETE" /\ f.receipt.op = document.receipt.op
        /\ f.receipt.owner = document.receipt.owner
    BY <1>1, <1>6 DEF Completed, Receipts
  <2>3. /\ document.receipt.op \in Objects /\ document.receipt.owner \in Dogs
        /\ moved = 1 .. document.receipt.op
    <3>1. /\ document.receipt.op \in Objects /\ document.receipt.owner \in Dogs
          /\ moved = 1 .. document.receipt.op - 1 \/ moved = 1 .. document.receipt.op
      BY <1>1, <1>6 DEF Position, Completed, Unknown
    <3>2. document.receipt.op \in moved
      BY <1>6 DEF Completed
    <3>3. document.receipt.op \notin 1 .. document.receipt.op - 1
      BY <3>1, <1>2
    <3>. QED BY <3>1, <3>2, <3>3
  <2>4. Position'
    BY <1>3, <2>2, <2>3 DEF Position, Unknown
  <2>5. ~Unknown' /\ document'.route = document.route /\ document'.phase = document.phase
    BY <1>3, <1>6, <2>2 DEF Unknown, Completed
  <2>6. Place' /\ Effect
    BY <1>1, <1>3, <2>5 DEF Place, Effect
  <2>. QED BY <2>1, <2>4, <2>6 DEF Underway
<1>7. CASE Excluded(f)
  <2>1. moving = {} /\ \A d \in Dogs : task[d].at # "send"
    BY <1>7, NoneOnTheWay DEF Excluded
  <2>2. /\ f.receipt.outcome = "NOT_DISPATCHED" /\ f.receipt.op = document.receipt.op
        /\ f.receipt.owner = document.receipt.owner
    BY <1>1, <1>7 DEF Excluded, Receipts
  <2>3. /\ document.receipt.op \in Objects /\ document.receipt.owner \in Dogs
        /\ moved = 1 .. document.receipt.op - 1
    <3>1. /\ document.receipt.op \in Objects /\ document.receipt.owner \in Dogs
          /\ moved = 1 .. document.receipt.op - 1 \/ moved = 1 .. document.receipt.op
      BY <1>1, <1>7 DEF Position, Excluded, Unknown
    <3>2. document.receipt.op \notin moved
      BY <1>7 DEF Excluded, Pledged
    <3>3. document.receipt.op \in 1 .. document.receipt.op
      BY <3>1, <1>2
    <3>. QED BY <3>1, <3>2, <3>3
  <2>4. Position'
    BY <1>3, <2>2, <2>3 DEF Position, Unknown
  <2>5. ~Unknown' /\ document'.route = document.route /\ document'.phase = document.phase
    BY <1>3, <1>7, <2>2 DEF Unknown, Excluded
  <2>6. Place' /\ Effect
    BY <1>1, <1>3, <2>5 DEF Place, Effect
  <2>. QED BY <2>1, <2>4, <2>6 DEF Underway
<1>8. CASE Redirected(f)
  <2>1. moving = {} /\ \A d \in Dogs : task[d].at # "send"
    BY <1>8, NoneOnTheWay DEF Redirected
  <2>2. document'.receipt = document.receipt /\ ~Unknown /\ ~Unknown'
    BY <1>3, <1>8 DEF Redirected, Unknown
  <2>3. moved = Objects
    BY <1>1, <1>2, <1>8 DEF Position, Redirected
  <2>4. Position'
    BY <1>1, <2>2 DEF Position
  <2>5. document'.phase = document.phase /\ document'.route = "new"
    BY <1>8 DEF Redirected
  <2>6. Place' /\ Effect
    <3>1. Place'
      BY <1>3, <2>2, <2>3, <2>5 DEF Place, Objects
    <3>2. Effect
      BY <1>3, <2>3, <2>5 DEF Effect
    <3>. QED BY <3>1, <3>2
  <2>. QED BY <2>1, <2>4, <2>6 DEF Underway
<1>9. CASE Opening(f)
  <2>1. moving = {} /\ \A d \in Dogs : task[d].at # "send"
    BY <1>9, NoneOnTheWay DEF Opening
  <2>2. document'.receipt = document.receipt /\ ~Unknown /\ ~Unknown'
    BY <1>3, <1>9 DEF Opening, Unknown
  <2>3. Position'
    BY <1>1, <2>2 DEF Position
  <2>4. /\ document'.phase = "ACTIVE" /\ document'.route = document.route
        /\ moved = {} \/ document.route = "new"
        /\ files'[document'.owner].checkpoint
    BY <1>3, <1>9 DEF Opening
  <2>5. Place'
    BY <1>1, <2>2, <2>4 DEF Place
  <2>6. Effect
    BY <1>3, <2>4 DEF Effect
  <2>. QED BY <2>1, <2>3, <2>5, <2>6 DEF Underway
<1>. QED BY <1>4, <1>5, <1>6, <1>7, <1>8, <1>9 DEF Legal

(* The command of a dog goes on, ends, or is about to record a move that is there; *)
(* and the leader starts no move while the ledger changes under it.              *)
GoesOn(d) ==
  \/ task'[d] = task[d]
  \/ task'[d].at \notin {"start", "send", "record"}
  \/ /\ task'[d].at = "record" /\ Wal(d).pending.dispatch = "INVOKING"
     /\ Operation(d) \in moved /\ frame[d].store # "roots"
Apart(f) ==
  f.receipt # document.receipt =>
    ~(task'[document.owner].at = "start" /\ task'[document.owner].epoch = document.epoch)

(* What is about to be recorded is in the new root still.                        *)
LEMMA RecordingGoesOn ==
  ASSUME NEW d \in Dogs, Recording(d), GoesOn(d), UNCHANGED <<drive, files, frame>>
  PROVE  Recording(d)'
BY DEF Recording, GoesOn, Wal, Operation, drive

(* A legal write.                                                                *)
LEMMA Written ==
  ASSUME Inv, NEW f, Legal(f), document' = f, flight' = {}, UNCHANGED <<drive, files, frame>>,
         journal' \in [Dogs -> Plans], task' \in [Dogs -> Tasks], faults' \in 0 .. MaxFaults,
         \A d \in Dogs : GoesOn(d), Apart(f)
  PROVE  Inv' /\ Effect
<1>1. /\ Typed /\ Requests /\ document.owner \in Dogs
      /\ moved' = moved /\ moving' = moving /\ sends' = sends
  BY DEF Inv, Typed, SharedDocument, drive
<1>2. Typed'
  BY <1>1 DEF Typed, Legal
<1>3. /\ Position' /\ Place' /\ Underway' /\ Effect
      /\ f.receipt # document.receipt => ~\E d \in Dogs : task[d].at = "send"
      /\ \A d \in Dogs : task[d].at = "send" => (Sending(d) => Pledged(d, "INVOKING")')
  BY <1>1, LegalWrite
<1>4. Requests'
  BY <1>1 DEF Requests
<1>5. Flight'
  BY DEF Flight
<1>6. ASSUME NEW d \in Dogs
      PROVE  Counted(d)' /\ Starting(d)' /\ Sending(d)' /\ Recording(d)'
  <2>1. Counted(d) /\ Starting(d) /\ Sending(d) /\ Recording(d) /\ GoesOn(d)
    BY <1>6 DEF Inv
  <2>2. Counted(d)'
    BY <1>1, <2>1 DEF Counted, Counts, Wal
  <2>3. Starting(d)'
    <3>1. CASE task'[d].at # "start"
      BY <3>1 DEF Starting
    <3>2. CASE task'[d].at = "start"
      <4>1. task'[d] = task[d]
        BY <2>1, <3>2 DEF GoesOn
      <4>2. document'.owner = document.owner /\ document'.epoch = document.epoch
        BY DEF Legal
      <4>3. Leads(d)' /\ task'[d].epoch = document'.epoch => document'.receipt = document.receipt
        BY <3>2, <4>2 DEF Leads, Apart
      <4>. QED BY <1>1, <2>1, <3>2, <4>1, <4>2, <4>3 DEF Starting, Leads, Unknown
    <3>. QED BY <3>1, <3>2
  <2>4. Sending(d)'
    <3>1. CASE task'[d].at # "send"
      BY <3>1 DEF Sending
    <3>2. CASE task'[d].at = "send"
      <4>1. task'[d] = task[d] /\ task[d].at = "send"
        BY <2>1, <3>2 DEF GoesOn
      <4>2. document'.receipt = document.receipt /\ Pledged(d, "INVOKING")'
        BY <1>3, <2>1, <4>1
      <4>. QED BY <1>1, <2>1, <4>1, <4>2 DEF Sending
    <3>. QED BY <3>1, <3>2
  <2>5. Recording(d)'
    BY <2>1, RecordingGoesOn
  <2>. QED BY <2>2, <2>3, <2>4, <2>5
<1>. QED BY <1>2, <1>3, <1>4, <1>5, <1>6 DEF Inv

(* A legal write that is not answered, and may be applied later.                 *)
LEMMA Delayed ==
  ASSUME Inv, NEW f, Legal(f), document' = document, flight' = flight \cup {f},
         UNCHANGED <<drive, files, frame>>,
         journal' \in [Dogs -> Plans], task' \in [Dogs -> Tasks], faults' \in 0 .. MaxFaults,
         \A d \in Dogs : GoesOn(d), Apart(f),
         f.receipt # document.receipt =>
           /\ journal'[document.owner].epoch = document.epoch
           /\ journal'[document.owner].after = Ledger(f),
         \/ journal'[document.owner] = journal[document.owner]
         \/ \A g \in flight : g.receipt = document.receipt
  PROVE  Inv' /\ Effect
<1>1. /\ Typed /\ Requests /\ Position /\ Place /\ Underway /\ Flight /\ document.owner \in Dogs
      /\ moved' = moved /\ moving' = moving /\ sends' = sends
      /\ (Unknown' <=> Unknown)
  BY DEF Inv, Typed, SharedDocument, drive, Unknown
<1>2. Typed'
  BY <1>1 DEF Typed, Legal
<1>3. \A d, dispatch : Pledged(d, dispatch) => Pledged(d, dispatch)'
  BY <1>1 DEF Pledged, Wal
<1>4. Position' /\ Requests' /\ Underway'
  BY <1>1, <1>3 DEF Position, Requests, Underway
<1>5. Place'
  <2>1. document.phase = "MAINTENANCE"
    BY DEF Legal
  <2>. QED BY <1>1, <2>1 DEF Place, AtOldRoot
<1>6. Flight'
  <2>1. ASSUME NEW g \in flight \cup {f} PROVE Legal(g)'
    <3>1. Legal(g)
      BY <1>1, <2>1 DEF Flight
    <3>2. \A d \in Dogs : Kept(d)
      BY <1>3 DEF Kept
    <3>3. files' = files /\ document' = document /\ moved' = moved
      BY <1>1
    <3>. QED BY <1>1, <3>1, <3>2, <3>3, LegalStays
  <2>2. ASSUME NEW g \in flight \cup {f}, g.receipt # document.receipt
        PROVE  /\ journal'[document.owner].epoch = document.epoch
               /\ journal'[document.owner].after = Ledger(g)
    <3>1. CASE g = f
      BY <2>2, <3>1
    <3>2. CASE g \in flight
      BY <1>1, <2>2, <3>2 DEF Flight
    <3>. QED BY <2>2, <3>1, <3>2
  <2>. QED BY <2>1, <2>2 DEF Flight
<1>7. ASSUME NEW d \in Dogs
      PROVE  Counted(d)' /\ Starting(d)' /\ Sending(d)' /\ Recording(d)'
  <2>1. Counted(d) /\ Starting(d) /\ Sending(d) /\ Recording(d) /\ GoesOn(d)
    BY <1>7 DEF Inv
  <2>2. Counted(d)'
    BY <1>1, <2>1 DEF Counted, Counts, Wal
  <2>3. Starting(d)'
    <3>1. CASE task'[d].at # "start"
      BY <3>1 DEF Starting
    <3>2. CASE task'[d].at = "start"
      <4>1. task'[d] = task[d]
        BY <2>1, <3>2 DEF GoesOn
      <4>2. Leads(d) /\ task[d].epoch = document.epoch => f.receipt = document.receipt
        BY <3>2, <4>1 DEF Leads, Apart
      <4>. QED BY <1>1, <2>1, <3>2, <4>1, <4>2 DEF Starting, Leads
    <3>. QED BY <3>1, <3>2
  <2>4. Sending(d)'
    <3>1. CASE task'[d].at # "send"
      BY <3>1 DEF Sending
    <3>2. CASE task'[d].at = "send"
      BY <1>1, <1>3, <2>1, <3>2 DEF Sending, GoesOn
    <3>. QED BY <3>1, <3>2
  <2>5. Recording(d)'
    BY <2>1, RecordingGoesOn
  <2>. QED BY <2>2, <2>3, <2>4, <2>5
<1>8. Effect
  BY <1>1 DEF Effect
<1>. QED BY <1>2, <1>4, <1>5, <1>6, <1>7, <1>8 DEF Inv

(* A command writes the ledger, with its plan saved where it is in doubt.        *)
LEMMA Committed ==
  ASSUME Inv, NEW dog \in Dogs, NEW after, Legal(after), NEW next \in Tasks,
         Commit(dog, after, next), UNCHANGED <<drive, files, frame>>,
         \/ next = task[dog]
         \/ next.at \notin {"start", "send", "record"}
         \/ /\ next.at = "record" /\ Wal(dog).pending.dispatch = "INVOKING"
            /\ Operation(dog) \in moved /\ frame[dog].store # "roots",
         after.receipt # document.receipt =>
           ~(next.at = "start" /\ next.epoch = document.epoch)
  PROVE  Inv' /\ Effect
<1>1. /\ Typed /\ Flight /\ task \in [Dogs -> Tasks] /\ journal \in [Dogs -> Plans]
      /\ faults \in 0 .. MaxFaults /\ MaxFaults \in Nat /\ document \in SharedDocument
      /\ after \in SharedDocument
  BY Bounds DEF Inv, Typed, Legal
<1>2. /\ Leads(dog) /\ journal[dog] = NoPlan /\ Go(dog, next) /\ document.owner = dog
  BY DEF Commit, Leads
<1>3. /\ task' \in [Dogs -> Tasks] /\ \A d \in Dogs \ {dog} : task'[d] = task[d]
      /\ faults' = faults => task'[dog] = next
      /\ faults' # faults => task'[dog].at = "rest"
  BY <1>1, <1>2, Goes
<1>4. (\A d \in Dogs : GoesOn(d)) /\ Apart(after)
  BY <1>2, <1>3 DEF GoesOn, Apart
<1>5. CASE Put(after) /\ UNCHANGED <<journal, faults>>
  BY <1>1, <1>3, <1>4, <1>5, Written DEF Put
<1>6. CASE /\ Fault /\ PutInDoubt(after)
           /\ journal' = [journal EXCEPT ![dog] =
                [epoch |-> document.epoch, before |-> Ledger(document), after |-> Ledger(after)]]
  <2>. DEFINE plan == [epoch |-> document.epoch, before |-> Ledger(document), after |-> Ledger(after)]
  <2>1. faults' \in 0 .. MaxFaults
    BY <1>1, <1>6 DEF Fault
  <2>2. plan \in Plans /\ plan.epoch = document.epoch /\ plan.after = Ledger(after)
    <3>1. Ledger(document) \in BOOLEAN \X Receipts /\ Ledger(after) \in BOOLEAN \X Receipts
      BY <1>1 DEF Ledger, SharedDocument, Receipts
    <3>2. document.epoch \in 1 .. MaxEpoch
      BY <1>1 DEF SharedDocument
    <3>. QED BY <3>1, <3>2 DEF Plans
  <2>3. journal' \in [Dogs -> Plans] /\ journal'[dog] = plan
    BY <1>1, <1>6, <2>2
  <2>4. \A g \in flight : g.receipt = document.receipt
    <3>1. document.epoch \in 1 .. MaxEpoch /\ MaxEpoch \in Nat
      BY <1>1, Bounds DEF SharedDocument
    <3>2. journal[dog].epoch # document.epoch
      BY <1>2, <3>1 DEF NoPlan
    <3>. QED BY <1>1, <1>2, <3>2 DEF Flight
  <2>5. CASE Put(after)
    BY <1>1, <1>3, <1>4, <2>1, <2>3, <2>5, Written DEF Put
  <2>6. CASE flight' = flight \cup {after} /\ UNCHANGED document
    BY <1>1, <1>2, <1>3, <1>4, <2>1, <2>2, <2>3, <2>4, <2>6, Delayed
  <2>. QED BY <1>6, <2>5, <2>6 DEF PutInDoubt
<1>. QED BY <1>5, <1>6 DEF Commit

(* The write of the rebind and of the commit.                                    *)
LEMMA Reconciled ==
  ASSUME Inv, NEW dog \in Dogs, NEW desired, NEW holds \in BOOLEAN, Reconcile(dog, desired, holds),
         holds => Legal(desired) /\ desired.receipt = document.receipt
  PROVE  Inv' /\ Effect
<1>1. /\ Typed /\ task \in [Dogs -> Tasks] /\ journal \in [Dogs -> Plans]
      /\ files \in [Dogs -> Machine] /\ frame \in [Dogs -> Frames]
      /\ faults \in 0 .. MaxFaults /\ MaxFaults \in Nat
  BY Bounds DEF Inv, Typed
<1>2. task' = [task EXCEPT ![dog] = AtRest] /\ UNCHANGED <<drive, files, frame, journal>>
  BY DEF Reconcile
<1>3. AtRest \in Tasks /\ AtRest.at = "rest"
  BY Bounds DEF AtRest, Tasks
<1>4. /\ task' \in [Dogs -> Tasks]
      /\ \A d \in Dogs : task'[d] = task[d] \/ task'[d].at \notin {"start", "send", "record"}
  BY <1>1, <1>2, <1>3
<1>5. CASE ~holds
  <2>1. UNCHANGED <<document, flight, faults>>
    BY <1>5 DEF Reconcile
  <2>2. OneMachine(dog) /\ SameRoots(dog)
    BY <1>1, <1>2 DEF OneMachine, SameRoots
  <2>3. Quiet(dog)
    BY <1>1, <1>2, <1>4, <2>1, <2>2 DEF Quiet, drive
  <2>. QED BY <2>3, QuietKeeps
<1>6. CASE holds
  <2>1. Legal(desired) /\ desired.receipt = document.receipt
    BY <1>6
  <2>2. (\A d \in Dogs : GoesOn(d)) /\ Apart(desired)
    BY <1>4, <2>1 DEF GoesOn, Apart
  <2>3. faults' \in 0 .. MaxFaults
    <3>1. faults' = faults \/ (faults < MaxFaults /\ faults' = faults + 1)
      BY <1>6 DEF Reconcile, Fault
    <3>. QED BY <1>1, <3>1
  <2>4. CASE Put(desired)
    BY <1>1, <1>2, <1>4, <2>1, <2>2, <2>3, <2>4, Written DEF Put
  <2>5. CASE flight' = flight \cup {desired} /\ UNCHANGED document
    BY <1>1, <1>2, <1>4, <2>1, <2>2, <2>3, <2>5, Delayed
  <2>. QED BY <1>6, <2>4, <2>5 DEF Reconcile, PutInDoubt
<1>. QED BY <1>5, <1>6

(* What the commands make of the document.                                       *)
LEMMA DocumentChanges ==
  ASSUME NEW shared \in SharedDocument, NEW outcome \in {"COMPLETE", "NOT_DISPATCHED"}
  PROVE  /\ LET new == [shared EXCEPT !.plan = TRUE] IN
            /\ new \in SharedDocument /\ new.owner = shared.owner /\ new.epoch = shared.epoch
            /\ new.receipt = shared.receipt /\ new.route = shared.route /\ new.phase = shared.phase
         /\ LET new == [shared EXCEPT !.receipt.outcome = outcome] IN
            /\ new \in SharedDocument /\ new.owner = shared.owner /\ new.epoch = shared.epoch
            /\ new.receipt = [shared.receipt EXCEPT !.outcome = outcome]
            /\ new.route = shared.route /\ new.phase = shared.phase
         /\ LET new == [shared EXCEPT !.route = "new"] IN
            /\ new \in SharedDocument /\ new.owner = shared.owner /\ new.epoch = shared.epoch
            /\ new.receipt = shared.receipt /\ new.route = "new" /\ new.phase = shared.phase
<1>1. LET new == [shared EXCEPT !.plan = TRUE] IN
      /\ new \in SharedDocument /\ new.owner = shared.owner /\ new.epoch = shared.epoch
      /\ new.receipt = shared.receipt /\ new.route = shared.route /\ new.phase = shared.phase
  BY DEF SharedDocument
<1>2. LET new == [shared EXCEPT !.receipt.outcome = outcome] IN
      /\ new \in SharedDocument /\ new.owner = shared.owner /\ new.epoch = shared.epoch
      /\ new.receipt = [shared.receipt EXCEPT !.outcome = outcome]
      /\ new.route = shared.route /\ new.phase = shared.phase
  BY DEF SharedDocument
<1>3. LET new == [shared EXCEPT !.route = "new"] IN
      /\ new \in SharedDocument /\ new.owner = shared.owner /\ new.epoch = shared.epoch
      /\ new.receipt = shared.receipt /\ new.route = "new" /\ new.phase = shared.phase
  BY DEF SharedDocument
<1>. QED BY <1>1, <1>2, <1>3

(* The plan of the moves enters the ledger (_ensure_plan).                       *)
LEMMA EnsurePlanKeeps ==
  ASSUME Inv, NEW dog \in Dogs, EnsurePlan(dog)
  PROVE  Inv' /\ Effect
<1>. DEFINE after == [document EXCEPT !.plan = TRUE]
<1>1. document \in SharedDocument /\ AtRest \in Tasks /\ AtRest.at = "rest"
  BY Bounds DEF Inv, Typed, AtRest, Tasks
<1>2. /\ Commit(dog, after, AtRest) /\ UNCHANGED <<drive, files, frame>>
      /\ document.phase = "MAINTENANCE"
  BY DEF EnsurePlan, Proof, AtOldRoot
<1>3. /\ after \in SharedDocument /\ after.owner = document.owner /\ after.epoch = document.epoch
      /\ after.receipt = document.receipt /\ after.route = document.route
      /\ after.phase = document.phase
  BY <1>1, DocumentChanges
<1>4. Legal(after)
  BY <1>2, <1>3 DEF Legal, Planned
<1>. QED BY <1>1, <1>2, <1>3, <1>4, Committed

(* The move is entered as UNKNOWN before it is armed (Effects.start).            *)
LEMMA StartKeeps ==
  ASSUME Inv, NEW dog \in Dogs, Start(dog)
  PROVE  Inv' /\ Effect
<1>. DEFINE work == task[dog]
            receipt == [owner |-> dog, epoch |-> work.epoch, op |-> work.op, outcome |-> "UNKNOWN"]
            after == [document EXCEPT !.receipt = receipt]
            next == [work EXCEPT !.at = "arm"]
<1>1. /\ document \in SharedDocument /\ work \in Tasks /\ Starting(dog) /\ Place /\ Last \in Nat
  BY Bounds DEF Inv, Typed
<1>2. /\ work.at = "start" /\ document.owner = dog /\ Leads(dog) /\ document.epoch = work.epoch
      /\ document.phase = "MAINTENANCE" /\ ~Unknown
      /\ Commit(dog, after, next) /\ UNCHANGED <<drive, files, frame>>
  BY DEF Start, MayStart, Leads
<1>3. work.op \in 1 .. Last /\ moved = 1 .. work.op - 1
  BY <1>1, <1>2 DEF Starting, Objects
<1>4. document.route = "old"
  <2>1. work.op \notin 1 .. work.op - 1
    BY <1>1, <1>3
  <2>2. moved # Objects
    BY <1>3, <2>1 DEF Objects
  <2>. QED BY <1>1, <2>2 DEF Place, SharedDocument
<1>5. /\ after \in SharedDocument /\ after.owner = document.owner /\ after.epoch = document.epoch
      /\ after.receipt = receipt /\ after.route = document.route /\ after.phase = document.phase
  <2>1. receipt \in Receipts
    BY <1>1 DEF Receipts, Tasks
  <2>. QED BY <1>1, <2>1 DEF SharedDocument, Receipts
<1>6. Legal(after)
  <2>1. /\ receipt.outcome = "UNKNOWN" /\ receipt.op = work.op /\ receipt.owner \in Dogs
    OBVIOUS
  <2>2. Started(after)
    BY <1>2, <1>3, <1>4, <1>5, <2>1 DEF Started, AtOldRoot, Objects
  <2>. QED BY <1>2, <1>5, <2>2 DEF Legal
<1>7. next \in Tasks /\ next.at = "arm"
  BY <1>1 DEF Tasks
<1>. QED BY <1>2, <1>6, <1>7, Committed

(* The ledger says COMPLETE of what is in the new root.                          *)
LEMMA CompleteIsLegal ==
  ASSUME Inv, Unknown, AtOldRoot, document.receipt.op \in moved
  PROVE  Legal([document EXCEPT !.receipt.outcome = "COMPLETE"])
<1>. DEFINE after == [document EXCEPT !.receipt.outcome = "COMPLETE"]
<1>1. /\ document \in SharedDocument
  BY DEF Inv, Typed
<1>2. /\ after \in SharedDocument /\ after.owner = document.owner /\ after.epoch = document.epoch
      /\ after.receipt = [document.receipt EXCEPT !.outcome = "COMPLETE"]
      /\ after.route = document.route /\ after.phase = document.phase
  BY <1>1, DocumentChanges
<1>3. after.receipt.outcome = "COMPLETE"
  <2>1. document.receipt \in Receipts
    BY <1>1 DEF SharedDocument, Receipts
  <2>. QED BY <1>2, <2>1 DEF Receipts
<1>. QED BY <1>2, <1>3 DEF Legal, Completed, AtOldRoot

(* The leader that began the move finds it done (inspect).                       *)
LEMMA FinishKeeps ==
  ASSUME Inv, NEW dog \in Dogs, Finish(dog)
  PROVE  Inv' /\ Effect
<1>. DEFINE after == [document EXCEPT !.receipt.outcome = "COMPLETE"]
            next == [AtRest EXCEPT !.at = "record"]
<1>1. /\ Unknown /\ Operation(dog) \in moved /\ document.receipt.op = Operation(dog) /\ AtOldRoot
      /\ Wal(dog).pending.dispatch = "INVOKING" /\ frame[dog].store # "roots"
      /\ Commit(dog, after, next) /\ UNCHANGED <<drive, files, frame>>
  BY DEF Finish, Applied, Proof, Reads
<1>2. Legal(after)
  BY <1>1, CompleteIsLegal
<1>3. next \in Tasks /\ next.at = "record"
  <2>1. AtRest \in Tasks
    BY Bounds DEF AtRest, Tasks
  <2>. QED BY <2>1 DEF Tasks
<1>. QED BY <1>1, <1>2, <1>3, Committed

(* A later leader, or the same one, settles a move that was left open.           *)
LEMMA SettlingSteps ==
  ASSUME Inv, NEW dog \in Dogs,
         SettleApplied(dog) \/ \E other \in Dogs : SettleUnsent(dog, other)
  PROVE  Inv' /\ Effect
<1>1. /\ document \in SharedDocument /\ task[dog] \in Tasks /\ Starting(dog) /\ Typed
  BY DEF Inv, Typed
<1>2. ASSUME Unknown, Leads(dog)
      PROVE  ~(task[dog].at = "start" /\ task[dog].epoch = document.epoch)
  BY <1>1, <1>2 DEF Starting
<1>3. CASE SettleApplied(dog)
  <2>. DEFINE after == [document EXCEPT !.receipt.outcome = "COMPLETE"]
  <2>1. /\ Unknown /\ AtOldRoot /\ document.receipt.op \in moved /\ Leads(dog)
        /\ Commit(dog, after, task[dog]) /\ UNCHANGED <<drive, files, frame>>
    BY <1>3 DEF SettleApplied, Inherited, Commit
  <2>2. Legal(after)
    BY <2>1, CompleteIsLegal
  <2>. QED BY <1>1, <1>2, <2>1, <2>2, Committed
<1>4. CASE \E other \in Dogs : SettleUnsent(dog, other)
  <2>. DEFINE after == [document EXCEPT !.receipt.outcome = "NOT_DISPATCHED"]
  <2>1. PICK other \in Dogs : SettleUnsent(dog, other)
    BY <1>4
  <2>2. /\ Unknown /\ AtOldRoot /\ Leads(dog)
        /\ Wal(other).pending.dispatch = "REVOKED" /\ frame[other].store # "roots"
        /\ Operation(other) \notin moved /\ document.receipt.owner = other
        /\ document.receipt.epoch = Wal(other).pending.epoch
        /\ document.receipt.op = Operation(other)
        /\ Commit(dog, after, task[dog]) /\ UNCHANGED <<drive, files, frame>>
    BY <2>1 DEF SettleUnsent, Unsent, Revoked, Commit, Proof, Reads
  <2>3. Wal(other).pending = [epoch |-> document.receipt.epoch, dispatch |-> "REVOKED"]
    <3>1. Wal(other) \in RootsWal
      BY <1>1, Shapes
    <3>2. Wal(other).pending =
            [epoch |-> Wal(other).pending.epoch, dispatch |-> Wal(other).pending.dispatch]
      BY <3>1, WalChanges
    <3>. QED BY <2>2, <3>2
  <2>4. Pledged(document.receipt.owner, "REVOKED")
    BY <2>2, <2>3 DEF Pledged, Operation
  <2>5. /\ after \in SharedDocument /\ after.owner = document.owner /\ after.epoch = document.epoch
        /\ after.receipt = [document.receipt EXCEPT !.outcome = "NOT_DISPATCHED"]
        /\ after.route = document.route /\ after.phase = document.phase
    BY <1>1, DocumentChanges
  <2>6. Legal(after)
    BY <2>2, <2>4, <2>5 DEF Legal, Excluded, AtOldRoot
  <2>. QED BY <1>1, <1>2, <2>2, <2>6, Committed
<1>. QED BY <1>3, <1>4

(* The address of the park, when the last object is in the new root.             *)
LEMMA RebindSendKeeps ==
  ASSUME Inv, NEW dog \in Dogs, RebindSend(dog)
  PROVE  Inv' /\ Effect
<1>1. Reconcile(dog, Rebound, RebindProof(dog, task[dog].epoch))
  BY DEF RebindSend
<1>2. document \in SharedDocument
  BY DEF Inv, Typed
<1>3. /\ Rebound \in SharedDocument /\ Rebound.owner = document.owner /\ Rebound.epoch = document.epoch
      /\ Rebound.receipt = document.receipt /\ Rebound.route = "new"
      /\ Rebound.phase = document.phase
  BY <1>2, DocumentChanges DEF Rebound
<1>4. RebindProof(dog, task[dog].epoch) => Legal(Rebound)
  BY <1>3 DEF RebindProof, Legal, Redirected
<1>5. RebindProof(dog, task[dog].epoch) \in BOOLEAN
  BY <1>2 DEF RebindProof, SharedDocument, Unknown, Leads
<1>. QED BY <1>1, <1>3, <1>4, <1>5, Reconciled

(* The opening of the park, where it was or where it went.                       *)
LEMMA CommitSendKeeps ==
  ASSUME Inv, NEW dog \in Dogs, CommitSend(dog)
  PROVE  Inv' /\ Effect
<1>1. /\ document \in SharedDocument /\ Typed
  BY DEF Inv, Typed
<1>2. PICK desired \in {Consumed(dog), Opened(dog)} : Reconcile(dog, desired, Before(dog))
  BY DEF CommitSend
<1>3. ASSUME Before(dog)
      PROVE  /\ document.phase = "MAINTENANCE" /\ ~Unknown /\ document.owner = dog
             /\ files[dog].checkpoint /\ (moved = {} \/ document.route = "new")
  <2>1. MovedBasis(dog) \/ RetainedBasis(dog)
    BY <1>3 DEF Before, Basis
  <2>2. CASE MovedBasis(dog)
    BY <2>2 DEF MovedBasis, PostProof, RootVerified, Leads
  <2>3. CASE RetainedBasis(dog)
    BY <2>3 DEF RetainedBasis, Staged, CandidateProof, Resolved, AtOldRoot, Leads
  <2>. QED BY <2>1, <2>2, <2>3
<1>4. /\ Opened(dog) \in SharedDocument /\ Opened(dog).owner = document.owner
      /\ Opened(dog).epoch = document.epoch /\ Opened(dog).receipt = document.receipt
      /\ Opened(dog).route = document.route /\ Opened(dog).phase = "ACTIVE"
  <2>1. [owner |-> dog, epoch |-> document.epoch] \in [owner : Dogs \cup {Nobody}, epoch : 0 .. MaxEpoch]
    <3>1. document.epoch \in 0 .. MaxEpoch
      BY <1>1, Bounds DEF SharedDocument
    <3>. QED BY <3>1
  <2>. QED BY <1>1, <2>1 DEF Opened, SharedDocument
<1>5. /\ Consumed(dog) \in SharedDocument /\ Consumed(dog).owner = document.owner
      /\ Consumed(dog).epoch = document.epoch /\ Consumed(dog).receipt = document.receipt
      /\ Consumed(dog).route = document.route /\ Consumed(dog).phase = "ACTIVE"
  BY <1>4 DEF Consumed, SharedDocument
<1>6. /\ desired \in SharedDocument /\ desired.owner = document.owner
      /\ desired.epoch = document.epoch /\ desired.receipt = document.receipt
      /\ desired.route = document.route /\ desired.phase = "ACTIVE"
  BY <1>2, <1>4, <1>5
<1>7. Before(dog) => Legal(desired)
  BY <1>3, <1>6 DEF Legal, Opening
<1>8. PICK holds \in BOOLEAN : holds <=> Before(dog)
  OBVIOUS
<1>9. Reconcile(dog, desired, holds)
  BY <1>2, <1>8 DEF Reconcile
<1>. QED BY <1>6, <1>7, <1>8, <1>9, Reconciled

-----------------------------------------------------------------------------
(* An object arrives in the new root; the request for it was the only one.        *)
LEMMA Arrives ==
  ASSUME Inv, NEW o, Unknown, o = document.receipt.op, Pledged(document.receipt.owner, "INVOKING"),
         document' = document, flight' = flight, files' = files, frame' = frame, journal' = journal,
         moved' = moved \cup {o}, moving' = {}, Requests',
         sends' \in [Objects -> Nat], task' \in [Dogs -> Tasks], faults' \in 0 .. MaxFaults,
         \A d \in Dogs : /\ task'[d] = task[d] \/ task'[d].at = "rest"
                         /\ task'[d].at # "send"
  PROVE  Inv' /\ Effect
<1>1. /\ Typed /\ Position /\ Place /\ Flight /\ Last \in Nat /\ document.receipt \in Receipts
      /\ document \in SharedDocument /\ (Unknown' <=> Unknown)
  BY Bounds DEF Inv, Typed, SharedDocument, Receipts, Unknown
<1>2. o \in 1 .. Last /\ o \notin moved /\ moved = 1 .. o - 1
  <2>1. o \in Objects /\ (moved = 1 .. o - 1 \/ moved = 1 .. o)
    BY <1>1 DEF Position, Unknown
  <2>2. o \notin moved
    BY DEF Pledged
  <2>3. o \in 1 .. Last
    BY <2>1 DEF Objects
  <2>4. o \in 1 .. o
    BY <2>3, <1>1
  <2>. QED BY <2>1, <2>2, <2>3, <2>4
<1>3. moved' = 1 .. o
  BY <1>1, <1>2
<1>4. AtOldRoot
  BY <1>1 DEF Place
<1>5. Typed'
  BY <1>1, <1>2 DEF Typed, Objects
<1>6. Position'
  BY <1>1, <1>2, <1>3 DEF Position, Unknown, Objects
<1>7. Place'
  <2>1. document'.phase = "MAINTENANCE" /\ document'.route = "old" /\ AtOldRoot'
    BY <1>4 DEF AtOldRoot
  <2>. QED BY <2>1 DEF Place
<1>8. Underway'
  BY DEF Underway
<1>9. Flight'
  <2>1. ASSUME NEW f \in flight PROVE Legal(f)'
    <3>1. Legal(f)
      BY <1>1 DEF Flight
    <3>2. Planned(f)
      <4>1. ~Completed(f) /\ ~Excluded(f)
        BY <1>2 DEF Completed, Excluded, Pledged
      <4>2. ~Started(f) /\ ~Redirected(f) /\ ~Opening(f)
        BY DEF Started, Redirected, Opening
      <4>. QED BY <3>1, <4>1, <4>2 DEF Legal
    <3>3. Planned(f)'
      BY <3>2 DEF Planned
    <3>. QED BY <3>1, <3>3 DEF Legal
  <2>. QED BY <1>1, <2>1 DEF Flight
<1>10. ASSUME NEW d \in Dogs
       PROVE  Counted(d)' /\ Starting(d)' /\ Sending(d)' /\ Recording(d)'
  <2>1. Counted(d) /\ Starting(d) /\ Sending(d) /\ Recording(d)
    BY <1>10 DEF Inv
  <2>2. Counted(d)'
    BY <2>1 DEF Counted, Counts, Wal
  <2>3. Starting(d)'
    BY <2>1, <1>1 DEF Starting, Leads
  <2>4. Sending(d)'
    BY DEF Sending
  <2>5. Recording(d)'
    BY <2>1 DEF Recording, Wal, Operation
  <2>. QED BY <2>2, <2>3, <2>4, <2>5
<1>11. Effect
  <2>1. o - 1 \in 0 .. Last - 1 /\ moved = 1 .. o - 1 /\ moved' = 1 .. (o - 1) + 1
    BY <1>1, <1>2, <1>3
  <2>. QED BY <2>1, <1>4 DEF Effect, AtOldRoot
<1>. QED BY <1>5, <1>6, <1>7, <1>8, <1>9, <1>10, <1>11 DEF Inv

(* The request, answered or not.                                                 *)
LEMMA SendKeeps ==
  ASSUME Inv, NEW dog \in Dogs, Send(dog)
  PROVE  Inv' /\ Effect
<1>. DEFINE o == task[dog].op
<1>1. /\ Typed /\ Requests /\ Sending(dog) /\ Position /\ task \in [Dogs -> Tasks]
      /\ sends \in [Objects -> Nat] /\ faults \in 0 .. MaxFaults /\ MaxFaults \in Nat
  BY Bounds DEF Inv, Typed
<1>2. /\ Pledged(dog, "INVOKING") /\ o = document.receipt.op /\ moving = {}
      /\ task[dog].at = "send"
  BY <1>1 DEF Send, Sending
<1>3. Unknown /\ document.receipt.owner = dog /\ o \notin moved
  BY <1>2 DEF Pledged
<1>4. o \in Objects
  BY <1>1, <1>2, <1>3 DEF Position, Unknown
<1>5. /\ task' = [task EXCEPT ![dog] = AtRest] /\ sends' = [sends EXCEPT ![o] = @ + 1]
      /\ UNCHANGED <<document, flight, files, frame, journal>>
  BY DEF Send
<1>6. AtRest \in Tasks /\ AtRest.at = "rest"
  BY Bounds DEF AtRest, Tasks
<1>7. /\ task' \in [Dogs -> Tasks]
      /\ \A d \in Dogs : task'[d] = task[d] \/ task'[d].at = "rest"
      /\ task'[dog].at = "rest"
  BY <1>1, <1>5, <1>6
<1>8. \A d \in Dogs : task'[d].at # "send"
  <2>1. TAKE d \in Dogs
  <2>2. CASE d = dog
    BY <1>7, <2>2
  <2>3. CASE d # dog
    <3>1. ~Pledged(d, "INVOKING")
      BY <1>3, <2>3 DEF Pledged
    <3>2. task[d].at # "send"
      BY <3>1 DEF Inv, Sending
    <3>. QED BY <1>7, <3>2
  <2>. QED BY <2>2, <2>3
<1>9. /\ sends[o] = 0 /\ sends' \in [Objects -> Nat] /\ sends'[o] = 1
      /\ \A p \in Objects \ {o} : sends'[p] = sends[p]
  <2>1. sends[o] = 0
    BY <1>1, <1>2, <1>3, <1>4 DEF Requests
  <2>. QED BY <1>1, <1>4, <1>5, <2>1
<1>10. faults' \in 0 .. MaxFaults
  <2>1. faults' = faults \/ (faults < MaxFaults /\ faults' = faults + 1)
    BY DEF Send, Fault
  <2>. QED BY <1>1, <2>1
<1>11. CASE moved' = moved \cup {o} /\ moving' = moving
  <2>1. Requests'
    BY <1>1, <1>2, <1>9, <1>11 DEF Requests
  <2>. QED BY <1>2, <1>3, <1>5, <1>7, <1>8, <1>9, <1>10, <1>11, <2>1, Arrives
<1>12. CASE moving' = moving \cup {o} /\ moved' = moved
  <2>1. moving' = {o}
    BY <1>2, <1>12
  <2>2. Requests'
    BY <1>1, <1>2, <1>3, <1>9, <1>12, <2>1 DEF Requests
  <2>3. Typed'
    BY <1>1, <1>4, <1>5, <1>7, <1>9, <1>10, <1>12, <2>1 DEF Typed
  <2>4. \A d, dispatch : Pledged(d, dispatch) => Pledged(d, dispatch)'
    BY <1>5, <1>12 DEF Pledged, Wal, Unknown
  <2>5. Underway'
    BY <1>2, <1>3, <1>5, <2>1, <2>4 DEF Underway
  <2>6. Position' /\ Place'
    <3>1. Place /\ (Unknown' <=> Unknown)
      BY <1>5 DEF Inv, Unknown
    <3>. QED BY <1>1, <1>5, <1>12, <3>1 DEF Position, Place, AtOldRoot
  <2>7. Flight'
    <3>1. ASSUME NEW f \in flight PROVE Legal(f)'
      <4>1. Legal(f)
        BY DEF Inv, Flight
      <4>2. \A d \in Dogs : Kept(d)
        BY <2>4 DEF Kept
      <4>3. files' = files /\ document' = document /\ moved' = moved
        BY <1>5, <1>12
      <4>. QED BY <1>1, <4>1, <4>2, <4>3, LegalStays
    <3>2. Flight
      BY DEF Inv
    <3>. QED BY <1>5, <3>1, <3>2 DEF Flight
  <2>8. ASSUME NEW d \in Dogs
        PROVE  Counted(d)' /\ Starting(d)' /\ Sending(d)' /\ Recording(d)'
    <3>1. Counted(d) /\ Starting(d) /\ Recording(d)
      BY <2>8 DEF Inv
    <3>2. task'[d] = task[d] \/ task'[d].at = "rest"
      BY <1>7
    <3>3. Counted(d)'
      BY <3>1, <1>5, <1>12 DEF Counted, Counts, Wal
    <3>4. Starting(d)'
      BY <3>1, <3>2, <1>5, <1>12 DEF Starting, Leads, Unknown
    <3>5. Recording(d)'
      BY <3>1, <3>2, <1>5, <1>12 DEF Recording, Wal, Operation
    <3>6. Sending(d)'
      BY <1>8 DEF Sending
    <3>. QED BY <3>3, <3>4, <3>5, <3>6
  <2>9. Effect
    BY <1>5, <1>12 DEF Effect
  <2>. QED BY <2>2, <2>3, <2>5, <2>6, <2>7, <2>8, <2>9 DEF Inv
<1>. QED BY <1>11, <1>12 DEF Send

(* The provider applies the request that was not answered.                       *)
LEMMA LateMoveKeeps ==
  ASSUME Inv, LateMove
  PROVE  Inv' /\ Effect
<1>1. PICK o \in moving : moved' = moved \cup {o} /\ moving' = moving \ {o}
  BY DEF LateMove
<1>2. UNCHANGED <<document, flight, sends, files, frame, journal, task, faults>>
  BY DEF LateMove
<1>3. /\ Requests /\ task \in [Dogs -> Tasks] /\ sends \in [Objects -> Nat]
      /\ faults \in 0 .. MaxFaults
  BY DEF Inv, Typed
<1>4. /\ o = document.receipt.op /\ Pledged(document.receipt.owner, "INVOKING") /\ Unknown
      /\ moving = {o}
  <2>1. Underway
    BY DEF Inv
  <2>2. o = document.receipt.op /\ Pledged(document.receipt.owner, "INVOKING")
    BY <2>1 DEF Underway
  <2>3. \A p \in moving : p = o
    BY <2>1, <2>2 DEF Underway
  <2>. QED BY <2>2, <2>3 DEF Pledged
<1>5. moving' = {}
  BY <1>1, <1>4
<1>6. Requests'
  BY <1>1, <1>2, <1>3, <1>4, <1>5 DEF Requests
<1>7. \A d \in Dogs : task[d].at # "send"
  BY <1>4 DEF Inv, Sending
<1>. QED BY <1>1, <1>2, <1>3, <1>4, <1>5, <1>6, <1>7, Arrives

(* A write that was late, and another leader.                                    *)
LEMMA LateWriteKeeps ==
  ASSUME Inv, LateWrite
  PROVE  Inv' /\ Effect
<1>1. PICK f \in flight : document' = f /\ flight' = {}
  BY DEF LateWrite, Put
<1>2. UNCHANGED <<drive, files, frame, journal, task, faults>>
  BY DEF LateWrite
<1>3. /\ Typed /\ Flight /\ Legal(f) /\ document.owner \in Dogs
      /\ journal \in [Dogs -> Plans] /\ task \in [Dogs -> Tasks] /\ faults \in 0 .. MaxFaults
  BY DEF Inv, Typed, Flight, SharedDocument
<1>4. \A d \in Dogs : GoesOn(d)
  BY <1>2 DEF GoesOn
<1>5. Apart(f)
  <2>1. Starting(document.owner)
    BY <1>3 DEF Inv
  <2>. QED BY <1>2, <2>1 DEF Starting, Apart, Leads
<1>. QED BY <1>1, <1>2, <1>3, <1>4, <1>5, Written

(* Another dog leads, with the next epoch: what was in flight is void.           *)
LEMMA TakeoverKeeps ==
  ASSUME Inv, NEW dog \in Dogs, Takeover(dog)
  PROVE  Inv' /\ Effect
<1>1. /\ document.epoch < MaxEpoch /\ flight' = {}
      /\ document' = [document EXCEPT !.owner = dog, !.epoch = @ + 1]
      /\ UNCHANGED <<drive, files, frame, journal, task, faults>>
  BY DEF Takeover, Put
<1>2. /\ Typed /\ Position /\ Place /\ Requests /\ Underway /\ document \in SharedDocument
      /\ MaxEpoch \in Nat /\ document.epoch \in 1 .. MaxEpoch
  BY Bounds DEF Inv, Typed, SharedDocument
<1>3. /\ document' \in SharedDocument /\ document'.epoch = document.epoch + 1
      /\ document'.receipt = document.receipt /\ document'.route = document.route
      /\ document'.phase = document.phase
  <2>1. document.epoch + 1 \in 1 .. MaxEpoch
    BY <1>1, <1>2
  <2>. QED BY <1>1, <1>2, <2>1 DEF SharedDocument
<1>4. moved' = moved /\ moving' = moving /\ sends' = sends /\ (Unknown' <=> Unknown)
  BY <1>1, <1>3 DEF drive, Unknown
<1>5. Typed'
  BY <1>1, <1>2, <1>3, <1>4 DEF Typed
<1>6. \A d, dispatch : Pledged(d, dispatch) => Pledged(d, dispatch)'
  BY <1>1, <1>3, <1>4 DEF Pledged, Wal
<1>7. Position' /\ Requests' /\ Underway'
  BY <1>2, <1>3, <1>4, <1>6 DEF Position, Requests, Underway
<1>8. Place'
  BY <1>1, <1>2, <1>3, <1>4 DEF Place, AtOldRoot
<1>9. Flight'
  BY <1>1 DEF Flight
<1>10. ASSUME NEW d \in Dogs
       PROVE  Counted(d)' /\ Starting(d)' /\ Sending(d)' /\ Recording(d)'
  <2>1. Counted(d) /\ Starting(d) /\ Sending(d) /\ Recording(d) /\ task[d] \in Tasks
    BY <1>10 DEF Inv, Typed
  <2>2. Counted(d)'
    BY <2>1, <1>1, <1>4 DEF Counted, Counts, Wal
  <2>3. Starting(d)'
    <3>1. task[d].epoch \in Nat
      BY <2>1, <1>2 DEF Tasks
    <3>2. task[d].at = "start" => task[d].epoch <= document.epoch /\ task[d].op \in Objects
      BY <2>1 DEF Starting
    <3>3. task[d].at = "start" => task[d].epoch <= document'.epoch /\ task[d].epoch # document'.epoch
      BY <1>2, <1>3, <3>1, <3>2
    <3>. QED BY <1>1, <3>2, <3>3 DEF Starting
  <2>4. Sending(d)'
    BY <2>1, <1>1, <1>3, <1>4, <1>6 DEF Sending
  <2>5. Recording(d)'
    BY <2>1, <1>1, <1>4 DEF Recording, Wal, Operation
  <2>. QED BY <2>2, <2>3, <2>4, <2>5
<1>11. Effect
  BY <1>3, <1>4 DEF Effect
<1>. QED BY <1>5, <1>7, <1>8, <1>9, <1>10, <1>11 DEF Inv

-----------------------------------------------------------------------------
(* The beginning.                                                                *)
LEMMA InitInv == Init => Inv
<1>1. SUFFICES ASSUME Init PROVE Inv
  OBVIOUS
<1>2. /\ document \in SharedDocument /\ document.receipt = NoReceipt
      /\ document.phase = "MAINTENANCE" /\ document.route = "old"
  <2>1. document \in [owner : Dogs, epoch : {1}, phase : {"MAINTENANCE"}, route : {"old"},
                      plan : {FALSE}, receipt : {NoReceipt}, decision : {NoDecision}]
    BY <1>1 DEF Init
  <2>2. NoReceipt \in Receipts
    BY Bounds DEF NoReceipt, Receipts
  <2>3. NoDecision \in [owner : Dogs \cup {Nobody}, epoch : 0 .. MaxEpoch]
    BY Bounds DEF NoDecision
  <2>4. 1 \in 1 .. MaxEpoch
    BY Bounds
  <2>. QED BY <2>1, <2>2, <2>3, <2>4 DEF SharedDocument, Receipts
<1>3. /\ flight = {} /\ moved = {} /\ moving = {} /\ sends = [o \in Objects |-> 0]
      /\ frame = [dog \in Dogs |-> NoFrame] /\ journal = [dog \in Dogs |-> NoPlan]
      /\ task = [dog \in Dogs |-> AtRest] /\ faults = 0
      /\ files = [dog \in Dogs |-> [NewMachine EXCEPT !.checkpoint = dog = document.owner]]
  BY <1>1 DEF Init
<1>4. files \in [Dogs -> Machine] /\ \A d \in Dogs : files[d].roots = NoWal
  <2>1. NewMachine \in Machine /\ NewMachine.roots = NoWal
    <3>1. /\ NoWal \in RootsWal /\ 0 \in 0 .. MaxEpoch
          /\ [at |-> 0, edited |-> FALSE] \in StageState
          /\ [at |-> "NONE", epoch |-> 0] \in RebindWal
      BY Bounds DEF NoWal, RootsWal, NoPending, StageState, RebindWal
    <3>2. /\ [at |-> 0, epoch |-> 0] \in PostState
          /\ [at |-> "NONE", epoch |-> 0, kind |-> "none"] \in CommitWal
          /\ "NONE" \in PromotionState
          /\ [at |-> 0, epoch |-> 0] \in AdoptionState
          /\ [by |-> "base", root |-> "old"] \in Profile
      BY Bounds DEF PostState, CommitWal, PromotionState, AdoptionState, Profile
    <3>. QED BY <3>1, <3>2 DEF NewMachine, Machine
  <2>2. ASSUME NEW d \in Dogs
        PROVE  /\ [NewMachine EXCEPT !.checkpoint = d = document.owner] \in Machine
               /\ [NewMachine EXCEPT !.checkpoint = d = document.owner].roots = NoWal
    <3>1. PICK b \in BOOLEAN : b <=> d = document.owner
      OBVIOUS
    <3>2. [NewMachine EXCEPT !.checkpoint = b] \in Machine
          /\ [NewMachine EXCEPT !.checkpoint = b].roots = NoWal
      BY <2>1 DEF Machine
    <3>3. (d = document.owner) = b
      BY <3>1
    <3>. QED BY <3>2, <3>3
  <2>. QED BY <1>3, <2>2
<1>5. Typed
  <2>1. sends \in [Objects -> Nat] /\ faults \in 0 .. MaxFaults
    BY <1>3, Bounds
  <2>2. frame \in [Dogs -> Frames] /\ journal \in [Dogs -> Plans]
    BY <1>3, NoFrameFacts DEF Plans
  <2>3. AtRest \in Tasks
    BY Bounds DEF AtRest, Tasks
  <2>. QED BY <1>2, <1>3, <1>4, <2>1, <2>2, <2>3 DEF Typed
<1>6. ~Unknown /\ document.receipt.outcome = "NONE"
  BY <1>2 DEF NoReceipt, Unknown
<1>7. Position /\ Place /\ Requests /\ Underway /\ Flight
  <2>1. Position
    BY <1>3, <1>6 DEF Position, Unknown
  <2>2. Place
    BY <1>2, <1>3, <1>6 DEF Place
  <2>3. Requests
    BY <1>3 DEF Requests
  <2>. QED BY <1>3, <2>1, <2>2, <2>3 DEF Underway, Flight
<1>8. ASSUME NEW d \in Dogs
      PROVE  Counted(d) /\ Starting(d) /\ Sending(d) /\ Recording(d)
  <2>1. Wal(d) = NoWal /\ frame[d].store # "roots" /\ task[d].at = "rest"
    BY <1>3, <1>4 DEF Wal, NoFrame, AtRest
  <2>. QED BY <2>1 DEF Counted, Starting, Sending, Recording
<1>. QED BY <1>5, <1>7, <1>8 DEF Inv

(* Nothing happens.                                                              *)
LEMMA StutterKeeps ==
  ASSUME Inv, UNCHANGED vars
  PROVE  Inv' /\ Effect
<1>1. /\ document' = document /\ flight' = flight /\ moved' = moved /\ moving' = moving
      /\ sends' = sends /\ files' = files /\ frame' = frame /\ journal' = journal
      /\ task' = task /\ faults' = faults
  BY DEF vars, drive
<1>2. Typed' /\ Position' /\ Place' /\ Requests' /\ Underway' /\ Flight'
  <2>1. Typed' /\ Position' /\ Requests'
    BY <1>1 DEF Inv, Typed, Position, Requests, Unknown
  <2>2. Place' /\ Underway'
    BY <1>1 DEF Inv, Place, Underway, Pledged, Wal, Unknown, AtOldRoot
  <2>3. Flight'
    <3>1. \A f \in flight : Legal(f)'
      <4>1. \A d \in Dogs : Kept(d)
        BY <1>1 DEF Kept, Pledged, Wal, Unknown
      <4>. QED BY <1>1, <4>1, LegalStays DEF Inv, Flight
    <3>. QED BY <1>1, <3>1 DEF Inv, Flight
  <2>. QED BY <2>1, <2>2, <2>3
<1>3. ASSUME NEW d \in Dogs
      PROVE  Counted(d)' /\ Starting(d)' /\ Sending(d)' /\ Recording(d)'
  <2>1. SameRoots(d) /\ (task'[d] = task[d])
    BY <1>1 DEF SameRoots
  <2>. QED BY <1>1, <2>1, DogStays DEF Inv
<1>4. Effect
  BY <1>1 DEF Effect
<1>. QED BY <1>2, <1>3, <1>4 DEF Inv

(* Every step keeps the invariant, and changes the files, the address and the    *)
(* phase as Effect says.                                                         *)
LEMMA NextKeeps ==
  ASSUME Inv, [Next]_vars
  PROVE  Inv' /\ Effect
<1>1. CASE UNCHANGED vars
  BY <1>1, StutterKeeps
<1>2. CASE Outside
  <2>1. CASE LateWrite
    BY <2>1, LateWriteKeeps
  <2>2. CASE LateMove
    BY <2>2, LateMoveKeeps
  <2>3. CASE \E dog \in Dogs : Takeover(dog) \/ Die(dog)
    BY <2>3, TakeoverKeeps, EndingSteps
  <2>. QED BY <1>2, <2>1, <2>2, <2>3 DEF Outside
<1>3. ASSUME NEW dog \in Dogs, Command(dog)
      PROVE  Inv' /\ Effect
  <2>1. CASE \/ StageCandidate(dog) \/ Choose(dog) \/ Preserve(dog)
             \/ RebindBegin(dog) \/ RebindAdvance(dog) \/ RebindConfirm(dog) \/ StagePost(dog)
    BY <2>1, StagingSteps
  <2>2. CASE \/ CommitBegin(dog) \/ CommitAdvance(dog) \/ CommitConfirm(dog)
             \/ PromotionBegin(dog) \/ PromotionAdvance(dog)
             \/ AdoptionBegin(dog) \/ AdoptionAdvance(dog)
    BY <2>2, PublishingSteps
  <2>3. CASE Resolve(dog) \/ Reserve(dog) \/ AdoptionReserve(dog) \/ Release(dog)
    BY <2>3, ReservationSteps
  <2>4. CASE Recover(dog)
    BY <2>4, RecoverySteps
  <2>5. CASE \E store \in {"roots", "rebind", "post", "commit", "adoption"} : NewStore(dog, store)
    <3>1. CASE NewStore(dog, "roots")
      BY <3>1, RootsRecovered
    <3>2. CASE \E store \in {"rebind", "post", "commit", "adoption"} : NewStore(dog, store)
      BY <3>2, RecoverySteps
    <3>. QED BY <2>5, <3>1, <3>2
  <2>6. CASE RecoverMoves(dog)
    BY <2>6, RootsRecovered, RecoverySteps
  <2>7. CASE BeginRoots(dog)
    BY <2>7, BeginRootsKeeps
  <2>8. CASE MoveFails(dog) \/ InspectEffects(dog)
    BY <2>8, EndingSteps
  <2>9. CASE task[dog] = AtRest /\ (EnsurePlan(dog) \/ Advance(dog))
    BY <2>9, EnsurePlanKeeps, AdvanceKeeps
  <2>10. CASE Start(dog) \/ Arm(dog) \/ Send(dog)
    BY <2>10, StartKeeps, ArmKeeps, SendKeeps
  <2>11. CASE Finish(dog) \/ Record(dog)
    BY <2>11, FinishKeeps, RecordKeeps
  <2>12. CASE RevokePrepared(dog) \/ ResumeRevoked(dog)
    BY <2>12, RevokingSteps
  <2>13. CASE SettleApplied(dog) \/ \E other \in Dogs : SettleUnsent(dog, other)
    BY <2>13, SettlingSteps
  <2>14. CASE ResumeMoves(dog)
    BY <2>14, ResumeMovesKeeps
  <2>15. CASE RebindSend(dog) \/ CommitSend(dog)
    BY <2>15, RebindSendKeeps, CommitSendKeeps
  <2>. QED BY <1>3, <2>1, <2>2, <2>3, <2>4, <2>5, <2>6, <2>7, <2>8, <2>9, <2>10, <2>11, <2>12,
              <2>13, <2>14, <2>15 DEF Command, MoveStep
<1>. QED BY <1>1, <1>2, <1>3 DEF Next

(* The invariant holds of every behaviour.                                       *)
LEMMA Invariant == Spec => []Inv
<1>1. Init => Inv
  BY InitInv
<1>2. Inv /\ [Next]_vars => Inv'
  BY NextKeeps
<1>. QED BY <1>1, <1>2, PTL DEF Spec

-----------------------------------------------------------------------------
(* Every store holds what its command would accept when it reads it back, and    *)
(* the ledger names an object of the plan, for any dogs, objects and bounds.     *)
THEOREM ReconfigurationTyped == Spec => []TypeOK
<1>1. Inv => TypeOK
  BY DEF Inv, Typed, TypeOK, Machine
<1>. QED BY <1>1, Invariant, PTL

(* No object is requested to move twice, whoever dies, takes over or comes back  *)
(* with old stores.                                                              *)
THEOREM NoMoveIsRepeated == Spec => []MovedOnce
<1>1. Inv => MovedOnce
  BY DEF Inv, Requests, MovedOnce
<1>. QED BY <1>1, Invariant, PTL

(* What the ledger says of the last move is so, although another dog than the    *)
(* one that made it may have said it.                                            *)
THEOREM LedgerTellsTheTruth == Spec => []ReceiptsAreTrue
<1>1. Inv => ReceiptsAreTrue
  <2>1. SUFFICES ASSUME Inv PROVE ReceiptsAreTrue
    OBVIOUS
  <2>2. Position /\ Last \in Nat
    BY <2>1, Bounds DEF Inv
  <2>3. ASSUME document.receipt.outcome = "COMPLETE"
        PROVE  document.receipt.op \in moved
    <3>1. document.receipt.op \in 1 .. Last /\ moved = 1 .. document.receipt.op
      BY <2>2, <2>3 DEF Position, Objects
    <3>. QED BY <3>1, <2>2
  <2>4. ASSUME document.receipt.outcome = "NOT_DISPATCHED"
        PROVE  document.receipt.op \notin moved \cup moving
    <3>1. document.receipt.op \in 1 .. Last /\ moved = 1 .. document.receipt.op - 1
      BY <2>2, <2>4 DEF Position, Objects
    <3>2. moving = {}
      BY <2>1, <2>4, NoneOnTheWay DEF Unknown
    <3>3. document.receipt.op \notin 1 .. document.receipt.op - 1
      BY <3>1, <2>2
    <3>. QED BY <3>1, <3>2, <3>3
  <2>. QED BY <2>3, <2>4 DEF ReceiptsAreTrue
<1>. QED BY <1>1, Invariant, PTL

(* The commands, for any number of dogs and objects, do to the files, the        *)
(* address and the admitted daemon only what Relocation allows.                  *)
THEOREM CommandsKeepThePromise == Spec => ImplementsRelocation
<1>1. Init => Promise!Init
  <2>1. SUFFICES ASSUME Init PROVE Promise!Init
    OBVIOUS
  <2>2. moved = {} /\ document.route = "old" /\ document.phase = "MAINTENANCE"
    BY <2>1 DEF Init
  <2>3. {dog \in Dogs : Admitted(dog)} = {}
    BY <2>2 DEF Admitted, Fits
  <2>. QED BY <2>2, <2>3 DEF Promise!Init
<1>2. ASSUME Inv, [Next]_vars
      PROVE  [Promise!Next]_Promise!vars
  <2>. DEFINE running == {dog \in Dogs : Admitted(dog)}
  <2>1. Effect /\ Inv'
    BY <1>2, NextKeeps
  <2>2. document \in SharedDocument /\ document.phase \in {"MAINTENANCE", "ACTIVE"}
    BY <1>2 DEF Inv, Typed, SharedDocument
  <2>3. /\ document.phase = "MAINTENANCE" => running = {}
        /\ \A dog \in running : dog = document.owner /\ document.phase = "ACTIVE"
                                /\ ~files[dog].checkpoint
    BY DEF Admitted, Fits, Leads
  <2>4. /\ document'.phase = "MAINTENANCE" => running' = {}
        /\ \A dog \in running' : dog = document'.owner /\ document'.phase = "ACTIVE"
                                 /\ ~files'[dog].checkpoint
    BY DEF Admitted, Fits, Leads
  <2>5. CASE moved' = moved /\ document'.route = document.route /\ document'.phase = document.phase
    <3>1. CASE document.phase = "ACTIVE"
      <4>1. document'.owner \in Dogs
        BY <2>1 DEF Inv, Typed, SharedDocument
      <4>2. running' = {} \/ running' = {document'.owner}
        BY <2>4
      <4>3. running' \in {{}} \cup {{dog} : dog \in Dogs}
        BY <4>1, <4>2
      <4>. QED BY <2>5, <3>1, <4>3 DEF Promise!Next, Promise!Change
    <3>2. CASE document.phase = "MAINTENANCE"
      <4>1. running = {} /\ running' = {}
        BY <2>3, <2>4, <2>5, <3>2
      <4>. QED BY <2>5, <4>1 DEF Promise!vars
    <3>. QED BY <2>2, <3>1, <3>2
  <2>6. CASE /\ document.phase = "MAINTENANCE" /\ document.route = "old"
             /\ \E index \in 0 .. Last - 1 : moved = 1 .. index /\ moved' = 1 .. index + 1
             /\ document'.route = document.route /\ document'.phase = document.phase
    <3>1. running = {} /\ running' = {}
      BY <2>3, <2>4, <2>6
    <3>. QED BY <2>6, <3>1 DEF Promise!Next, Promise!Move
  <2>7. CASE /\ document.phase = "MAINTENANCE" /\ moved = Objects /\ document'.route = "new"
             /\ moved' = moved /\ document'.phase = document.phase
    <3>1. running = {} /\ running' = {}
      BY <2>3, <2>4, <2>7
    <3>. QED BY <2>7, <3>1 DEF Promise!Next, Promise!Rebind, Promise!Objects, Objects
  <2>8. CASE /\ document.phase = "MAINTENANCE" /\ document'.phase = "ACTIVE"
             /\ moved = {} \/ document.route = "new"
             /\ moved' = moved /\ document'.route = document.route
             /\ files'[document'.owner].checkpoint
    <3>1. running = {} /\ running' = {}
      BY <2>3, <2>4, <2>8
    <3>. QED BY <2>8, <3>1 DEF Promise!Next, Promise!Publish
  <2>. QED BY <2>1, <2>5, <2>6, <2>7, <2>8 DEF Effect
<1>3. QED BY <1>1, <1>2, Invariant, PTL DEF Spec, Promise!Spec, ImplementsRelocation

(* No daemon works while the files are between the two roots, or at the root     *)
(* they have left.                                                               *)
THEOREM NobodyWorksBetweenRoots == Spec => []Promise!NobodyWorksBetween
<1>1. Inv => Promise!NobodyWorksBetween
  <2>1. SUFFICES ASSUME Inv, {dog \in Dogs : Admitted(dog)} # {}
                 PROVE  \/ moved = {} /\ document.route = "old"
                        \/ moved = Objects /\ document.route = "new"
    BY DEF Promise!NobodyWorksBetween, Promise!Objects, Objects
  <2>2. document.phase = "ACTIVE"
    BY <2>1 DEF Admitted, Fits
  <2>3. document.route \in {"old", "new"} /\ Place
    BY <2>1 DEF Inv, Typed, SharedDocument
  <2>. QED BY <2>2, <2>3 DEF Place
<1>. QED BY <1>1, Invariant, PTL

=============================================================================
