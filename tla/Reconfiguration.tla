---------------------------- MODULE Reconfiguration ----------------------------
(***************************************************************************)
(* The owner of a park changes its configuration, or moves it into another *)
(* root folder, with commands of a protocol that any later leader can take *)
(* up: resolve the maintenance, stage a candidate, move the files          *)
(* (RootMoves), rebind the shared document, stage a candidate for the new  *)
(* root, commit, promote the profile, release the daemon; a leader that    *)
(* finds the park open adopts it.                                          *)
(*                                                                         *)
(* Each command checks everything anew, saves one private store on the     *)
(* machine of its dog and makes at most one request to the shared document.*)
(***************************************************************************)
EXTENDS RootMoves

(* Maintenance.resolve: the decision is for one epoch of one leader.          *)
Resolve(dog) ==
  /\ task[dog] = AtRest /\ Leads(dog) /\ AtOldRoot /\ moved = {}
  /\ journal[dog] = NoPlan /\ ~Unknown /\ files[dog].resolved # document.epoch
  /\ files' = [files EXCEPT ![dog].resolved = document.epoch, ![dog].checkpoint = TRUE]
  /\ UNCHANGED <<document, flight, drive, frame, journal, task, faults>>

(* require_resolved: everything is inspected again, and is what was approved.  *)
Resolved(dog) ==
  /\ Leads(dog) /\ AtOldRoot /\ moved = {} /\ journal[dog] = NoPlan /\ ~Unknown
  /\ files[dog].resolved = document.epoch

(* Candidate._proof.                                                           *)
CandidateProof(dog) == Resolved(dog) /\ files[dog].checkpoint

(* begin, resume_staging, _continue: STAGING; then the archive and the profile  *)
(* where they are not there yet, with the save of STAGED.                      *)
StageCandidate(dog) ==
  LET stage == files[dog].stage IN
  /\ task[dog] = AtRest /\ CandidateProof(dog) /\ Reads(dog, "stage") /\ stage.at < 2
  /\ Save(dog, "stage", [stage EXCEPT !.at = @ + 1])
  /\ UNCHANGED <<document, flight, drive, journal, task>>

Staged(dog) == CandidateProof(dog) /\ Reads(dog, "stage") /\ files[dog].stage.at = 2

(* choose, before the commit that is prepared from it.                         *)
Choose(dog) ==
  LET stage == files[dog].stage IN
  /\ task[dog] = AtRest /\ Staged(dog) /\ ~stage.edited
  /\ Save(dog, "stage", [stage EXCEPT !.edited = TRUE])
  /\ UNCHANGED <<document, flight, drive, journal, task>>

BeginRoots(dog) == task[dog] = AtRest /\ Staged(dog) /\ BeginMoves(dog)

-----------------------------------------------------------------------------
(* RemoteRebind: the shared document names the new root.                       *)
RebindProof(dog, epoch) ==
  /\ document.phase = "MAINTENANCE" /\ document.plan /\ ~Unknown
  /\ Leads(dog) /\ document.epoch = epoch
  /\ document.route = "old" /\ document.receipt.op = Last
  /\ document.receipt.outcome = "COMPLETE"

RebindBegin(dog) ==
  /\ task[dog] = AtRest /\ files[dog].rebind.at = "NONE" /\ Reads(dog, "rebind")
  /\ files[dog].checkpoint /\ RebindProof(dog, document.epoch) /\ moved = Objects
  /\ Save(dog, "rebind", [at |-> "PREPARED", epoch |-> document.epoch])
  /\ UNCHANGED <<document, flight, drive, journal, task>>

RebindAdvance(dog) ==
  LET wal == files[dog].rebind IN
  /\ task[dog] = AtRest /\ wal.at = "PREPARED" /\ Reads(dog, "rebind")
  /\ RebindProof(dog, wal.epoch) /\ moved = Objects
  /\ Save(dog, "rebind", [wal EXCEPT !.at = "INVOKING"])
  /\ Go(dog, [AtRest EXCEPT !.at = "rebind", !.epoch = wal.epoch])
  /\ UNCHANGED <<document, flight, drive, journal>>

(* reconcile: the write if what it was prepared from still holds; an answer    *)
(* that is lost leaves INVOKING.                                               *)
Reconcile(dog, desired, holds) ==
  /\ task' = [task EXCEPT ![dog] = AtRest]
  /\ IF ~holds THEN UNCHANGED <<document, flight, faults>>
     ELSE \/ Put(desired) /\ UNCHANGED faults
          \/ Fault /\ PutInDoubt(desired)
  /\ UNCHANGED <<drive, files, frame, journal>>

(* RebindMutation.                                                             *)
Rebound == [document EXCEPT !.route = "new"]

RebindSend(dog) ==
  /\ task[dog].at = "rebind"
  /\ Reconcile(dog, Rebound, RebindProof(dog, task[dog].epoch))

(* inspect: what the write wrote is seen, by the leader or by another.         *)
RebindConfirm(dog) ==
  LET wal == files[dog].rebind IN
  /\ task[dog] = AtRest /\ wal.at = "INVOKING" /\ Reads(dog, "rebind")
  /\ document.phase = "MAINTENANCE" /\ document.plan /\ ~Unknown /\ document.route = "new"
  /\ Save(dog, "rebind", [wal EXCEPT !.at = "CONFIRMED"])
  /\ UNCHANGED <<document, flight, drive, journal, task>>

-----------------------------------------------------------------------------
(* PostRootCandidate: verify_current needs no store of the leader before.      *)
RootVerified(dog) ==
  /\ Leads(dog) /\ document.phase = "MAINTENANCE" /\ document.plan
  /\ document.route = "new" /\ ~Unknown /\ moved = Objects /\ files[dog].checkpoint

PostProof(dog) == RootVerified(dog) /\ files[dog].post.epoch = document.epoch

StagePost(dog) ==
  LET post == files[dog].post IN
  /\ task[dog] = AtRest /\ Reads(dog, "post") /\ post.at < 2
  /\ IF post.at = 0 THEN RootVerified(dog) ELSE PostProof(dog)
  /\ Save(dog, "post", [at |-> post.at + 1, epoch |-> document.epoch])
  /\ UNCHANGED <<document, flight, drive, journal, task>>

-----------------------------------------------------------------------------
(* ConfigurationCommit, from the candidate of the new root, and                *)
(* RetainedConfigurationCommit, from the one of the root the park is in.       *)
MovedBasis(dog) == PostProof(dog) /\ Reads(dog, "post") /\ files[dog].post.at = 2

RetainedBasis(dog) == Staged(dog) /\ files[dog].stage.edited /\ ~document.plan

Basis(dog, kind) == IF kind = "moved" THEN MovedBasis(dog) ELSE RetainedBasis(dog)

(* _before: first and last in advance, and in front of the write.              *)
Before(dog) ==
  /\ Basis(dog, files[dog].commit.kind) /\ files[dog].commit.epoch = document.epoch

CommitBegin(dog) ==
  /\ task[dog] = AtRest /\ files[dog].commit.at = "NONE" /\ Reads(dog, "commit")
  /\ \E kind \in {"moved", "retained"} :
       /\ Basis(dog, kind)
       /\ Save(dog, "commit", [at |-> "PREPARED", epoch |-> document.epoch, kind |-> kind])
  /\ UNCHANGED <<document, flight, drive, journal, task>>

CommitAdvance(dog) ==
  LET wal == files[dog].commit IN
  /\ task[dog] = AtRest /\ wal.at = "PREPARED" /\ Reads(dog, "commit") /\ Before(dog)
  /\ Save(dog, "commit", [wal EXCEPT !.at = "INVOKING"])
  /\ Go(dog, [AtRest EXCEPT !.at = "commit", !.epoch = wal.epoch])
  /\ UNCHANGED <<document, flight, drive, journal>>

(* The mutations: both open the park with the decision of the owner; the one   *)
(* consumes the plan of the moves, the other has none.                         *)
Opened(dog) ==
  [document EXCEPT !.phase = "ACTIVE",
                   !.decision = [owner |-> dog, epoch |-> document.epoch]]
Consumed(dog) == [Opened(dog) EXCEPT !.plan = FALSE]

CommitSend(dog) ==
  /\ task[dog].at = "commit"
  /\ Reconcile(dog, IF files[dog].commit.kind = "moved" THEN Consumed(dog) ELSE Opened(dog),
               Before(dog))

Published(dog) ==
  document.decision = [owner |-> dog, epoch |-> files[dog].commit.epoch]

CommitConfirm(dog) ==
  LET wal == files[dog].commit IN
  /\ task[dog] = AtRest /\ wal.at = "INVOKING" /\ Reads(dog, "commit") /\ Published(dog)
  /\ Save(dog, "commit", [wal EXCEPT !.at = "CONFIRMED"])
  /\ UNCHANGED <<document, flight, drive, journal, task>>

-----------------------------------------------------------------------------
(* ProfilePromotion: the settings the daemon runs by; RetainedProfilePromotion *)
(* asks for the leadership as well.                                            *)
RetainedRole(dog) == Leads(dog) /\ document.phase = "ACTIVE" /\ files[dog].checkpoint

PromotionProof(dog) ==
  /\ files[dog].commit.at = "CONFIRMED" /\ Reads(dog, "commit") /\ Published(dog)
  /\ files[dog].commit.kind = "retained" => RetainedRole(dog)

Promoted(dog) ==
  [by |-> "promoted", root |-> IF files[dog].commit.kind = "moved" THEN "new" ELSE "old"]

PromotionBegin(dog) ==
  /\ task[dog] = AtRest /\ files[dog].promotion = "NONE" /\ PromotionProof(dog)
  /\ Reads(dog, "promotion") /\ Reads(dog, "profile") /\ files[dog].profile.by = "base"
  /\ Save(dog, "promotion", "PREPARED")
  /\ UNCHANGED <<document, flight, drive, journal, task>>

(* advance saves the profile and then PROMOTED; inspect catches up.            *)
PromotionAdvance(dog) ==
  /\ task[dog] = AtRest /\ files[dog].promotion = "PREPARED" /\ PromotionProof(dog)
  /\ Reads(dog, "promotion") /\ Reads(dog, "profile")
  /\ \/ files[dog].profile.by = "base" /\ Save(dog, "profile", Promoted(dog))
     \/ files[dog].profile = Promoted(dog) /\ Save(dog, "promotion", "PROMOTED")
  /\ UNCHANGED <<document, flight, drive, journal, task>>

-----------------------------------------------------------------------------
(* ActiveAdoption: a dog that leads an open park takes over its configuration: *)
(* STAGING, the reservation, STAGED, PREPARED, the settings, PROMOTED (1 to 4).*)
Adoptable(dog) ==
  /\ Leads(dog) /\ document.phase = "ACTIVE" /\ ~document.plan
  /\ Reads(dog, "adoption") /\ Reads(dog, "profile") /\ Reads(dog, "checkpoint")

AdoptionProof(dog) ==
  /\ Adoptable(dog) /\ files[dog].checkpoint /\ files[dog].adoption.epoch = document.epoch

(* Bounds: only from the profile the park was set up with, and not by the dog  *)
(* whose own commit was published: it promotes.                                *)
AdoptionBegin(dog) ==
  /\ task[dog] = AtRest /\ files[dog].adoption.at = 0 /\ Adoptable(dog)
  /\ files[dog].profile.by = "base" /\ ~Published(dog)
  /\ Save(dog, "adoption", [at |-> 1, epoch |-> document.epoch])
  /\ UNCHANGED <<document, flight, drive, journal, task>>

AdoptionReserve(dog) ==
  /\ task[dog] = AtRest /\ files[dog].adoption.at = 1 /\ ~files[dog].checkpoint
  /\ Adoptable(dog)
  /\ files' = [files EXCEPT ![dog].checkpoint = TRUE]
  /\ UNCHANGED <<document, flight, drive, frame, journal, task, faults>>

Adopted == [by |-> "adopted", root |-> document.route]

AdoptionAdvance(dog) ==
  LET adoption == files[dog].adoption IN
  /\ task[dog] = AtRest /\ adoption.at \in 1 .. 3 /\ AdoptionProof(dog)
  /\ \/ /\ adoption.at < 3 /\ files[dog].profile.by = "base"
        /\ Save(dog, "adoption", [adoption EXCEPT !.at = @ + 1])
     \/ adoption.at = 3 /\ files[dog].profile.by = "base" /\ Save(dog, "profile", Adopted)
     \/ /\ adoption.at = 3 /\ files[dog].profile.by = "adopted"
        /\ Save(dog, "adoption", [adoption EXCEPT !.at = 4])
  /\ UNCHANGED <<document, flight, drive, journal, task>>

-----------------------------------------------------------------------------
(* ConfigurationAdmission: asked again by the daemon at every use; release     *)
(* ends the reservation.                                                       *)
Fits(dog) ==
  /\ Leads(dog) /\ document.phase = "ACTIVE" /\ ~document.plan
  /\ Reads(dog, "profile") /\ files[dog].profile.by # "base"
  /\ files[dog].profile.root = document.route
  /\ files[dog].profile.by = "promoted" => Published(dog)

Admitted(dog) == Fits(dog) /\ Reads(dog, "checkpoint") /\ ~files[dog].checkpoint

Releasable(dog) == Fits(dog) /\ (Unknown => files[dog].profile.by = "adopted")

Release(dog) ==
  /\ task[dog] = AtRest /\ Reads(dog, "checkpoint") /\ files[dog].checkpoint
  /\ Releasable(dog)
  /\ Save(dog, "checkpoint", FALSE)
  /\ UNCHANGED <<document, flight, drive, journal, task>>

-----------------------------------------------------------------------------
(* recover_local, recover_original, recover_pending: the staged frame, after   *)
(* the proof of the command that staged it.                                    *)
RecoverRebind == document.phase = "MAINTENANCE" /\ document.plan /\ ~Unknown

RecoverPost(dog) == RootVerified(dog) /\ frame[dog].value.epoch = document.epoch

RecoverPromotion(dog) ==
  /\ PromotionProof(dog) /\ Reads(dog, "profile")
  /\ \/ files[dog].profile.by = "base" /\ frame[dog].value = "PREPARED"
     \/ files[dog].profile = Promoted(dog)

RecoverOriginal(dog) ==
  /\ files[dog].profile.by = "base" /\ frame[dog].value.by = "promoted"
  /\ files[dog].promotion = "PREPARED" /\ PromotionProof(dog)

RecoverAdoption(dog) ==
  /\ Leads(dog) /\ document.phase = "ACTIVE"
  /\ IF Reads(dog, "profile")
     THEN /\ frame[dog].value.epoch = document.epoch
          /\ frame[dog].value.at = 1 \/ files[dog].checkpoint
     ELSE /\ frame[dog].value.by = "adopted" /\ files[dog].adoption.at = 3
          /\ files[dog].profile.by = "base" /\ files[dog].checkpoint
          /\ files[dog].adoption.epoch = document.epoch

Recoverable(dog) ==
  LET store == frame[dog].store IN
  \/ store = "stage" /\ CandidateProof(dog)
  \/ store = "rebind" /\ RecoverRebind
  \/ store = "post" /\ RecoverPost(dog)
  \/ store = "commit"
  \/ store = "promotion" /\ RecoverPromotion(dog)
  \/ store = "profile" /\ RecoverOriginal(dog)
  \/ store \in {"adoption", "profile"} /\ RecoverAdoption(dog)
  \/ store = "checkpoint" /\ Releasable(dog)

Recover(dog) ==
  /\ task[dog] = AtRest /\ frame[dog] # NoFrame /\ Recoverable(dog) /\ Promote(dog)
  /\ UNCHANGED <<document, flight, drive, journal, task, faults>>

(* What a store was begun for is over: every command takes its stores from the *)
(* owner, who gives it new ones, as the resumed moves require.                 *)
Over(dog, store) ==
  LET mine == files[dog] IN
  CASE store = "roots" ->
         /\ AtOldRoot /\ Leads(dog) /\ ~Unknown /\ document.plan
         /\ ~Reads(dog, "roots") \/ Wal(dog) # NoWal
         /\ IF ~Reads(dog, "roots") THEN ~Proof(dog, frame[dog].value, FALSE)
            ELSE IF Wal(dog).pending = NoPending THEN ~Proof(dog, Wal(dog), TRUE)
            ELSE Wal(dog).pending.epoch < document.epoch
    [] store = "rebind" -> mine.rebind.at = "PREPARED" /\ mine.rebind.epoch < document.epoch
    [] store = "post" -> mine.post.at # 0 /\ mine.post.epoch < document.epoch
    [] store = "commit" ->
         /\ mine.commit.at \in {"PREPARED", "INVOKING"}
         /\ mine.commit.epoch < document.epoch /\ ~Published(dog)
    [] store = "adoption" -> mine.adoption.at \in 1 .. 3 /\ mine.adoption.epoch < document.epoch

NewStore(dog, store) ==
  /\ task[dog] = AtRest /\ Over(dog, store)
  /\ files' = [files EXCEPT ![dog][store] = NewMachine[store]]
  /\ frame' = [frame EXCEPT ![dog] = IF Reads(dog, store) THEN @ ELSE NoFrame]
  /\ UNCHANGED <<document, flight, drive, journal, task, faults>>

-----------------------------------------------------------------------------
Command(dog) ==
  \/ Resolve(dog) \/ StageCandidate(dog) \/ Choose(dog) \/ BeginRoots(dog)
  \/ MoveStep(dog)
  \/ RebindBegin(dog) \/ RebindAdvance(dog) \/ RebindSend(dog) \/ RebindConfirm(dog)
  \/ StagePost(dog)
  \/ CommitBegin(dog) \/ CommitAdvance(dog) \/ CommitSend(dog) \/ CommitConfirm(dog)
  \/ PromotionBegin(dog) \/ PromotionAdvance(dog)
  \/ AdoptionBegin(dog) \/ AdoptionReserve(dog) \/ AdoptionAdvance(dog)
  \/ Release(dog) \/ Recover(dog)
  \/ \E store \in {"roots", "rebind", "post", "commit", "adoption"} : NewStore(dog, store)

Next == Outside \/ \E dog \in Dogs : Command(dog)

Spec == Init /\ [][Next]_vars

-----------------------------------------------------------------------------
(* What each store may hold, as the schemas of the commands have it.           *)
StageState == [at : 0 .. 2, edited : BOOLEAN]
RebindWal == [at : {"NONE", "PREPARED", "INVOKING", "CONFIRMED"}, epoch : 0 .. MaxEpoch]
PostState == [at : 0 .. 2, epoch : 0 .. MaxEpoch]
CommitWal ==
  [at : {"NONE", "PREPARED", "INVOKING", "CONFIRMED"}, epoch : 0 .. MaxEpoch,
   kind : {"none", "moved", "retained"}]
PromotionState == {"NONE", "PREPARED", "PROMOTED"}
AdoptionState == [at : 0 .. 4, epoch : 0 .. MaxEpoch]
Profile == [by : {"base", "promoted", "adopted"}, root : {"old", "new"}]

SharedDocument ==
  [owner : Dogs, epoch : 1 .. MaxEpoch, phase : {"MAINTENANCE", "ACTIVE"},
   route : {"old", "new"}, plan : BOOLEAN,
   receipt : [owner : Dogs \cup {Nobody}, epoch : 0 .. MaxEpoch, op : 0 .. Last,
              outcome : {"NONE", "UNKNOWN", "COMPLETE", "NOT_DISPATCHED"}],
   decision : [owner : Dogs \cup {Nobody}, epoch : 0 .. MaxEpoch]]

(* Every store holds what its command would accept when it reads it back, and  *)
(* the ledger names an object of the plan (the _schema functions).             *)
TypeOK ==
  /\ document \in SharedDocument /\ flight \subseteq SharedDocument
  /\ moved \subseteq Objects /\ moving \subseteq Objects /\ sends \in [Objects -> Nat]
  /\ files \in [Dogs ->
       [checkpoint : BOOLEAN, resolved : 0 .. MaxEpoch, stage : StageState,
        roots : RootsWal, evidence : BOOLEAN, rebind : RebindWal, post : PostState,
        commit : CommitWal, promotion : PromotionState, adoption : AdoptionState,
        profile : Profile]]
  /\ faults \in 0 .. MaxFaults

(* No object is requested to move twice: a request that was not answered is     *)
(* never repeated, by the same owner, by another process of his, or by a later  *)
(* leader (reconfiguration_roots.py, advance, revoke_prepared, resume_revoked). *)
MovedOnce == \A o \in Objects : sends[o] <= 1

(* What the ledger says of the last move is so, although another dog than the   *)
(* one that made it may have said it: COMPLETE is in the new root, and of what  *)
(* is NOT_DISPATCHED no request is on its way                                   *)
(* (reconfiguration_root_settlement.py, reconfiguration_roots.py:417).          *)
ReceiptsAreTrue ==
  LET receipt == document.receipt IN
  /\ receipt.outcome = "COMPLETE" => receipt.op \in moved
  /\ receipt.outcome = "NOT_DISPATCHED" => receipt.op \notin moved \cup moving

(* Whoever leads, dies or comes back with old stores, the files, the address    *)
(* and the one admitted daemon change only as Relocation says                   *)
(* (reconfiguration_rebind.py, _commit.py, _retained.py, _admission.py).        *)
Promise == INSTANCE Relocation WITH
  route <- document.route, phase <- document.phase,
  running <- {dog \in Dogs : Admitted(dog)}
ImplementsRelocation == Promise!Spec
=============================================================================
