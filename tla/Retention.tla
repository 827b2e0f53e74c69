------------------------------- MODULE Retention -------------------------------
(***************************************************************************)
(* What is kept of finished jobs, and for how long.  A FETCHER stores a    *)
(* large result as a content and a descriptor in TOY_BOX and names the     *)
(* descriptor in FETCH_BALL (fetcher/artifact_spool.py); COACH may keep a  *)
(* record of the job in BONEYARD before it takes the result; and the       *)
(* WATCHDOG sweeps both folders, hour by hour and request by request       *)
(* (watchdog/retention.py, drive/delete_keeper.py), while jobs end, people *)
(* move files away, answers are lost and processes die.  A delete compares *)
(* the version of the file inside the mutation (memory_backend.py).        *)
(***************************************************************************)
EXTENDS Integers, Sequences

CONSTANTS ToyDays, BoneyardDays,  \* how long artifacts and records are kept
          MaxDeletes,             \* max_deletes_per_sweep
          Unreadable,             \* may the read of one file in a sweep fail?
          MaxJobs, MaxFiles, MaxTime, MaxTrouble   \* bounds

ASSUME RetentionAssumption ==
  /\ {ToyDays, BoneyardDays, MaxDeletes} \subseteq Nat \ {0}
  /\ Unreadable \in BOOLEAN
  /\ {MaxJobs, MaxFiles, MaxTime, MaxTrouble} \subseteq Nat

VARIABLES clock,
          files,    \* every file there ever was: its kind, place, age, references
          ball,     \* what FETCH_BALL says of a finished job
          upload,   \* how far the FETCHER is with a result
          sweep,    \* how far the WATCHDOG is
          aim,      \* the file it is deleting
          late,     \* deletes the provider may still carry out
          jobs, trouble

theirs == <<clock, ball, upload, jobs>>
retentionVars == <<theirs, files, sweep, aim, late, trouble>>

NoResult == [refs |-> {}, finished |-> 0]
NoUpload == [at |-> "rest", since |-> 0, content |-> 0, descriptor |-> 0]
NoSweep == [at |-> "rest", now |-> 0, kept |-> {}, todo |-> {}, listed |-> {},
            read |-> {}, deleted |-> 0]
NoAim == [id |-> 0, at |-> "rest", seen |-> [kind |-> "none"]]

RetentionInit ==
  /\ clock = 0 /\ files = << >> /\ ball = NoResult /\ upload = NoUpload
  /\ sweep = NoSweep /\ aim = NoAim /\ late = {} /\ jobs = 0 /\ trouble = 0

In(folder) == {id \in DOMAIN files : files[id].at = folder}

Create(kind, folder, expires, refs) ==
  /\ Len(files) < MaxFiles
  /\ files' = Append(files, [kind |-> kind, at |-> folder, written |-> clock,
                             expires |-> expires, refs |-> refs])

Trouble == trouble < MaxTrouble /\ trouble' = trouble + 1

-----------------------------------------------------------------------------
(* finalize(): content, an empty descriptor, the descriptor, and the result     *)
(* that names it.  Its expiry counts from the start of the job.                 *)
Take ==
  /\ upload.at = "rest" /\ ball = NoResult /\ jobs < MaxJobs
  /\ jobs' = jobs + 1 /\ upload' = [NoUpload EXCEPT !.at = "content", !.since = clock]
  /\ UNCHANGED <<clock, files, ball, sweep, aim, late, trouble>>

PutContent ==
  /\ upload.at = "content" /\ Create("content", "TOY_BOX", 0, {})
  /\ upload' = [upload EXCEPT !.at = "placeholder", !.content = Len(files) + 1]
  /\ UNCHANGED <<clock, ball, sweep, aim, late, jobs, trouble>>

PutPlaceholder ==
  /\ upload.at = "placeholder" /\ Create("descriptor", "TOY_BOX", 0, {})
  /\ upload' = [upload EXCEPT !.at = "describe", !.descriptor = Len(files) + 1]
  /\ UNCHANGED <<clock, ball, sweep, aim, late, jobs, trouble>>

Describe ==
  /\ upload.at = "describe" /\ files[upload.descriptor].at = "TOY_BOX"
  /\ files' = [files EXCEPT ![upload.descriptor] =
       [@ EXCEPT !.written = clock, !.expires = upload.since + ToyDays,
                 !.refs = {upload.content}]]
  /\ upload' = [upload EXCEPT !.at = "publish"]
  /\ UNCHANGED <<clock, ball, sweep, aim, late, jobs, trouble>>

Publish ==
  /\ upload.at = "publish"
  /\ ball' = [refs |-> {upload.descriptor}, finished |-> clock] /\ upload' = NoUpload
  /\ UNCHANGED <<clock, files, sweep, aim, late, jobs, trouble>>

(* A request fails, is not answered, finds another version, or the FETCHER dies: *)
(* nothing is repeated.                                                         *)
UploadEnds ==
  /\ upload.at # "rest" /\ upload' = NoUpload
  /\ \/ Trouble
     \/ /\ upload.at = "describe" /\ files[upload.descriptor].at # "TOY_BOX"
        /\ UNCHANGED trouble
  /\ UNCHANGED <<clock, files, ball, sweep, aim, late, jobs>>

(* A record is kept once, under the name of its job.                            *)
RecordTerminalSummary ==
  /\ ball # NoResult
  /\ \A id \in In("BONEYARD") : files[id].refs # ball.refs
  /\ Create("record", "BONEYARD", ball.finished + BoneyardDays, ball.refs)
  /\ UNCHANGED <<theirs, sweep, aim, late, trouble>>

Consume ==
  /\ ball # NoResult /\ ball' = NoResult
  /\ UNCHANGED <<clock, files, upload, sweep, aim, late, jobs, trouble>>

(* No job takes as long as its result is kept.                                  *)
Tick ==
  /\ clock < MaxTime /\ clock' = clock + 1
  /\ upload.at # "rest" => clock' < upload.since + ToyDays
  /\ UNCHANGED <<files, ball, upload, sweep, aim, late, jobs, trouble>>

TakenAway ==
  /\ Trouble
  /\ \E id \in In("TOY_BOX") \cup In("BONEYARD") : files' = [files EXCEPT ![id].at = "elsewhere"]
  /\ UNCHANGED <<theirs, sweep, aim, late>>

-----------------------------------------------------------------------------
(* delete_verified(): the metadata, the delete and a look at its effect.  A     *)
(* version stands for all there is to see of a file.                            *)
Scope == IF sweep.at = "records" THEN "BONEYARD" ELSE "TOY_BOX"
Gone(id) == files[id].at = "gone"
Remove(id) == files' = [files EXCEPT ![id].at = "gone"]

Succeeds == aim' = NoAim /\ sweep' = [sweep EXCEPT !.deleted = @ + 1]
Fails == aim' = NoAim /\ UNCHANGED sweep

Look ==
  /\ aim.at = "look"
  /\ \/ Gone(aim.id) /\ Succeeds
     \/ ~Gone(aim.id) /\ files[aim.id].at # Scope /\ Fails
     \/ /\ files[aim.id].at = Scope
        /\ aim' = [aim EXCEPT !.at = "send", !.seen = files[aim.id]] /\ UNCHANGED sweep
  /\ UNCHANGED <<theirs, files, late, trouble>>

Send ==
  /\ aim.at = "send"
  /\ \/ /\ files[aim.id] = aim.seen
        /\ Remove(aim.id) /\ aim' = [aim EXCEPT !.at = "confirm"] /\ UNCHANGED sweep
     \/ Gone(aim.id) /\ Succeeds /\ UNCHANGED files
     \/ ~Gone(aim.id) /\ files[aim.id] # aim.seen /\ Fails /\ UNCHANGED files
  /\ UNCHANGED <<theirs, late, trouble>>

(* The request is refused for now, or not answered and not, or not yet, applied. *)
SendRefused ==
  /\ aim.at = "send" /\ Trouble
  /\ \/ aim' = [aim EXCEPT !.at = "look"] /\ UNCHANGED late
     \/ /\ aim' = [aim EXCEPT !.at = "confirm"]
        /\ late' \in {late, late \cup {aim}}
  /\ UNCHANGED <<theirs, files, sweep>>

Confirm ==
  /\ aim.at = "confirm"
  /\ IF Gone(aim.id) THEN Succeeds ELSE Fails
  /\ UNCHANGED <<theirs, files, late, trouble>>

(* A read fails, or does not show the effect in time.                           *)
DeleteFails ==
  /\ aim.at \in {"look", "confirm"} /\ Trouble /\ Fails
  /\ UNCHANGED <<theirs, files, late>>

LateDelete ==
  /\ \E request \in late :
       /\ late' = late \ {request}
       /\ IF files[request.id] = request.seen THEN Remove(request.id) ELSE UNCHANGED files
  /\ UNCHANGED <<theirs, sweep, aim, trouble>>

-----------------------------------------------------------------------------
(* sweep(): what FETCH_BALL refers to is kept; then the records, which protect  *)
(* their artifacts while they are young; the expired descriptors; the contents  *)
(* none refers to any more; the old contents nobody knows.                      *)
Sweeping == UNCHANGED <<theirs, files, late>>

Bury ==
  /\ sweep.at = "rest"
  /\ sweep' = [NoSweep EXCEPT !.at = "boneyard", !.now = clock, !.kept = ball.refs]
  /\ Sweeping /\ UNCHANGED <<aim, trouble>>

ListBoneyard ==
  /\ sweep.at = "boneyard"
  /\ sweep' = [sweep EXCEPT !.at = "records", !.todo = In("BONEYARD")]
  /\ Sweeping /\ UNCHANGED <<aim, trouble>>

(* The next of the files on the list is deleted, unless the sweep has deleted   *)
(* enough, or passed over.                                                      *)
MayDelete == sweep.deleted < MaxDeletes
Delete(id) ==
  /\ aim' = [NoAim EXCEPT !.id = id, !.at = "look"]
  /\ sweep' = [sweep EXCEPT !.todo = @ \ {id}]
Pass(id) == sweep' = [sweep EXCEPT !.todo = @ \ {id}] /\ UNCHANGED aim

ReadRecord ==
  /\ sweep.at = "records" /\ aim = NoAim
  /\ \E id \in sweep.todo :
       \/ /\ ~Gone(id) /\ files[id].expires > sweep.now
          /\ sweep' = [sweep EXCEPT !.todo = @ \ {id}, !.kept = @ \cup files[id].refs]
          /\ UNCHANGED aim
       \/ ~Gone(id) /\ files[id].expires <= sweep.now /\ MayDelete /\ Delete(id)
       \/ /\ Gone(id) \/ Unreadable \/ (files[id].expires <= sweep.now /\ ~MayDelete)
          /\ Pass(id)
  /\ Sweeping /\ UNCHANGED trouble

ListToys ==
  /\ sweep.at = "records" /\ sweep.todo = {} /\ aim = NoAim
  /\ sweep' = [sweep EXCEPT !.at = "toys", !.listed = In("TOY_BOX")]
  /\ Sweeping /\ UNCHANGED <<aim, trouble>>

Described == {id \in sweep.listed : ~Gone(id) /\ files[id].kind = "descriptor" /\ files[id].refs # {}}
Expired(read) == {id \in read \ sweep.kept : files[id].expires <= sweep.now}

ReadToys ==
  /\ sweep.at = "toys"
  /\ \E read \in SUBSET Described :
       /\ ~Unreadable => read = Described
       /\ sweep' = [sweep EXCEPT !.at = "descriptors", !.read = read, !.todo = Expired(read)]
  /\ Sweeping /\ UNCHANGED <<aim, trouble>>

SweepDescriptor ==
  /\ sweep.at = "descriptors" /\ aim = NoAim
  /\ \E id \in sweep.todo : IF MayDelete THEN Delete(id) ELSE Pass(id)
  /\ Sweeping /\ UNCHANGED trouble

Known(descriptors) == UNION {files[id].refs : id \in descriptors}

TurnToContents ==
  /\ sweep.at = "descriptors" /\ sweep.todo = {} /\ aim = NoAim
  /\ sweep' = [sweep EXCEPT !.at = "contents",
                 !.todo = Known(sweep.read) \ Known(sweep.read \cap sweep.kept)]
  /\ Sweeping /\ UNCHANGED <<aim, trouble>>

Survives(content) == \E id \in sweep.read : content \in files[id].refs /\ ~Gone(id)

(* A referrer that cannot be asked for counts as one that survives.             *)
SweepContent ==
  /\ sweep.at = "contents" /\ aim = NoAim
  /\ \E id \in sweep.todo :
       \/ /\ IF MayDelete /\ id \in sweep.listed /\ ~Survives(id) THEN Delete(id) ELSE Pass(id)
          /\ UNCHANGED trouble
       \/ Trouble /\ Pass(id)
  /\ Sweeping

Orphans_AnyAge ==
  {id \in sweep.listed \ (sweep.read \cup Known(sweep.read)) : files[id].kind = "content"}
Orphans ==
  {id \in sweep.listed \ (sweep.read \cup Known(sweep.read)) :
     files[id].kind = "content" /\ files[id].written <= sweep.now - ToyDays}

TurnToOrphans_Never ==
  /\ sweep.at = "contents" /\ sweep.todo = {} /\ aim = NoAim
  /\ sweep' = [sweep EXCEPT !.at = "orphans"]
  /\ Sweeping /\ UNCHANGED <<aim, trouble>>
TurnToOrphans ==
  /\ sweep.at = "contents" /\ sweep.todo = {} /\ aim = NoAim
  /\ sweep' = [sweep EXCEPT !.at = "orphans", !.todo = Orphans]
  /\ Sweeping /\ UNCHANGED <<aim, trouble>>

SweepOrphan ==
  /\ sweep.at = "orphans" /\ aim = NoAim
  /\ \E id \in sweep.todo : IF MayDelete THEN Delete(id) ELSE Pass(id)
  /\ Sweeping /\ UNCHANGED trouble

SweepEnds ==
  /\ sweep.at = "orphans" /\ sweep.todo = {} /\ aim = NoAim /\ sweep' = NoSweep
  /\ Sweeping /\ UNCHANGED <<aim, trouble>>

(* A listing fails, or the WATCHDOG dies.                                       *)
SweepBreaks ==
  /\ sweep.at # "rest" /\ Trouble /\ sweep' = NoSweep /\ aim' = NoAim
  /\ Sweeping

-----------------------------------------------------------------------------
WatchdogStep ==
  \/ Bury \/ ListBoneyard \/ ReadRecord \/ ListToys \/ ReadToys \/ SweepDescriptor
  \/ TurnToContents \/ SweepContent \/ TurnToOrphans \/ SweepOrphan \/ SweepEnds
  \/ Look \/ Send \/ SendRefused \/ Confirm \/ DeleteFails \/ SweepBreaks

FetcherStep == Take \/ PutContent \/ PutPlaceholder \/ Describe \/ Publish \/ UploadEnds

RetentionNext ==
  \/ WatchdogStep \/ FetcherStep \/ RecordTerminalSummary \/ Consume
  \/ Tick \/ TakenAway \/ LateDelete

RetentionSpec == RetentionInit /\ [][RetentionNext]_retentionVars

(* The scheduler comes round to the sweep again (WatchdogRuntime, EveryTaskRuns). *)
RetentionFairSpec == RetentionSpec /\ WF_retentionVars(WatchdogStep)

-----------------------------------------------------------------------------
(* A file that may go: a record that is over its time; a descriptor that is, and   *)
(* that neither FETCH_BALL nor a young record refers to; a content no descriptor    *)
(* refers to and that is old, or whose descriptor was there and is gone.            *)
Old(id) == files[id].written <= clock - ToyDays
Referred(content) == \E id \in In("TOY_BOX") : content \in files[id].refs
Over(id) ==
  CASE files[id].kind = "record" -> files[id].expires <= clock
    [] files[id].kind = "descriptor" ->
         /\ files[id].refs # {} /\ files[id].expires <= clock /\ id \notin ball.refs
         /\ \A r \in In("BONEYARD") : id \in files[r].refs => files[r].expires <= clock
    [] OTHER ->
         /\ ~Referred(id)
         /\ Old(id) \/ \E d \in In("gone") : id \in files[d].refs

(* Nothing is deleted but what is over and lies in its folder: not the content of  *)
(* an upload under way, nor what people have taken out, nor what a job, a record    *)
(* or a descriptor still refers to - whatever was read before, whatever fails, and  *)
(* however late a delete arrives (TOY_BOX.md:108; retention.py:281).                *)
DeletionsAreDue ==
  [][\A id \in DOMAIN files :
       files[id].at # "gone" /\ files'[id].at = "gone" =>
         files[id].at \in {"TOY_BOX", "BONEYARD"} /\ Over(id)]_retentionVars

(* What is over, and old, goes at last: a sweep that fails, is interrupted or has   *)
(* deleted enough leaves nothing that the next ones do not find.                    *)
Garbage(id) ==
  /\ id \in In("TOY_BOX") \cup In("BONEYARD") /\ Over(id)
  /\ files[id].kind = "content" => Old(id)

GarbageGoes == \A id \in 1 .. MaxFiles : Garbage(id) ~> ~Garbage(id)
================================================================================
