# A TLA+ model of TB4

TB4 lets a COACH (a human or an assistant) run jobs on devices it cannot reach directly. The only
medium is a tree of Google Drive files: a device's FETCHER and the network's WATCHDOG poll small
*stateful* files whose **name spells a state** and whose **body carries the data**. Everything that
could go wrong goes wrong between one Drive request and the next: answers are lost, reads lag,
processes die, and several clients rename and rewrite the same file. This directory holds TLA+
modules of that protocol, the TLC configurations that check them and TLAPS proofs about them.

Paths below are relative to the repository root; `tb4/` stands for `src/tb4/`.

## 1. The system

| component | state | operations | what is hard | what makes it correct |
|---|---|---|---|---|
| state machine registry (`protocol/state-machines.yaml`, `tb4/core/state_machine.py`) | static | may this actor make this transition / write this body | six machines with owners | everything else relies on it |
| fencing (`core/fencing.py`) | static | compare a token with what is observed | generations are reused channels | a stale worker recognises itself |
| Drive file and backends (`drive/backend.py`, `memory_backend.py`, `google_backend.py`) | name, body, version | exact reads, version-checked mutations | lagging reads, lost answers, late application, compare-before-update | versions only advance; a checked mutation meets the version it was checked against |
| StateWalker (`drive/state_walker.py`) | one call: attempts, probes, receipt | `walk` | fence, name and rename are separate requests | one owned rename, one honest report |
| BodyKeeper (`drive/body_keeper.py`) | one call | `replace_verified` | body, version and name become visible separately | a verified body was there, once |
| work channel (`fetcher/ball_pipeline.py`, `runtime.py`, `service.py`, `return_recovery.py`, `watchdog/job_reaper.py`) | FETCH_BALL, DOG_PULSE | toss, claim, start, execute, return, publish, reap, recover, recycle | three actors, crashes and restarts, expiry, pulse ages | executed once, ended once, never mixed with the next job, ended at all |
| cancellation (`fetcher/cancellation.py`) | STOP_BALL, a latch | `should_cancel` | the request races the end of the job and the next job | only the named job is cancelled; the request is answered |
| heartbeat (`fetcher/heartbeat.py`) | sequence, last attempt | `tick` | two threads, one unlocked publisher | the sequence advances, the file is not flooded |
| idle manager (`fetcher/idle_manager.py`) | idle timer | `observe` | timer reset | leaves only after an uninterrupted idle period |
| wake channel (`watchdog/wake_manager.py`) | WAKE_BONE | `process_toss` | a long handler with remote effects between two states | one request is answered once |
| scheduler and runtime (`watchdog/scheduler.py`, `runtime.py`) | deadlines, mode, DOG_MODE | `run_due`, `set_mode`, the callbacks | mode changes from inside callbacks, missed intervals, slow tasks, unconfirmed walks | every task comes round, blocked means no work, the dog sleeps again |
| health (`watchdog/health.py`) | WATCHDOG_FAULT | `report`, `revalidate_reviewed`, `can_accept` | name and body change separately | a blocking fault is never cleared by itself |
| retention and deletion (`watchdog/retention.py`, `drive/delete_keeper.py`, `fetcher/artifact_spool.py`) | artifacts, records, their ages | upload, record, sweep, delete | what protects an artifact is read long before the delete; deletes arrive late; a sweep stops half way | only what is over is deleted, and it is deleted at last |
| leadership and authority (`drive/leadership.py`, `docs_authority.py`, `authority_transaction.py`, `watchdog/leadership_runtime.py`, `checkpoint_store.py`) | authority document, checkpoint | acquire, renew, commit, perform, inspect_shared | two watchdogs, revision-checked batches, local checkpoint, the role lost between an admission and the act | one leader per epoch; no act without evidence, none twice |
| tree (`drive/bootstrap.py`, `park_map.py`, `device_registration.py`, `tree_audit.py`, `tree_healer.py`) | folders and files, PARK_MAP | create, map, register, audit, heal | an audit is a snapshot; procedures die between creation, map and quarantine; people move things | what is in place is kept, the map names what fits, the tree is whole again when it is served |
| commissioning and folders (`drive/commissioning*.py`, `drive/folder_*.py`, `commissioning_state.py`) | setup records | staged first run, relocation | long resumable procedures | a resumed run continues, never repeats |
| reconfiguration (`reconfiguration_*.py`) | effects ledger, maintenance WAL, private stores of each machine, the shared document | start, finish, begin, certify, resolve; stage, move, settle, rebind, commit, promote, admit, adopt | crash at every save, a later leader takes over, daemons at work meanwhile, two roots | resolved means quiet; nothing is moved twice; no daemon works between two roots |
| enrollment, discovery, network table | tables, catalogues | enroll, observe, publish | compare-and-replace of tables | no lost update |
| desktop, CLI, credentials, schemas | - | I/O and validation | - | not modelled |

COACH is not a program of this repository. Its side of the channels is taken from
`tb4/testing/simulation.py`, which plays it in the end-to-end tests, and from the COACH edges of the
registry.

## 2. Modules

```
StateMachines   Fencing
   |     \        /
   |      Channel                 a control file: state, body, what its clients may do to it
   |       |    \
   |  DriveObject  AtomicWalk     a file as a log of versions / what a walk promises
   |   /      \       ^
   | StateWalker  BodyKeeper      the two protocols, request by request
   |   |      \      /
   |   |    OneFile               both at work on one file
   |   |    ResultReturn          the FETCHER's three calls in sequence, request by request
   |   |
   | OneFile_proofs               StateWalker implements AtomicWalk, writes are owned: for all constants
   |
   +-- FetchBall ---------> JobLifecycle    the work channel / what others may rely on
   +-- StopBall (on JobLifecycle)           cancellation of the job that executes
   +-- Health <--- WatchdogRuntime          the fault register / the daemon's one thread
   +-- WakeBone                             the wake channel of a target

Authority ---> Leadership ---> Tenure       the shared document / dogs that compete for the
                                            role / what the leadership records promise
WatchdogWork                                what the dogs do under the role, and the
                                            maintenance that wants them to be done with it
RootMoves <--- Reconfiguration ---> Relocation
                                            moving the files / the whole procedure /
                                            what it promises
ParkTree <--- TreeStartup                   tree, map and audit / how they are laid and mended
Retention                                   artifacts and records, and their deletion
```

`X_proofs` EXTENDS X and holds the theorems about it (section 4); three of these modules hold the theorems of two
components, one after the other, which share nothing but the file: StopBallAndRuntime_proofs (StopBall, WatchdogRuntime),
ResultAndRetention_proofs (ResultReturn, Retention) and LeadershipAndStartup_proofs (Leadership, TreeStartup). For their
sake the specifications that come second have names of their own (`RuntimeSpec`, `RetentionSpec`, `StartupSpec`).
The others are OneFile_proofs (StateWalker included), FetchBall_proofs, WakeBone_proofs, WatchdogWork_proofs and
Reconfiguration_proofs.

The model has two levels. Below, a *request* to Drive is a step: StateWalker, BodyKeeper, ResultReturn.
Above, a whole walk or verified write is a step: FetchBall, StopBall, Health, WakeBone. AtomicWalk is the
hinge: StateWalker is proved to implement it, so the upper level takes a walk as one owned rename, a
report, and - when the answer was lost - a rename that may still come. ResultReturn checks the same for
the sequence walk, write, walk.

**StateMachines** is the registry: each machine is a set of edges `<<from, to, actor>>` and a function
from states to body writers. **Fencing** is `compare_fence`. **Channel** adds bodies - operation,
generation and a text as far as it is told apart - and the legal moves of the other clients.

**DriveObject** keeps the file as the log of its snapshots: a version token is an index, `visible` is the
oldest version a read may still return and only moves forward. A body is read no older than the
metadata, possibly newer (`body_keeper.py:305`). `AtomicPrecondition` tells the reference backend, which
compares and mutates in one step (`memory_backend.py:303-328`), from the Google adapter, which reads the
version and then sends an unconditional update (`google_backend.py:29-37, 411-431`).

**StateWalker** and **BodyKeeper** have one action per remote request of `walk()` and
`replace_verified()`: the metadata read, the two reads of the fence reader, the adapter's version read,
the mutation with its three ends (applied; refused; unanswered, where the request is lost or still on
its way), the late application, and each confirmation probe. A call is an element of `Walks` (`Calls`)
with its arguments in `Plan`; calls run concurrently with each other and with `Others`, everybody else
who uses the file legally. Time appears as choice: a deadline may have passed whenever the code looks.
`AtomicSpec` is the same specification without the version read; that nothing is lost by it where the
precondition is atomic is theorem `AtomicWalksCompareInside`, and OneFile takes the same steps.

**OneFile** puts both protocols on one file, with the variables of BodyKeeper renamed (`Keeper`): the
WATCHDOG's walk to GONE and the FETCHER's fenced result meet there, and everybody else.

**ResultReturn** composes two walks and a write with the variables of one file
(`ball_pipeline.py`, the return path), through either adapter, while the world reaps, recovers and
recycles the same file. It is what justifies the one-step walks and writes of FetchBall. The three calls have the arguments
`process_one` gives them (`ReturnAssumption`), whatever the verdict is; the world publishes that verdict.

**FetchBall** composes the work channel. `fetcher` is the program counter of `process_one` inside
`FetcherRuntime.run`, `reaper` that of `JobReaper.check_once`, `coach` that of `toss_job` and
`recycle_job`. What is left of the network is the unanswered request (`Unanswered`), which may land later
(`Land`), after its sender has given up or died; a worker never repeats it. Times are abstracted to what
the code compares: a request has expired or not, a pulse is fresh, stale, or beyond the grace. `Crash`
stands for a death of the process and for every error that raises out of `process_one`; `ReaperCrash` for
a restart of the WATCHDOG and a `check_once` that ends in a failed report. Return recovery is a single
action: its reads, its fence and its walk are taken together.

**JobLifecycle** is what FetchBall promises to everyone who sees only the name and the generation: edges
of the registry, a generation claimed and executed once, in this order. `FetchBall!ImplementsLifecycle`
is the refinement. **StopBall** extends JobLifecycle with the second file, `check_once` and `_acknowledge` of
`fetcher/cancellation.py` read by read, and the supervisor loop of the runner that calls them
(`fetcher/subprocess_runner.py`): what StopBall establishes holds over every channel that implements JobLifecycle,
FetchBall included.

**Health** is `report` and `revalidate_reviewed` of `watchdog/health.py` on the fault register, with
faults that come and go and COACH's review. Counts and times of a body are left out, and the read of the
prior body is taken with the read of the name. **WatchdogRuntime** runs it: `thread` is where the one thread of
the daemon stands, `due` the ticks to each deadline (relative, so that time needs no bound), and a callback takes up
to `MaxSlow` ticks. `First` is the order of dispatch, `Rebased` what `set_mode` does to every deadline, `Show` the
walk of DOG_MODE with its lost and late answers, `Gate` the read of `can_accept` that the wake check makes several
requests before it works on the request. Of the tasks, those that meet are there - wake check, snooze check, tree
audit; the others only take time. `revalidate_reviewed` has no caller in the daemon and is taken as run between two
wakeups.

**WakeBone** is `process_toss` with everything it does to a target that comes and goes on its own: the
claim, the probes, the Wake-on-LAN packet, the SSH command from its two places, the deadline, the pulse
and the answer. An SSH attempt is its outcome; `Scratched` says what each outcome may have done: a start command that was
sent counts in `started`, and may have started the service, also when its answer is lost or is an error; `confirmed` has the
requests one of whose start commands was reported STARTED, the only thing the handler remembers of it.

**Authority** is `NativeDocsAuthority`: one document, replaced whole and only at the revision it was made from.
Reads lag; an answer is an acceptance, a refusal or nothing, and then the replacement was applied, is on its
way, or was never made. **Leadership** puts several dogs on it. `role` is where a tick stands: resting, reading
inside `reconcile`, or about to send; `grant` and `election` are the durable checkpoint, which survives a
restart, `seen`, `sent`, `tries`, `refused`, `since` and `aged` the locals that do not. Time is what the code
compares: has the lease time passed since the heartbeat (`lapsed`), since the dog first saw it (`aged`), and
has the force request expired; whether the wall clock is trusted is chosen at every tick. Operator requests
(`Ask`, `Expire`) and writes of other records change the same document. **Tenure** is what a reader of the two
election records may rely on; `Leadership!ImplementsTenure` is the refinement.

**WatchdogWork** takes leadership as Tenure has it (`TakeOver`, `Asked`) and models what is done under it. On
each machine two processes write: the daemon - `cycle`, `inspect_shared` and `perform`, one action per durable
step - and the owner's maintenance command - `begin`, `inspect`, `refresh_local_evidence`, `resolve`. `task` is
where each stands; the checkpoint (`receipt`, `mutation`, `reserved`), the WAL of the ledger (`journal`) and that
of maintenance (`upkeep`) survive a death, `task` does not. The document holds the leader, the phase of the
configuration, the shared records and the ledger of effects. A write is planned from the document as it is,
saved, sent, and read back (`Write`, `ReadBack`): applied, or unanswered, and then it may land until any other
write voids it. A document is never read late here, because between an admission and what it admits anything may
happen already; refused writes and failed reads end as `Interrupted` does. `open` holds the external calls that are
not known to be over: one whose caller died goes on for as long as it likes. Which operation is offered is the
scheduler's: the newest of an action again, or a new one. Not in it: a composition without the ledger
(`effects is None`) and the FOLDER purposes.

**RootMoves** and **Reconfiguration** are the commands an owner runs from there on. A command checks everything anew,
saves one private store of its machine (`files[dog]`, one field per store) and makes at most one request to the shared
document (`document`; `flight` holds replacements that may still land); `task` is where a running command stands and
does not survive it, `frame` is a save that may be torn and recovered. A move is prepared in the dog's WAL, entered as
UNKNOWN in the ledger, marked INVOKING, sent once (`sends`), looked for and reported; `moving` are the requests that
may still be applied. A later leader settles what another one left (`reconfiguration_root_settlement.py`), revokes what
was not invoked and goes on from new stores (`reconfiguration_root_resume.py`). **Relocation** is what all of this
promises to somebody who sees only where the files are, which root the document names, whether the park is open and
which daemon is admitted; `ImplementsRelocation` is the refinement. The saves of archive and profile in `stage` are
merged into the one of STAGED, a machine has one frame in the making, and an owner takes new stores where his are of an
older epoch. Not in it: the relocation of device folders (`reconfiguration_folder*.py`), and a candidate that changes
no root.

**ParkTree** is the tree as a log of objects with the parent, name and kind they have now, the map, and the audit as a
set of issues computed from both (`Issues`). **TreeStartup** has one action per provider mutation of `bootstrap_tree`,
`TreeHealer.repair` and `register_device`, in their order, with the map the procedure holds (`held`),
what is left of its audit (`issues`), people who move, rename, copy and bin objects, and a stop between any two steps. One request
of an audit may fail (`Unread`): the read of an object as the child of its folder, its read as the parent of others, or its listing,
three requests of the code. The first and the last end the repair; the second makes the children missing (`blind`, section 6). Reads
of the healer itself that fail are left out, except as the end of the procedure (`Stop`): `_valid_candidates`, which passes over a
candidate it cannot read, `_quarantine` and `_object_reachable` (`tree_healer.py:309-323, 424-438, 478-479`). Nobody disturbs the
folder while `bootstrap_tree` runs, which an operator does by hand; between two runs, and during all the others, people may.
A mutation answered after the fact is settled by the listing that follows it; late map writes and the quarantine's note are
left out. One reference of each sort stands for the blueprint's two dozen, and a device is its folder.

**Retention** keeps every file there ever was with its place, age and references. `upload` is where
`ArtifactSpool.finalize` stands, `sweep` where `BoneyardKeeper.sweep` does - what it protects (`kept`), what it listed and
read, what is left to do -, `aim` one `delete_verified` request by request, `late` the deletes a provider may still carry
out. The reads of one listing are taken together: a file that was once complete does not change any more.
`record_terminal_summary` has no caller in the daemon; it is taken as COACH's, before the result is consumed. Late
creations, request artifacts, contents with two descriptors and an unsafe clock are left out, and the delete compares
inside the mutation (the Google adapter reads the version first, `google_backend.py:316-351`).

Type invariants stand in StateWalker, FetchBall, StopBall, WakeBone, Leadership, WatchdogWork, Reconfiguration and
WatchdogRuntime (with Health), where they are proved, and in BodyKeeper, where it documents the variables; those of Retention and
TreeStartup are part of the invariants proved of them. No run repeats one,
because the other properties read the same variables and say more.

`MC*` modules give the constants their values and hold the statements of the documentation that runs
refute. Definitions named `<definition>_<bug>` are bugs the code could have; they belong to no
specification and show that the property they are listed with in `PROJECT.json` tells the difference.

## 3. Runs

| run | specification and bounds | asks |
|---|---|---|
| `one_file` | `OneFile!FileSpec`: the WATCHDOG's reaping and the FETCHER's fenced write of one job, 3 versions, 2 attempts, 2 probes, atomic precondition | is a walk one owned rename and one honest report, that is AtomicWalk; who may replace a body, and what may a late write change? |
| `result_return` | `ResultReturn!FairSpecReturn`, compare-before-update, 5 versions | do the three calls of the return path land once each, in order, was there what was reported, and do they end? |
| `channel` | `FetchBall!FairSpec`, 2 generations, 1 crash, 1 lost answer, atomic precondition | is a job executed once, ended once, on evidence and at all, is JobLifecycle implemented? |
| `channel_google` | `FetchBall!Spec`, 2 generations, 1 crash, 2 lost answers, compare-before-update | refutes `docs/FAILURE_RECOVERY.md:38` for the Google adapter |
| `stop` | `StopBall!FairSpecStop`, 2 generations, 2 requests, 1 fault (a death or a lost answer) | is only the named job cancelled, does a withdrawal hold, is a request taken up and, without a fault, answered? |
| `watchdog` | `WatchdogRuntime!RuntimeFairSpec`, 3 tasks (intervals 2/1, 2/1, 3/3 ticks), callbacks of up to 2 ticks, 1 request, 1 fault of the tree, 1 crash, 1 lost answer | does a standing fault block, also in the daemon and past a slow check; is a missed interval skipped; does every task come round; does the dog sleep again? |
| `wake` | `WakeBone!FairSpec`, 2 generations, modes REQUIRE_START and DO_NOT_START, 1 restart, 1 lost answer | how often may one request throw a packet and send a start command; is DONE only on a pulse, every request answered? |
| `leadership` | `Leadership!FairSpec`, 2 dogs, one of which may found the role, 2 writes per attempt, 3 transitions or requests, 1 fault, unrelated writes up to revision 2 | does every saved grant name the one acquisition of its epoch, do the records follow Tenure, does a deposed dog stop, is the role filled again? |
| `work` | `WatchdogWork!Spec`, 2 dogs (symmetric), 1 external and 1 shared action, 2 operations, 2 epochs, 1 fault | is every call in evidence while it is out and made once, every receipt reliable, and nothing left open when maintenance is resolved? |
| `reconfiguration` | `Reconfiguration!Spec`, 2 dogs (symmetric), 2 objects (one of them the document), 2 epochs, 2 faults | is nothing moved twice, is the ledger right, is it the procedure Relocation promises? |
| `tree` | `TreeStartup!StartupFairSpec`, 1 device, 7 objects, 2 passes, 2 disturbances (changes by people, or one of them a procedure that stops half way or a request of an audit that fails) | is what is in place kept, what the map names there, what is served whole, and does it get there? |
| `retention` | `Retention!RetentionFairSpec`, 1 job, 4 files, 1 delete per sweep, 4 ticks against 2 of retention, 1 disturbance (lost answer, death, failed read, moved file) | is only what is over deleted, and at last? |

`CHECK_DEADLOCK FALSE` throughout: generations, requests and faults are bounded, and a channel whose COACH
asks for nothing more, or whose processes are down for good, rests.

### Bounds, and why they are enough

* *Two generations.* What can go wrong between jobs goes wrong between one and the next: a late write, a
  worker of the old generation, a stale read. A fence compares a generation for order with one other.
* *Two attempts, two probes.* One to be lost or refused and one to follow it: `Decide`, `Refused` and
  `KeepPolling` treat every further one alike. OneFile_proofs removes both bounds, for walks and for writes.
* *Three versions in `one_file`, five in `result_return`* stop `Others`, not the calls: the file the call meets, its own
  effect and those of the other call or of others around it. Two walks of the same job, without writes, pass over 4
  versions as well; OneFile_proofs needs no bound, nor does ResultReturn_proofs for the safety of the return.
* *Crashes and lost answers* are counted because each opens a branch that is otherwise the same: 1 and 1 let
  either come first, and `stop` has one of either kind; `RequestsAreFollowedUp` excuses a behaviour that had it, because
  an acknowledgement that is cut off is never completed (section 6).
* *A pulse of three ages* is all `check_once` and return recovery compare: fresh, late but within the
  grace, and beyond it.
* *One fault* in `watchdog`: the daemon reports no other (`runtime.py:588-612`); its register, a review and a fault that
  comes back are enough to clear what still stands. `MaxLate` is a cap no behaviour reaches.
* *Modes* in `wake`: IF_NEEDED differs from REQUIRE_START only where the target cannot be started, which
  REQUIRE_START fails and IF_NEEDED waits for.
* *Three transitions* in Leadership: one epoch, a renewal or a request, and the next epoch. Transition
  identifiers are numbers used once; two writes per attempt are the code's own (`leadership.py:265`).
  `MaxRevision` stops only the writes of other records.
* *Two operations, two epochs, one fault* in WatchdogWork: an operation and its successor of the same action, or one
  of each action, offered to both dogs; one change of the role, to the other dog or to the same one; and one
  death, lost answer, failed admission or force request. Dogs are treated alike and never compared, so they are
  symmetric.
* *Two objects, two epochs, two faults* in Reconfiguration: one file and the document itself, which is moved last; one
  change of the leader, to the other dog or to the same one with new stores; a death and the loss that makes it matter.
  Three epochs with one fault passed as well (6.4 million states).
* *Seven objects* in the tree: the blueprint has five, with room for a replacement and a copy. `MaxPasses` is smaller
  than the code's because a pass that mends everything is followed by one that finds nothing. A run with no
  device, six objects, one pass and a third disturbance, which is what the case `Left` of `MapNamesWhatFits` takes
  (section 4), passed as well (814,071 states).
* *One job, four files* in Retention: content, descriptor, record, and a file left over or created late; the clock runs
  to twice the retention. Two jobs with five files (9.1 million states), and two disturbances, passed for
  `DeletionsAreDue`.

### Fairness, and what in the code justifies it

* FetchBall: `WF(FetcherStep)` - `process_one` is one thread over requests that time out; `WF(ReaperStep)` -
  the `reap` timer (`watchdog/runtime.py:537-545`); `WF(Beat)` - the poll loop and the heartbeat thread
  (`fetcher/runtime.py:43-77`); `WF(Fade)` - time passes. COACH, `Restart`, `Wake`, `Leave` and return recovery are never fair: a
  person, the service manager or an outside event decides them.
* ResultReturn: `WF(Pipeline)`, the same single thread.
* StopBall: `WF(SupervisorStep)`, the poll loop of the runner. The end of the child is not fair.
* WatchdogRuntime: `WF(Thread)` - `run()` loops until it is stopped, and no callback waits for ever. `EveryTaskRuns` needs
  nothing of the length of callbacks; `SnoozesAgain` excuses a register that keeps the request from being looked at.
* TreeStartup: `WF(RepairStep \/ SetupStep \/ ServiceStep)` - a procedure that runs goes on, and one that
  stopped is started again: the WATCHDOG by its service manager, bootstrap by its operator until there is a map. People,
  and what stops a procedure, are not fair.
* Retention: `WF(WatchdogStep)` - the sweep is a task of the scheduler (`EveryTaskRuns`). Nothing is assumed of the FETCHER, of
  COACH, or of late deletes.
* WatchdogWork, Reconfiguration, OneFile: none; their properties are safety.
* WakeBone: `WF(DogStep)` - the `wake` timer and one thread inside `process_toss`; `WF(DeadlinePasses)` - the
  deadline is a monotonic clock's. Nothing is assumed of the target.
* Leadership: `WF(DogStep(d))` - `run()` ticks for ever (`leadership_runtime.py:331-335`); `WF(TimePasses)` - clocks
  advance and a read catches up with the newest revision. No operator is fair, and a late write need not land.
  `LeadershipResumes` excuses the end of the bound on transitions and `AllInDoubt` (section 6).

## 4. What is proved

Each theorem holds for every value of the constants: any number of dogs, generations, operations, faults and
messages. The assumptions are the named ones of the modules, which say of what type the constants are, and, where a
statement begins with `AtomicPrecondition =>`, that the provider compares the version inside the mutation; `~Unreadable`
(no single read of a sweep fails) and `~Reruns` (bootstrap is not run on a tree that has a map) exclude the
limits of section 6, where TLC has a counterexample without them. The
invariant of each module was an invariant of a TLC run before it was proved; where TLC or the prover refuted a part, the
part was missing something, and once it was the model that was (below).

### StateWalker

Of `StateWalker!Spec`, for every set of walks, every plan, any number of attempts, probes and versions:

| theorem | statement |
|---|---|
| `WalkerTypes` | `Spec => []TypeOK` |
| `WalkerRenamesOnce` | `Spec => []AtMostOneEffect`, whether or not the precondition is atomic |
| `WalkerHarmless` | `Spec => []HarmlessMeansNoEffect` |
| `WalkerSuccess` | `Spec => []SuccessIsRemote` |
| `WalkerEffectsOwned` | `AtomicPrecondition => (Spec => []EffectsAreOwned)` |
| `WalkerIsAtomic` | `AtomicPrecondition => (Spec => WalkIsAtomic)`, the refinement of AtomicWalk |
| `AtomicWalksCompareInside` | `AtomicPrecondition => (Spec => AtomicSpec)` |

The assumptions are the named ones of the modules: `WalkAssumption` (plans are typed, at least one attempt
and two probes), `DriveAssumption` and those of Channel.

*The invariant.* None of the properties is inductive. `AtMostOneEffect`, for one, needs that a walk that
may still send has no effect in the log and no request on its way. `Inv` is `TypeOK` with, for every
walk, the parts of `WalkInv`: before the request there is no trace of the walk and no receipt
(`SilentBefore`); from the accepted read on the plan is legal (`LegalPlan`) and what was read held at the
version in hand (`FenceReads`, `HeldWhileAsking`); a request on its way belongs to a walk with no effect
(`FlightIsLast`); effects are one (`OneEffect`) and receipts name them (`Receipts`); reports and stages
agree (`DoneIsDecided`, `HarmlessIsSilent`, `SuccessSeen`); polling ends (`PollsLeft`). There is one lemma
per action (`BeginInv` ... `LateRenameInv`); `BystanderInv` carries `WalkInv` of every walk that is not the one
that steps through any step that only appends to the log.

*Ownership* is proved step by step: `HeldOwns` says that a version that was read under the fence, and is
still the latest, is owned, and an atomic precondition makes the second half true at the mutation.

*Refinement.* Steps are sorted into those that write for a walk (`StepWrites`, mapped to `Move` by
`MoveImplementsMove`), those that report (`StepReports`, mapped to `Answer`), those of others
(`OthersImplementOthers`) and those that change neither log nor report, which stutter.

### OneFile

The first part of OneFile_proofs is the above; the second is of `OneFile!FileSpec`, for any walks and any writes on one file:

| theorem | statement |
|---|---|
| `BodiesAreWrittenOnce` | `AtomicPrecondition => (FileSpec => []Keeper!AtMostOneEffect)` |
| `WritesAreOwned` | `AtomicPrecondition => (FileSpec => []BodiesAreOwned)` |
| `LateWritesAreHarmless` | `AtomicPrecondition => (FileSpec => LateWritesRepeat)` |

`FileInv` is `FileTyped` with `WriteInv` of every write. Before the request there is nothing of the write in the log or on its
way (`UnsentIsSilent`); what was read held at the version in hand (`PreReads`), so that a write that may be sent owns the version
it read, and still does if that version is the latest one (`EntitledWhenRead`, `OwnsWhileAsking`); effects are one and a request
on its way is the last (`OneWrite`, `LastInFlight`). `LateWritesAreHarmless` needs `Seen`: the body that was read back is that of a
version no older than the one in hand, so a late write that still finds its version replaces that very body by itself. A walk is
a bystander of a write and the other way round (`BystanderWrite`, `WalkersKeepWrites`).

### ResultReturn

Of `ResultReturn!SpecReturn`, for every verdict, any bounds, and with or without an atomic precondition:

| theorem | statement |
|---|---|
| `ResultPrecedesName` | `SpecReturn => []BodyBeforeName` |
| `VerifiedResultsWereThere` | `SpecReturn => []StoredIsRemote` |

None of these rests on a version that is compared: the FETCHER's own order is enough. `ReturnInv` is `ReturnTyped` with `WalkOnce`
and `StoreOnce` (a call asks, sends once, polls), `InOrder` (what a call reported, and the next one begins on, is in the log)
and `History`: a name RETURNING comes from the first walk (`NameFromReturning`), a result in the body from the write
(`ResultFromStoring`), and between the two the file stays RETURNING (`ReturningUntilStored`), because nobody publishes a
RETURNING file without a result. So a late, unchecked write still lands under RETURNING, and every success that is reported is
evidence of the effect before it. `WalkRequests` and `StoreRequests` sort the requests of a call into asking, sending and
verifying; one lemma per kind follows.

### FetchBall

| theorem | statement |
|---|---|
| `ChannelTyped` | `AtomicPrecondition => (Spec => []TypeOK)` |
| `JobsExecuteOnce` | `AtomicPrecondition => (Spec => []ExecutedOnce)` |
| `PublishedResultsAreEvidence` | `AtomicPrecondition => (Spec => []ResultsAreEvidence)` |
| `GivenUpJobsWereLost` | `AtomicPrecondition => (Spec => []OnlyLostJobsAreGone)` |
| `ChannelKeepsItsLifecycle` | `AtomicPrecondition => (Spec => ImplementsLifecycle)`, the refinement of JobLifecycle |

The hypothesis cannot be dropped: `channel_google` is the counterexample. `Inv` says what the file and the history
variables have to do with each other (`Shape`, `Executions`, `Heard`), what the FETCHER and the reaper may rely on at each
of their steps (`Executing`, `Reaping`), and of every unanswered request what it would do to the file it was checked
against (`Mail`): it can only be the move its sender was entitled to, so a late landing preserves what a timely one does.
For the refinement, every step of the channel is a step of the registry's edges in the order the lifecycle has, or leaves
state and generation alone.

### StopBall

| theorem | statement |
|---|---|
| `StopTyped` | `SpecStop => []TypeOKStop` |
| `CancelledJobsWereNamed` | `SpecStop => []CancelledByItsRequest` |
| `WithdrawalExcludesAcknowledgement` | `SpecStop => []WithdrawnIsNeverAcknowledged` |

`SpecStop` runs over JobLifecycle, so the theorems hold over every channel that implements it; `ChannelKeepsItsLifecycle`
says that FetchBall does. `Supervised` ties the supervisor's latch to the request it has read and the job it runs, `Answering`
the steps of `_acknowledge` to the file: once the claim has been made the file is the supervisor's.

### WakeBone

| theorem | statement |
|---|---|
| `WakeTyped` | `Spec => []TypeOK` |
| `DoneIsAHeardPulse` | `Spec => []DoneMeansHeard` |
| `RequestsWakeSparingly` | `Spec => WakesSparingly` |

A request throws one packet because a dog that acts has the claim of the request it read, and no request comes back to
TOSS with the same generation. It sends no start command after a STARTED (`ConfirmedIsLast`), because the loop looks at
`fetcher_started_at` and makes one attempt only, whatever that reports; it may send a second after one whose answer was
lost (section 6), never a third. `Working` says what each stage of `process_toss` has behind it, and `Mail` that an answer
still on its way is DONE only for a generation that was heard.

### Leadership

| theorem | statement |
|---|---|
| `LeadershipTyped` | `Spec => []TypeOK` |
| `RememberedGrantsAreEarned` | `Spec => []GrantsAreEarned` |
| `DocumentKeepsTenure` | `Spec => ImplementsTenure`, the refinement of Tenure |

`History` says of the log of documents what Tenure says of two neighbours, so that it can be used between any two: epochs
do not go back, and one epoch has one owner and one acquisition. `Prepared` and `Sending` say that the next document of a
dog follows from the revision it was made from - which the compare-and-replace makes the current one - and `Watching`
and `Earned` what a dog may conclude from a revision it reads late.

### WatchdogWork

| theorem | statement |
|---|---|
| `WorkTyped` | `Spec => []TypeOK` |
| `CallsStayInEvidence` | `Spec => []CallsAreEvidenced` |
| `ReceiptsCanBeReliedOn` | `Spec => []ReceiptsAreReliable` |
| `NothingUnderWayWhenResolved` | `Spec => []ResolvedIsQuiet` |

The three statements need one another: a call is made once because its ledger entry stays UNKNOWN until the caller itself
closes it, the entry stays because nothing that may still land can undo it, and maintenance resolves only a ledger
without such entries. `Inv` therefore has

* `Ledgered`, `Counted`, `Settled`, `Evident` - what the ledger, the operations offered, the shared records and the open calls
  have to do with one another;
* `Flight` - what a write that may still land would do: nothing but what one write of the protocol does (`Legal`: begin an
  effect, finish one, record one, or leave the effects alone). It is `Legal` against the document it finds, because
  any other write voids it;
* and for each dog, `Receipted` (a durable receipt and the ledger agree), `InHand` (what the daemon holds between two saves),
  `Planned` (the plan in the WAL is the one that was sent, or was not), `Maintained` (each phase of maintenance has the
  document behind it), `OneHand` (daemon and command do not stand in the ledger at once), `Dated` (nothing is of a later epoch
  than the document) and `Working` (each stage of `perform`: what was offered, undertaken, left untouched, or done).

The proof has an effect lemma for each action - what it does to the document, the stores and the tasks - and one lemma
for each part of the invariant over those effects. That an operation belongs to the epoch in which it was offered is
needed in `Dated`: without it a dog that goes on after a takeover could begin what its successor has settled.

### Reconfiguration

| theorem | statement |
|---|---|
| `ReconfigurationTyped` | `Spec => []TypeOK` |
| `NoMoveIsRepeated` | `Spec => []MovedOnce` |
| `LedgerTellsTheTruth` | `Spec => []ReceiptsAreTrue` |
| `CommandsKeepThePromise` | `Spec => ImplementsRelocation`, the refinement of Relocation |
| `NobodyWorksBetweenRoots` | `Spec => []Promise!NobodyWorksBetween`: while a daemon is admitted, the files are all in the root the document names |

`Position` and `Place` tie the phase of the document, the cursor of the ledger and the files that were moved to each other:
the ledger is a prefix of the moves, in order, with at most one UNKNOWN at its end. `Requests` says of a move on its way
that it is the one the ledger has as UNKNOWN, `Underway` and `Flight` which of the saved plans may still be entered, and
`Counted`, `Starting`, `Sending` and `Recording` what a command relies on at its stage. The last theorem is what Relocation is for, stated of
the commands themselves.

### WatchdogRuntime

| theorem | statement |
|---|---|
| `RuntimeTypeOK` | `RuntimeSpec => []TypeOK` |
| `RegisterHolds` | `AtomicPrecondition => (RuntimeSpec => []StandingFaultBlocks)` |
| `NoWorkPastAFault` | `AtomicPrecondition => (RuntimeSpec => BlockedMeansNoWork)` |
| `MissedIntervalsAreSkipped` | `RuntimeSpec => NoBurst` |

For any tasks, cadences, phases and faults, over Health as the daemon drives it. `RegisterKeeps` says that a write that clears the
register is made, or still on its way, only after a check has passed and, where the provider compares, only while the register is
the one COACH reviewed; so a fault that stands is recorded over it. `WorkIsGated` says that the one thread is in a procedure of the
register or it is not: between the look at the register and the answer to the request nothing reports. There is one lemma per step of
Health (`RecordKeeps`, `LowerKeeps`, `DecisionKeeps`, `WorldKeeps`) and one per part of the daemon. `NoBurst` needs of the arithmetic
only that `(-next) \div interval + 1` intervals reach past now, and of every callback that `Return` sets the deadline of the
task that runs, also when it has changed the mode.

### Retention

| theorem | statement |
|---|---|
| `ReferencesHold` | `~Unreadable => (RetentionSpec => [](Typed /\ References /\ Uploads))` |
| `OnlyTheOverIsDeleted` | `~Unreadable => (RetentionSpec => DeletionsAreDue)` |

For any number of jobs, files, sweeps, disturbances and late deletes, and any periods. What makes a delete due is read long before it is
sent, and that it still is due then is the point: `Doomed` - over, and named by no upload under way - is stable
(`DoomStays`), because every step goes `Onward`: texts are written once, files leave their folder for good, and what is new refers
only to the content of the upload under way, which is not as old as its result will be (`Uploads`). It remains to show that a sweep
dooms what it puts on its list. `NothingWanted`, `RecordsRead` and `ToysRead` say what the readings so far prove of what is there
*now*: whatever could keep a descriptor or an old content has been read, or is still to be read. `DeleteInv` carries `Doomed` to the
deletes that are under way or late.

### TreeStartup

| theorem | statement |
|---|---|
| `AWatchdogServesAWholeTree` | `StartupSpec => []ServingIsWhole` |
| `TheMapNamesWhatFits` | `StartupSpec => MapNamesWhatFits` |
| `WhatIsInPlaceIsKept` | `~Reruns => (StartupSpec => HealthyIsKept)` |

For any devices, objects, passes and disturbances. The first lemmas are about the operators: what the blueprint says of a reference,
that the audit of a map that holds every reference of a parent finds each of them (`FoundUnder`, `WrongAsFound`), and that an audit
without issues means that everything is in place. `StartupInv` has what each procedure holds at each of its places (`Phase`), that what
a clean audit found is so until somebody disturbs it (`AllInPlace`), that issues and the object in hand are those of the map that is
held (`Listed`, `Created`), and the types of tree and map, to which it belongs that no two references name one object. Each
mutation of the code has a lemma that says what it does to the tree (`StrayMoves`, `DisplacedMoves`, `NameComesBack`,
`ObjectIsCreated`), and each part of the invariant is carried over those. The third theorem adds `Fresh`: what the audit found wrong
is still wrong while nobody interferes, so neither a quarantine nor a replacement meets what is in place. It says so of passes
whose audit was answered each of its requests (`~blind`); the first two need no such hypothesis.

### What the proofs changed in the model

* `MapNamesWhatFits` of TreeStartup said that the map is only ever pointed at what is in place. That is not so, and TLC finds it
  with three disturbances: DOG_HOUSE is renamed, a folder of its name appears, and WATCHDOG_MODE is deleted. One pass adopts the
  new folder, puts the old one away, and creates WATCHDOG_MODE in the old one, because `tree_healer.py:150-260` goes by the parent
  that the audit wrote into the issue. The next pass moves it home. The property now names this case (`Left`).
* `FirstOf` compares two issues by their place in the audit alone, also those whose reference is no longer in the audit's
  order; `Below` is the least set closed under lying in a folder, where it counted depths; `Remember` is the assignment to the map that
  was written with operators the prover does not know. The meaning of all three is unchanged.
* `WatchdogAssumption` says that a fault is not called as one of the register's requests is.
* `NoBurst` is new: what `scheduler.py:141-142` promises of missed intervals, found provable on the way to `RuntimeTypeOK`.

* `RootMoves.Save` did not compare the store with the copy the command had read; `private_settings.py:93-125` does.
  The invariant was not inductive without it: a second process of the same owner could undo a revocation.
* `InspectShared` of WatchdogWork says that the one receipt in doubt is that of some action, where it counted the receipts;
  the meaning is the same, and no assumption of finiteness is needed.

### What is only model-checked

Everything temporal beyond `[]` (`ReturnEnds`, `JobsEnd`, `LostJobsAreGone`, `RequestsAreFollowedUp`, `RequestsAreAnswered`,
`EveryTaskRuns`, `SnoozesAgain`, `StartsAgain`, `GarbageGoes`, `DeposedStandDown`, `LeadershipResumes`): the prover has no liveness
under fairness and no ENABLED. Every invariant and every action property of the passing runs is a theorem.

## 5. Where the code and its documentation disagree

* `channel_google`: with the Google adapter's compare-before-update, an unanswered GONE body can land in the
  body COACH has just written for the next job. COACH then tosses the old operation, and it is executed a
  second time - `FAILURE_RECOVERY.md:38` forbids a blind replay. `channel` shows that an atomic precondition
  excludes it.

## 6. Known limits of the code that no run states

* `fetcher/service.py:137` leaves a CHEW found at startup to the WATCHDOG. But the restarted FETCHER pulses in front
  of it (`fetcher/runtime.py:114`), and the WATCHDOG gives up only jobs whose pulse is beyond the grace: with
  `Restart=on-failure` nobody recovers the job.
* A CHEW whose `started_at` was never written is refused by the reaper (`job_reaper.py:86`) and stays.
* An expired TOSS stays in TOSS: no code walks the edge to RETURNING.
* GONE without its body stays that way: the reaper looks at CHEW only (`ResultsAreEvidence` tolerates it).
* STOP_BALL stays in RETURNING when the FETCHER dies, or loses an answer, between claim and publication.
* WAKE_BONE stays in CHEW when the WATCHDOG dies, or loses an answer, after the claim.
* A process that ends by itself during the cancellation check is reported CANCELLED
  (`tests/integration/test_cancellation_race_reproduction.py:97` is a strict xfail of it).
* `revalidate_reviewed` is called by nothing in the daemon; a reviewed fault that has gone stays REVIEWED.
* Through the Google adapter a walk of an older generation can rename the next job's file: `EffectsAreOwned`
  and `VerifiedIsRemote` need the atomic precondition.
* `process_toss` holds the scheduler's only thread for as long as it waits for a target: up to `wake_deadline_s` (90 s),
  longer than the 35 s after which its own heartbeat is stale. With callbacks as long as the shortest interval something
  is always due, and `run_due` never returns to look at the stop event (`scheduler.py:161`).
* `set_mode` sets every deadline again, also those of tasks whose cadence is the same in both modes; the comment at
  `scheduler.py:107` wants only the others. `EveryTaskRuns` holds because changes of the mode are bounded by requests.
* A walk of DOG_MODE that is applied and not confirmed ends the wake check before `process_toss`; the request waits for
  the next look.
* A start of the service whose answer is lost, or is an error, in `_ensure_fetcher_or_wait` is not remembered
  (`wake_manager.py:276-278`; `openssh_transport.py:92-95` reports a timeout as UNREACHABLE), so the loop (lines 213, 231) sends a
  second start command for the same request if the service is down again by then. No document promises that there is one only;
  `WakesSparingly` says how many there can be.
* A wake request that expires during its claim is worked on with a deadline of zero, which is first looked at
  after the packet or the SSH command; `WAKE_BONE.md:56` says neither may be sent to a stale request.
* A dog whose transition was saved and then lost inspects it for ever: reading the document unchanged proves
  nothing (`authority_transaction.py:130`), so it is free again only when somebody else moves the leadership on.
  With one dog, or with every candidate in that position (`AllInDoubt`), the role stays vacant.
* A refused or unavailable renewal drops the grant (`leadership_runtime.py:155`) while the record still names the
  dog: it waits for its own lease to lapse. So does a force request that nobody claims; `request_force` and
  `expire_request` have no caller in the daemon.
* Between the admission of an external action and the action itself another dog can take over
  (`leadership_runtime.py:219`, stated in `docs/NATIVE_LEADERSHIP.md`).
  WatchdogWork shows what remains true then: the call is in the ledger, and no successor repeats it.
* `inspect_shared` requires exactly one shared receipt in doubt (`leadership_runtime.py:307`). `perform` of a second
  shared action, while the mutation of a first is in doubt, saves its own receipt as UNKNOWN before it finds the
  place taken (lines 264-270), and then there are two: when the mutation is settled every cycle raises and reports
  AUTHORITY_UNAVAILABLE, for as long as this dog renews its lease.
  `NATIVE_WATCHDOG_STARTUP.md:65-67` promises that independent actions can continue.
* A ledger plan whose answer was lost stays in the WAL of its dog, and `_commit` refuses every later one
  (`reconfiguration_effects.py:345`). `Effects.inspect` would settle it; the daemon never calls it, the commands of a
  reconfiguration do (`RootMoves`).
* When the last admission fails, the dog's receipt says NOT_DISPATCHED, but its ledger entry stays UNKNOWN: the
  exception skips `finish` (`leadership_runtime.py:286-288`). So does a call without an answer. Such an entry keeps the
  action from being started, and maintenance from being resolved, until somebody settles it by hand.
* A maintenance whose ENTER was lost, and met by a FINISH of the daemon, reads CONFLICT for ever and stays ENTERING.
* In a reconfiguration: a dog that is superseded between the UNKNOWN it entered and INVOKING can never revoke the move,
  and the UNKNOWN stays for the settlement of a later leader. A second process of the same owner that revokes and resumes
  while the first stands before `effects.start` of a retry leaves an UNKNOWN that no WAL knows. A crash between INVOKING
  and the write of rebind or commit stays UNKNOWN for that WAL, and an adoption whose profile frame is of an older epoch
  cannot be recovered: new stores, after a further epoch, are the way out. Safety is what `reconfiguration` checks;
  progress it does not.
* Bootstrap, run again on a tree that has a map, unregisters its devices and may create a second object of a name
  (`drive/bootstrap.py:175`; `GOOGLE_DRIVE_SETUP.md:85` calls it idempotent): with `Reruns = TRUE`, `HealthyIsKept` fails.
* An audit that cannot read a folder takes its children for missing, and missing children are created again and the map
  turned to the new ones (`drive/tree_audit.py:292`): `HealthyIsKept` excuses the pass that
  follows such an audit (`~blind`). Without the excuse TLC refutes it: the root is not read as a parent, DOG_HOUSE is created
  a second time, and the map is turned to the copy while the original is in place. Section 6 of `FAILURE_RECOVERY.md` says that a disconnected backend leaves the authoritative state preserved.
* A pass that replaces a folder and then a missing child of it creates the child in the folder it has just put away
  (`drive/tree_healer.py:151`, the parent is that of the audit's issue); the next pass finds it there and moves it home.
* A tree whose DOG_POUND is not in place stops every repair, because what is displaced is put there first; a note that
  says where a quarantined object came from is written after the move, and lost by a death in between
  (`FAILURE_RECOVERY.md:90`); a late duplicate of a creation stops registration until a person decides; and
  CANONICAL_TREE_AMBIGUOUS is not cleared by a later clean audit.
* A descriptor whose read fails once, or is refused, is none for this sweep, so a content that is old enough is nobody's
  and goes while its descriptor, and FETCH_BALL, still name it (`retention.py:246-247, 319-341`); a record that cannot be
  read protects nothing in this sweep (`retention.py:213-216`). `TOY_BOX.md:108` requires that what live control state
  refers to is preserved, and the comment at `retention.py:264` that no shared content is broken. With
  `Unreadable = TRUE`, `DeletionsAreDue` fails.
* A descriptor that was created and never written (`{}`) is never collected: it has no expiry and no content's name.
* Two creations of one record, the first of them late, make `record_terminal_summary` refuse the job's record until a
  sweep has removed them (`retention.py:117-121`).
* Two ticks of the FETCHER's one unlocked pulse publisher can overlap when the join of the heartbeat thread times out
  (`fetcher/runtime.py:77`); not modelled.
* The reason code of an expired wake request is REQUEST_EXPIRED; `WAKE_BONE.md` calls it
  EXPIRED_BEFORE_CLAIM.

## 7. Not modelled

* I/O, validation and presentation: schemas and configuration, credentials, the CLI, the desktop, the observation of
  networks. They keep no state that outlives a call, or only state of the machine they run on.
* Local execution beyond the supervisor's loop and the upload of a result: the kill ladder of a process tree, the
  capture's limit and the check of a request artifact.
* The heartbeat's publisher (FetchBall has the age of the pulse, `Beat` and `Fade`) and the idle manager (FetchBall lets an
  idle FETCHER leave whenever the channel reads READY).
* Commissioning, the relocation of device folders, enrollment, discovery and the network table: local procedures with
  records of their own, in the plan.
* COACH's mind: it may ask, wait, withdraw or stop at any point.
* Several files at once at the level of requests: a channel is one file, and modules above the request level take a walk
  or a verified write as one step, as OneFile and ResultReturn justify.

## 8. Plan

1. **Heartbeat**: `tick` of one unlocked publisher from two threads (`fetcher/heartbeat.py:66-202`,
   `fetcher/runtime.py:43-77`), the pulse file as a BodyKeeper call; the sequence never goes back, one
   pulse per interval. Then FetchBall's `Beat` as its abstraction.
2. **NetworkTableStore** (`network_table_store.py`): compare and replace of a table from several commands; no lost
   update.
3. **Folder relocation**: the FOLDER purposes of the ledger and `reconfiguration_folder*.py`, along RootMoves.
4. Progress of a reconfiguration, under the assumption that an owner who has a way out takes it.
