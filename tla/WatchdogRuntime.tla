----------------------------- MODULE WatchdogRuntime -----------------------------
(***************************************************************************)
(* The WATCHDOG daemon: one thread, the monotonic scheduler that gives it  *)
(* its callbacks (watchdog/scheduler.py), and those of the callbacks that  *)
(* meet (watchdog/runtime.py): the look at WAKE_BONE, which rouses the     *)
(* dog; the check that lets it snooze; and the audit of the tree, which    *)
(* raises DOG_SHIT.  Health is composed, its walks and writes are steps of *)
(* this thread.                                                            *)
(*                                                                         *)
(* Time is counted in ticks to each task's deadline.  trigger and          *)
(* unregister have no caller and are left out, as are the tasks that only  *)
(* take time.  revalidate_reviewed has no caller in the daemon either; it  *)
(* is taken as run by this thread between two wakeups.                     *)
(***************************************************************************)
EXTENDS Integers, FiniteSets

CONSTANTS Tasks, Rank,         \* the registered tasks; the order of their names
          Interval, Phase,     \* ticks of each task in each mode, and its share of them
          Lease,               \* awake_lease_s
          MaxSlow,             \* bound: ticks one callback takes
          MaxLate,             \* bound: ticks counted past a deadline
          MaxTosses,           \* bound: requests of COACH
          Faults, MaxCrashes, MaxLost, AtomicPrecondition  \* as in Health

Modes == {"SNOOZE", "AWAKE"}
TreeFault == "CANONICAL_TREE_AMBIGUOUS"

ASSUME WatchdogAssumption ==
  /\ Tasks = {"dog-snooze-check", "tree-audit", "wake"} /\ Rank \in [Tasks -> Nat]
  /\ Interval \in [Tasks -> [Modes -> Nat \ {0}]]
  /\ \A t \in Tasks, m \in Modes : Phase[t][m] \in 0 .. Interval[t][m] - 1
  /\ {Lease, MaxSlow, MaxLate, MaxTosses} \subseteq Nat /\ TreeFault \in Faults
  /\ Faults \cap {"raise", "lower", "reset"} = {}
  /\ MaxCrashes \in Nat /\ MaxLost \in Nat /\ AtomicPrecondition \in BOOLEAN

VARIABLES thread,    \* what the one thread is doing
          mode,      \* the scheduler's mode
          due,       \* ticks to each deadline; overdue below zero
          shown,     \* name of the DOG_MODE object
          late,      \* a mode walk that may still be applied
          awake,     \* ticks left of the awake lease
          tossed, tosses,   \* is WAKE_BONE in TOSS? and how often it was put there
          register, broken, dog, source, signal, asked, pending, standing, crashes, lost

healthVars == <<register, broken, dog, source, signal, asked, pending, standing, crashes, lost>>
clock == <<mode, due>>
modeFile == <<shown, late>>
bone == <<tossed, tosses>>
runtimeVars == <<thread, clock, modeFile, awake, bone, healthVars>>

Health == INSTANCE Health
ReportVars == <<register, broken, dog, source, signal, asked, pending, standing, crashes>>

Threads ==
  {"start", "sleep", "run", "look", "rouse", "process", "report", "review"} \cup Tasks

RuntimeInit ==
  /\ thread = "start" /\ mode = "SNOOZE"
  /\ due = [t \in Tasks |-> Phase[t]["SNOOZE"]]
  /\ shown \in Modes /\ late = {} /\ awake = 0
  /\ tossed = FALSE /\ tosses = 0
  /\ Health!Init

-----------------------------------------------------------------------------
(* The scheduler                                                           *)

Passed(ticks) ==
  /\ due' = [t \in Tasks |-> IF due[t] - ticks < -MaxLate THEN -MaxLate ELSE due[t] - ticks]
  /\ awake' = IF awake > ticks THEN awake - ticks ELSE 0

(* Due tasks in the order of their deadlines, then of their names.         *)
First_ByName(t) ==
  due[t] <= 0 /\ \A u \in Tasks : due[u] <= 0 => Rank[t] <= Rank[u]
First(t) ==
  /\ due[t] <= 0
  /\ \A u \in Tasks : due[t] < due[u] \/ (due[t] = due[u] /\ Rank[t] <= Rank[u])

(* A task's next deadline: intervals that were missed are skipped.         *)
Advanced_ToTheLastMissed(t, m) ==
  LET next == due[t] + Interval[t][m]
      missed == (-next) \div Interval[t][m]
  IN IF next > 0 THEN next ELSE next + missed * Interval[t][m]
Advanced(t, m) ==
  LET next == due[t] + Interval[t][m]
      missed == (-next) \div Interval[t][m] + 1
  IN IF next > 0 THEN next ELSE next + missed * Interval[t][m]

(* set_mode gives every task a new deadline, if the mode is a new one; the *)
(* one that is running gets its own when it returns.                       *)
Rebased(m, running) ==
  IF m = mode THEN due
  ELSE [t \in Tasks |-> IF t = running THEN due[t] ELSE Phase[t][m]]

(* A callback returns, or raises: _dispatch makes no difference.           *)
Return(t) ==
  /\ due' = [due EXCEPT ![t] = Advanced(t, mode)]
  /\ thread' = "run"
  /\ UNCHANGED <<mode, awake>>

Dispatch(t) ==
  /\ thread = "run" /\ First(t)
  /\ thread' = t
  /\ \E ticks \in 0 .. MaxSlow : Passed(ticks)
  /\ UNCHANGED <<mode, modeFile, bone, healthVars>>

(* Nothing is due: the loop sleeps until the next deadline, but not longer *)
(* than a tick.                                                            *)
Sleep ==
  /\ thread = "run" /\ \A t \in Tasks : due[t] > 0
  /\ thread' = "sleep"
  /\ UNCHANGED <<clock, awake, modeFile, bone, healthVars>>
Wakeup ==
  /\ thread = "sleep"
  /\ thread' = "run"
  /\ Passed(1)
  /\ UNCHANGED <<mode, modeFile, bone, healthVars>>

-----------------------------------------------------------------------------
(* _set_mode: the name first, the cadence after it.                        *)

Show(m) ==
  /\ shown' = m
  /\ late' = IF shown = m THEN late ELSE {}
  /\ UNCHANGED lost

(* The name cannot be read, or its walk is not confirmed: nothing came of  *)
(* it, it was applied, or it may still be.                                 *)
ShowFails(m) ==
  /\ lost < MaxLost /\ lost' = lost + 1
  /\ \/ UNCHANGED modeFile
     \/ shown # m /\ shown' = m /\ late' = {}
     \/ shown # m /\ late' = {m} /\ UNCHANGED shown

LandMode ==
  /\ late # {} /\ shown' \in late /\ late' = {}
  /\ UNCHANGED <<thread, clock, awake, bone, healthVars>>

(* The start: the tree is repaired or nothing starts; the tag and the name *)
(* are published or the service is started again.                          *)
RepairTree == broken' = broken \ {TreeFault}
PublishTagFails == lost < MaxLost /\ lost' = lost + 1 /\ UNCHANGED modeFile
Register == mode' = "SNOOZE" /\ due' = [t \in Tasks |-> Phase[t]["SNOOZE"]]

Start ==
  /\ thread = "start"
  /\ RepairTree /\ Register
  /\ \/ Show("SNOOZE") /\ thread' = "run"
     \/ (PublishTagFails \/ ShowFails("SNOOZE")) /\ UNCHANGED thread
  /\ UNCHANGED <<awake, bone, register, dog, source, signal, asked, pending, standing, crashes>>

Crash ==
  /\ thread # "start" /\ crashes < MaxCrashes
  /\ crashes' = crashes + 1
  /\ thread' = "start" /\ awake' = 0
  /\ dog' = "rest" /\ asked' = FALSE
  /\ UNCHANGED <<clock, modeFile, bone, register, broken, source, signal, pending, standing, lost>>

-----------------------------------------------------------------------------
(* wake_check                                                              *)

(* can_accept: anything but CLEAN, and anything unread, is refused.        *)
Gate_Reviewed ==
  /\ thread = "wake"
  /\ IF register.state = "BLOCKING" THEN Return("wake")
     ELSE thread' = "look" /\ UNCHANGED <<clock, awake>>
  /\ UNCHANGED <<modeFile, bone, healthVars>>
Gate ==
  /\ thread = "wake"
  /\ \/ register.state = "CLEAN" /\ thread' = "look" /\ UNCHANGED <<clock, awake, lost>>
     \/ register.state # "CLEAN" /\ Return("wake") /\ UNCHANGED lost
     \/ lost < MaxLost /\ lost' = lost + 1 /\ Return("wake")
  /\ UNCHANGED <<modeFile, bone, ReportVars>>

(* The name of WAKE_BONE; mark_activity renews the lease before anything.  *)
Look ==
  /\ thread = "look"
  /\ IF tossed THEN thread' = "rouse" /\ awake' = Lease /\ UNCHANGED clock
     ELSE Return("wake")
  /\ UNCHANGED <<modeFile, bone, healthVars>>

Rouse ==
  /\ thread = "rouse"
  /\ \/ /\ Show("AWAKE") /\ mode' = "AWAKE" /\ due' = Rebased("AWAKE", "wake")
        /\ thread' = "process" /\ UNCHANGED awake
     \/ ShowFails("AWAKE") /\ Return("wake")
  /\ UNCHANGED <<bone, ReportVars>>

(* process_toss answers, or gives up on a claim that is not confirmed.     *)
Process ==
  /\ thread = "process"
  /\ \/ tossed' = FALSE /\ UNCHANGED lost
     \/ lost < MaxLost /\ lost' = lost + 1 /\ UNCHANGED tossed
  /\ Return("wake")
  /\ UNCHANGED <<tosses, modeFile, ReportVars>>

-----------------------------------------------------------------------------
(* maybe_snooze                                                            *)
StayAwake_WhenShown == mode = "SNOOZE" \/ awake > 0 \/ shown = "SNOOZE"
StayAwake == mode = "SNOOZE" \/ awake > 0

SnoozeCheck ==
  /\ thread = "dog-snooze-check"
  /\ \/ StayAwake /\ Return("dog-snooze-check") /\ UNCHANGED <<modeFile, lost>>
     \/ ~StayAwake /\ ShowFails("SNOOZE") /\ Return("dog-snooze-check")
     \/ /\ ~StayAwake /\ Show("SNOOZE")
        /\ mode' = "SNOOZE"
        /\ due' = [Rebased("SNOOZE", "dog-snooze-check") EXCEPT
                     !["dog-snooze-check"] = Advanced("dog-snooze-check", "SNOOZE")]
        /\ thread' = "run" /\ UNCHANGED awake
  /\ UNCHANGED <<bone, ReportVars>>

(* audit_control_tree                                                      *)
Audit ==
  /\ thread = "tree-audit"
  /\ IF TreeFault \in broken
     THEN Health!Report(TreeFault) /\ thread' = "report" /\ UNCHANGED <<clock, awake>>
     ELSE Return("tree-audit") /\ UNCHANGED healthVars
  /\ UNCHANGED <<modeFile, bone>>

AuditReported ==
  /\ thread = "report" /\ dog = "rest"
  /\ Return("tree-audit")
  /\ UNCHANGED <<modeFile, bone, healthVars>>

StartReview ==
  /\ thread = "sleep" /\ Health!Revalidate
  /\ thread' = "review"
  /\ UNCHANGED <<clock, awake, modeFile, bone>>
ReviewDone ==
  /\ thread = "review" /\ dog = "rest"
  /\ thread' = "run"
  /\ Passed(1)
  /\ UNCHANGED <<mode, modeFile, bone, healthVars>>

HealthStep ==
  /\ thread \in {"report", "review"}
  /\ \/ Health!Raise \/ Health!Record \/ Health!Refused
     \/ Health!InvariantHolds \/ Health!InvariantFails \/ Health!Lower \/ Health!Reset
  /\ UNCHANGED <<thread, clock, awake, modeFile, bone>>

-----------------------------------------------------------------------------
(* COACH tosses a WAKE_BONE that is not tossed, and reviews what it sees.  *)
Toss ==
  /\ ~tossed /\ tosses < MaxTosses
  /\ tossed' = TRUE /\ tosses' = tosses + 1
  /\ UNCHANGED <<thread, clock, awake, modeFile, healthVars>>

World ==
  /\ \/ Health!Review \/ Health!Unanswered \/ Health!Land
     \/ \E fault \in Faults : Health!Break(fault) \/ Health!Mend(fault)
  /\ UNCHANGED <<thread, clock, awake, modeFile, bone>>

Scheduler == (\E t \in Tasks : Dispatch(t)) \/ Sleep \/ Wakeup
WakeCheck == Gate \/ Look \/ Rouse \/ Process
AuditTask == Audit \/ AuditReported
Thread ==
  Start \/ Scheduler \/ WakeCheck \/ SnoozeCheck \/ AuditTask \/ ReviewDone \/ HealthStep

RuntimeNext == Thread \/ StartReview \/ Crash \/ LandMode \/ Toss \/ World
RuntimeSpec == RuntimeInit /\ [][RuntimeNext]_runtimeVars

(* run() loops until it is stopped; no callback waits for ever.            *)
RuntimeFairSpec == RuntimeSpec /\ WF_runtimeVars(Thread)

-----------------------------------------------------------------------------
TypeOK ==
  /\ thread \in Threads /\ mode \in Modes /\ due \in [Tasks -> Int]
  /\ shown \in Modes /\ late \subseteq Modes /\ awake \in 0 .. Lease
  /\ tossed \in BOOLEAN /\ tosses \in 0 .. MaxTosses
  /\ Health!TypeOK

(* The register keeps its promise in the daemon that drives it.            *)
StandingFaultBlocks == Health!StandingFaultBlocks

(* No wake request is worked on while a reported fault stands, reviewed or *)
(* not: the register is looked at once, before WAKE_BONE, and the work     *)
(* follows several requests later (WATCHDOG_STATES.md, DOG_SHIT).          *)
BlockedMeansNoWork == [][tossed /\ ~tossed' => ~standing]_runtimeVars

(* A callback that is over is not due again at once, however long it took  *)
(* and whatever became of the cadence in it (scheduler.py:141-142: missed  *)
(* intervals are skipped rather than replayed as a burst).                 *)
Running(t) ==
  \/ thread = t
  \/ t = "wake" /\ thread \in {"look", "rouse", "process"}
  \/ t = "tree-audit" /\ thread = "report"
NoBurst == [][\A t \in Tasks : Running(t) /\ thread' = "run" => due'[t] > 0]_runtimeVars

(* Whatever the callbacks take, raise or lose, and however the cadence     *)
(* changes meanwhile, every task comes round again (scheduler.py:66: one   *)
(* exception cannot remove or reset the timing state of other tasks).      *)
EveryTaskRuns == \A t \in Tasks : []<>(thread = t)

(* The dog does not stay awake, nor shown awake, without a request that    *)
(* keeps it so: a walk whose answer was lost is made good by the next look *)
(* at WAKE_BONE or the next check - unless the register keeps the request  *)
(* from being looked at.                                                   *)
SnoozesAgain ==
  (mode = "AWAKE" \/ shown = "AWAKE") ~>
    ((mode = "SNOOZE" /\ shown = "SNOOZE") \/ register.state # "CLEAN")
==================================================================================
