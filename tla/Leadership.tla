------------------------------- MODULE Leadership -------------------------------
(***************************************************************************)
(* Several WATCHDOGs that compete for one role: NativeWatchdogRuntime.tick *)
(* (watchdog/leadership_runtime.py), the transitions it prepares           *)
(* (drive/leadership.py) and their reconciliation with the shared document *)
(* (reconcile, drive/authority_transaction.py), request by request.        *)
(*                                                                         *)
(* Each dog keeps its grant and the transition it may have sent in a       *)
(* durable checkpoint; everything else is lost with the process.  A        *)
(* transition that may have been sent is only ever looked for again.       *)
(*                                                                         *)
(* Of the document this module has the two election records; the others    *)
(* advance the revision.  A transition identifier is a number that is used *)
(* once.  Of time there is what the code compares: whether the lease time  *)
(* has passed since the leader's heartbeat, since a dog first saw it, and  *)
(* whether a request has expired.  The wall clock is trusted or not at     *)
(* every tick.                                                             *)
(***************************************************************************)
EXTENDS Authority

CONSTANTS Dogs, Nobody,
          Founders,         \* the dogs that are commissioned to found the role
          MaxWrites,        \* writes of one reconciliation
          MaxTransitions,   \* bound: transitions and requests prepared
          MaxFaults         \* bound: restarts, failures and lost answers

ASSUME LeadershipAssumption ==
  /\ Nobody \notin Dogs /\ Founders \subseteq Dogs
  /\ MaxWrites \in Nat \ {0} /\ MaxTransitions \in Nat /\ MaxFaults \in Nat

VARIABLES grant, election,          \* the checkpoint of each dog
          role,                     \* where its tick stands
          seen, sent, tries,        \* reconcile: revision in hand, may the write
          refused,                  \*   be out, writes refused, revision of the last
          since, aged,              \* heartbeat it watches; for the lease time yet?
          active,                   \* does it act as the leader (RUNNING)?
          lapsed, expired,          \* of the leader's lease, of the pending request
          minted, faults

checkpoint == <<grant, election>>
attempt == <<seen, sent, tries, refused>>
watch == <<since, aged>>
time == <<lapsed, expired>>
bounds == <<minted, faults>>
vars == <<authorityVars, checkpoint, role, attempt, watch, active, time, bounds>>

Vacant == [owner |-> Nobody, epoch |-> 0, acquisition |-> 0, transition |-> 0]
NoRequest == [by |-> Nobody, id |-> 0]
NoGrant == [epoch |-> 0, acquisition |-> 0]
Nothing == [leader |-> Vacant, request |-> NoRequest]
NoElection == [action |-> "NONE", before |-> Nothing, after |-> Nothing]

Leaders ==
  [owner : Dogs \cup {Nobody}, epoch : 0 .. MaxTransitions,
   acquisition : 0 .. MaxTransitions, transition : 0 .. MaxTransitions]
Documents ==
  [leader : Leaders, request : [by : Dogs \cup {Nobody}, id : 0 .. MaxTransitions]]
Elections ==
  [action : {"NONE", "ACQUIRE", "CLAIM_FORCE", "RENEW"},
   before : Documents, after : Documents]

Init ==
  /\ log = <<Nothing>>
  /\ visible = 1 /\ flight = {}
  /\ grant = [d \in Dogs |-> NoGrant]
  /\ election = [d \in Dogs |-> NoElection]
  /\ role = [d \in Dogs |-> "rest"]
  /\ seen = [d \in Dogs |-> 0] /\ sent = [d \in Dogs |-> FALSE]
  /\ tries = [d \in Dogs |-> 0] /\ refused = [d \in Dogs |-> 0]
  /\ since = [d \in Dogs |-> Vacant] /\ aged = [d \in Dogs |-> FALSE]
  /\ active = [d \in Dogs |-> FALSE]
  /\ lapsed = FALSE /\ expired = FALSE
  /\ minted = 0 /\ faults = 0

Fault == faults < MaxFaults /\ faults' = faults + 1

-----------------------------------------------------------------------------
(* Leadership                                                               *)

Owns(dog, document) ==
  /\ document.request = NoRequest
  /\ document.leader.owner = dog
  /\ grant[dog] = [epoch |-> document.leader.epoch,
                   acquisition |-> document.leader.acquisition]

(* ElectionMutation.evaluate: both records are compared whole.               *)
Evaluate(plan, document) ==
  CASE document = plan.after -> "CONFIRMED"
    [] document \notin {plan.before, plan.after} -> "SUPERSEDED"
    [] OTHER -> "READY"

(* stale: the trusted wall clock against the heartbeat, or a monotonic clock  *)
(* since this dog first saw the heartbeat.  What is read of an older revision *)
(* may be of any age.                                                         *)
Stale(dog, document, trusted) ==
  \/ trusted /\ (document.leader = Current.leader => lapsed)
  \/ since'[dog] = document.leader /\ aged'[dog]

Requested(dog, document, trusted) ==
  /\ trusted /\ document.request.by = dog
  /\ document.request = Current.request => ~expired

Elected(dog, document, id) ==
  [leader |-> [owner |-> dog, epoch |-> document.leader.epoch + 1,
               acquisition |-> id, transition |-> id],
   request |-> NoRequest]

-----------------------------------------------------------------------------
(* _elect: the transition is saved before it is sent; its end is saved after. *)

Prepare(dog, action, before, after) ==
  /\ election' = [election EXCEPT ![dog] =
       [action |-> action, before |-> before, after |-> after]]
  /\ role' = [role EXCEPT ![dog] = "commit"]
  /\ UNCHANGED <<attempt, active>>

Confirm(dog) ==
  /\ election' = [election EXCEPT ![dog] = NoElection]
  /\ grant' = IF election[dog].action = "RENEW" THEN grant
              ELSE [grant EXCEPT ![dog] =
                     [epoch |-> election[dog].after.leader.epoch,
                      acquisition |-> election[dog].after.leader.acquisition]]

Abandon_Remembers(dog) ==
  grant' = [grant EXCEPT ![dog] = NoGrant] /\ UNCHANGED election
Abandon(dog) ==
  /\ election' = [election EXCEPT ![dog] = NoElection]
  /\ grant' = [grant EXCEPT ![dog] = NoGrant]

InDoubt_TakenAsDone(dog) == Confirm(dog)
InDoubt(dog) == UNCHANGED checkpoint

Rest(dog) ==
  /\ role' = [role EXCEPT ![dog] = "rest"]
  /\ seen' = [seen EXCEPT ![dog] = 0] /\ sent' = [sent EXCEPT ![dog] = FALSE]
  /\ tries' = [tries EXCEPT ![dog] = 0] /\ refused' = [refused EXCEPT ![dog] = 0]
Pause_Quietly(dog) == Rest(dog) /\ UNCHANGED active
Pause(dog) == Rest(dog) /\ active' = [active EXCEPT ![dog] = FALSE]
Lead(dog) == Rest(dog) /\ active' = [active EXCEPT ![dog] = TRUE]

-----------------------------------------------------------------------------
(* tick, the transition that may have been sent: it is looked for, and where  *)
(* the document has moved past it the dog is free again.  Reading it as       *)
(* still READY leaves everything as it is.                                    *)
Inspect(dog) ==
  /\ role[dog] = "rest" /\ election[dog] # NoElection
  /\ \E revision \in visible .. Latest :
       /\ Read(revision)
       /\ CASE Evaluate(election[dog], log[revision]) = "CONFIRMED" -> Confirm(dog)
            [] Evaluate(election[dog], log[revision]) = "SUPERSEDED" -> Abandon(dog)
            [] OTHER -> InDoubt(dog)
  /\ Pause(dog)
  /\ UNCHANGED <<watch, time, bounds>>

(* tick, what the document says now.                                          *)
Watch_KeepsWindow(dog, document) ==
  /\ since' = [since EXCEPT ![dog] = document.leader]
  /\ UNCHANGED aged
Watch(dog, document) ==
  /\ since' = [since EXCEPT ![dog] = document.leader]
  /\ aged' = [aged EXCEPT ![dog] = aged[dog] /\ since[dog] = document.leader]

Stay(dog, document) ==
  /\ Owns(dog, document)
  /\ Lead(dog)
  /\ UNCHANGED <<checkpoint, minted>>

Renew(dog, document) ==
  /\ Owns(dog, document) /\ minted < MaxTransitions
  /\ minted' = minted + 1
  /\ Prepare(dog, "RENEW", document,
             [document EXCEPT !.leader.transition = minted'])
  /\ UNCHANGED grant

Found(dog, document) ==
  /\ document.leader = Vacant /\ dog \in Founders /\ minted < MaxTransitions
  /\ minted' = minted + 1
  /\ Prepare(dog, "ACQUIRE", document, Elected(dog, document, minted'))

Claim(dog, document, trusted) ==
  /\ Requested(dog, document, trusted)
  /\ Prepare(dog, "CLAIM_FORCE", document, Elected(dog, document, document.request.id))
  /\ UNCHANGED minted

TakeOver(dog, document, trusted) ==
  /\ document.leader # Vacant /\ Stale(dog, document, trusted)
  /\ ~Requested(dog, document, trusted) /\ minted < MaxTransitions
  /\ minted' = minted + 1
  /\ Prepare(dog, "ACQUIRE", document, Elected(dog, document, minted'))

(* COMMISSIONING_REQUIRED, OLDER_DOG_DETECTED; and the end of the bound.      *)
StandBy(dog, document, trusted) ==
  /\ \/ minted = MaxTransitions
     \/ document.leader = Vacant /\ dog \notin Founders
     \/ /\ document.leader # Vacant
        /\ ~Requested(dog, document, trusted) /\ ~Stale(dog, document, trusted)
  /\ Pause(dog)
  /\ UNCHANGED <<election, minted>>

Observe(dog) ==
  /\ role[dog] = "rest" /\ election[dog] = NoElection
  /\ \E revision \in visible .. Latest, trusted \in BOOLEAN :
       /\ Read(revision)
       /\ Watch(dog, log[revision])
       /\ \/ Stay(dog, log[revision])
          \/ Renew(dog, log[revision])
          \/ /\ ~Owns(dog, log[revision])
             /\ grant' = [grant EXCEPT ![dog] = NoGrant]
             /\ \/ Found(dog, log[revision])
                \/ Claim(dog, log[revision], trusted)
                \/ TakeOver(dog, log[revision], trusted)
                \/ StandBy(dog, log[revision], trusted)
  /\ UNCHANGED <<time, faults>>

-----------------------------------------------------------------------------
(* reconcile: read and compare; send at most MaxWrites times and never after  *)
(* a write that may have been applied; read again to see what became of it.   *)

(* REJECTED and CONFLICT: refused at the revision that is still there, or     *)
(* too often.                                                                 *)
Hopeless(dog, revision) ==
  ~sent[dog] /\ (refused[dog] = revision \/ tries[dog] = MaxWrites)

Commit(dog) ==
  /\ role[dog] = "commit"
  /\ \E revision \in visible .. Latest :
       LET state == Evaluate(election[dog], log[revision]) IN
       /\ Read(revision)
       /\ \/ state = "CONFIRMED" /\ Confirm(dog) /\ Lead(dog)
          \/ /\ state = "SUPERSEDED" \/ (state = "READY" /\ Hopeless(dog, revision))
             /\ Abandon(dog) /\ Pause(dog)
          \/ /\ state = "READY" /\ sent[dog]
             /\ InDoubt(dog) /\ Pause(dog)
          \/ /\ state = "READY" /\ ~sent[dog] /\ ~Hopeless(dog, revision)
             /\ role' = [role EXCEPT ![dog] = "send"]
             /\ seen' = [seen EXCEPT ![dog] = revision]
             /\ UNCHANGED <<checkpoint, active, sent, tries, refused>>
  /\ UNCHANGED <<watch, time, bounds>>

(* The read fails: UNKNOWN where the write may be out, else UNAVAILABLE.      *)
ReadFails(dog) ==
  /\ role[dog] = "commit" /\ Fault
  /\ IF sent[dog] THEN InDoubt(dog) ELSE Abandon(dog)
  /\ Pause(dog)
  /\ UNCHANGED <<authorityVars, watch, time, minted>>

ReadAgain(dog) == role' = [role EXCEPT ![dog] = "commit"]

Send(dog) ==
  /\ role[dog] = "send" /\ seen[dog] = Latest
  /\ Accepted(seen[dog], election[dog].after)
  /\ sent' = [sent EXCEPT ![dog] = TRUE] /\ ReadAgain(dog)
  /\ lapsed' = FALSE
  /\ UNCHANGED <<checkpoint, seen, tries, refused, watch, active, expired, bounds>>

Refused(dog) ==
  /\ role[dog] = "send"
  /\ IF seen[dog] = Latest THEN Fault ELSE UNCHANGED faults
  /\ Rejected
  /\ refused' = [refused EXCEPT ![dog] = seen[dog]]
  /\ tries' = [tries EXCEPT ![dog] = tries[dog] + 1]
  /\ ReadAgain(dog)
  /\ UNCHANGED <<checkpoint, seen, sent, watch, active, time, minted>>

Lost(dog) ==
  /\ role[dog] = "send" /\ Fault
  /\ Unanswered(seen[dog], election[dog].after)
  /\ sent' = [sent EXCEPT ![dog] = TRUE] /\ ReadAgain(dog)
  /\ lapsed' = IF log' = log THEN lapsed ELSE FALSE
  /\ UNCHANGED <<checkpoint, seen, tries, refused, watch, active, expired, minted>>

Unavailable(dog) ==
  /\ role[dog] = "send" /\ Fault
  /\ Abandon(dog) /\ Pause(dog)
  /\ UNCHANGED <<authorityVars, watch, time, minted>>

(* A write lands late, with the heartbeat of the time it was prepared.        *)
Land ==
  /\ \E document \in flight : Put(document)
  /\ lapsed' \in BOOLEAN
  /\ UNCHANGED <<checkpoint, role, attempt, watch, active, expired, bounds>>

(* An exception out of the store, the clock or the provider ends the tick; a  *)
(* restart ends the process, and with it what the dog has watched.            *)
Interrupted(dog) ==
  /\ Fault
  /\ Pause(dog)
  /\ \/ UNCHANGED watch
     \/ /\ since' = [since EXCEPT ![dog] = Vacant]
        /\ aged' = [aged EXCEPT ![dog] = FALSE]
  /\ UNCHANGED <<authorityVars, checkpoint, time, minted>>

-----------------------------------------------------------------------------
(* request_force and expire_request have no caller in the daemon; a person    *)
(* uses them through the same conditional write.                              *)
Ask(dog) ==
  /\ Current.leader # Vacant /\ Current.leader.owner # dog
  /\ Current.request = NoRequest /\ minted < MaxTransitions
  /\ minted' = minted + 1
  /\ Put([Current EXCEPT !.request = [by |-> dog, id |-> minted']])
  /\ expired' = FALSE
  /\ UNCHANGED <<checkpoint, role, attempt, watch, active, lapsed, faults>>

Expire ==
  /\ Current.request # NoRequest /\ expired
  /\ Put([Current EXCEPT !.request = NoRequest])
  /\ UNCHANGED <<checkpoint, role, attempt, watch, active, time, bounds>>

Unrelated ==
  /\ WriteElsewhere
  /\ UNCHANGED <<checkpoint, role, attempt, watch, active, time, bounds>>

Visible ==
  /\ CatchUp
  /\ UNCHANGED <<checkpoint, role, attempt, watch, active, time, bounds>>

(* The lease time has passed since the heartbeat before it has passed since a *)
(* dog first saw that heartbeat.                                              *)
Lapse ==
  /\ Current.leader # Vacant /\ ~lapsed /\ lapsed' = TRUE
  /\ UNCHANGED <<authorityVars, checkpoint, role, attempt, watch, active, expired, bounds>>

Age(dog) ==
  /\ since[dog] # Vacant /\ ~aged[dog]
  /\ since[dog] = Current.leader => lapsed
  /\ aged' = [aged EXCEPT ![dog] = TRUE]
  /\ UNCHANGED <<authorityVars, checkpoint, role, attempt, since, active, time, bounds>>

RequestExpires ==
  /\ Current.request # NoRequest /\ ~expired /\ expired' = TRUE
  /\ UNCHANGED <<authorityVars, checkpoint, role, attempt, watch, active, lapsed, bounds>>

DogStep(dog) == Inspect(dog) \/ Observe(dog) \/ Commit(dog) \/ Send(dog) \/ Refused(dog)
Failure(dog) == ReadFails(dog) \/ Lost(dog) \/ Unavailable(dog) \/ Interrupted(dog)
TimePasses == Visible \/ Lapse \/ \E dog \in Dogs : Age(dog)
Environment == Land \/ Expire \/ Unrelated \/ RequestExpires

Next ==
  \/ \E dog \in Dogs : DogStep(dog) \/ Failure(dog) \/ Ask(dog)
  \/ TimePasses \/ Environment

Spec == Init /\ [][Next]_vars

(* run() ticks for ever; time passes; a read catches up.                      *)
FairSpec ==
  /\ Spec
  /\ \A dog \in Dogs : WF_vars(DogStep(dog))
  /\ WF_vars(TimePasses)

-----------------------------------------------------------------------------
TypeOK ==
  /\ log \in Seq(Documents) /\ visible \in 1 .. Latest /\ flight \subseteq Documents
  /\ grant \in [Dogs -> [epoch : 0 .. MaxTransitions, acquisition : 0 .. MaxTransitions]]
  /\ election \in [Dogs -> Elections]
  /\ role \in [Dogs -> {"rest", "commit", "send"}]
  /\ seen \in [Dogs -> 0 .. Latest] /\ refused \in [Dogs -> 0 .. Latest]
  /\ sent \in [Dogs -> BOOLEAN] /\ tries \in [Dogs -> 0 .. MaxWrites]
  /\ since \in [Dogs -> Leaders]
  /\ aged \in [Dogs -> BOOLEAN] /\ active \in [Dogs -> BOOLEAN]
  /\ lapsed \in BOOLEAN /\ expired \in BOOLEAN
  /\ minted \in 0 .. MaxTransitions /\ faults \in 0 .. MaxFaults

(* A grant in a checkpoint names an acquisition that is the only one of its    *)
(* epoch and that was the dog's own: whatever was lost, refused or late, and   *)
(* whenever the process died (NATIVE_LEADERSHIP.md:65-69).                      *)
GrantsAreEarned ==
  \A dog \in Dogs : grant[dog] # NoGrant =>
    /\ \E revision \in 1 .. Latest : log[revision].leader.epoch = grant[dog].epoch
    /\ \A revision \in 1 .. Latest :
         log[revision].leader.epoch = grant[dog].epoch =>
           /\ log[revision].leader.owner = dog
           /\ log[revision].leader.acquisition = grant[dog].acquisition

(* The document follows Tenure, whatever the dogs remember: only a lapsed      *)
(* leader, or one that was asked before, is replaced.                          *)
Records == INSTANCE Tenure WITH
  leader <- Current.leader, request <- Current.request, lapsed <- lapsed
ImplementsTenure == Records!Spec

(* A dog that acts as the leader and is not any more stops doing so.           *)
DeposedStandDown ==
  \A dog \in Dogs :
    (active[dog] /\ ~Owns(dog, Current)) ~> (~active[dog] \/ Owns(dog, Current))

(* The role does not stay vacant: somebody comes to hold it, unless every dog  *)
(* that could is in doubt about a transition that was lost.                    *)
Attended == \E dog \in Dogs : Owns(dog, Current)
Candidates == IF Current.leader = Vacant THEN Founders ELSE Dogs
AllInDoubt ==
  \A dog \in Candidates :
    election[dog] # NoElection /\ Evaluate(election[dog], Current) = "READY"
LeadershipResumes == ~Attended ~> (Attended \/ AllInDoubt \/ minted = MaxTransitions)
================================================================================
