------------------------------- MODULE TreeStartup -------------------------------
(***************************************************************************)
(* How the control tree comes to be and is kept: bootstrap_tree, an        *)
(* operator's action, lays the global part and writes the first PARK_MAP   *)
(* (drive/bootstrap.py); a starting WATCHDOG reads PARK_MAP, repairs the   *)
(* tree in passes of audit and mending (drive/tree_healer.py), registers   *)
(* its devices (drive/device_registration.py) and serves, auditing from    *)
(* time to time (watchdog/runtime.py).                                     *)
(*                                                                         *)
(* Every provider mutation is a step, and a procedure may stop between any *)
(* two: by a crash, or because a request failed and it raised.  An answer  *)
(* lost after the request took effect is settled by the listing that       *)
(* follows and needs no step of its own.                                   *)
(***************************************************************************)
EXTENDS ParkTree

CONSTANTS MaxTrouble,   \* bound: what goes wrong, all kinds together
          MaxDrift,     \* bound: changes by others among it
          MaxPasses,    \* TreeHealer.max_passes
          Reruns        \* may bootstrap be run on a tree that has a map?

ASSUME StartupAssumption ==
  /\ {MaxTrouble, MaxDrift, MaxPasses} \subseteq Nat
  /\ Reruns \in BOOLEAN

VARIABLES task,       \* the procedure that runs
          held,       \* the map it holds or builds
          todo,       \* references still to ensure, in order
          pass,       \* repair: number of the pass
          stage,      \* repair: what the pass is at
          issues,     \* repair: what is left of the pass's audit
          inHand,     \* repair: object just moved, created or displaced, not yet dealt with
          blind,      \* did a request of the pass's audit fail?
          steady,     \* has nobody else changed the folder since the procedure looked?
          drifts,     \* changes by others so far
          trouble     \* changes by others, stops, failed and lost requests so far

repairVars == <<pass, stage, issues, inHand, blind>>
beside == <<steady, drifts, trouble>>
startupVars == <<treeVars, task, held, todo, repairVars, beside>>

GlobalOrder == <<<<"park", "DOG_HOUSE">>, <<"park", "WATCHDOG_MODE">>,
                 <<"park", "BALL_PARK">>, <<"park", "DOG_POUND">>>>
DeviceOrder(device) == <<<<device, "ROOT">>>>
Pound == held[<<"park", "DOG_POUND">>]
NoObject == -2

StartupInit ==
  /\ tree = <<>> /\ parkMap = EmptyMap
  /\ task = "rest" /\ held = EmptyMap /\ todo = <<>>
  /\ pass = 0 /\ stage = "audit" /\ issues = {} /\ inHand = NoObject /\ blind = FALSE
  /\ steady = FALSE
  /\ drifts = 0 /\ trouble = 0

ComesToRest == task' = "rest" /\ held' = EmptyMap /\ todo' = <<>>
AtRest ==
  /\ pass' = 0 /\ stage' = "audit" /\ issues' = {} /\ inHand' = NoObject /\ blind' = FALSE
Trouble == trouble < MaxTrouble /\ trouble' = trouble + 1
Raise == ComesToRest /\ AtRest /\ UNCHANGED <<treeVars, beside>>

WriteMap(map) == parkMap' = map

-----------------------------------------------------------------------------
(* _ensure_child of bootstrap and registration: one object of that name is taken   *)
(* over, none is created, more than one is a conflict.                             *)
HomeOf(ref) == IdOf(held, ParentOf(ref))
Ensuring == task \in {"bootstrap", "register"} /\ todo # <<>>

Reuse(ref) == Named(HomeOf(ref), Initial(ref))

EnsureChild ==
  /\ Ensuring
  /\ LET ref == Head(todo)
         matches == Reuse(ref)
     IN /\ Exists(HomeOf(ref)) /\ FolderAt(HomeOf(ref))
        /\ \/ \E match \in matches :
                /\ matches = {match} /\ tree[match].folder = IsFolder(ref)
                /\ held' = Remember(held, ref, match)
                /\ UNCHANGED tree
           \/ /\ matches = {} /\ Len(tree) < MaxObjects
              /\ tree' = Append(tree, New(HomeOf(ref), ref))
              /\ held' = Remember(held, ref, Len(tree'))
  /\ todo' = Tail(todo)
  /\ UNCHANGED <<parkMap, task, repairVars, beside>>

EnsureFails ==
  /\ Ensuring
  /\ LET ref == Head(todo)
         matches == Reuse(ref)
     IN \/ ~Exists(HomeOf(ref)) \/ ~FolderAt(HomeOf(ref))
        \/ Cardinality(matches) > 1
        \/ \E match \in matches : tree[match].folder # IsFolder(ref)
  /\ Raise

-----------------------------------------------------------------------------
(* bootstrap_tree ends by writing a map of the global references over whatever     *)
(* PARK_MAP said, unless it says just that.                                        *)
Bootstrap ==
  /\ task = "rest" /\ (parkMap = EmptyMap \/ Reruns)
  /\ task' = "bootstrap" /\ todo' = GlobalOrder /\ held' = EmptyMap
  /\ steady' = TRUE
  /\ UNCHANGED <<treeVars, repairVars, drifts, trouble>>

WriteFirstMap ==
  /\ task = "bootstrap" /\ todo = <<>>
  /\ parkMap' = held
  /\ ComesToRest /\ AtRest
  /\ UNCHANGED <<tree, beside>>

(* A starting WATCHDOG takes the map PARK_MAP holds and audits with it.            *)
Start ==
  /\ task = "rest" /\ parkMap # EmptyMap
  /\ task' = "repair" /\ held' = parkMap /\ todo' = <<>>
  /\ pass' = 1 /\ stage' = "audit" /\ issues' = {} /\ inHand' = NoObject /\ blind' = FALSE
  /\ steady' = TRUE
  /\ UNCHANGED <<treeVars, drifts, trouble>>

-----------------------------------------------------------------------------
Repairing(at) == task = "repair" /\ stage = at /\ inHand = NoObject

(* At most one request of an audit fails.                                          *)
Unread ==
  {{}} \cup {{request} : request \in
               IF trouble < MaxTrouble THEN AuditRequests(held) ELSE {}}

(* A clean audit ends the repair; one that finds what must not be decided stops    *)
(* it, as does the pass limit.                                                     *)
Audit ==
  /\ Repairing("audit") /\ pass <= MaxPasses
  /\ \E unread \in Unread :
       LET found == Issues(held, unread)
       IN /\ found # {} /\ \A issue \in found : issue.kind # "conflict"
          /\ issues' = found
          /\ trouble' = trouble + Cardinality(unread) /\ blind' = (unread # {})
  /\ stage' = "quarantine" /\ steady' = TRUE
  /\ UNCHANGED <<treeVars, task, held, todo, pass, inHand, drifts>>

AuditIsClean ==
  /\ Repairing("audit") /\ pass <= MaxPasses /\ Issues(held, {}) = {}
  /\ task' = "register" /\ steady' = TRUE
  /\ UNCHANGED <<treeVars, held, todo, repairVars, drifts, trouble>>

AuditBlocks ==
  /\ Repairing("audit")
  /\ \/ pass > MaxPasses /\ UNCHANGED trouble
     \/ \E unread \in Unread :
          /\ \E issue \in Issues(held, unread) : issue.kind = "conflict"
          /\ trouble' = trouble + Cardinality(unread)
  /\ ComesToRest /\ AtRest /\ UNCHANGED <<treeVars, steady, drifts>>

(* Extras go to DOG_POUND.  The note beside each, which says where it was and why,  *)
(* is left out: nothing but a person reads it.                                      *)
Extras_AllOfThatName ==
  UNION {IF issue.kind = "duplicate" THEN issue.candidates \cup {issue.id} ELSE {issue.id} :
           issue \in {i \in issues : i.kind \in {"duplicate", "unknown"}}}
Extras == UNION {IF issue.kind = "duplicate" THEN issue.candidates ELSE {issue.id} :
                   issue \in {i \in issues : i.kind \in {"duplicate", "unknown"}}}
Away(id) == ~Exists(id) \/ tree[id].parent = Pound

Quarantine(id) ==
  /\ Exists(Pound) /\ FolderAt(Pound) /\ Pound \notin Below(id)
  /\ tree' = [tree EXCEPT ![id].parent = Pound]

QuarantineExtra ==
  /\ Repairing("quarantine")
  /\ \E id \in Extras : ~Away(id) /\ Quarantine(id)
  /\ UNCHANGED <<parkMap, task, held, todo, repairVars, beside>>

QuarantineFails ==
  /\ task = "repair"
  /\ \E id \in CASE stage = "quarantine" -> Extras [] stage = "replace" -> {inHand} \ {NoObject}
               [] OTHER -> {} :
       ~Away(id) /\ ~(Exists(Pound) /\ FolderAt(Pound) /\ Pound \notin Below(id))
  /\ Raise

QuarantineDone ==
  /\ Repairing("quarantine") /\ \A id \in Extras : Away(id)
  /\ stage' = "restore"
  /\ UNCHANGED <<treeVars, task, held, todo, pass, issues, inHand, blind, beside>>

-----------------------------------------------------------------------------
(* The issues of a kind are dealt with in the order of the audit.                  *)
AuditOrder_AsListed ==
  <<<<"park", "WATCHDOG_MODE">>, <<"park", "DOG_HOUSE">>, <<"park", "BALL_PARK">>,
    <<"park", "DOG_POUND">>>>
AuditOrder ==
  <<<<"park", "DOG_HOUSE">>, <<"park", "BALL_PARK">>, <<"park", "DOG_POUND">>,
    <<"park", "WATCHDOG_MODE">>>>
Position(ref) ==
  IF ref \in ToSet(AuditOrder) THEN CHOOSE n \in DOMAIN AuditOrder : AuditOrder[n] = ref
                               ELSE Len(AuditOrder) + 1
NoLater(issue, other) ==
  \/ Position(issue.ref) < Position(other.ref)
  \/ /\ Position(issue.ref) = Position(other.ref)
     /\ issue.ref = other.ref => issue.kind = "wrong kind" \/ other.kind # "wrong kind"
FirstOf(some) == CHOOSE issue \in some : \A other \in some : NoLater(issue, other)

(* A canonical object that drifted is moved back where its issue says.             *)
Strays == {issue \in issues : issue.kind = "wrong parent"}
MayRestore(issue) ==
  /\ Exists(issue.id) /\ Exists(issue.parent) /\ FolderAt(issue.parent)
  /\ issue.parent \notin Below(issue.id)

RestoreOne ==
  /\ Repairing("restore") /\ Strays # {}
  /\ LET issue == FirstOf(Strays)
     IN /\ MayRestore(issue)
        /\ tree' = [tree EXCEPT ![issue.id].parent = issue.parent]
        /\ issues' = issues \ {issue}
  /\ UNCHANGED <<parkMap, task, held, todo, pass, stage, inHand, blind, beside>>

RestoreFails ==
  /\ Repairing("restore") /\ Strays # {} /\ ~MayRestore(FirstOf(Strays))
  /\ Raise

RestoreDone ==
  /\ Repairing("restore") /\ Strays = {}
  /\ stage' = "replace"
  /\ UNCHANGED <<treeVars, task, held, todo, pass, issues, inHand, blind, beside>>

-----------------------------------------------------------------------------
(* What is missing, of the wrong kind or badly named is replaced by the one object *)
(* that fits, or else by a new one.                                                *)
Unfit == {issue \in issues : issue.kind \in {"missing", "wrong kind", "bad name"}}
First == FirstOf(Unfit)
Replacing == Repairing("replace") /\ Unfit # {}
ValidCandidates(issue) == {id \in issue.candidates : Fits(id, issue.ref, issue.parent)}

(* The map is written, compared with a version, and read back; only then is the    *)
(* object that was displaced put away.                                             *)
Remap(ref, id) ==
  /\ MayReplace(held, ref, id)
  /\ held' = ReplaceReference(held, ref, id)
  /\ parkMap' = held'
  /\ inHand' = IF Exists(held[ref]) THEN held[ref] ELSE NoObject

Adopt ==
  /\ Replacing
  /\ \E id \in ValidCandidates(First) :
       /\ ValidCandidates(First) = {id} /\ id # held[First.ref]
       /\ Remap(First.ref, id)
  /\ issues' = issues \ {First}
  /\ UNCHANGED <<tree, task, todo, pass, stage, blind, beside>>

RenameBack ==
  /\ Replacing /\ ValidCandidates(First) = {}
  /\ First.kind = "bad name" /\ ~Stateful(First.ref) /\ Exists(First.id)
  /\ tree' = [tree EXCEPT ![First.id].name = Initial(First.ref)]
  /\ issues' = issues \ {First}
  /\ UNCHANGED <<parkMap, task, held, todo, pass, stage, inHand, blind, beside>>

MayCreate ==
  /\ Replacing /\ ValidCandidates(First) = {}
  /\ First.kind # "bad name" /\ Recreatable(First.ref)

(* A created object is in the tree before the map names it.                        *)
Recreate ==
  /\ MayCreate /\ Len(tree) < MaxObjects
  /\ Exists(First.parent) /\ FolderAt(First.parent)
  /\ tree' = Append(tree, New(First.parent, First.ref))
  /\ inHand' = Len(tree') /\ stage' = "name"
  /\ UNCHANGED <<parkMap, task, held, todo, pass, issues, blind, beside>>

NameCreated ==
  /\ task = "repair" /\ stage = "name"
  /\ Remap(First.ref, inHand)
  /\ issues' = issues \ {First} /\ stage' = "replace"
  /\ UNCHANGED <<tree, task, todo, pass, blind, beside>>

PutAway ==
  /\ task = "repair" /\ stage = "replace" /\ inHand # NoObject
  /\ IF Away(inHand) THEN UNCHANGED tree ELSE Quarantine(inHand)
  /\ inHand' = NoObject
  /\ UNCHANGED <<parkMap, task, held, todo, pass, stage, issues, blind, beside>>

(* Two that fit, a state that would be guessed, an identity, or no parent.         *)
ReplaceBlocks ==
  /\ Replacing
  /\ \/ Cardinality(ValidCandidates(First)) > 1
     \/ \E id \in ValidCandidates(First) : ~MayReplace(held, First.ref, id)
     \/ /\ ValidCandidates(First) = {}
        /\ \/ First.kind = "bad name" /\ (Stateful(First.ref) \/ ~Exists(First.id))
           \/ First.kind # "bad name" /\ ~Recreatable(First.ref)
           \/ First.kind # "bad name" /\ ~(Exists(First.parent) /\ FolderAt(First.parent))
  /\ Raise

PassDone ==
  /\ Repairing("replace") /\ Unfit = {}
  /\ stage' = "audit" /\ issues' = {} /\ pass' = pass + 1 /\ blind' = FALSE
  /\ UNCHANGED <<treeVars, task, held, todo, inHand, beside>>

-----------------------------------------------------------------------------
(* register: a device the map names is only checked; another gets its folder and   *)
(* files, and the map names them all at once.                                      *)
Unregistered == Devices \ Registered(held)

Register ==
  /\ task = "register" /\ stage = "audit"
  /\ \E device \in Unregistered : todo' = DeviceOrder(device)
  /\ stage' = "register"
  /\ UNCHANGED <<treeVars, task, held, pass, issues, inHand, blind, beside>>

PersistRegistration ==
  /\ stage = "register" /\ todo = <<>> /\ IsParkMap(held)
  /\ WriteMap(held) /\ stage' = "audit"
  /\ UNCHANGED <<tree, task, held, todo, pass, issues, inHand, blind, beside>>

RegistrationConflict ==
  /\ task = "register" /\ todo = <<>>
  /\ IF stage = "register" THEN ~IsParkMap(held)
     ELSE \E ref \in DOMAIN held \ GlobalRefs : ~Exists(held[ref])
  /\ Raise

Serve ==
  /\ task = "register" /\ stage = "audit" /\ Unregistered = {}
  /\ \A ref \in DOMAIN held : ref[1] = "park" \/ Exists(held[ref])
  /\ task' = "serve"
  /\ UNCHANGED <<treeVars, held, todo, repairVars, beside>>

-----------------------------------------------------------------------------
Stop ==
  /\ task # "rest" /\ Trouble
  /\ ComesToRest /\ AtRest
  /\ UNCHANGED <<treeVars, steady, drifts>>

(* audit_control_tree of a serving WATCHDOG reports what it finds and mends nothing;  *)
(* somebody restarts it.                                                             *)
Restart ==
  /\ task = "serve" /\ Issues(held, {}) # {}
  /\ Raise

(* Nobody touches the folder while an operator runs bootstrap; between two runs of     *)
(* it people may.                                                                    *)
People ==
  /\ task # "bootstrap"
  /\ Trouble /\ Drift /\ steady' = FALSE
  /\ drifts < MaxDrift /\ drifts' = drifts + 1
  /\ UNCHANGED <<task, held, todo, repairVars>>

Roles ==
  /\ StateMoves
  /\ UNCHANGED <<task, held, todo, repairVars, beside>>

RepairStep ==
  \/ Audit \/ AuditIsClean \/ AuditBlocks
  \/ QuarantineExtra \/ QuarantineDone \/ QuarantineFails
  \/ RestoreOne \/ RestoreFails \/ RestoreDone
  \/ Adopt \/ RenameBack \/ Recreate \/ NameCreated \/ PutAway
  \/ ReplaceBlocks \/ PassDone
SetupStep == Bootstrap \/ WriteFirstMap \/ EnsureChild \/ EnsureFails \/ Register \/ PersistRegistration
               \/ RegistrationConflict
ServiceStep == Start \/ Serve \/ Restart
Disturbance == Stop \/ People \/ Roles

StartupNext == RepairStep \/ SetupStep \/ ServiceStep \/ Disturbance
StartupSpec == StartupInit /\ [][StartupNext]_startupVars

(* Somebody starts the procedures again that have stopped, and each runs on.          *)
StartupFairSpec == StartupSpec /\ WF_startupVars(RepairStep \/ SetupStep \/ ServiceStep)

-----------------------------------------------------------------------------
(* A WATCHDOG serves only a whole tree: registered devices, every reference in its     *)
(* place, and the map it holds the one PARK_MAP holds, as long as nobody disturbs it.   *)
ServingIsWhole ==
  task = "serve" /\ steady =>
    /\ held = parkMap /\ Registered(parkMap) = Devices
    /\ \A ref \in DOMAIN parkMap : Healthy(parkMap, ref)

(* As long as nobody else touches the folder after a procedure has looked, and every *)
(* request of that look was answered, what is in place stays where it is and stays   *)
(* the object its reference names.                                                   *)
HealthyIsKept ==
  [][steady /\ steady' /\ ~blind =>
       \A ref \in DOMAIN parkMap :
         Healthy(parkMap, ref) =>
           /\ ref \in DOMAIN parkMap' /\ parkMap'[ref] = parkMap[ref]
           /\ tree'[parkMap[ref]].parent = tree[parkMap[ref]].parent]_startupVars

(* PARK_MAP is pointed only at an object of the right kind and name that lies in the  *)
(* folder the map names for it, whatever stops in between; or, when the folder itself *)
(* was replaced earlier in the same pass, in the one that it replaced.                *)
Left(ref) ==
  {issue.parent : issue \in {i \in Unfit : i.ref = ref /\ i.parent # IdOf(parkMap, ParentOf(ref))}}
MapNamesWhatFits ==
  [][steady /\ steady' =>
       \A ref \in DOMAIN parkMap' :
         (ref \notin DOMAIN parkMap \/ parkMap'[ref] # parkMap[ref]) =>
           \/ Healthy(parkMap, ref)'
           \/ \E folder \in Left(ref) : Fits(parkMap[ref], ref, folder)']_startupVars

(* What the procedures leave to a person: a name nobody can vouch for, a lost device  *)
(* folder, or two objects that could each be the one, be it of an entry of the map or  *)
(* of a device still to be registered.                                               *)
Unfitting(ref) ==
  {issue \in Issues(parkMap, {}) :
     issue.ref = ref /\ issue.kind \in {"missing", "wrong kind", "bad name"}}
Undecidable ==
  \/ \E ref \in DOMAIN parkMap : \E issue \in Unfitting(ref) :
       \/ issue.kind = "bad name" /\ Stateful(ref)
       \/ issue.kind # "bad name" /\ ~Recreatable(ref)
       \/ Cardinality({id \in issue.candidates : Fits(id, ref, issue.parent)}) > 1
  \/ \E device \in Devices \ Registered(parkMap) :
       LET roots == Named(parkMap[<<"park", "BALL_PARK">>], device)
       IN \/ Cardinality(roots) > 1 \/ \E root \in roots : ~tree[root].folder

(* Whatever stops a procedure half way, the next starts mend the tree until the       *)
(* WATCHDOG serves, unless the tree is undecidable or its DOG_POUND is not in place.  *)
StartsAgain ==
  []<>(\/ task = "serve" \/ parkMap = EmptyMap \/ Undecidable
       \/ ~Healthy(parkMap, <<"park", "DOG_POUND">>) \/ Len(tree) = MaxObjects)
================================================================================
