-------------------------------- MODULE ParkTree --------------------------------
(***************************************************************************)
(* The control tree on Drive and its index.  The tree is a log of the      *)
(* objects ever created, each with the parent, name and kind it has now;   *)
(* PARK_MAP is a function from logical references to objects, and every    *)
(* role but COACH finds its files through it (drive/park_map.py).  The     *)
(* blueprint says what a reference must look like, and TreeAuditor lists   *)
(* where tree, map and blueprint disagree (drive/tree_audit.py).           *)
(*                                                                         *)
(* One reference of each sort stands for the blueprint's two dozen; a      *)
(* device is its folder.  The PARK_MAP file itself is left out: whatever   *)
(* is wrong with it stops every procedure.                                 *)
(***************************************************************************)
EXTENDS Integers, FiniteSets, SequencesExt

CONSTANTS Devices,     \* device ids the WATCHDOG is configured with
          MaxObjects   \* bound: objects ever created

ASSUME TreeAssumption == MaxObjects \in Nat /\ "park" \notin Devices

VARIABLES tree,     \* objects ever created, in the order of creation
          parkMap   \* what the PARK_MAP file says

treeVars == <<tree, parkMap>>

Root == 0         \* the configured root folder: never created, never moved
Nowhere == -1     \* parent of an object somebody deleted
Foreign == "?"    \* a name the blueprint does not know

-----------------------------------------------------------------------------
(* tree-blueprint.yaml: name states, the first of them the initial one; where the   *)
(* reference lives; whether its repair policy lets it be created again.             *)
GlobalRefs == {<<"park", n>> : n \in {"DOG_HOUSE", "WATCHDOG_MODE", "BALL_PARK", "DOG_POUND"}}
DeviceRefs(device) == {<<device, "ROOT">>}

Names(ref) ==
  CASE ref[2] = "WATCHDOG_MODE" -> <<"DOG_SNOOZE", "DOG_AWAKE">>
    [] ref[2] = "ROOT" -> <<ref[1]>>
    [] OTHER -> <<ref[2]>>
Initial(ref) == Names(ref)[1]
Allowed(ref) == ToSet(Names(ref))
Stateful(ref) == Len(Names(ref)) > 1
IsFolder(ref) == ~Stateful(ref)
Recreatable(ref) == ref[2] # "ROOT"

ParentOf(ref) ==
  CASE ref[2] = "WATCHDOG_MODE" -> <<"park", "DOG_HOUSE">>
    [] ref[2] = "ROOT" -> <<"park", "BALL_PARK">>
    [] OTHER -> <<"park", "root">>
HasChildren(ref) == ref[2] \in {"DOG_HOUSE", "BALL_PARK"}

-----------------------------------------------------------------------------
(* ParkMap: it names every global reference, all of a device's or none, and    *)
(* no object twice.                                                                 *)
EmptyMap == [ref \in {} |-> Root]
Registered(map) == {device \in Devices : <<device, "ROOT">> \in DOMAIN map}
IsParkMap(map) ==
  /\ DOMAIN map = GlobalRefs \cup UNION {DeviceRefs(d) : d \in Registered(map)}
  /\ IsInjective(map) /\ Root \notin Range(map)
IdOf(map, ref) == IF ref = <<"park", "root">> THEN Root ELSE map[ref]

MayReplace(map, ref, id) == \A other \in DOMAIN map \ {ref} : map[other] # id
ReplaceReference(map, ref, id) == [map EXCEPT ![ref] = id]
Remember(map, ref, id) == [r \in DOMAIN map \cup {ref} |-> IF r = ref THEN id ELSE map[r]]

-----------------------------------------------------------------------------
Exists(id) == IF id = Root THEN TRUE ELSE id \in DOMAIN tree /\ tree[id].parent # Nowhere
FolderAt(id) == IF id = Root THEN TRUE ELSE tree[id].folder
Children(id) == {child \in DOMAIN tree : tree[child].parent = id}
Named(parent, name) == {child \in Children(parent) : tree[child].name = name}

(* An object and what lies in it, in a folder of it, and so on.                     *)
Below(id) ==
  {o \in DOMAIN tree :
     \A within \in SUBSET DOMAIN tree :
       id \in within /\ (\A p \in DOMAIN tree : tree[p].parent \in within => p \in within)
         => o \in within}

(* The object a reference must be: in its folder, of its kind, with a name of its   *)
(* states.                                                                          *)
Fits(id, ref, parent) ==
  /\ Exists(id) /\ tree[id].parent = parent
  /\ tree[id].folder = IsFolder(ref) /\ tree[id].name \in Allowed(ref)
Healthy(map, ref) ==
  ref \in DOMAIN map /\ Fits(map[ref], ref, IdOf(map, ParentOf(ref)))

New_AtRoot(parent, ref) == [parent |-> Root, name |-> Initial(ref), folder |-> IsFolder(ref)]
New(parent, ref) == [parent |-> parent, name |-> Initial(ref), folder |-> IsFolder(ref)]

-----------------------------------------------------------------------------
(* TreeAuditor.audit: one issue per thing that is wrong.  A folder is read as the   *)
(* child of its own, read again as the parent of others, and listed.  `unread` are  *)
(* the requests that fail: reading the parent, it makes all its children look       *)
(* missing; the others only stop the repair.                                        *)
Issue(kind, ref, id, parent, candidates) ==
  [kind |-> kind, ref |-> ref, id |-> id, parent |-> parent, candidates |-> candidates]
NoRef == <<"park", "none">>

NamedAs(ref, parent) ==
  {child \in Children(parent) : tree[child].name \in Allowed(ref)}

IssuesOf(map, ref, parent, unread) ==
  LET id == map[ref]
      candidates == NamedAs(ref, parent)
      One(kind) == {Issue(kind, ref, id, parent, candidates)}
  IN IF <<"child", id>> \in unread THEN One("conflict")
     ELSE IF ~Exists(id) THEN One("missing")
     ELSE (IF tree[id].parent # parent THEN One("wrong parent") ELSE {})
          \cup (IF tree[id].folder # IsFolder(ref) THEN One("wrong kind") ELSE {})
          \cup (IF tree[id].name \notin Allowed(ref) THEN One("bad name") ELSE {})
          \cup (IF Fits(id, ref, parent) /\ candidates # {id}
                  THEN {Issue("duplicate", ref, id, parent, candidates \ {id})} ELSE {})

IssuesUnder(map, owner, unread) ==
  LET parent == IdOf(map, owner)
      expected == {ref \in DOMAIN map : ParentOf(ref) = owner}
      known == {map[ref] : ref \in expected}
                 \cup UNION {NamedAs(ref, parent) : ref \in expected}
  IN CASE expected = {} -> {}
       [] ~Exists(parent) \/ <<"parent", parent>> \in unread ->
            {Issue("missing", ref, map[ref], parent, {}) : ref \in expected}
       [] Exists(parent) /\ <<"parent", parent>> \notin unread /\ ~FolderAt(parent) ->
            {Issue("wrong parent", ref, map[ref], parent, {}) : ref \in expected}
       [] expected # {} /\ Exists(parent) /\ <<"parent", parent>> \notin unread
            /\ FolderAt(parent) /\ <<"list", parent>> \in unread ->
            {Issue("conflict", owner, parent, parent, {})}
       [] OTHER ->
            {Issue("unknown", NoRef, child, parent, {}) : child \in Children(parent) \ known}
              \cup UNION {IssuesOf(map, ref, parent, unread) : ref \in expected}

Owners_BelowTheRoot == {ref \in GlobalRefs : HasChildren(ref)}
Owners == {<<"park", "root">>} \cup {ref \in GlobalRefs : HasChildren(ref)}
OwnersIn(map) == {o \in Owners : o = <<"park", "root">> \/ o \in DOMAIN map}
Issues(map, unread) == UNION {IssuesUnder(map, owner, unread) : owner \in OwnersIn(map)}
AuditRequests(map) ==
  ({"child"} \X Range(map)) \cup ({"parent", "list"} \X {IdOf(map, owner) : owner \in OwnersIn(map)})

-----------------------------------------------------------------------------
(* What the roles do to the objects in place: their names follow their states.      *)
StateMoves ==
  \E ref \in DOMAIN parkMap :
    /\ Stateful(ref) /\ Healthy(parkMap, ref)
    /\ \E name \in Allowed(ref) \ {tree[parkMap[ref]].name} :
         tree' = [tree EXCEPT ![parkMap[ref]].name = name]
    /\ UNCHANGED parkMap

(* What people do to a shared folder: delete, move, rename, copy.  A creation that   *)
(* was given up for lost and happens after all looks like a copy.                    *)
Copies ==
  {New(IdOf(parkMap, ParentOf(ref)), ref) :
     ref \in {r \in GlobalRefs \cup UNION {DeviceRefs(d) : d \in Devices} :
                ParentOf(r) \in DOMAIN parkMap \cup {<<"park", "root">>}}}

Drift ==
  /\ \/ \E id \in DOMAIN tree :
          /\ Exists(id)
          /\ \/ tree' = [o \in DOMAIN tree |->
                           IF o \in Below(id) THEN [tree[o] EXCEPT !.parent = Nowhere] ELSE tree[o]]
             \/ \E to \in {Root} \cup DOMAIN tree :
                  /\ Exists(to) /\ FolderAt(to) /\ to \notin Below(id) \cup {tree[id].parent}
                  /\ tree' = [tree EXCEPT ![id].parent = to]
             \/ tree[id].name # Foreign /\ tree' = [tree EXCEPT ![id].name = Foreign]
     \/ \E copy \in Copies :
          /\ Len(tree) < MaxObjects /\ Exists(copy.parent)
          /\ \/ tree' = Append(tree, copy)
             \/ tree' = Append(tree, [copy EXCEPT !.folder = ~copy.folder])
             \/ tree' = Append(tree, [copy EXCEPT !.name = Foreign])
  /\ UNCHANGED parkMap
================================================================================
