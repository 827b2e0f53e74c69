--------------------- MODULE LeadershipAndStartup_proofs ---------------------
(***************************************************************************)
(* Proofs about what a WATCHDOG has before it serves.  First the           *)
(* competition for the role (Leadership), for any number of dogs,          *)
(* transitions, writes, faults and revisions: a grant that a checkpoint    *)
(* keeps was earned, and the shared document follows Tenure.  Then the     *)
(* control tree (TreeStartup), for any devices, objects, deaths and        *)
(* disturbances: what is served is whole, and what is in place is kept.    *)
(***************************************************************************)
EXTENDS Leadership, TreeStartup, SequenceTheorems, TLAPS

(* A document that may be written: its heartbeat is its newest transition, and *)
(* a pending request was minted after it.                                      *)
Sound(d, newest) ==
  /\ d \in Documents
  /\ d.leader.epoch <= d.leader.transition
  /\ d.leader.acquisition <= d.leader.transition
  /\ d.leader.transition <= newest
  /\ d.request # NoRequest => d.leader.transition < d.request.id /\ d.request.id <= newest

(* Epochs and heartbeats only grow, an epoch has one acquisition of one owner,  *)
(* and a heartbeat one leader.                                                 *)
Older(a, b) ==
  /\ a.leader.epoch <= b.leader.epoch /\ a.leader.transition <= b.leader.transition
  /\ a.leader.transition = b.leader.transition => a.leader = b.leader
  /\ a.leader.epoch = b.leader.epoch =>
       a.leader.owner = b.leader.owner /\ a.leader.acquisition = b.leader.acquisition

History ==
  /\ \A i \in 1 .. Latest : Sound(log[i], minted)
  /\ \A i, j \in 1 .. Latest : i <= j => Older(log[i], log[j])

(* What a transition makes of the document it was prepared from.               *)
Renewal(a, b) ==
  /\ a.leader.owner \in Dogs /\ a.request = NoRequest /\ b.request = NoRequest
  /\ b.leader.owner = a.leader.owner /\ b.leader.epoch = a.leader.epoch
  /\ b.leader.acquisition = a.leader.acquisition
  /\ a.leader.transition < b.leader.transition
Succession(dog, a, b) ==
  /\ b.leader.owner = dog /\ b.request = NoRequest
  /\ b.leader.epoch = a.leader.epoch + 1
  /\ b.leader.acquisition = b.leader.transition
  /\ a.leader.transition < b.leader.transition

(* ... is what Tenure permits now.                                             *)
Permitted(d) ==
  \/ Renewal(Current, d)
  \/ \E dog \in Dogs :
       /\ Succession(dog, Current, d)
       /\ \/ Current.leader = Vacant
          \/ lapsed
          \/ Current.request.by = dog /\ d.leader.acquisition = Current.request.id

(* Every replacement that may still be applied was made from the document that *)
(* is there.                                                                   *)
Flight == \A d \in flight : Sound(d, minted) /\ Permitted(d)

(* The transition a checkpoint keeps: if the document it was prepared from is   *)
(* there, or comes back, it is permitted.                                      *)
Prepared(dog) ==
  LET plan == election[dog] IN
  plan # NoElection =>
    /\ Sound(plan.before, minted) /\ Sound(plan.after, minted)
    /\ plan.before.leader.transition <= Current.leader.transition
    /\ \/ plan.action = "RENEW" /\ Renewal(plan.before, plan.after)
       \/ /\ plan.action = "ACQUIRE" /\ Succession(dog, plan.before, plan.after)
          /\ plan.before.leader = Current.leader => Current.leader = Vacant \/ lapsed
       \/ /\ plan.action = "CLAIM_FORCE" /\ Succession(dog, plan.before, plan.after)
          /\ plan.before.request.by = dog
          /\ plan.after.leader.acquisition = plan.before.request.id

(* The reconciliation under way.                                               *)
Sending(dog) ==
  /\ role[dog] \in {"commit", "send"} => election[dog] # NoElection
  /\ role[dog] = "send" =>
       /\ seen[dog] \in 1 .. Latest /\ log[seen[dog]] = election[dog].before
       /\ ~sent[dog] /\ tries[dog] < MaxWrites

Watching(dog) ==
  /\ since[dog].transition <= Current.leader.transition
  /\ aged[dog] /\ since[dog] = Current.leader => lapsed

Earned(dog) ==
  grant[dog] # NoGrant =>
    /\ \E revision \in 1 .. Latest : log[revision].leader.epoch = grant[dog].epoch
    /\ \A revision \in 1 .. Latest :
         log[revision].leader.epoch = grant[dog].epoch =>
           /\ log[revision].leader.owner = dog
           /\ log[revision].leader.acquisition = grant[dog].acquisition

Inv ==
  /\ TypeOK /\ History /\ Flight
  /\ \A dog \in Dogs : Prepared(dog) /\ Sending(dog) /\ Watching(dog) /\ Earned(dog)
-----------------------------------------------------------------------------
(* The fields of the documents that are there.                                   *)
LEMMA LogTyped ==
  ASSUME TypeOK
  PROVE  /\ Latest \in Nat /\ Latest >= 1 /\ visible \in 1 .. Latest
         /\ \A i \in 1 .. Latest : log[i] \in Documents
         /\ Current \in Documents /\ minted \in Nat /\ MaxTransitions \in Nat
<1>1. log \in Seq(Documents) /\ visible \in 1 .. Latest /\ minted \in Nat
  BY LeadershipAssumption DEF TypeOK
<1>2. Latest \in Nat /\ Latest >= 1
  BY <1>1 DEF Latest
<1>3. \A i \in 1 .. Latest : log[i] \in Documents
  BY <1>1 DEF Latest
<1>4. Current \in Documents
  BY <1>2, <1>3 DEF Current
<1>. QED BY <1>1, <1>2, <1>3, <1>4, LeadershipAssumption

(* What a document consists of.                                               *)
LEMMA DocumentFields ==
  ASSUME NEW d \in Documents
  PROVE  /\ d.leader \in Leaders
         /\ d.leader.owner \in Dogs \cup {Nobody}
         /\ d.leader.epoch \in Nat /\ d.leader.acquisition \in Nat /\ d.leader.transition \in Nat
         /\ d.leader.epoch \in 0 .. MaxTransitions
         /\ d.leader.acquisition \in 0 .. MaxTransitions
         /\ d.leader.transition \in 0 .. MaxTransitions
         /\ d.request.by \in Dogs \cup {Nobody} /\ d.request.id \in Nat
         /\ d.request.id \in 0 .. MaxTransitions
         /\ d = [leader |-> d.leader, request |-> d.request]
BY LeadershipAssumption DEF Documents, Leaders

(* Two records of a leader are the same if their fields are.                     *)
LEMMA SameLeader ==
  ASSUME NEW a \in Leaders, NEW b \in Leaders,
         a.owner = b.owner, a.epoch = b.epoch, a.acquisition = b.acquisition,
         a.transition = b.transition
  PROVE  a = b
BY DEF Leaders

(* Being older is an order.                                                      *)
LEMMA OlderReflexive ==
  ASSUME NEW d \in Documents
  PROVE  Older(d, d)
BY DocumentFields DEF Older

(* ... that composes.                                                         *)
LEMMA OlderTransitive ==
  ASSUME NEW a \in Documents, NEW b \in Documents, NEW c \in Documents,
         Older(a, b), Older(b, c)
  PROVE  Older(a, c)
<1>1. /\ a.leader.epoch \in Nat /\ b.leader.epoch \in Nat /\ c.leader.epoch \in Nat
      /\ a.leader.transition \in Nat /\ b.leader.transition \in Nat /\ c.leader.transition \in Nat
  BY DocumentFields
<1>. QED BY <1>1 DEF Older

(* What is permitted makes a newer leader.                                       *)
LEMMA PermittedIsNewer ==
  ASSUME NEW a \in Documents, NEW d \in Documents,
         Renewal(a, d) \/ \E dog \in Dogs : Succession(dog, a, d)
  PROVE  Older(a, d) /\ a.leader.transition < d.leader.transition
<1>1. /\ a.leader.epoch \in Nat /\ d.leader.epoch \in Nat
      /\ a.leader.transition \in Nat /\ d.leader.transition \in Nat
  BY DocumentFields
<1>. QED BY <1>1 DEF Older, Renewal, Succession

(* The newest document is older than none that was there.                        *)
LEMMA CurrentIsNewest ==
  ASSUME TypeOK, History, NEW i \in 1 .. Latest
  PROVE  Older(log[i], Current) /\ Sound(log[i], minted) /\ Sound(Current, minted)
<1>1. Latest \in Nat /\ Latest >= 1
  BY LogTyped
<1>2. Latest \in 1 .. Latest /\ i <= Latest
  BY <1>1
<1>. QED BY <1>2 DEF History, Current

-----------------------------------------------------------------------------
(* What every step leaves of what the dogs know, as long as they do not forget.  *)
SameAttempt(dog) ==
  /\ election'[dog] = election[dog] /\ role'[dog] = role[dog] /\ seen'[dog] = seen[dog]
  /\ sent'[dog] = sent[dog] /\ tries'[dog] = tries[dog]

KeepsKnowing(dog) ==
  /\ election'[dog] = election[dog] => Prepared(dog)'
  /\ SameAttempt(dog) => Sending(dog)'
  /\ since'[dog] = since[dog] /\ aged'[dog] = aged[dog] => Watching(dog)'
  /\ grant'[dog] = grant[dog] => Earned(dog)'

Persist == History' /\ Flight' /\ \A dog \in Dogs : KeepsKnowing(dog)

(* A document stays sound: identifiers are only added.                           *)
LEMMA SoundStays ==
  ASSUME NEW d, NEW older \in Nat, NEW newest \in Nat, Sound(d, older), older <= newest
  PROVE  Sound(d, newest)
<1>1. d \in Documents
  BY DEF Sound
<1>. QED BY <1>1, DocumentFields DEF Sound

(* A step that leaves the document alone; what it sends is permitted.            *)
LEMMA QuietPersists ==
  ASSUME Inv, UNCHANGED log, minted' \in Nat, minted <= minted', lapsed => lapsed',
         \A d \in flight' : d \in flight \/ (Sound(d, minted) /\ Permitted(d))
  PROVE  Persist
<1>1. /\ minted \in Nat /\ Latest' = Latest /\ Current' = Current
      /\ log' = log
  BY LogTyped DEF Inv, Latest, Current
<1>2. \A d : Sound(d, minted) => Sound(d, minted')
  BY <1>1, SoundStays
<1>3. History'
  BY <1>1, <1>2 DEF Inv, History
<1>4. Flight'
  <2>1. \A d \in flight' : Sound(d, minted) /\ Permitted(d)
    BY DEF Inv, Flight
  <2>2. \A d : Permitted(d) => Permitted(d)'
    BY <1>1 DEF Permitted
  <2>. QED BY <1>2, <2>1, <2>2 DEF Flight
<1>5. ASSUME NEW dog \in Dogs
      PROVE  KeepsKnowing(dog)
  <2>1. election'[dog] = election[dog] => Prepared(dog)'
    BY <1>1, <1>2 DEF Inv, Prepared
  <2>2. SameAttempt(dog) => Sending(dog)'
    BY <1>1 DEF Inv, Sending, SameAttempt
  <2>3. since'[dog] = since[dog] /\ aged'[dog] = aged[dog] => Watching(dog)'
    BY <1>1 DEF Inv, Watching
  <2>4. grant'[dog] = grant[dog] => Earned(dog)'
    BY <1>1 DEF Inv, Earned
  <2>. QED BY <2>1, <2>2, <2>3, <2>4 DEF KeepsKnowing
<1>. QED BY <1>3, <1>4, <1>5 DEF Persist

(* A document is put behind the others: with a newer leader, which nobody has    *)
(* watched or prepared anything from, or with the same one.                      *)
LEMMA PutFacts ==
  ASSUME TypeOK, NEW document \in Documents, Put(document)
  PROVE  /\ log' \in Seq(Documents) /\ Latest' = Latest + 1 /\ Current' = document
         /\ \A i \in 1 .. Latest : log'[i] = log[i]
         /\ log'[Latest + 1] = document
         /\ flight' = {} /\ visible' = visible
<1>1. log \in Seq(Documents) /\ log' = Append(log, document)
  BY DEF TypeOK, Put
<1>. QED BY <1>1 DEF Put, Latest, Current

(* All that is known survives the new document.                               *)
LEMMA PutPersists ==
  ASSUME Inv, NEW document, Put(document), minted' \in Nat, minted <= minted',
         Sound(document, minted'),
         \/ Permitted(document)
         \/ document.leader = Current.leader /\ lapsed' = lapsed
  PROVE  Persist
<1>. USE DEF Inv
<1>1. document \in Documents
  BY DEF Sound
<1>2. /\ Latest' = Latest + 1 /\ Current' = document /\ flight' = {}
      /\ \A i \in 1 .. Latest : log'[i] = log[i]
      /\ log'[Latest + 1] = document
  BY <1>1, PutFacts
<1>3. /\ Latest \in Nat /\ Latest >= 1 /\ Current \in Documents /\ minted \in Nat
      /\ \A i \in 1 .. Latest : log[i] \in Documents
  BY LogTyped
<1>4. \A d : Sound(d, minted) => Sound(d, minted')
  BY <1>3, SoundStays
<1>5. /\ Older(Current, document)
      /\ \/ Current.leader.transition < document.leader.transition
         \/ document.leader = Current.leader /\ lapsed' = lapsed
  <2>1. CASE Permitted(document)
    <3>1. Renewal(Current, document) \/ \E dog \in Dogs : Succession(dog, Current, document)
      BY <2>1 DEF Permitted
    <3>. QED BY <1>1, <1>3, <3>1, PermittedIsNewer
  <2>2. CASE document.leader = Current.leader /\ lapsed' = lapsed
    <3>1. /\ Current.leader.epoch \in Nat /\ Current.leader.transition \in Nat
      BY <1>3, DocumentFields
    <3>. QED BY <2>2, <3>1 DEF Older
  <2>. QED BY <2>1, <2>2
<1>6. \A i \in 1 .. Latest : Older(log[i], document)
  <2>. TAKE i \in 1 .. Latest
  <2>1. Older(log[i], Current)
    BY CurrentIsNewest
  <2>. QED BY <1>1, <1>3, <1>5, <2>1, OlderTransitive
<1>7. History'
  <2>1. ASSUME NEW i \in 1 .. Latest + 1 PROVE Sound(log'[i], minted')
    <3>1. CASE i = Latest + 1
      BY <1>2, <3>1
    <3>2. CASE i # Latest + 1
      <4>1. i \in 1 .. Latest
        BY <1>3, <3>2
      <4>. QED BY <1>2, <1>4, <4>1 DEF History
    <3>. QED BY <3>1, <3>2
  <2>2. ASSUME NEW i \in 1 .. Latest + 1, NEW j \in 1 .. Latest + 1, i <= j
        PROVE  Older(log'[i], log'[j])
    <3>1. CASE j \in 1 .. Latest
      <4>1. i \in 1 .. Latest
        BY <1>3, <2>2, <3>1
      <4>. QED BY <1>2, <2>2, <3>1, <4>1 DEF History
    <3>2. CASE j = Latest + 1 /\ i \in 1 .. Latest
      BY <1>2, <1>6, <3>2
    <3>3. CASE j = Latest + 1 /\ i = Latest + 1
      BY <1>1, <1>2, <3>3, OlderReflexive
    <3>. QED BY <1>3, <3>1, <3>2, <3>3
  <2>. QED BY <1>2, <2>1, <2>2 DEF History
<1>8. ASSUME NEW dog \in Dogs
      PROVE  KeepsKnowing(dog)
  <2>1. ASSUME election'[dog] = election[dog] PROVE Prepared(dog)'
    <3>. DEFINE plan == election[dog]
    <3>1. CASE plan = NoElection
      BY <2>1, <3>1 DEF Prepared
    <3>2. CASE plan # NoElection
      <4>1. /\ Sound(plan.before, minted') /\ Sound(plan.after, minted') /\ plan.before \in Documents
            /\ plan.before.leader.transition <= Current.leader.transition
        BY <1>4, <3>2 DEF Prepared, Sound
      <4>2. /\ plan.before.leader.transition \in Nat /\ Current.leader.transition \in Nat
            /\ document.leader.transition \in Nat
        BY <1>1, <1>3, <4>1, DocumentFields
      <4>3. plan.before.leader.transition <= document.leader.transition
        BY <1>5, <4>1, <4>2
      <4>4. plan.before.leader = document.leader => plan.before.leader = Current.leader /\ lapsed' = lapsed
        BY <1>5, <4>1, <4>2
      <4>. QED BY <1>2, <1>5, <2>1, <3>2, <4>1, <4>3, <4>4 DEF Prepared
    <3>. QED BY <3>1, <3>2
  <2>2. ASSUME SameAttempt(dog) PROVE Sending(dog)'
    <3>1. seen[dog] \in 1 .. Latest => seen[dog] \in 1 .. Latest' /\ log'[seen[dog]] = log[seen[dog]]
      BY <1>2, <1>3
    <3>. QED BY <2>2, <3>1 DEF Sending, SameAttempt
  <2>3. ASSUME since'[dog] = since[dog], aged'[dog] = aged[dog] PROVE Watching(dog)'
    <3>1. since[dog].transition \in Nat
      BY LeadershipAssumption DEF TypeOK, Leaders
    <3>2. Current.leader.transition \in Nat /\ document.leader.transition \in Nat
      BY <1>1, <1>3, DocumentFields
    <3>. QED BY <1>2, <1>5, <2>3, <3>1, <3>2 DEF Watching
  <2>4. ASSUME grant'[dog] = grant[dog] PROVE Earned(dog)'
    <3>1. CASE grant[dog] = NoGrant
      BY <2>4, <3>1 DEF Earned
    <3>2. CASE grant[dog] # NoGrant
      <4>1. PICK i \in 1 .. Latest : log[i].leader.epoch = grant[dog].epoch
        BY <3>2 DEF Earned
      <4>2. i \in 1 .. Latest' /\ log'[i].leader.epoch = grant[dog].epoch
        BY <1>2, <1>3, <4>1
      <4>3. ASSUME NEW j \in 1 .. Latest + 1, log'[j].leader.epoch = grant[dog].epoch
            PROVE  /\ log'[j].leader.owner = dog
                   /\ log'[j].leader.acquisition = grant[dog].acquisition
        <5>1. CASE j \in 1 .. Latest
          BY <1>2, <3>2, <4>3, <5>1 DEF Earned
        <5>2. CASE j = Latest + 1
          <6>1. Older(log[i], document) /\ document.leader.epoch = log[i].leader.epoch
            BY <1>2, <1>6, <4>1, <4>3, <5>2
          <6>2. log[i].leader.owner = dog /\ log[i].leader.acquisition = grant[dog].acquisition
            BY <3>2, <4>1 DEF Earned
          <6>. QED BY <1>2, <5>2, <6>1, <6>2 DEF Older
        <5>. QED BY <1>3, <5>1, <5>2
      <4>. QED BY <1>2, <2>4, <4>2, <4>3 DEF Earned
    <3>. QED BY <3>1, <3>2
  <2>. QED BY <2>1, <2>2, <2>3, <2>4 DEF KeepsKnowing
<1>. QED BY <1>2, <1>7, <1>8 DEF Persist, Flight
-----------------------------------------------------------------------------
(* One dog moves and the others wait.                                            *)
Knows(dog) == Prepared(dog) /\ Sending(dog) /\ Watching(dog) /\ Earned(dog)

Waits(dog) ==
  /\ SameAttempt(dog) /\ since'[dog] = since[dog] /\ aged'[dog] = aged[dog]
  /\ grant'[dog] = grant[dog]

(* If one dog is right about the new state and the others wait, all is right. *)
LEMMA Together ==
  ASSUME TypeOK', Persist, \A dog \in Dogs : Waits(dog) \/ Knows(dog)'
  PROVE  Inv'
<1>1. ASSUME NEW dog \in Dogs PROVE Knows(dog)'
  <2>1. Waits(dog) => Knows(dog)'
    BY DEF Waits, Persist, KeepsKnowing, SameAttempt, Knows
  <2>. QED BY <2>1
<1>. QED BY <1>1 DEF Inv, Persist, Knows

(* The parts of the type.                                                        *)
LogType == log \in Seq(Documents) /\ visible \in 1 .. Latest /\ flight \subseteq Documents
CheckpointType ==
  /\ grant \in [Dogs -> [epoch : 0 .. MaxTransitions, acquisition : 0 .. MaxTransitions]]
  /\ election \in [Dogs -> Elections]
AttemptType ==
  /\ role \in [Dogs -> {"rest", "commit", "send"}]
  /\ seen \in [Dogs -> 0 .. Latest] /\ refused \in [Dogs -> 0 .. Latest]
  /\ sent \in [Dogs -> BOOLEAN] /\ tries \in [Dogs -> 0 .. MaxWrites]
WatchType == since \in [Dogs -> Leaders] /\ aged \in [Dogs -> BOOLEAN]
RestType ==
  /\ active \in [Dogs -> BOOLEAN] /\ lapsed \in BOOLEAN /\ expired \in BOOLEAN
  /\ minted \in 0 .. MaxTransitions /\ faults \in 0 .. MaxFaults

(* Together they are the type.                                                *)
LEMMA TypeParts ==
  TypeOK <=> LogType /\ CheckpointType /\ AttemptType /\ WatchType /\ RestType
BY DEF TypeOK, LogType, CheckpointType, AttemptType, WatchType, RestType

(* What a plan is told of a document.                                            *)
LEMMA EvaluateMeans ==
  ASSUME NEW plan, NEW d
  PROVE  /\ Evaluate(plan, d) = "CONFIRMED" => d = plan.after
         /\ Evaluate(plan, d) = "READY" => d = plan.before
<1>1. CASE d = plan.after
  <2>1. Evaluate(plan, d) = "CONFIRMED"
    BY <1>1 DEF Evaluate
  <2>. QED BY <1>1, <2>1
<1>2. CASE d \notin {plan.before, plan.after}
  <2>1. Evaluate(plan, d) = "SUPERSEDED"
    BY <1>2 DEF Evaluate
  <2>. QED BY <2>1
<1>3. CASE d = plan.before /\ d # plan.after
  <2>1. Evaluate(plan, d) = "READY"
    BY <1>3 DEF Evaluate
  <2>. QED BY <1>3, <2>1
<1>. QED BY <1>1, <1>2, <1>3

(* A read changes no document and shows one that was there.                      *)
LEMMA ReadFacts ==
  ASSUME Inv, NEW revision \in visible .. Latest, Read(revision)
  PROVE  /\ UNCHANGED <<log, flight>> /\ LogType' /\ Latest' = Latest /\ Current' = Current
         /\ revision \in 1 .. Latest /\ log[revision] \in Documents
         /\ Sound(log[revision], minted) /\ Older(log[revision], Current)
<1>1. Latest \in Nat /\ visible \in 1 .. Latest
  BY LogTyped DEF Inv
<1>2. revision \in 1 .. Latest
  BY <1>1
<1>3. UNCHANGED <<log, flight>> /\ visible' = revision
  BY DEF Read
<1>4. Latest' = Latest /\ Current' = Current
  BY <1>3 DEF Latest, Current
<1>5. LogType'
  BY <1>2, <1>3, <1>4 DEF Inv, TypeOK, LogType
<1>. QED BY <1>2, <1>3, <1>4, <1>5, CurrentIsNewest DEF Inv, Sound

(* A tick that ends leaves nothing of its reconciliation.                        *)
LEMMA RestFacts ==
  ASSUME AttemptType, NEW dog \in Dogs, Rest(dog), Latest \in Nat, Latest' = Latest
  PROVE  /\ AttemptType' /\ Sending(dog)'
         /\ \A d \in Dogs \ {dog} : /\ role'[d] = role[d] /\ seen'[d] = seen[d]
                                    /\ sent'[d] = sent[d] /\ tries'[d] = tries[d]
BY LeadershipAssumption DEF Rest, AttemptType, Sending

(* A tick ends at rest, leading or not.                                       *)
LEMMA PauseFacts ==
  ASSUME active \in [Dogs -> BOOLEAN], NEW dog \in Dogs, Pause(dog) \/ Lead(dog)
  PROVE  Rest(dog) /\ active' \in [Dogs -> BOOLEAN]
BY DEF Pause, Lead

(* A transition that is found in the document earns its grant.                   *)
LEMMA ConfirmFacts ==
  ASSUME Inv, Persist, NEW dog \in Dogs, NEW revision \in 1 .. Latest, election[dog] # NoElection,
         log[revision] = election[dog].after, Confirm(dog), UNCHANGED log
  PROVE  /\ CheckpointType' /\ Prepared(dog)' /\ Earned(dog)'
         /\ \A d \in Dogs \ {dog} : grant'[d] = grant[d] /\ election'[d] = election[d]
<1>1. /\ election \in [Dogs -> Elections] /\ log[revision] \in Documents
      /\ grant \in [Dogs -> [epoch : 0 .. MaxTransitions, acquisition : 0 .. MaxTransitions]]
  BY LogTyped DEF Inv, TypeOK
<1>2. election' = [election EXCEPT ![dog] = NoElection]
  BY DEF Confirm
<1>3. NoElection \in Elections
  BY LeadershipAssumption DEF NoElection, Elections, Documents, Leaders, Nothing, Vacant, NoRequest
<1>4. election' \in [Dogs -> Elections] /\ election'[dog] = NoElection
      /\ \A d \in Dogs \ {dog} : election'[d] = election[d]
  BY <1>1, <1>2, <1>3
<1>5. Prepared(dog)'
  BY <1>4 DEF Prepared
<1>6. CASE election[dog].action = "RENEW"
  <2>1. grant' = grant
    BY <1>6 DEF Confirm
  <2>. QED BY <1>1, <1>4, <1>5, <2>1 DEF Persist, KeepsKnowing, CheckpointType
<1>7. CASE election[dog].action # "RENEW"
  <2>. DEFINE new == [epoch |-> log[revision].leader.epoch, acquisition |-> log[revision].leader.acquisition]
  <2>1. grant' = [grant EXCEPT ![dog] = new]
    BY <1>7 DEF Confirm
  <2>2. new \in [epoch : 0 .. MaxTransitions, acquisition : 0 .. MaxTransitions]
    BY <1>1, DocumentFields
  <2>3. grant'[dog] = new /\ \A d \in Dogs \ {dog} : grant'[d] = grant[d]
    BY <1>1, <2>1
  <2>4. CheckpointType'
    BY <1>1, <1>4, <2>1, <2>2 DEF CheckpointType
  <2>5. log[revision].leader.owner = dog
    BY <1>7 DEF Inv, Prepared, Succession
  <2>6. ASSUME NEW i \in 1 .. Latest, log[i].leader.epoch = new.epoch
        PROVE  log[i].leader.owner = dog /\ log[i].leader.acquisition = new.acquisition
    <3>1. Latest \in Nat
      BY LogTyped DEF Inv
    <3>2. Older(log[i], log[revision]) \/ Older(log[revision], log[i])
      BY <3>1 DEF Inv, History
    <3>. QED BY <2>5, <2>6, <3>2 DEF Older
  <2>7. log' = log /\ Latest' = Latest
    BY DEF Latest
  <2>8. Earned(dog)'
    BY <2>3, <2>6, <2>7 DEF Earned
  <2>. QED BY <1>4, <1>5, <2>3, <2>4, <2>8
<1>. QED BY <1>6, <1>7

(* A transition that is given up takes the grant with it.                        *)
LEMMA AbandonFacts ==
  ASSUME Inv, NEW dog \in Dogs, Abandon(dog)
  PROVE  /\ CheckpointType' /\ Prepared(dog)' /\ Earned(dog)'
         /\ \A d \in Dogs \ {dog} : grant'[d] = grant[d] /\ election'[d] = election[d]
<1>1. /\ election \in [Dogs -> Elections]
      /\ grant \in [Dogs -> [epoch : 0 .. MaxTransitions, acquisition : 0 .. MaxTransitions]]
  BY DEF Inv, TypeOK
<1>2. NoElection \in Elections
  BY LeadershipAssumption DEF NoElection, Elections, Documents, Leaders, Nothing, Vacant, NoRequest
<1>3. NoGrant \in [epoch : 0 .. MaxTransitions, acquisition : 0 .. MaxTransitions]
  BY LeadershipAssumption DEF NoGrant
<1>4. /\ election'[dog] = NoElection /\ grant'[dog] = NoGrant /\ CheckpointType'
      /\ \A d \in Dogs \ {dog} : grant'[d] = grant[d] /\ election'[d] = election[d]
  BY <1>1, <1>2, <1>3 DEF Abandon, CheckpointType
<1>. QED BY <1>4 DEF Prepared, Earned

(* The end of a tick, with what became of its transition.                        *)
LEMMA TickEnds ==
  ASSUME Inv, Persist, NEW dog \in Dogs, UNCHANGED <<log, watch, time, minted>>,
         LogType', faults' \in 0 .. MaxFaults,
         Pause(dog) \/ Lead(dog),
         \/ Abandon(dog) \/ UNCHANGED checkpoint
         \/ /\ election[dog] # NoElection /\ Confirm(dog)
            /\ \E revision \in 1 .. Latest : log[revision] = election[dog].after
  PROVE  Inv'
<1>1. Latest \in Nat /\ Latest' = Latest /\ AttemptType /\ WatchType /\ CheckpointType
  BY LogTyped, TypeParts DEF Inv, Latest
<1>2. Rest(dog) /\ active' \in [Dogs -> BOOLEAN]
  BY PauseFacts DEF Inv, TypeOK
<1>3. /\ AttemptType' /\ Sending(dog)'
      /\ \A d \in Dogs \ {dog} : /\ role'[d] = role[d] /\ seen'[d] = seen[d]
                                 /\ sent'[d] = sent[d] /\ tries'[d] = tries[d]
  BY <1>1, <1>2, RestFacts
<1>4. WatchType' /\ RestType'
  BY <1>1, <1>2 DEF WatchType, RestType, watch, time, Inv, TypeOK
<1>5. /\ CheckpointType' /\ Prepared(dog)' /\ Earned(dog)'
      /\ \A d \in Dogs \ {dog} : grant'[d] = grant[d] /\ election'[d] = election[d]
  <2>1. CASE Abandon(dog)
    BY <2>1, AbandonFacts
  <2>2. CASE UNCHANGED checkpoint
    BY <1>1, <2>2 DEF checkpoint, CheckpointType, Persist, KeepsKnowing
  <2>3. CASE /\ election[dog] # NoElection /\ Confirm(dog)
             /\ \E revision \in 1 .. Latest : log[revision] = election[dog].after
    <3>1. PICK revision \in 1 .. Latest : log[revision] = election[dog].after
      BY <2>3
    <3>. QED BY <2>3, <3>1, ConfirmFacts
  <2>. QED BY <2>1, <2>2, <2>3
<1>6. TypeOK'
  BY <1>3, <1>4, <1>5
  DEF TypeOK, LogType, CheckpointType, AttemptType, WatchType, RestType
<1>7. Watching(dog)'
  BY DEF Persist, KeepsKnowing, watch
<1>8. \A d \in Dogs : Waits(d) \/ Knows(d)'
  BY <1>3, <1>5, <1>7 DEF Waits, SameAttempt, Knows, watch
<1>. QED BY <1>6, <1>8, Together
-----------------------------------------------------------------------------
(* Looking again for a transition that may have been sent.                       *)
LEMMA InspectKeeps ==
  ASSUME Inv, NEW dog \in Dogs, Inspect(dog)
  PROVE  Inv'
<1>1. PICK revision \in visible .. Latest :
        /\ Read(revision)
        /\ \/ Evaluate(election[dog], log[revision]) = "CONFIRMED" /\ Confirm(dog)
           \/ Abandon(dog)
           \/ InDoubt(dog)
  BY Zenon DEF Inspect
<1>2. /\ election[dog] # NoElection /\ Pause(dog)
      /\ UNCHANGED <<watch, time, bounds>>
  BY DEF Inspect
<1>3. /\ UNCHANGED <<log, flight>> /\ LogType' /\ revision \in 1 .. Latest
  BY <1>1, ReadFacts
<1>4. Persist
  BY <1>2, <1>3, LogTyped, QuietPersists DEF Inv, time, bounds
<1>5. minted' = minted /\ faults' \in 0 .. MaxFaults
  BY <1>2 DEF bounds, Inv, TypeOK
<1>6. Evaluate(election[dog], log[revision]) = "CONFIRMED" => log[revision] = election[dog].after
  BY EvaluateMeans
<1>. QED BY <1>1, <1>2, <1>3, <1>4, <1>5, <1>6, TickEnds DEF InDoubt

(* A read that fails, and whatever else ends the tick before its write.          *)
LEMMA ReadFailsKeeps ==
  ASSUME Inv, NEW dog \in Dogs, ReadFails(dog) \/ Unavailable(dog)
  PROVE  Inv'
<1>1. /\ Abandon(dog) \/ UNCHANGED checkpoint
      /\ Pause(dog) /\ Fault
      /\ UNCHANGED <<authorityVars, watch, time, minted>>
  BY DEF ReadFails, Unavailable, InDoubt
<1>2. UNCHANGED <<log, flight, visible>>
  BY <1>1 DEF authorityVars
<1>3. Persist
  BY <1>1, <1>2, LogTyped, QuietPersists DEF Inv, time
<1>4. LogType'
  BY <1>2 DEF LogType, Inv, TypeOK, Latest
<1>5. faults' \in 0 .. MaxFaults
  BY <1>1, LeadershipAssumption DEF Fault, Inv, TypeOK
<1>. QED BY <1>1, <1>2, <1>3, <1>4, <1>5, TickEnds

(* A tick that is broken off, with or without its process.                       *)
LEMMA InterruptedKeeps ==
  ASSUME Inv, NEW dog \in Dogs, Interrupted(dog)
  PROVE  Inv'
<1>1. /\ Pause(dog) /\ Fault /\ UNCHANGED checkpoint /\ UNCHANGED <<time, minted>>
      /\ UNCHANGED <<log, flight, visible>>
  BY DEF Interrupted, authorityVars
<1>2. Persist
  BY <1>1, LogTyped, QuietPersists DEF Inv, time
<1>3. LogType' /\ CheckpointType' /\ Latest' = Latest
  BY <1>1 DEF LogType, CheckpointType, checkpoint, Inv, TypeOK, Latest
<1>4. faults' \in 0 .. MaxFaults
  BY <1>1, LeadershipAssumption DEF Fault, Inv, TypeOK
<1>5. CASE UNCHANGED watch
  BY <1>1, <1>2, <1>3, <1>4, <1>5, TickEnds
<1>6. CASE /\ since' = [since EXCEPT ![dog] = Vacant]
           /\ aged' = [aged EXCEPT ![dog] = FALSE]
  <2>1. Rest(dog) /\ active' \in [Dogs -> BOOLEAN]
    BY <1>1, PauseFacts DEF Inv, TypeOK
  <2>2. Latest \in Nat /\ AttemptType
    BY LogTyped, TypeParts DEF Inv
  <2>3. /\ AttemptType' /\ Sending(dog)'
        /\ \A d \in Dogs \ {dog} : /\ role'[d] = role[d] /\ seen'[d] = seen[d]
                                   /\ sent'[d] = sent[d] /\ tries'[d] = tries[d]
    BY <1>3, <2>1, <2>2, RestFacts
  <2>4. since \in [Dogs -> Leaders] /\ aged \in [Dogs -> BOOLEAN] /\ Vacant \in Leaders
    BY LeadershipAssumption DEF Inv, TypeOK, Vacant, Leaders
  <2>5. /\ WatchType' /\ since'[dog] = Vacant /\ ~aged'[dog]
        /\ \A d \in Dogs \ {dog} : since'[d] = since[d] /\ aged'[d] = aged[d]
    BY <1>6, <2>4 DEF WatchType
  <2>6. Current' = Current /\ Current.leader.transition \in Nat
    BY <1>1, LogTyped, DocumentFields DEF Inv, Current, Latest
  <2>7. Watching(dog)'
    BY <2>5, <2>6 DEF Watching, Vacant
  <2>8. RestType'
    BY <1>1, <1>4, <2>1 DEF RestType, time, Inv, TypeOK
  <2>9. TypeOK'
    BY <1>3, <2>3, <2>5, <2>8
    DEF TypeOK, LogType, CheckpointType, AttemptType, WatchType, RestType
  <2>10. Prepared(dog)' /\ Earned(dog)'
    BY <1>1, <1>2 DEF Persist, KeepsKnowing, checkpoint
  <2>11. \A d \in Dogs : Waits(d) \/ Knows(d)'
    BY <1>1, <2>3, <2>5, <2>7, <2>10 DEF Waits, SameAttempt, Knows, checkpoint
  <2>. QED BY <1>2, <2>9, <2>11, Together
<1>. QED BY <1>5, <1>6 DEF Interrupted
-----------------------------------------------------------------------------
(* What a dog saves before it sends.                                             *)
Plan(action, before, after) == [action |-> action, before |-> before, after |-> after]

(* The plan is saved, and the rest of the dog's state fits it.                *)
LEMMA PrepareFacts ==
  ASSUME Inv, NEW dog \in Dogs, role[dog] = "rest", Latest' = Latest,
         NEW action \in {"ACQUIRE", "CLAIM_FORCE", "RENEW"},
         NEW before \in Documents, NEW after \in Documents, Prepare(dog, action, before, after)
  PROVE  /\ AttemptType' /\ Sending(dog)' /\ active' = active
         /\ election' \in [Dogs -> Elections] /\ election'[dog] = Plan(action, before, after)
         /\ \A d \in Dogs \ {dog} :
              /\ election'[d] = election[d] /\ role'[d] = role[d] /\ seen'[d] = seen[d]
              /\ sent'[d] = sent[d] /\ tries'[d] = tries[d]
<1>. DEFINE plan == Plan(action, before, after)
<1>1. plan \in Elections /\ plan # NoElection /\ election' = [election EXCEPT ![dog] = plan]
  BY DEF Prepare, Plan, Elections, NoElection
<1>2. /\ election \in [Dogs -> Elections] /\ AttemptType /\ role' = [role EXCEPT ![dog] = "commit"]
      /\ UNCHANGED <<seen, sent, tries, refused, active>>
  BY TypeParts DEF Inv, TypeOK, Prepare, attempt
<1>. HIDE DEF plan
<1>3. election' \in [Dogs -> Elections] /\ election'[dog] = plan
      /\ \A d \in Dogs \ {dog} : election'[d] = election[d]
  BY <1>1, <1>2
<1>4. role' \in [Dogs -> {"rest", "commit", "send"}] /\ role'[dog] = "commit"
      /\ \A d \in Dogs \ {dog} : role'[d] = role[d]
  BY <1>2 DEF AttemptType
<1>5. AttemptType'
  BY <1>2, <1>4 DEF AttemptType
<1>6. Sending(dog)'
  BY <1>1, <1>3, <1>4 DEF Sending
<1>. QED BY <1>2, <1>3, <1>4, <1>5, <1>6 DEF plan

(* The next epoch of a sound document is sound, and newer.                       *)
LEMMA ElectedFacts ==
  ASSUME NEW dog \in Dogs, NEW d, NEW older \in Nat, NEW newest \in 0 .. MaxTransitions,
         NEW id \in 0 .. MaxTransitions, Sound(d, older), older <= newest, id <= newest,
         d.leader.transition < id
  PROVE  Sound(Elected(dog, d, id), newest) /\ Succession(dog, d, Elected(dog, d, id))
<1>. DEFINE new == Elected(dog, d, id)
<1>1. d \in Documents /\ d.leader.epoch <= d.leader.transition
  BY DEF Sound
<1>2. /\ d.leader.epoch \in Nat /\ d.leader.transition \in Nat
  BY <1>1, DocumentFields
<1>3. id \in Nat /\ MaxTransitions \in Nat
  BY LeadershipAssumption
<1>4. d.leader.epoch + 1 \in 0 .. MaxTransitions /\ d.leader.epoch + 1 <= id
  BY <1>1, <1>2, <1>3
<1>5. /\ new.leader.owner = dog /\ new.leader.epoch = d.leader.epoch + 1
      /\ new.leader.acquisition = id /\ new.leader.transition = id /\ new.request = NoRequest
  BY DEF Elected
<1>6. new \in Documents
  BY <1>3, <1>4 DEF Elected, Documents, Leaders, NoRequest
<1>. HIDE DEF new
<1>7. Sound(new, newest)
  BY <1>3, <1>4, <1>5, <1>6 DEF Sound
<1>8. Succession(dog, d, new)
  BY <1>5 DEF Succession
<1>. QED BY <1>7, <1>8 DEF new

(* So is its renewal.                                                            *)
LEMMA RenewedFacts ==
  ASSUME NEW d, NEW older \in Nat, NEW newest \in 0 .. MaxTransitions,
         Sound(d, older), older < newest, d.leader.owner \in Dogs, d.request = NoRequest
  PROVE  LET new == [d EXCEPT !.leader.transition = newest] IN
         Sound(new, newest) /\ Renewal(d, new)
<1>. DEFINE new == [d EXCEPT !.leader.transition = newest]
<1>1. d \in Documents /\ d.leader.epoch <= d.leader.transition
      /\ d.leader.acquisition <= d.leader.transition /\ d.leader.transition <= older
  BY DEF Sound
<1>2. /\ d.leader.epoch \in Nat /\ d.leader.transition \in Nat /\ d.leader.acquisition \in Nat
  BY <1>1, DocumentFields
<1>3. newest \in Nat
  BY LeadershipAssumption
<1>4. /\ new.leader.owner = d.leader.owner /\ new.leader.epoch = d.leader.epoch
      /\ new.leader.acquisition = d.leader.acquisition /\ new.leader.transition = newest
      /\ new.request = d.request
  BY <1>1 DEF Documents, Leaders
<1>5. new \in Documents
  BY <1>1 DEF Documents, Leaders
<1>. HIDE DEF new
<1>6. Sound(new, newest)
  BY <1>1, <1>2, <1>3, <1>4, <1>5 DEF Sound
<1>7. Renewal(d, new)
  BY <1>1, <1>2, <1>3, <1>4 DEF Renewal
<1>. QED BY <1>6, <1>7 DEF new
-----------------------------------------------------------------------------
(* What a dog sees of the leader restarts its window, or lets it go on.          *)
LEMMA WatchFacts ==
  ASSUME Inv, NEW dog \in Dogs, NEW d \in Documents, Older(d, Current), Watch(dog, d),
         Current' = Current, lapsed' = lapsed
  PROVE  /\ WatchType' /\ Watching(dog)' /\ since'[dog] = d.leader
         /\ aged'[dog] => aged[dog] /\ since[dog] = d.leader
         /\ \A e \in Dogs \ {dog} : since'[e] = since[e] /\ aged'[e] = aged[e]
<1>1. since \in [Dogs -> Leaders] /\ aged \in [Dogs -> BOOLEAN] /\ d.leader \in Leaders
  BY DocumentFields DEF Inv, TypeOK
<1>2. (aged[dog] /\ since[dog] = d.leader) \in BOOLEAN
  OBVIOUS
<1>3. /\ WatchType' /\ since'[dog] = d.leader
      /\ aged'[dog] = (aged[dog] /\ since[dog] = d.leader)
      /\ \A e \in Dogs \ {dog} : since'[e] = since[e] /\ aged'[e] = aged[e]
  BY <1>1, <1>2 DEF Watch, WatchType
<1>4. Watching(dog)
  BY DEF Inv
<1>5. Watching(dog)'
  BY <1>3, <1>4 DEF Watching, Older
<1>. QED BY <1>3, <1>5

(* The plan that an observation leads to, if any.                                *)
LEMMA PlanFacts ==
  ASSUME Inv, NEW dog \in Dogs, NEW d, NEW trusted \in BOOLEAN,
         Sound(d, minted), Older(d, Current), Watch(dog, d), role[dog] = "rest",
         UNCHANGED <<log, lapsed>>,
         Renew(dog, d) \/ Found(dog, d) \/ Claim(dog, d, trusted) \/ TakeOver(dog, d, trusted)
  PROVE  /\ minted' \in 0 .. MaxTransitions /\ minted <= minted'
         /\ AttemptType' /\ Sending(dog)' /\ Prepared(dog)' /\ active' = active
         /\ election' \in [Dogs -> Elections]
         /\ \A e \in Dogs \ {dog} :
              /\ election'[e] = election[e] /\ role'[e] = role[e] /\ seen'[e] = seen[e]
              /\ sent'[e] = sent[e] /\ tries'[e] = tries[e]
<1>1. d \in Documents /\ d.leader.transition <= minted
  BY DEF Sound
<1>2. /\ minted \in 0 .. MaxTransitions /\ minted \in Nat /\ MaxTransitions \in Nat
      /\ d.leader.transition \in Nat
  BY <1>1, LogTyped, DocumentFields DEF Inv, TypeOK
<1>3. Latest' = Latest /\ Current' = Current
  BY DEF Latest, Current
<1>4. /\ WatchType' /\ Watching(dog)' /\ since'[dog] = d.leader
      /\ aged'[dog] => aged[dog] /\ since[dog] = d.leader
  BY <1>1, <1>3, WatchFacts
<1>5. d.leader.transition <= Current.leader.transition
  BY DEF Older
<1>6. CASE Renew(dog, d)
  <2>. DEFINE new == [d EXCEPT !.leader.transition = minted']
  <2>1. minted' \in 0 .. MaxTransitions /\ minted < minted' /\ minted <= minted'
    BY <1>2, <1>6 DEF Renew
  <2>2. d.leader.owner \in Dogs /\ d.request = NoRequest
    BY <1>6 DEF Renew, Owns
  <2>3. Sound(new, minted') /\ Renewal(d, new)
    BY <1>2, <2>1, <2>2, RenewedFacts
  <2>4. new \in Documents /\ Prepare(dog, "RENEW", d, new)
    BY <1>6, <2>3 DEF Renew, Sound
  <2>. HIDE DEF new
  <2>5. /\ AttemptType' /\ Sending(dog)' /\ active' = active
        /\ election' \in [Dogs -> Elections] /\ election'[dog] = Plan("RENEW", d, new)
        /\ \A e \in Dogs \ {dog} :
             /\ election'[e] = election[e] /\ role'[e] = role[e] /\ seen'[e] = seen[e]
             /\ sent'[e] = sent[e] /\ tries'[e] = tries[e]
    BY <1>1, <1>3, <2>4, PrepareFacts
  <2>6. Sound(d, minted')
    BY <1>2, <2>1, SoundStays
  <2>7. Prepared(dog)'
    BY <1>3, <1>5, <2>3, <2>5, <2>6 DEF Prepared, Plan
  <2>. QED BY <2>1, <2>5, <2>7
<1>7. ASSUME NEW action \in {"ACQUIRE", "CLAIM_FORCE"}, NEW id \in 0 .. MaxTransitions,
             Prepare(dog, action, d, Elected(dog, d, id)), d.leader.transition < id,
             id <= minted', minted' \in 0 .. MaxTransitions, minted <= minted',
             \/ /\ action = "ACQUIRE"
                /\ d.leader = Current.leader => Current.leader = Vacant \/ lapsed
             \/ /\ action = "CLAIM_FORCE"
                /\ d.request.by = dog /\ id = d.request.id
      PROVE  /\ AttemptType' /\ Sending(dog)' /\ Prepared(dog)' /\ active' = active
             /\ election' \in [Dogs -> Elections]
             /\ \A e \in Dogs \ {dog} :
                  /\ election'[e] = election[e] /\ role'[e] = role[e] /\ seen'[e] = seen[e]
                  /\ sent'[e] = sent[e] /\ tries'[e] = tries[e]
  <2>. DEFINE new == Elected(dog, d, id)
  <2>1. Sound(new, minted') /\ Succession(dog, d, new)
    BY <1>2, <1>7, ElectedFacts
  <2>2. new \in Documents /\ new.leader.acquisition = id /\ Prepare(dog, action, d, new)
    BY <1>7, <2>1 DEF Sound, Elected
  <2>. HIDE DEF new
  <2>3. /\ AttemptType' /\ Sending(dog)' /\ active' = active
        /\ election' \in [Dogs -> Elections] /\ election'[dog] = Plan(action, d, new)
        /\ \A e \in Dogs \ {dog} :
             /\ election'[e] = election[e] /\ role'[e] = role[e] /\ seen'[e] = seen[e]
             /\ sent'[e] = sent[e] /\ tries'[e] = tries[e]
    BY <1>1, <1>3, <1>7, <2>2, PrepareFacts
  <2>4. Sound(d, minted')
    BY <1>2, <1>7, SoundStays
  <2>5. Prepared(dog)'
    BY <1>3, <1>5, <1>7, <2>1, <2>2, <2>3, <2>4 DEF Prepared, Plan
  <2>. QED BY <2>3, <2>5
<1>8. CASE Found(dog, d)
  <2>1. minted' \in 0 .. MaxTransitions /\ minted < minted' /\ minted <= minted'
        /\ d.leader.transition < minted' /\ minted' <= minted'
    BY <1>1, <1>2, <1>8 DEF Found
  <2>2. d.leader = Vacant /\ Prepare(dog, "ACQUIRE", d, Elected(dog, d, minted'))
    BY <1>8 DEF Found
  <2>. QED BY <1>7, <2>1, <2>2
<1>9. CASE TakeOver(dog, d, trusted)
  <2>1. minted' \in 0 .. MaxTransitions /\ minted < minted' /\ minted <= minted'
        /\ d.leader.transition < minted' /\ minted' <= minted'
    BY <1>1, <1>2, <1>9 DEF TakeOver
  <2>2. Stale(dog, d, trusted) /\ Prepare(dog, "ACQUIRE", d, Elected(dog, d, minted'))
    BY <1>9 DEF TakeOver
  <2>3. Watching(dog)
    BY DEF Inv
  <2>4. d.leader = Current.leader => lapsed
    BY <1>4, <2>2, <2>3 DEF Stale, Watching
  <2>. QED BY <1>7, <2>1, <2>2, <2>4
<1>10. CASE Claim(dog, d, trusted)
  <2>1. d.request.by = dog /\ minted' = minted
        /\ Prepare(dog, "CLAIM_FORCE", d, Elected(dog, d, d.request.id))
    BY <1>10 DEF Claim, Requested
  <2>2. d.request # NoRequest /\ d.request.id \in 0 .. MaxTransitions
    BY <1>1, <2>1, LeadershipAssumption, DocumentFields DEF NoRequest
  <2>3. d.leader.transition < d.request.id /\ d.request.id <= minted
    BY <2>2 DEF Sound
  <2>. QED BY <1>2, <1>7, <2>1, <2>2, <2>3
<1>. QED BY <1>6, <1>8, <1>9, <1>10

(* The dog looks at the document, and leads, waits or prepares a transition.     *)
LEMMA ObserveKeeps ==
  ASSUME Inv, NEW dog \in Dogs, Observe(dog)
  PROVE  Inv'
<1>1. PICK revision \in visible .. Latest, trusted \in BOOLEAN :
        /\ Read(revision)
        /\ Watch(dog, log[revision])
        /\ \/ Stay(dog, log[revision])
           \/ Renew(dog, log[revision])
           \/ /\ ~Owns(dog, log[revision])
              /\ grant' = [grant EXCEPT ![dog] = NoGrant]
              /\ \/ Found(dog, log[revision])
                 \/ Claim(dog, log[revision], trusted)
                 \/ TakeOver(dog, log[revision], trusted)
                 \/ StandBy(dog, log[revision], trusted)
  BY DEF Observe
<1>. DEFINE d == log[revision]
<1>2. role[dog] = "rest" /\ UNCHANGED <<time, faults>> /\ lapsed' = lapsed /\ expired' = expired
  BY DEF Observe, time
<1>3. /\ UNCHANGED <<log, flight>> /\ LogType' /\ Latest' = Latest /\ Current' = Current
      /\ d \in Documents /\ Sound(d, minted) /\ Older(d, Current)
  BY <1>1, ReadFacts
<1>. HIDE DEF d
<1>4. /\ WatchType' /\ Watching(dog)'
      /\ \A e \in Dogs \ {dog} : since'[e] = since[e] /\ aged'[e] = aged[e]
  BY <1>1, <1>2, <1>3, WatchFacts DEF d
<1>5. /\ active \in [Dogs -> BOOLEAN] /\ minted \in 0 .. MaxTransitions /\ minted \in Nat
      /\ election \in [Dogs -> Elections] /\ AttemptType /\ Latest \in Nat
      /\ grant \in [Dogs -> [epoch : 0 .. MaxTransitions, acquisition : 0 .. MaxTransitions]]
  BY LogTyped, TypeParts DEF Inv, TypeOK
<1>. DEFINE Moved ==
              /\ minted' \in 0 .. MaxTransitions /\ minted <= minted'
              /\ AttemptType' /\ Sending(dog)' /\ active' \in [Dogs -> BOOLEAN]
              /\ \A e \in Dogs \ {dog} :
                   /\ election'[e] = election[e] /\ role'[e] = role[e] /\ seen'[e] = seen[e]
                   /\ sent'[e] = sent[e] /\ tries'[e] = tries[e]
            Planned ==
              election' \in [Dogs -> Elections] /\ (Prepared(dog)' \/ election'[dog] = election[dog])
            Granted ==
              grant' = grant \/ grant' = [grant EXCEPT ![dog] = NoGrant]
<1>6. ASSUME Stay(dog, d)
      PROVE  Moved /\ Planned /\ Granted
  <2>1. Lead(dog) /\ election' = election /\ grant' = grant /\ minted' = minted
    BY <1>6 DEF Stay, checkpoint
  <2>2. Rest(dog) /\ active' \in [Dogs -> BOOLEAN]
    BY <1>5, <2>1, PauseFacts
  <2>3. /\ AttemptType' /\ Sending(dog)'
        /\ \A e \in Dogs \ {dog} : /\ role'[e] = role[e] /\ seen'[e] = seen[e]
                                   /\ sent'[e] = sent[e] /\ tries'[e] = tries[e]
    BY <1>3, <1>5, <2>2, RestFacts
  <2>. QED BY <1>5, <2>1, <2>2, <2>3
<1>7. ASSUME StandBy(dog, d, trusted) /\ grant' = [grant EXCEPT ![dog] = NoGrant]
      PROVE  Moved /\ Planned /\ Granted
  <2>1. Pause(dog) /\ election' = election /\ minted' = minted
    BY <1>7 DEF StandBy
  <2>2. Rest(dog) /\ active' \in [Dogs -> BOOLEAN]
    BY <1>5, <2>1, PauseFacts
  <2>3. /\ AttemptType' /\ Sending(dog)'
        /\ \A e \in Dogs \ {dog} : /\ role'[e] = role[e] /\ seen'[e] = seen[e]
                                   /\ sent'[e] = sent[e] /\ tries'[e] = tries[e]
    BY <1>3, <1>5, <2>2, RestFacts
  <2>4. Moved
    BY <1>5, <2>1, <2>2, <2>3
  <2>5. Planned /\ Granted
    BY <1>5, <1>7, <2>1
  <2>. QED BY <2>4, <2>5
<1>8. ASSUME Renew(dog, d) \/ Found(dog, d) \/ Claim(dog, d, trusted) \/ TakeOver(dog, d, trusted)
      PROVE  Moved /\ Planned /\ Granted
  <2>1. /\ minted' \in 0 .. MaxTransitions /\ minted <= minted'
        /\ AttemptType' /\ Sending(dog)' /\ Prepared(dog)' /\ active' = active
        /\ election' \in [Dogs -> Elections]
        /\ \A e \in Dogs \ {dog} :
             /\ election'[e] = election[e] /\ role'[e] = role[e] /\ seen'[e] = seen[e]
             /\ sent'[e] = sent[e] /\ tries'[e] = tries[e]
    BY <1>1, <1>2, <1>3, <1>8, PlanFacts DEF d
  <2>2. Granted
    BY <1>1, <1>8 DEF Renew, Stay, checkpoint
  <2>. QED BY <1>5, <2>1, <2>2
<1>9. Moved /\ Planned /\ Granted
  BY <1>1, <1>6, <1>7, <1>8 DEF d
<1>10. Persist
  <2>1. minted' \in Nat
    BY <1>9, LeadershipAssumption
  <2>. QED BY <1>2, <1>3, <1>9, <2>1, QuietPersists
<1>11. NoGrant \in [epoch : 0 .. MaxTransitions, acquisition : 0 .. MaxTransitions]
  BY LeadershipAssumption DEF NoGrant
<1>12. /\ grant' \in [Dogs -> [epoch : 0 .. MaxTransitions, acquisition : 0 .. MaxTransitions]]
       /\ grant'[dog] = NoGrant \/ grant'[dog] = grant[dog]
       /\ \A e \in Dogs \ {dog} : grant'[e] = grant[e]
  BY <1>5, <1>9, <1>11
<1>13. Earned(dog)'
  <2>1. grant'[dog] = NoGrant => Earned(dog)'
    BY DEF Earned
  <2>. QED BY <1>10, <1>12, <2>1 DEF Persist, KeepsKnowing
<1>14. Prepared(dog)'
  BY <1>9, <1>10 DEF Persist, KeepsKnowing
<1>15. CheckpointType'
  BY <1>9, <1>12 DEF CheckpointType
<1>16. RestType'
  <2>1. lapsed' \in BOOLEAN /\ expired' \in BOOLEAN /\ faults' \in 0 .. MaxFaults
    BY <1>2 DEF Inv, TypeOK
  <2>. QED BY <1>9, <2>1 DEF RestType
<1>17. TypeOK'
  BY <1>3, <1>4, <1>9, <1>15, <1>16
  DEF TypeOK, LogType, CheckpointType, AttemptType, WatchType, RestType
<1>18. \A e \in Dogs : Waits(e) \/ Knows(e)'
  BY <1>4, <1>9, <1>12, <1>13, <1>14 DEF Waits, SameAttempt, Knows
<1>. QED BY <1>10, <1>17, <1>18, Together
-----------------------------------------------------------------------------
(* The document grows, or is left alone.                                         *)
LEMMA PutTypes ==
  ASSUME Inv, NEW document \in Documents, Put(document)
  PROVE  LogType' /\ Latest' = Latest + 1 /\ Latest' >= Latest
<1>1. log' \in Seq(Documents) /\ Latest' = Latest + 1 /\ flight' = {} /\ visible' = visible
  BY PutFacts DEF Inv
<1>2. Latest \in Nat /\ visible \in 1 .. Latest
  BY LogTyped DEF Inv
<1>. QED BY <1>1, <1>2 DEF LogType

(* A step that writes nothing.                                                *)
LEMMA SameLog ==
  ASSUME Inv, UNCHANGED <<log, visible>>, flight' \subseteq Documents
  PROVE  LogType' /\ Latest' = Latest /\ Latest' >= Latest
<1>1. Latest \in Nat /\ Latest' = Latest
  BY LogTyped DEF Inv, Latest
<1>2. LogType
  BY TypeParts DEF Inv
<1>. QED BY <1>1, <1>2 DEF LogType

(* The dogs have no part in the step.                                            *)
LEMMA Bystanders ==
  ASSUME Inv, Persist, LogType', RestType', Latest' >= Latest,
         UNCHANGED <<checkpoint, role, attempt, watch, active>>
  PROVE  Inv'
<1>1. UNCHANGED <<election, grant, role, seen, sent, tries, refused, since, aged>>
  BY DEF checkpoint, attempt, watch
<1>2. \A d \in Dogs : Waits(d)
  BY <1>1 DEF Waits, SameAttempt
<1>3. Latest \in Nat /\ Latest' \in Nat
  BY LogTyped DEF Inv, LogType, Latest
<1>4. 0 .. Latest \subseteq 0 .. Latest'
  BY <1>3
<1>5. AttemptType'
  BY <1>1, <1>4 DEF Inv, TypeOK, AttemptType
<1>6. CheckpointType' /\ WatchType'
  BY <1>1 DEF Inv, TypeOK, CheckpointType, WatchType
<1>7. TypeOK'
  BY <1>5, <1>6 DEF TypeOK, LogType, CheckpointType, AttemptType, WatchType, RestType
<1>. QED BY <1>2, <1>7, Together

(* A dog has sent, or not, and looks again.                                      *)
LEMMA ReadsAgain ==
  ASSUME Inv, Persist, NEW dog \in Dogs, role[dog] = "send", LogType', RestType',
         Latest' >= Latest, UNCHANGED <<checkpoint, seen, watch>>, ReadAgain(dog),
         \/ sent' = [sent EXCEPT ![dog] = TRUE] /\ UNCHANGED <<tries, refused>>
         \/ /\ refused' = [refused EXCEPT ![dog] = seen[dog]]
            /\ tries' = [tries EXCEPT ![dog] = tries[dog] + 1] /\ UNCHANGED sent
  PROVE  Inv'
<1>1. UNCHANGED <<election, grant, seen, since, aged>> /\ role' = [role EXCEPT ![dog] = "commit"]
  BY DEF checkpoint, watch, ReadAgain
<1>2. /\ role \in [Dogs -> {"rest", "commit", "send"}]
      /\ seen \in [Dogs -> 0 .. Latest] /\ refused \in [Dogs -> 0 .. Latest]
      /\ sent \in [Dogs -> BOOLEAN] /\ tries \in [Dogs -> 0 .. MaxWrites]
      /\ election[dog] # NoElection /\ tries[dog] < MaxWrites
  BY DEF Inv, TypeOK, Sending
<1>3. Latest \in Nat /\ Latest' \in Nat
  BY LogTyped DEF Inv, LogType, Latest
<1>4. 0 .. Latest \subseteq 0 .. Latest' /\ tries[dog] + 1 \in 0 .. MaxWrites
  BY <1>2, <1>3, LeadershipAssumption
<1>5. /\ role' \in [Dogs -> {"rest", "commit", "send"}] /\ role'[dog] = "commit"
      /\ \A d \in Dogs \ {dog} : role'[d] = role[d]
  BY <1>1, <1>2
<1>6. /\ sent' \in [Dogs -> BOOLEAN]
      /\ \A d \in Dogs \ {dog} : sent'[d] = sent[d]
  BY <1>2
<1>7. /\ tries' \in [Dogs -> 0 .. MaxWrites] /\ refused' \in [Dogs -> 0 .. Latest']
      /\ \A d \in Dogs \ {dog} : tries'[d] = tries[d]
  BY <1>2, <1>4
<1>8. AttemptType'
  BY <1>1, <1>2, <1>4, <1>5, <1>6, <1>7 DEF AttemptType
<1>9. Sending(dog)'
  BY <1>1, <1>2, <1>5 DEF Sending
<1>10. CheckpointType' /\ WatchType'
  BY <1>1 DEF Inv, TypeOK, CheckpointType, WatchType
<1>11. TypeOK'
  BY <1>8, <1>10 DEF TypeOK, LogType, CheckpointType, AttemptType, WatchType, RestType
<1>12. Prepared(dog)' /\ Watching(dog)' /\ Earned(dog)'
  BY <1>1 DEF Persist, KeepsKnowing
<1>13. \A d \in Dogs : Waits(d) \/ Knows(d)'
  BY <1>1, <1>5, <1>6, <1>7, <1>9, <1>12 DEF Waits, SameAttempt, Knows
<1>. QED BY <1>11, <1>13, Together

(* Faults are counted up to their bound.                                         *)
LEMMA FaultCounts ==
  ASSUME Inv, Fault \/ faults' = faults
  PROVE  faults' \in 0 .. MaxFaults
BY LeadershipAssumption DEF Inv, TypeOK, Fault

(* What a dog sends at the newest revision is permitted there.                    *)
LEMMA SentIsPermitted ==
  ASSUME Inv, NEW dog \in Dogs, role[dog] = "send", seen[dog] = Latest
  PROVE  Permitted(election[dog].after) /\ Sound(election[dog].after, minted)
<1>1. election[dog] # NoElection /\ election[dog].before = Current
  BY DEF Inv, Sending, Current
<1>2. Prepared(dog)
  BY DEF Inv
<1>. QED BY <1>1, <1>2 DEF Prepared, Permitted

(* A write that is answered.                                                     *)
LEMMA SendKeeps ==
  ASSUME Inv, NEW dog \in Dogs, Send(dog)
  PROVE  Inv'
<1>. DEFINE after == election[dog].after
<1>1. /\ role[dog] = "send" /\ seen[dog] = Latest /\ Put(after)
      /\ sent' = [sent EXCEPT ![dog] = TRUE] /\ ReadAgain(dog) /\ lapsed' = FALSE
      /\ UNCHANGED <<checkpoint, seen, tries, refused, watch, active, expired, bounds>>
  BY DEF Send, Accepted
<1>2. Permitted(after) /\ Sound(after, minted) /\ after \in Documents
  BY <1>1, SentIsPermitted DEF Sound
<1>. HIDE DEF after
<1>3. minted' = minted /\ minted \in Nat /\ faults' = faults
  BY <1>1, LogTyped DEF Inv, bounds
<1>4. Persist
  BY <1>1, <1>2, <1>3, PutPersists
<1>5. LogType' /\ Latest' >= Latest
  BY <1>1, <1>2, PutTypes
<1>6. RestType'
  BY <1>1, <1>3 DEF RestType, Inv, TypeOK
<1>. QED BY <1>1, <1>4, <1>5, <1>6, ReadsAgain

(* A write that is refused.                                                      *)
LEMMA RefusedKeeps ==
  ASSUME Inv, NEW dog \in Dogs, Refused(dog)
  PROVE  Inv'
<1>1. /\ role[dog] = "send" /\ Rejected /\ (Fault \/ faults' = faults)
      /\ refused' = [refused EXCEPT ![dog] = seen[dog]]
      /\ tries' = [tries EXCEPT ![dog] = tries[dog] + 1]
      /\ ReadAgain(dog)
      /\ UNCHANGED <<checkpoint, seen, sent, watch, active, time, minted>>
  BY DEF Refused
<1>2. UNCHANGED <<log, visible, flight, minted, lapsed, expired>>
  BY <1>1 DEF Rejected, authorityVars, time
<1>3. minted \in Nat /\ faults' \in 0 .. MaxFaults /\ flight \subseteq Documents
  BY <1>1, LogTyped, FaultCounts DEF Inv, TypeOK
<1>4. Persist
  BY <1>2, <1>3, QuietPersists
<1>5. LogType' /\ Latest' >= Latest
  BY <1>2, <1>3, SameLog
<1>6. RestType'
  BY <1>1, <1>2, <1>3 DEF RestType, Inv, TypeOK
<1>. QED BY <1>1, <1>4, <1>5, <1>6, ReadsAgain

(* A write whose answer is lost was applied, or may be, or never will be.        *)
LEMMA LostKeeps ==
  ASSUME Inv, NEW dog \in Dogs, Lost(dog)
  PROVE  Inv'
<1>. DEFINE after == election[dog].after
<1>1. /\ role[dog] = "send" /\ Fault
      /\ sent' = [sent EXCEPT ![dog] = TRUE] /\ ReadAgain(dog)
      /\ lapsed' = IF log' = log THEN lapsed ELSE FALSE
      /\ UNCHANGED <<checkpoint, seen, tries, refused, watch, active, expired, minted>>
      /\ \/ seen[dog] = Latest /\ Put(after)
         \/ /\ flight' = IF seen[dog] = Latest THEN flight \cup {after} ELSE flight
            /\ UNCHANGED <<log, visible>>
  BY DEF Lost, Unanswered, Accepted
<1>2. /\ minted \in Nat /\ minted' = minted /\ faults' \in 0 .. MaxFaults
      /\ lapsed' \in BOOLEAN /\ flight \subseteq Documents
  BY <1>1, LogTyped, FaultCounts DEF Inv, TypeOK
<1>3. seen[dog] = Latest => Permitted(after) /\ Sound(after, minted) /\ after \in Documents
  BY <1>1, SentIsPermitted DEF Sound
<1>. HIDE DEF after
<1>4. Persist /\ LogType' /\ Latest' >= Latest
  <2>1. CASE seen[dog] = Latest /\ Put(after)
    BY <1>2, <1>3, <2>1, PutPersists, PutTypes
  <2>2. CASE /\ flight' = IF seen[dog] = Latest THEN flight \cup {after} ELSE flight
             /\ UNCHANGED <<log, visible>>
    <3>1. flight' \subseteq Documents /\ lapsed' = lapsed
      BY <1>1, <1>2, <1>3, <2>2
    <3>2. \A d \in flight' : d \in flight \/ (Sound(d, minted) /\ Permitted(d))
      BY <1>3, <2>2
    <3>. QED BY <1>2, <2>2, <3>1, <3>2, QuietPersists, SameLog
  <2>. QED BY <1>1, <2>1, <2>2
<1>5. RestType'
  BY <1>1, <1>2 DEF RestType, Inv, TypeOK
<1>. QED BY <1>1, <1>4, <1>5, ReadsAgain

(* A read of the reconciliation.                                                 *)
LEMMA CommitKeeps ==
  ASSUME Inv, NEW dog \in Dogs, Commit(dog)
  PROVE  Inv'
<1>1. PICK revision \in visible .. Latest :
        /\ Read(revision)
        /\ \/ /\ Evaluate(election[dog], log[revision]) = "CONFIRMED"
              /\ Confirm(dog) /\ Lead(dog)
           \/ Abandon(dog) /\ Pause(dog)
           \/ InDoubt(dog) /\ Pause(dog)
           \/ /\ Evaluate(election[dog], log[revision]) = "READY"
              /\ ~sent[dog] /\ ~Hopeless(dog, revision)
              /\ role' = [role EXCEPT ![dog] = "send"]
              /\ seen' = [seen EXCEPT ![dog] = revision]
              /\ UNCHANGED <<checkpoint, active, sent, tries, refused>>
  BY DEF Commit
<1>2. /\ role[dog] = "commit" /\ election[dog] # NoElection
      /\ UNCHANGED <<watch, time, minted>> /\ faults' = faults
  BY DEF Commit, Inv, Sending, bounds
<1>3. /\ UNCHANGED <<log, flight>> /\ LogType' /\ Latest' = Latest /\ revision \in 1 .. Latest
  BY <1>1, ReadFacts
<1>4. Persist
  BY <1>2, <1>3, LogTyped, QuietPersists DEF Inv, time
<1>5. faults' \in 0 .. MaxFaults
  BY <1>2, FaultCounts
<1>6. /\ Evaluate(election[dog], log[revision]) = "CONFIRMED" => log[revision] = election[dog].after
      /\ Evaluate(election[dog], log[revision]) = "READY" => log[revision] = election[dog].before
  BY EvaluateMeans
<1>7. CASE \/ /\ Evaluate(election[dog], log[revision]) = "CONFIRMED"
              /\ Confirm(dog) /\ Lead(dog)
           \/ Abandon(dog) /\ Pause(dog)
           \/ InDoubt(dog) /\ Pause(dog)
  <2>1. Pause(dog) \/ Lead(dog)
    BY <1>7
  <2>2. \/ Abandon(dog) \/ UNCHANGED checkpoint
        \/ /\ election[dog] # NoElection /\ Confirm(dog)
           /\ log[revision] = election[dog].after
    BY <1>2, <1>6, <1>7 DEF InDoubt
  <2>. QED BY <1>2, <1>3, <1>4, <1>5, <2>1, <2>2, TickEnds
<1>8. CASE /\ Evaluate(election[dog], log[revision]) = "READY"
           /\ ~sent[dog] /\ ~Hopeless(dog, revision)
           /\ role' = [role EXCEPT ![dog] = "send"]
           /\ seen' = [seen EXCEPT ![dog] = revision]
           /\ UNCHANGED <<checkpoint, active, sent, tries, refused>>
  <2>1. /\ UNCHANGED <<election, grant, sent, tries, refused, since, aged, active, lapsed, expired>>
        /\ role' = [role EXCEPT ![dog] = "send"] /\ seen' = [seen EXCEPT ![dog] = revision]
        /\ log[revision] = election[dog].before /\ minted' = minted
    BY <1>2, <1>6, <1>8 DEF checkpoint, watch, time
  <2>2. /\ role \in [Dogs -> {"rest", "commit", "send"}]
        /\ seen \in [Dogs -> 0 .. Latest] /\ refused \in [Dogs -> 0 .. Latest]
        /\ sent \in [Dogs -> BOOLEAN] /\ tries \in [Dogs -> 0 .. MaxWrites] /\ Latest \in Nat
    BY LogTyped DEF Inv, TypeOK
  <2>3. tries[dog] < MaxWrites
    <3>1. tries[dog] # MaxWrites
      BY <1>8 DEF Hopeless
    <3>2. tries[dog] \in 0 .. MaxWrites
      BY <2>2
    <3>. QED BY <3>1, <3>2, LeadershipAssumption
  <2>4. /\ role' \in [Dogs -> {"rest", "commit", "send"}]
        /\ \A d \in Dogs \ {dog} : role'[d] = role[d]
    BY <2>1, <2>2
  <2>5. /\ seen' \in [Dogs -> 0 .. Latest'] /\ seen'[dog] = revision
        /\ \A d \in Dogs \ {dog} : seen'[d] = seen[d]
    BY <1>3, <2>1, <2>2
  <2>6. AttemptType'
    BY <1>3, <2>1, <2>2, <2>4, <2>5 DEF AttemptType
  <2>7. Sending(dog)'
    <3>1. seen'[dog] \in 1 .. Latest' /\ log'[seen'[dog]] = election'[dog].before
      BY <1>3, <2>1, <2>5
    <3>2. ~sent'[dog] /\ tries'[dog] < MaxWrites /\ election'[dog] # NoElection
      BY <1>2, <1>8, <2>1, <2>3
    <3>. QED BY <3>1, <3>2 DEF Sending
  <2>8. CheckpointType' /\ WatchType'
    BY <2>1 DEF Inv, TypeOK, CheckpointType, WatchType
  <2>9. RestType'
    BY <1>5, <2>1 DEF Inv, TypeOK, RestType
  <2>10. TypeOK'
    BY <1>3, <2>6, <2>8, <2>9
    DEF TypeOK, LogType, CheckpointType, AttemptType, WatchType, RestType
  <2>11. Prepared(dog)' /\ Watching(dog)' /\ Earned(dog)'
    BY <1>4, <2>1 DEF Persist, KeepsKnowing
  <2>12. \A d \in Dogs : Waits(d) \/ Knows(d)'
    BY <2>1, <2>4, <2>5, <2>7, <2>11 DEF Waits, SameAttempt, Knows
  <2>. QED BY <1>4, <2>10, <2>12, Together
<1>. QED BY <1>1, <1>7, <1>8
-----------------------------------------------------------------------------
(* A write lands late: it was permitted, and is.                                 *)
LEMMA LandKeeps ==
  ASSUME Inv, Land
  PROVE  Inv'
<1>1. PICK document \in flight : Put(document)
  BY DEF Land
<1>2. /\ lapsed' \in BOOLEAN /\ minted' = minted /\ faults' = faults /\ expired' = expired
      /\ UNCHANGED <<checkpoint, role, attempt, watch, active>>
  BY DEF Land, bounds
<1>3. Sound(document, minted) /\ Permitted(document) /\ document \in Documents
  BY <1>1 DEF Inv, Flight, Sound
<1>4. minted \in Nat
  BY LogTyped DEF Inv
<1>5. Persist
  BY <1>1, <1>2, <1>3, <1>4, PutPersists
<1>6. LogType' /\ Latest' >= Latest
  BY <1>1, <1>3, PutTypes
<1>7. RestType'
  BY <1>2 DEF RestType, Inv, TypeOK
<1>. QED BY <1>2, <1>5, <1>6, <1>7, Bystanders

(* A document of the same leader: a request, its end, another target's record.   *)
LEMMA SameLeaderKeeps ==
  ASSUME Inv, NEW document, Put(document), document.leader = Current.leader,
         Sound(document, minted'), lapsed' = lapsed, expired' \in BOOLEAN,
         minted' \in 0 .. MaxTransitions, minted <= minted', faults' = faults,
         UNCHANGED <<checkpoint, role, attempt, watch, active>>
  PROVE  Inv'
<1>1. minted' \in Nat /\ document \in Documents
  BY LeadershipAssumption DEF Sound
<1>2. Persist
  BY <1>1, PutPersists
<1>3. LogType' /\ Latest' >= Latest
  BY <1>1, PutTypes
<1>4. RestType'
  BY DEF RestType, Inv, TypeOK
<1>. QED BY <1>2, <1>3, <1>4, Bystanders

(* A person asks for the role.                                                *)
LEMMA AskKeeps ==
  ASSUME Inv, NEW dog \in Dogs, Ask(dog)
  PROVE  Inv'
<1>. DEFINE document == [Current EXCEPT !.request = [by |-> dog, id |-> minted']]
<1>1. /\ minted < MaxTransitions /\ minted' = minted + 1 /\ Put(document) /\ expired' = FALSE
      /\ lapsed' = lapsed /\ faults' = faults
      /\ UNCHANGED <<checkpoint, role, attempt, watch, active>>
  BY DEF Ask
<1>2. /\ Sound(Current, minted) /\ Current \in Documents
      /\ minted \in 0 .. MaxTransitions /\ minted \in Nat /\ MaxTransitions \in Nat
  <2>1. Latest \in 1 .. Latest
    BY LogTyped DEF Inv
  <2>. QED BY <2>1, LogTyped, CurrentIsNewest DEF Inv, TypeOK
<1>3. /\ Current.leader.epoch \in Nat /\ Current.leader.acquisition \in Nat
      /\ Current.leader.transition \in Nat
  BY <1>2, DocumentFields
<1>4. minted' \in 0 .. MaxTransitions /\ minted < minted' /\ minted <= minted'
  BY <1>1, <1>2
<1>5. /\ document \in Documents /\ document.leader = Current.leader
      /\ document.request.id = minted'
  BY <1>2, <1>4 DEF Documents
<1>. HIDE DEF document
<1>6. Sound(document, minted')
  BY <1>2, <1>3, <1>4, <1>5 DEF Sound
<1>. QED BY <1>1, <1>4, <1>5, <1>6, SameLeaderKeeps

(* A request runs out, or another part of the document is written.            *)
LEMMA ExpireKeeps ==
  ASSUME Inv, Expire \/ Unrelated
  PROVE  Inv'
<1>1. PICK document \in {[Current EXCEPT !.request = NoRequest], Current} : Put(document)
  BY DEF Expire, Unrelated, WriteElsewhere
<1>2. UNCHANGED <<checkpoint, role, attempt, watch, active, time, bounds>>
  BY DEF Expire, Unrelated
<1>3. Sound(Current, minted) /\ Current \in Documents
  <2>1. Latest \in 1 .. Latest
    BY LogTyped DEF Inv
  <2>. QED BY <2>1, LogTyped, CurrentIsNewest DEF Inv
<1>4. [Current EXCEPT !.request = NoRequest] \in Documents
  BY <1>3, LeadershipAssumption DEF Documents, NoRequest
<1>5. Sound(document, minted) /\ document.leader = Current.leader
  BY <1>1, <1>3, <1>4 DEF Sound, Documents
<1>6. /\ lapsed' = lapsed /\ expired' = expired /\ minted' = minted /\ faults' = faults
      /\ minted \in 0 .. MaxTransitions /\ expired \in BOOLEAN /\ minted <= minted'
  BY <1>2, LeadershipAssumption DEF time, bounds, Inv, TypeOK
<1>. QED BY <1>1, <1>2, <1>5, <1>6, SameLeaderKeeps

(* Time passes, and a read catches up.                                           *)
LEMMA TimeKeeps ==
  ASSUME Inv, Visible \/ Lapse \/ RequestExpires
  PROVE  Inv'
<1>1. /\ UNCHANGED <<log, flight, minted, faults>> /\ visible' \in {visible, Latest}
      /\ lapsed' \in {lapsed, TRUE} /\ expired' \in {expired, TRUE}
      /\ UNCHANGED <<checkpoint, role, attempt, watch, active>>
  BY DEF Visible, CatchUp, Lapse, RequestExpires, authorityVars, bounds, time
<1>2. /\ Latest \in Nat /\ Latest >= 1 /\ Latest' = Latest /\ minted \in Nat
      /\ minted <= minted' /\ visible \in 1 .. Latest
  BY <1>1, LogTyped DEF Inv, Latest
<1>3. LogType'
  BY <1>1, <1>2 DEF LogType, Inv, TypeOK
<1>4. lapsed => lapsed'
  BY DEF Visible, Lapse, RequestExpires, time
<1>5. Persist
  BY <1>1, <1>2, <1>4, QuietPersists
<1>6. RestType'
  BY <1>1 DEF RestType, Inv, TypeOK
<1>. QED BY <1>1, <1>2, <1>3, <1>5, <1>6, Bystanders

(* A dog has watched a heartbeat for the lease time.                             *)
LEMMA AgeKeeps ==
  ASSUME Inv, NEW dog \in Dogs, Age(dog)
  PROVE  Inv'
<1>1. /\ UNCHANGED <<log, visible, flight, lapsed, expired, minted, faults, active, since>>
      /\ UNCHANGED <<election, grant, role, seen, sent, tries, refused>>
      /\ aged' = [aged EXCEPT ![dog] = TRUE]
      /\ since[dog] = Current.leader => lapsed
  BY DEF Age, authorityVars, checkpoint, attempt, time, bounds
<1>2. minted \in Nat /\ minted <= minted'
  BY <1>1, LogTyped DEF Inv
<1>3. LogType' /\ Current' = Current
  BY <1>1 DEF LogType, Inv, TypeOK, Latest, Current
<1>4. Persist
  BY <1>1, <1>2, QuietPersists
<1>5. aged \in [Dogs -> BOOLEAN] /\ since \in [Dogs -> Leaders]
  BY DEF Inv, TypeOK
<1>6. WatchType' /\ aged'[dog] /\ \A d \in Dogs \ {dog} : aged'[d] = aged[d]
  BY <1>1, <1>5 DEF WatchType
<1>7. CheckpointType' /\ AttemptType'
  BY <1>1 DEF CheckpointType, AttemptType, Inv, TypeOK, Latest
<1>8. RestType'
  BY <1>1 DEF RestType, Inv, TypeOK
<1>9. TypeOK'
  BY <1>3, <1>6, <1>7, <1>8
  DEF TypeOK, LogType, CheckpointType, AttemptType, WatchType, RestType
<1>10. Watching(dog)'
  BY <1>1, <1>3 DEF Inv, Watching
<1>11. Prepared(dog)' /\ Sending(dog)' /\ Earned(dog)'
  BY <1>1, <1>4 DEF Persist, KeepsKnowing, SameAttempt
<1>12. \A d \in Dogs : Waits(d) \/ Knows(d)'
  BY <1>1, <1>6, <1>10, <1>11 DEF Waits, SameAttempt, Knows
<1>. QED BY <1>4, <1>9, <1>12, Together
-----------------------------------------------------------------------------
(* The invariant holds.                                                          *)
LEMMA InitInv ==
  ASSUME Init
  PROVE  Inv
<1>. USE LeadershipAssumption
<1>1. Vacant \in Leaders /\ Nothing \in Documents /\ Nothing.leader = Vacant
      /\ Nothing.request = NoRequest
  BY DEF Vacant, Leaders, Nothing, Documents, NoRequest
<1>2. NoElection \in Elections
      /\ NoGrant \in [epoch : 0 .. MaxTransitions, acquisition : 0 .. MaxTransitions]
  BY <1>1 DEF NoElection, Elections, NoGrant
<1>3. log = <<Nothing>> /\ log \in Seq(Documents) /\ Latest = 1 /\ log[1] = Nothing /\ Current = Nothing
      /\ 1 .. Latest = {1}
  BY <1>1 DEF Init, Latest, Current
<1>4. LogType
  BY <1>3 DEF Init, LogType
<1>5. CheckpointType
  BY <1>2 DEF Init, CheckpointType
<1>6. AttemptType
  BY <1>3 DEF Init, AttemptType
<1>7. WatchType
  BY <1>1 DEF Init, WatchType
<1>8. RestType
  <2>1. minted \in 0 .. MaxTransitions /\ faults \in 0 .. MaxFaults
    BY DEF Init
  <2>2. active \in [Dogs -> BOOLEAN] /\ lapsed \in BOOLEAN /\ expired \in BOOLEAN
    BY DEF Init
  <2>. QED BY <2>1, <2>2 DEF RestType
<1>9. TypeOK
  BY <1>8, <1>4, <1>5, <1>6, <1>7, TypeParts
<1>10. Sound(Nothing, minted)
  BY <1>1 DEF Init, Sound, Vacant
<1>11. History
  BY <1>1, <1>3, <1>10, OlderReflexive DEF History
<1>12. Flight
  BY DEF Init, Flight
<1>13. \A dog \in Dogs : Prepared(dog) /\ Sending(dog) /\ Earned(dog)
  BY DEF Init, Prepared, Sending, Earned
<1>14. \A dog \in Dogs : Watching(dog)
  BY <1>1, <1>3 DEF Init, Watching, Vacant
<1>. QED BY <1>9, <1>11, <1>12, <1>13, <1>14 DEF Inv

(* Every step keeps it,                                                       *)
LEMMA NextInv ==
  ASSUME Inv, [Next]_vars
  PROVE  Inv'
<1>1. CASE UNCHANGED vars
  <2>1. /\ UNCHANGED <<log, visible, flight, minted, faults, lapsed, expired>>
        /\ UNCHANGED <<checkpoint, role, attempt, watch, active>>
    BY <1>1 DEF vars, authorityVars, time, bounds
  <2>2. minted \in Nat /\ minted <= minted' /\ flight' \subseteq Documents
    BY <2>1, LogTyped DEF Inv, TypeOK
  <2>3. Persist
    BY <2>1, <2>2, QuietPersists
  <2>4. LogType' /\ Latest' >= Latest
    BY <2>1, <2>2, SameLog
  <2>5. RestType'
    BY <2>1 DEF RestType, Inv, TypeOK
  <2>. QED BY <2>1, <2>3, <2>4, <2>5, Bystanders
<1>2. ASSUME NEW dog \in Dogs, DogStep(dog)
      PROVE  Inv'
  BY <1>2, InspectKeeps, ObserveKeeps, CommitKeeps, SendKeeps, RefusedKeeps DEF DogStep
<1>3. ASSUME NEW dog \in Dogs, Failure(dog)
      PROVE  Inv'
  BY <1>3, ReadFailsKeeps, LostKeeps, InterruptedKeeps DEF Failure
<1>4. ASSUME NEW dog \in Dogs, Ask(dog)
      PROVE  Inv'
  BY <1>4, AskKeeps
<1>5. CASE TimePasses
  BY <1>5, TimeKeeps, AgeKeeps DEF TimePasses
<1>6. CASE Environment
  BY <1>6, LandKeeps, ExpireKeeps, TimeKeeps DEF Environment
<1>. QED BY <1>1, <1>2, <1>3, <1>4, <1>5, <1>6 DEF Next

(* ... so that it always holds.                                               *)
LEMMA InvHolds == Spec => []Inv
<1>. QED BY InitInv, NextInv, PTL DEF Spec

(* Checkpoints, documents and ticks have the shapes the code gives them.         *)
THEOREM LeadershipTyped == Spec => []TypeOK
<1>1. Inv => TypeOK
  BY DEF Inv
<1>. QED BY <1>1, InvHolds, PTL

(* NATIVE_LEADERSHIP.md:65-69: a grant that a dog remembers is for an acquisition *)
(* of its own, and the only one of its epoch, for any number of dogs, of faults   *)
(* and of writes that land late (_elect, drive/leadership.py).                    *)
THEOREM RememberedGrantsAreEarned == Spec => []GrantsAreEarned
<1>1. Inv => GrantsAreEarned
  BY DEF Inv, Earned, GrantsAreEarned
<1>. QED BY <1>1, InvHolds, PTL
-----------------------------------------------------------------------------
(* What the promise calls vacant, and no request, is what the code calls so.     *)
LEMMA SameNames ==
  /\ Records!Vacant = Vacant /\ Records!NoRequest = NoRequest
BY DEF Records!Vacant, Vacant, Records!NoRequest, NoRequest

(* A permitted document continues the records.                                   *)
LEMMA PermittedFollows ==
  ASSUME Inv, NEW document, Sound(document, minted), Permitted(document), Put(document),
         lapsed' \in BOOLEAN
  PROVE  Records!Next
<1>1. document \in Documents /\ Current' = document /\ Current \in Documents
  BY PutFacts, LogTyped DEF Inv, Sound
<1>2. /\ Current.leader \in Leaders /\ document.leader \in Leaders
      /\ Current.leader.transition \in Nat /\ Current.leader.acquisition \in Nat
      /\ document.leader.transition \in Nat
  BY <1>1, DocumentFields
<1>3. Current.leader.acquisition <= Current.leader.transition
  <2>1. Latest \in 1 .. Latest
    BY LogTyped DEF Inv
  <2>. QED BY <2>1, CurrentIsNewest DEF Inv, Sound
<1>4. CASE Renewal(Current, document)
  <2>1. Current.leader # Vacant
    BY <1>4, LeadershipAssumption DEF Renewal, Vacant
  <2>2. document.leader = [Current.leader EXCEPT !.transition = document.leader.transition]
    BY <1>2, <1>4 DEF Renewal, Leaders
  <2>3. document.leader.transition # Current.leader.transition
    BY <1>2, <1>4 DEF Renewal
  <2>4. Current.request = NoRequest /\ document.request = NoRequest
    BY <1>4 DEF Renewal
  <2>5. Records!Renew
    BY <1>1, <2>1, <2>2, <2>3, <2>4, SameNames DEF Records!Renew
  <2>. QED BY <2>5 DEF Records!Next
<1>5. ASSUME NEW dog \in Dogs, Succession(dog, Current, document),
             \/ Current.leader = Vacant
             \/ lapsed
             \/ Current.request.by = dog /\ document.leader.acquisition = Current.request.id
      PROVE  Records!Next
  <2>1. /\ document.leader.acquisition # Current.leader.acquisition
        /\ document.leader.acquisition # Current.leader.transition
    BY <1>2, <1>3, <1>5 DEF Succession
  <2>2. Records!Succeed(dog)
    BY <1>1, <1>5, <2>1, SameNames DEF Records!Succeed, Succession
  <2>3. Records!Found(dog) \/ Records!TakeOver(dog) \/ Records!Claim(dog)
    BY <1>1, <1>5, <2>2, SameNames DEF Records!Found, Records!TakeOver, Records!Claim
  <2>. QED BY <2>3 DEF Records!Next
<1>. QED BY <1>4, <1>5 DEF Permitted

(* What the dogs do for themselves the records do not show.                      *)
LEMMA QuietFollows ==
  ASSUME UNCHANGED <<log, lapsed>>
  PROVE  UNCHANGED Records!tenureVars
BY DEF Records!tenureVars, Current, Latest

(* What a dog does is what Tenure permits, or nothing to its records.         *)
LEMMA DogFollows ==
  ASSUME Inv, NEW dog \in Dogs, DogStep(dog) \/ Failure(dog)
  PROVE  Records!Next \/ UNCHANGED Records!tenureVars
<1>1. CASE \/ Inspect(dog) \/ Observe(dog) \/ Commit(dog) \/ Refused(dog)
           \/ ReadFails(dog) \/ Unavailable(dog) \/ Interrupted(dog)
  <2>1. UNCHANGED <<log, lapsed>>
    <3>1. CASE Inspect(dog)
      BY <3>1, Zenon DEF Inspect, Read, time
    <3>2. CASE Observe(dog)
      BY <3>2 DEF Observe, Read, time
    <3>3. CASE Commit(dog)
      BY <3>3 DEF Commit, Read, time
    <3>4. CASE Refused(dog) \/ ReadFails(dog) \/ Unavailable(dog) \/ Interrupted(dog)
      BY <3>4 DEF Refused, Rejected, ReadFails, Unavailable, Interrupted, authorityVars, time
    <3>. QED BY <1>1, <3>1, <3>2, <3>3, <3>4
  <2>. QED BY <2>1, QuietFollows
<1>2. CASE Send(dog) \/ (Lost(dog) /\ seen[dog] = Latest /\ Put(election[dog].after))
  <2>1. /\ role[dog] = "send" /\ seen[dog] = Latest /\ Put(election[dog].after)
        /\ lapsed' \in BOOLEAN
    BY <1>2 DEF Send, Accepted, Lost, Inv, TypeOK
  <2>2. Permitted(election[dog].after) /\ Sound(election[dog].after, minted)
    BY <2>1, SentIsPermitted
  <2>. QED BY <2>1, <2>2, PermittedFollows
<1>3. CASE Lost(dog) /\ UNCHANGED log
  <2>1. UNCHANGED <<log, lapsed>>
    BY <1>3 DEF Lost
  <2>. QED BY <2>1, QuietFollows
<1>4. Lost(dog) => UNCHANGED log \/ (seen[dog] = Latest /\ Put(election[dog].after))
  BY DEF Lost, Unanswered, Accepted
<1>. QED BY <1>1, <1>2, <1>3, <1>4 DEF DogStep, Failure

(* A request, its end, and time.                                                 *)
LEMMA RequestFollows ==
  ASSUME Inv
  PROVE  /\ \A dog \in Dogs : Ask(dog) => Records!Next
         /\ Expire => Records!Next
         /\ Lapse => Records!Next
<1>1. Current \in Documents
  BY LogTyped DEF Inv
<1>2. ASSUME NEW dog \in Dogs, Ask(dog)
      PROVE  Records!Next
  <2>. DEFINE document == [Current EXCEPT !.request = [by |-> dog, id |-> minted']]
  <2>1. /\ Current.leader # Vacant /\ Current.leader.owner # dog /\ Current.request = NoRequest
        /\ Put(document) /\ lapsed' = lapsed
    BY <1>2 DEF Ask
  <2>2. document.leader = Current.leader /\ document.request.by = dog
    BY <1>1 DEF Documents
  <2>. HIDE DEF document
  <2>3. log' = Append(log, document) /\ log \in Seq(Documents)
    BY <2>1 DEF Put, Inv, TypeOK
  <2>4. Current' = document
    BY <2>3 DEF Current, Latest
  <2>5. Records!Ask(dog)
    BY <2>1, <2>2, <2>4, SameNames DEF Records!Ask
  <2>. QED BY <2>5 DEF Records!Next
<1>3. ASSUME Expire
      PROVE  Records!Next
  <2>. DEFINE document == [Current EXCEPT !.request = NoRequest]
  <2>1. Current.request # NoRequest /\ Put(document) /\ lapsed' = lapsed
    BY <1>3 DEF Expire, time
  <2>2. document.leader = Current.leader /\ document.request = NoRequest
    BY <1>1 DEF Documents
  <2>. HIDE DEF document
  <2>3. log' = Append(log, document) /\ log \in Seq(Documents)
    BY <2>1 DEF Put, Inv, TypeOK
  <2>4. Current' = document
    BY <2>3 DEF Current, Latest
  <2>5. Records!Withdraw
    BY <2>1, <2>2, <2>4, SameNames DEF Records!Withdraw
  <2>. QED BY <2>5 DEF Records!Next
<1>4. ASSUME Lapse
      PROVE  Records!Next
  <2>1. Current' = Current /\ Current.leader # Vacant /\ lapsed' = TRUE
    BY <1>4 DEF Lapse, authorityVars, Current, Latest
  <2>2. Records!Lapse
    BY <2>1, SameNames DEF Records!Lapse
  <2>. QED BY <2>2 DEF Records!Next
<1>. QED BY <1>2, <1>3, <1>4

(* Every step is one of Tenure's or leaves its records alone.                    *)
LEMMA StepFollows ==
  ASSUME Inv, [Next]_vars
  PROVE  [Records!Next]_Records!tenureVars
<1>1. CASE \E dog \in Dogs : DogStep(dog) \/ Failure(dog)
  BY <1>1, DogFollows
<1>2. CASE (\E dog \in Dogs : Ask(dog)) \/ Expire \/ Lapse
  BY <1>2, RequestFollows
<1>3. CASE Visible \/ RequestExpires \/ (\E dog \in Dogs : Age(dog)) \/ UNCHANGED vars
  <2>1. UNCHANGED <<log, lapsed>>
    BY <1>3 DEF Visible, CatchUp, RequestExpires, Age, vars, authorityVars, time
  <2>. QED BY <2>1, QuietFollows
<1>4. CASE Unrelated
  <2>1. log' = Append(log, Current) /\ log \in Seq(Documents) /\ lapsed' = lapsed
    BY <1>4 DEF Unrelated, WriteElsewhere, Put, time, Inv, TypeOK
  <2>2. Current \in Documents
    BY LogTyped DEF Inv
  <2>3. Current' = Current
    BY <2>1, <2>2 DEF Current, Latest
  <2>. QED BY <2>1, <2>3 DEF Records!tenureVars
<1>5. CASE Land
  <2>1. PICK document \in flight : Put(document)
    BY <1>5 DEF Land
  <2>2. Sound(document, minted) /\ Permitted(document) /\ lapsed' \in BOOLEAN
    BY <1>5, <2>1 DEF Inv, Flight, Land
  <2>. QED BY <2>1, <2>2, PermittedFollows
<1>. QED BY <1>1, <1>2, <1>3, <1>4, <1>5 DEF Next, TimePasses, Environment

(* The shared document keeps the promise of Tenure: epochs follow each other,    *)
(* and a leader is replaced only when its lease has lapsed or by the dog whose   *)
(* request it has had before (evaluate, drive/leadership.py).                    *)
THEOREM DocumentKeepsTenure == Spec => ImplementsTenure
<1>1. ASSUME Init
      PROVE  Records!Init
  <2>1. Current = Nothing
    BY <1>1 DEF Init, Current, Latest
  <2>. QED BY <1>1, <2>1, SameNames DEF Records!Init, Init, Nothing
<1>2. Inv /\ [Next]_vars => [Records!Next]_Records!tenureVars
  BY StepFollows
<1>. QED BY <1>1, <1>2, InvHolds, PTL DEF Spec, ImplementsTenure, Records!Spec


-----------------------------------------------------------------------------
(***************************************************************************)
(* The control tree (TreeStartup)                                          *)
(***************************************************************************)

(* The references of the blueprint.                                              *)
Refs == GlobalRefs \cup UNION {DeviceRefs(d) : d \in Devices}
Labels == {Foreign} \cup UNION {Allowed(ref) : ref \in Refs}

(* A reference of the map is one of the four of the park or a device's folder.   *)
LEMMA RefSorts ==
  ASSUME NEW ref \in Refs
  PROVE  \/ ref = <<"park", "DOG_HOUSE">> \/ ref = <<"park", "WATCHDOG_MODE">>
         \/ ref = <<"park", "BALL_PARK">> \/ ref = <<"park", "DOG_POUND">>
         \/ \E d \in Devices : ref = <<d, "ROOT">>
BY DEF Refs, GlobalRefs, DeviceRefs

(* What the blueprint says of each of the park's references.                     *)
LEMMA ParkRefs ==
  /\ Names(<<"park", "DOG_HOUSE">>) = <<"DOG_HOUSE">>
  /\ Names(<<"park", "WATCHDOG_MODE">>) = <<"DOG_SNOOZE", "DOG_AWAKE">>
  /\ Names(<<"park", "BALL_PARK">>) = <<"BALL_PARK">>
  /\ Names(<<"park", "DOG_POUND">>) = <<"DOG_POUND">>
  /\ ParentOf(<<"park", "DOG_HOUSE">>) = <<"park", "root">>
  /\ ParentOf(<<"park", "WATCHDOG_MODE">>) = <<"park", "DOG_HOUSE">>
  /\ ParentOf(<<"park", "BALL_PARK">>) = <<"park", "root">>
  /\ ParentOf(<<"park", "DOG_POUND">>) = <<"park", "root">>
BY DEF Names, ParentOf

(* What it says of a device's folder.                                            *)
LEMMA RootRef ==
  ASSUME NEW d
  PROVE  /\ Names(<<d, "ROOT">>) = <<d>>
         /\ ParentOf(<<d, "ROOT">>) = <<"park", "BALL_PARK">>
BY DEF Names, ParentOf

(* One name, or two, make a reference a folder or a stateful file.               *)
LEMMA OneName ==
  ASSUME NEW ref, NEW name, Names(ref) = <<name>>
  PROVE  /\ Allowed(ref) = {name} /\ Initial(ref) = name
         /\ ~Stateful(ref) /\ IsFolder(ref) = TRUE
<1>1. ToSet(<<name>>) = {name} /\ Len(<<name>>) = 1 /\ <<name>>[1] = name
  BY DEF ToSet
<1>. QED BY <1>1 DEF Allowed, Initial, Stateful, IsFolder

(* What the blueprint says of a reference with two names.                      *)
LEMMA TwoNames ==
  ASSUME NEW ref, NEW a, NEW b, Names(ref) = <<a, b>>
  PROVE  /\ Allowed(ref) = {a, b} /\ Initial(ref) = a
         /\ Stateful(ref) /\ IsFolder(ref) = FALSE
<1>1. ToSet(<<a, b>>) = {a, b} /\ Len(<<a, b>>) = 2 /\ <<a, b>>[1] = a
  BY DEF ToSet
<1>. QED BY <1>1 DEF Allowed, Initial, Stateful, IsFolder

(* The mode is the only file; what is allowed, and where it lies.                 *)
LEMMA RefFacts ==
  ASSUME NEW ref \in Refs
  PROVE  /\ IsFolder(ref) <=> ref # <<"park", "WATCHDOG_MODE">>
         /\ Stateful(ref) <=> ref = <<"park", "WATCHDOG_MODE">>
         /\ IsFolder(ref) \in BOOLEAN
         /\ Initial(ref) \in Allowed(ref) /\ Allowed(ref) \subseteq Labels
         /\ ParentOf(ref) # ref /\ ParentOf(ref) # <<"park", "DOG_POUND">>
         /\ ParentOf(ref) = <<"park", "root">> \/ ParentOf(ref) \in GlobalRefs
         /\ ParentOf(ref) \in Owners
<1>1. Allowed(ref) \subseteq Labels
  BY DEF Labels
<1>2. <<"park", "DOG_HOUSE">> \in Owners /\ <<"park", "BALL_PARK">> \in Owners /\ <<"park", "root">> \in Owners
  BY DEF Owners, GlobalRefs, HasChildren
<1>3. <<"park", "DOG_HOUSE">> \in GlobalRefs /\ <<"park", "BALL_PARK">> \in GlobalRefs
  BY DEF GlobalRefs
<1>4. IsFolder(ref) \in BOOLEAN /\ IsFolder(ref) = ~Stateful(ref)
  BY DEF IsFolder, Stateful
<1>5. CASE ref = <<"park", "WATCHDOG_MODE">>
  <2>1. Names(ref) = <<"DOG_SNOOZE", "DOG_AWAKE">> /\ ParentOf(ref) = <<"park", "DOG_HOUSE">>
    BY <1>5, ParkRefs
  <2>2. Initial(ref) \in Allowed(ref) /\ Stateful(ref)
    BY <2>1, TwoNames
  <2>3. ParentOf(ref) # ref /\ ParentOf(ref) # <<"park", "DOG_POUND">>
    BY <1>5, <2>1
  <2>. QED BY <1>1, <1>2, <1>3, <1>4, <1>5, <2>1, <2>2, <2>3
<1>6. CASE ref # <<"park", "WATCHDOG_MODE">>
  <2>1. /\ \E n : Names(ref) = <<n>>
        /\ ParentOf(ref) = <<"park", "root">> \/ ParentOf(ref) = <<"park", "BALL_PARK">>
        /\ ParentOf(ref) # ref
    <3>1. CASE \E d \in Devices : ref = <<d, "ROOT">>
      <4>1. PICK d \in Devices : ref = <<d, "ROOT">>
        BY <3>1
      <4>2. Names(ref) = <<d>> /\ ParentOf(ref) = <<"park", "BALL_PARK">>
        BY <4>1, RootRef
      <4>3. ref # <<"park", "BALL_PARK">>
        BY <4>1
      <4>. QED BY <4>2, <4>3
    <3>2. CASE ref = <<"park", "DOG_HOUSE">>
      BY <3>2, ParkRefs
    <3>3. CASE ref = <<"park", "BALL_PARK">>
      BY <3>3, ParkRefs
    <3>4. CASE ref = <<"park", "DOG_POUND">>
      BY <3>4, ParkRefs
    <3>. QED BY <1>6, <3>1, <3>2, <3>3, <3>4, RefSorts
  <2>2. PICK n : Names(ref) = <<n>>
    BY <2>1
  <2>3. Initial(ref) \in Allowed(ref) /\ ~Stateful(ref)
    BY <2>2, OneName
  <2>4. ParentOf(ref) # <<"park", "DOG_POUND">>
    BY <2>1
  <2>. QED BY <1>1, <1>2, <1>3, <1>4, <1>6, <2>1, <2>3, <2>4
<1>. QED BY <1>5, <1>6

(* References of one folder share no name.                                       *)
LEMMA NamesApart ==
  ASSUME NEW r \in Refs, NEW q \in Refs, ParentOf(r) = ParentOf(q), r # q
  PROVE  Allowed(r) \cap Allowed(q) = {}
<1>1. /\ Allowed(<<"park", "DOG_HOUSE">>) = {"DOG_HOUSE"}
      /\ Allowed(<<"park", "BALL_PARK">>) = {"BALL_PARK"}
      /\ Allowed(<<"park", "DOG_POUND">>) = {"DOG_POUND"}
  BY ParkRefs, OneName
<1>2. ASSUME NEW ref \in Refs
      PROVE  \/ /\ ref \in {<<"park", "DOG_HOUSE">>, <<"park", "BALL_PARK">>, <<"park", "DOG_POUND">>}
                /\ ParentOf(ref) = <<"park", "root">>
             \/ ref = <<"park", "WATCHDOG_MODE">> /\ ParentOf(ref) = <<"park", "DOG_HOUSE">>
             \/ \E d \in Devices : /\ ref = <<d, "ROOT">> /\ ParentOf(ref) = <<"park", "BALL_PARK">>
                                   /\ Allowed(ref) = {d}
  <2>1. CASE \E d \in Devices : ref = <<d, "ROOT">>
    <3>1. PICK d \in Devices : ref = <<d, "ROOT">>
      BY <2>1
    <3>2. Names(ref) = <<d>> /\ ParentOf(ref) = <<"park", "BALL_PARK">>
      BY <3>1, RootRef
    <3>3. Allowed(ref) = {d}
      BY <3>2, OneName
    <3>. QED BY <3>1, <3>2, <3>3
  <2>2. CASE ~\E d \in Devices : ref = <<d, "ROOT">>
    BY <1>2, <2>2, RefSorts, ParkRefs
  <2>. QED BY <2>1, <2>2
<1>3. CASE ParentOf(r) = <<"park", "root">>
  <2>1. r \in {<<"park", "DOG_HOUSE">>, <<"park", "BALL_PARK">>, <<"park", "DOG_POUND">>}
    BY <1>2, <1>3
  <2>2. ParentOf(q) = <<"park", "root">>
    BY <1>3
  <2>3. q \in {<<"park", "DOG_HOUSE">>, <<"park", "BALL_PARK">>, <<"park", "DOG_POUND">>}
    BY <1>2, <2>2
  <2>. QED BY <1>1, <2>1, <2>3
<1>4. CASE ParentOf(r) = <<"park", "DOG_HOUSE">>
  <2>1. ParentOf(q) = <<"park", "DOG_HOUSE">>
    BY <1>4
  <2>. QED BY <1>2, <1>4, <2>1
<1>5. CASE ParentOf(r) = <<"park", "BALL_PARK">>
  <2>1. PICK d \in Devices : r = <<d, "ROOT">> /\ Allowed(r) = {d}
    BY <1>2, <1>5
  <2>2. ParentOf(q) = <<"park", "BALL_PARK">>
    BY <1>5
  <2>3. PICK e \in Devices : q = <<e, "ROOT">> /\ Allowed(q) = {e}
    BY <1>2, <2>2
  <2>4. d # e
    BY <2>1, <2>3
  <2>. QED BY <2>1, <2>3, <2>4
<1>. QED BY <1>2, <1>3, <1>4, <1>5

(* The position of a reference in the audit's order is one of five.              *)
LEMMA PositionRange ==
  ASSUME NEW ref
  PROVE  Position(ref) \in 1 .. 5
<1>1. DOMAIN AuditOrder = 1 .. 4 /\ Len(AuditOrder) = 4
  BY DEF AuditOrder
<1>2. CASE ref \in ToSet(AuditOrder)
  <2>1. \E n \in DOMAIN AuditOrder : AuditOrder[n] = ref
    BY <1>2 DEF ToSet
  <2>2. Position(ref) \in DOMAIN AuditOrder
    BY <1>2, <2>1 DEF Position
  <2>. QED BY <1>1, <2>2
<1>3. CASE ref \notin ToSet(AuditOrder)
  BY <1>1, <1>3 DEF Position
<1>. QED BY <1>2, <1>3

(* Among any issues there is one to deal with first.                             *)
LEMMA FirstExists ==
  ASSUME NEW some, some # {}
  PROVE  FirstOf(some) \in some
<1>. DEFINE At(n) == \E issue \in some : Position(issue.ref) = n
<1>1. \A issue \in some : Position(issue.ref) \in 1 .. 5
  BY PositionRange
<1>2. \E n \in 1 .. 5 : At(n) /\ \A m \in 1 .. n - 1 : ~At(m)
  <2>1. At(1) \/ At(2) \/ At(3) \/ At(4) \/ At(5)
    BY <1>1
  <2>. HIDE DEF At
  <2>2. CASE At(1)
    BY <2>2
  <2>3. CASE ~At(1) /\ At(2)
    BY <2>3
  <2>4. CASE ~At(1) /\ ~At(2) /\ At(3)
    BY <2>4
  <2>5. CASE ~At(1) /\ ~At(2) /\ ~At(3) /\ At(4)
    BY <2>5
  <2>6. CASE ~At(1) /\ ~At(2) /\ ~At(3) /\ ~At(4) /\ At(5)
    BY <2>6
  <2>. QED BY <2>1, <2>2, <2>3, <2>4, <2>5, <2>6
<1>3. PICK least \in some : \A other \in some : Position(least.ref) <= Position(other.ref)
  <2>1. PICK n \in 1 .. 5 : At(n) /\ \A m \in 1 .. n - 1 : ~At(m)
    BY <1>2
  <2>2. PICK least \in some : Position(least.ref) = n
    BY <2>1
  <2>3. ASSUME NEW other \in some PROVE n <= Position(other.ref)
    BY <1>1, <2>1, <2>3
  <2>. QED BY <2>2, <2>3
<1>4. \E first \in some : \A other \in some : NoLater(first, other)
  <2>0. \A issue \in some : Position(issue.ref) \in Nat
    BY <1>1
  <2>1. CASE \E wrong \in some : wrong.ref = least.ref /\ wrong.kind = "wrong kind"
    <3>1. PICK wrong \in some : wrong.ref = least.ref /\ wrong.kind = "wrong kind"
      BY <2>1
    <3>2. ASSUME NEW other \in some PROVE NoLater(wrong, other)
      <4>1. Position(wrong.ref) = Position(least.ref)
        BY <3>1
      <4>2. Position(wrong.ref) < Position(other.ref) \/ Position(wrong.ref) = Position(other.ref)
        BY <1>3, <2>0, <4>1
      <4>. QED BY <3>1, <4>2 DEF NoLater
    <3>. QED BY <3>2
  <2>2. CASE ~\E wrong \in some : wrong.ref = least.ref /\ wrong.kind = "wrong kind"
    <3>1. ASSUME NEW other \in some PROVE NoLater(least, other)
      <4>1. Position(least.ref) < Position(other.ref) \/ Position(least.ref) = Position(other.ref)
        BY <1>3, <2>0
      <4>. QED BY <2>2, <4>1 DEF NoLater
    <3>. QED BY <3>1
  <2>. QED BY <2>1, <2>2
<1>. QED BY <1>4 DEF FirstOf

-----------------------------------------------------------------------------
(* The tree: where objects lie, exists.                                          *)
Entry == [parent : Int, name : Labels, folder : BOOLEAN]
TreeTyped ==
  /\ tree \in Seq(Entry)
  /\ \A o \in DOMAIN tree :
       \/ tree[o].parent \in {Root, Nowhere}
       \/ tree[o].parent \in DOMAIN tree /\ tree[tree[o].parent].parent # Nowhere

(* No step destroys an object or changes its kind; only people delete.           *)
Evolves ==
  /\ DOMAIN tree \subseteq DOMAIN tree'
  /\ \A o \in DOMAIN tree : tree'[o].folder = tree[o].folder
Undisturbed ==
  Evolves /\ \A o \in DOMAIN tree : tree'[o].parent = Nowhere <=> tree[o].parent = Nowhere

Moved(id, to) ==
  /\ DOMAIN tree' = DOMAIN tree
  /\ \A o \in DOMAIN tree :
       /\ tree'[o].parent = IF o = id THEN to ELSE tree[o].parent
       /\ tree'[o].name = tree[o].name /\ tree'[o].folder = tree[o].folder
Renamed(id, name) ==
  /\ DOMAIN tree' = DOMAIN tree
  /\ \A o \in DOMAIN tree :
       /\ tree'[o].name = IF o = id THEN name ELSE tree[o].name
       /\ tree'[o].parent = tree[o].parent /\ tree'[o].folder = tree[o].folder
Added(entry) ==
  /\ Len(tree') = Len(tree) + 1 /\ DOMAIN tree' = DOMAIN tree \cup {Len(tree')}
  /\ Len(tree') \notin DOMAIN tree /\ tree'[Len(tree')] = entry
  /\ \A o \in DOMAIN tree : tree'[o] = tree[o]

(* Objects are numbered from one.                                                *)
LEMMA ObjectNumbers ==
  ASSUME TreeTyped
  PROVE  /\ DOMAIN tree = 1 .. Len(tree) /\ Len(tree) \in Nat
         /\ Root \notin DOMAIN tree /\ Nowhere \notin DOMAIN tree /\ NoObject \notin DOMAIN tree
         /\ \A o \in DOMAIN tree : /\ tree[o] \in Entry /\ o \in Nat /\ o # Root /\ o # NoObject
                                   /\ tree[o].parent \in DOMAIN tree \cup {Root, Nowhere}
<1>1. DOMAIN tree = 1 .. Len(tree) /\ Len(tree) \in Nat /\ \A o \in DOMAIN tree : tree[o] \in Entry
  BY DEF TreeTyped
<1>2. \A o \in DOMAIN tree : tree[o].parent \in DOMAIN tree \cup {Root, Nowhere}
  BY DEF TreeTyped
<1>. QED BY <1>1, <1>2 DEF Root, Nowhere, NoObject

(* What exists lies in what exists.                                              *)
LEMMA LiesInWhatExists ==
  ASSUME TreeTyped, NEW o \in DOMAIN tree, Exists(o)
  PROVE  Exists(tree[o].parent)
<1>1. tree[o].parent # Nowhere
  BY ObjectNumbers DEF Exists
<1>. QED BY <1>1 DEF TreeTyped, Exists

(* A sequence of as many entries is a tree.                                      *)
LEMMA EntriesAgain ==
  ASSUME TreeTyped, NEW entries, DOMAIN entries = DOMAIN tree,
         entries = [o \in DOMAIN tree |-> entries[o]], \A o \in DOMAIN tree : entries[o] \in Entry
  PROVE  entries \in Seq(Entry)
<1>1. DOMAIN tree = 1 .. Len(tree) /\ Len(tree) \in Nat
  BY ObjectNumbers
<1>2. entries \in [1 .. Len(tree) -> Entry]
  BY <1>1
<1>. QED BY <1>1, <1>2

(* Moving an object that exists into one that exists.                            *)
LEMMA MoveKeeps ==
  ASSUME TreeTyped, NEW id, NEW to, Exists(id), Exists(to),
         tree' = [tree EXCEPT ![id].parent = to]
  PROVE  TreeTyped' /\ Undisturbed /\ Moved(id, to)
<1>0. /\ \A o \in DOMAIN tree : tree[o] \in Entry /\ tree[o].parent \in DOMAIN tree \cup {Root, Nowhere}
      /\ Root \notin DOMAIN tree /\ Nowhere \notin DOMAIN tree
  BY ObjectNumbers
<1>1. to \in DOMAIN tree \cup {Root} /\ (to # Root => tree[to].parent # Nowhere) /\ to # Nowhere /\ to \in Int
  BY ObjectNumbers DEF Exists, Root, Nowhere
<1>2. id \in DOMAIN tree => tree[id].parent # Nowhere
  BY <1>0 DEF Exists
<1>3. DOMAIN tree' = DOMAIN tree
  OBVIOUS
<1>4. ASSUME NEW o \in DOMAIN tree
      PROVE  /\ tree'[o].parent = IF o = id THEN to ELSE tree[o].parent
             /\ tree'[o].name = tree[o].name /\ tree'[o].folder = tree[o].folder
             /\ tree'[o] \in Entry
  <2>1. tree[o] \in Entry
    BY <1>0
  <2>2. CASE o = id
    <3>1. tree'[o] = [tree[o] EXCEPT !.parent = to]
      BY <2>2
    <3>. QED BY <1>1, <2>1, <2>2, <3>1 DEF Entry
  <2>3. CASE o # id
    <3>1. tree'[o] = tree[o]
      BY <2>3
    <3>. QED BY <2>1, <2>3, <3>1
  <2>. QED BY <2>2, <2>3
<1>5. Moved(id, to)
  BY <1>3, <1>4 DEF Moved
<1>6. Undisturbed
  BY <1>1, <1>2, <1>3, <1>4 DEF Undisturbed, Evolves
<1>7. tree' \in Seq(Entry)
  BY <1>3, <1>4, EntriesAgain
<1>8. ASSUME NEW o \in DOMAIN tree'
      PROVE  \/ tree'[o].parent \in {Root, Nowhere}
             \/ tree'[o].parent \in DOMAIN tree' /\ tree'[tree'[o].parent].parent # Nowhere
  <2>1. tree'[o].parent \in {Root, Nowhere} \/ (tree'[o].parent \in DOMAIN tree /\ tree[tree'[o].parent].parent # Nowhere)
    BY <1>1, <1>3, <1>4 DEF TreeTyped
  <2>. QED BY <1>6, <1>3, <2>1 DEF Undisturbed
<1>. QED BY <1>5, <1>6, <1>7, <1>8 DEF TreeTyped

(* Renaming an object.                                                           *)
LEMMA RenameKeeps ==
  ASSUME TreeTyped, NEW id, NEW name \in Labels, tree' = [tree EXCEPT ![id].name = name]
  PROVE  TreeTyped' /\ Undisturbed /\ Renamed(id, name)
<1>0. \A o \in DOMAIN tree : tree[o] \in Entry
  BY ObjectNumbers
<1>3. DOMAIN tree' = DOMAIN tree
  OBVIOUS
<1>4. ASSUME NEW o \in DOMAIN tree
      PROVE  /\ tree'[o].name = IF o = id THEN name ELSE tree[o].name
             /\ tree'[o].parent = tree[o].parent /\ tree'[o].folder = tree[o].folder
             /\ tree'[o] \in Entry
  <2>1. tree[o] \in Entry
    BY <1>0
  <2>2. CASE o = id
    <3>1. tree'[o] = [tree[o] EXCEPT !.name = name]
      BY <2>2
    <3>. QED BY <2>1, <2>2, <3>1 DEF Entry
  <2>3. CASE o # id
    <3>1. tree'[o] = tree[o]
      BY <2>3
    <3>. QED BY <2>1, <2>3, <3>1
  <2>. QED BY <2>2, <2>3
<1>5. Renamed(id, name)
  BY <1>3, <1>4 DEF Renamed
<1>6. Undisturbed
  BY <1>3, <1>4 DEF Undisturbed, Evolves
<1>7. tree' \in Seq(Entry)
  BY <1>3, <1>4, EntriesAgain
<1>8. ASSUME NEW o \in DOMAIN tree'
      PROVE  \/ tree'[o].parent \in {Root, Nowhere}
             \/ tree'[o].parent \in DOMAIN tree' /\ tree'[tree'[o].parent].parent # Nowhere
  <2>1. tree'[o].parent \in {Root, Nowhere} \/ (tree'[o].parent \in DOMAIN tree /\ tree[tree'[o].parent].parent # Nowhere)
    BY <1>3, <1>4 DEF TreeTyped
  <2>. QED BY <1>6, <1>3, <2>1 DEF Undisturbed
<1>. QED BY <1>5, <1>6, <1>7, <1>8 DEF TreeTyped

(* Creating an object in one that exists.                                        *)
LEMMA AddKeeps ==
  ASSUME TreeTyped, NEW entry \in Entry, Exists(entry.parent), tree' = Append(tree, entry)
  PROVE  TreeTyped' /\ Undisturbed /\ Added(entry)
<1>0. /\ DOMAIN tree = 1 .. Len(tree) /\ Len(tree) \in Nat
      /\ \A o \in DOMAIN tree : tree[o] \in Entry
  BY ObjectNumbers
<1>1. tree \in Seq(Entry)
  BY DEF TreeTyped
<1>2. /\ Len(tree') = Len(tree) + 1 /\ DOMAIN tree' = 1 .. Len(tree) + 1
      /\ tree'[Len(tree) + 1] = entry /\ tree' \in Seq(Entry)
      /\ \A o \in 1 .. Len(tree) : tree'[o] = tree[o]
  BY <1>0, <1>1
<1>3. Added(entry)
  <2>1. DOMAIN tree' = DOMAIN tree \cup {Len(tree) + 1} /\ Len(tree) + 1 \notin DOMAIN tree
    BY <1>0, <1>2
  <2>. QED BY <1>0, <1>2, <2>1 DEF Added
<1>4. Undisturbed
  BY <1>3 DEF Added, Undisturbed, Evolves
<1>5. entry.parent = Root \/ (entry.parent \in DOMAIN tree /\ tree[entry.parent].parent # Nowhere)
  BY DEF Exists
<1>6. ASSUME NEW o \in DOMAIN tree'
      PROVE  \/ tree'[o].parent \in {Root, Nowhere}
             \/ tree'[o].parent \in DOMAIN tree' /\ tree'[tree'[o].parent].parent # Nowhere
  <2>1. tree'[o].parent \in {Root, Nowhere} \/ (tree'[o].parent \in DOMAIN tree /\ tree[tree'[o].parent].parent # Nowhere)
    BY <1>3, <1>5 DEF TreeTyped, Added
  <2>. QED BY <1>4, <2>1 DEF Undisturbed, Evolves
<1>. QED BY <1>2, <1>3, <1>4, <1>6 DEF TreeTyped

(* Deleting an object with all that lies in it.                                  *)
LEMMA DeleteKeeps ==
  ASSUME TreeTyped, NEW id \in DOMAIN tree,
         tree' = [o \in DOMAIN tree |->
                    IF o \in Below(id) THEN [tree[o] EXCEPT !.parent = Nowhere] ELSE tree[o]]
  PROVE  TreeTyped' /\ Evolves
<1>0. /\ \A o \in DOMAIN tree : tree[o] \in Entry
      /\ Root \notin DOMAIN tree /\ Nowhere \in Int
  BY ObjectNumbers DEF Nowhere
<1>3. DOMAIN tree' = DOMAIN tree
  OBVIOUS
<1>4. ASSUME NEW o \in DOMAIN tree
      PROVE  /\ tree'[o].parent = IF o \in Below(id) THEN Nowhere ELSE tree[o].parent
             /\ tree'[o].folder = tree[o].folder
             /\ tree'[o] \in Entry
  <2>1. tree[o] \in Entry
    BY <1>0
  <2>2. CASE o \in Below(id)
    <3>1. tree'[o] = [tree[o] EXCEPT !.parent = Nowhere]
      BY <2>2
    <3>. QED BY <1>0, <2>1, <2>2, <3>1 DEF Entry
  <2>3. CASE o \notin Below(id)
    <3>1. tree'[o] = tree[o]
      BY <2>3
    <3>. QED BY <2>1, <2>3, <3>1
  <2>. QED BY <2>2, <2>3
<1>5. ASSUME NEW o \in DOMAIN tree, tree[o].parent \in Below(id) PROVE o \in Below(id)
  BY <1>5 DEF Below
<1>7. tree' \in Seq(Entry)
  BY <1>3, <1>4, EntriesAgain
<1>8. ASSUME NEW o \in DOMAIN tree'
      PROVE  \/ tree'[o].parent \in {Root, Nowhere}
             \/ tree'[o].parent \in DOMAIN tree' /\ tree'[tree'[o].parent].parent # Nowhere
  <2>1. CASE o \in Below(id)
    BY <1>3, <1>4, <2>1
  <2>2. CASE o \notin Below(id)
    <3>1. tree'[o].parent = tree[o].parent
      BY <1>3, <1>4, <2>2
    <3>2. CASE tree[o].parent \notin {Root, Nowhere}
      <4>1. tree[o].parent \in DOMAIN tree /\ tree[tree[o].parent].parent # Nowhere /\ tree[o].parent \notin Below(id)
        BY <1>3, <1>5, <2>2, <3>2 DEF TreeTyped
      <4>. QED BY <1>3, <1>4, <3>1, <4>1
    <3>. QED BY <3>1, <3>2
  <2>. QED BY <2>1, <2>2
<1>9. Evolves
  BY <1>3, <1>4 DEF Evolves
<1>. QED BY <1>7, <1>8, <1>9 DEF TreeTyped

(* What nobody disturbs exists as before.                                        *)
LEMMA ExistsStays ==
  ASSUME Undisturbed, NEW o \in DOMAIN tree \cup {Root}
  PROVE  Exists(o)' <=> Exists(o)
BY DEF Undisturbed, Evolves, Exists

-----------------------------------------------------------------------------
(* The invariant.  A map names objects of the right kind, no object twice, and   *)
(* every reference of the park.                                                  *)
NamesObjects(map) ==
  /\ DOMAIN map \subseteq Refs
  /\ \A ref \in DOMAIN map : map[ref] \in DOMAIN tree /\ tree[map[ref]].folder = IsFolder(ref)
Whole(map) ==
  /\ NamesObjects(map) /\ GlobalRefs \subseteq DOMAIN map
  /\ \A r, q \in DOMAIN map : map[r] = map[q] => r = q
MapTyped == parkMap = EmptyMap \/ Whole(parkMap)

(* What each procedure holds.  Bootstrap has laid the first n references and all  *)
(* of them are in place.                                                         *)
Laid(n) == {GlobalOrder[m] : m \in 1 .. n}
InPlace(map) == \A ref \in DOMAIN map : Healthy(map, ref)
Idle == stage = "audit" /\ inHand = NoObject
Resting == Idle /\ held = EmptyMap /\ todo = <<>>
Laying ==
  /\ Idle /\ NamesObjects(held) /\ InPlace(held)
  /\ \E n \in 0 .. 4 : todo = SubSeq(GlobalOrder, n + 1, 4) /\ DOMAIN held = Laid(n)

(* Repair holds the map of the file; what it has in hand the map does not name.   *)
InPass ==
  /\ held = parkMap /\ Whole(parkMap) /\ todo = <<>>
  /\ stage \in {"audit", "quarantine", "restore", "replace", "name"}
  /\ \/ inHand = NoObject /\ stage # "name"
     \/ /\ stage \in {"replace", "name"}
        /\ inHand \in DOMAIN tree /\ \A ref \in DOMAIN parkMap : parkMap[ref] # inHand

(* Registration holds that map, or one with one more device's folder.             *)
NewFolder(device, id) ==
  /\ id \in DOMAIN tree /\ tree[id].folder /\ held = Remember(parkMap, <<device, "ROOT">>, id)
  /\ steady => Fits(id, <<device, "ROOT">>, parkMap[<<"park", "BALL_PARK">>])
Registering ==
  /\ Whole(parkMap) /\ inHand = NoObject
  /\ \/ stage = "audit" /\ held = parkMap /\ todo = <<>>
     \/ stage = "register" /\ \E device \in Devices \ Registered(parkMap) :
          \/ held = parkMap /\ todo = <<<<device, "ROOT">>>>
          \/ todo = <<>> /\ \E id : NewFolder(device, id)
Serving == Idle /\ held = parkMap /\ Whole(parkMap) /\ todo = <<>> /\ Registered(parkMap) = Devices

Phase ==
  \/ task = "rest" /\ Resting
  \/ task = "bootstrap" /\ Laying
  \/ task = "repair" /\ InPass
  \/ task = "register" /\ Registering
  \/ task = "serve" /\ Serving

(* From a clean audit on everything is in place until somebody disturbs it.       *)
AllInPlace == task \in {"register", "serve"} /\ steady => InPlace(parkMap)

(* The issues a pass works off are of the map it holds, one for each reference to *)
(* replace; before it replaces any, of the folders the map names.                 *)
Mending == task = "repair" /\ stage \in {"quarantine", "restore", "replace", "name"}
OfMap(issue) == issue.ref \in DOMAIN parkMap /\ issue.id = parkMap[issue.ref]
AsNamed(issue) == issue.parent = IdOf(parkMap, ParentOf(issue.ref))
Listed ==
  Mending =>
    /\ \A issue \in Unfit :
         /\ OfMap(issue) /\ issue.kind \in {"missing", "bad name"}
         /\ issue.parent \in DOMAIN tree \cup {Root} /\ issue.candidates \subseteq DOMAIN tree
         /\ \A other \in Unfit : other.ref = issue.ref => other = issue
    /\ stage \in {"quarantine", "restore"} => \A issue \in Strays : OfMap(issue) /\ AsNamed(issue)

(* A created object is of its reference's kind, and in place unless disturbed.    *)
Created ==
  task = "repair" /\ stage = "name" =>
    /\ Unfit # {} /\ tree[inHand].folder = IsFolder(First.ref)
    /\ steady => Fits(inHand, First.ref, First.parent)

StartupInv == TreeTyped /\ MapTyped /\ Phase /\ AllInPlace /\ Listed /\ Created

-----------------------------------------------------------------------------
(* What the invariant says where it is used.                                      *)

(* A map that is not empty is whole.                                             *)
LEMMA EmptyIsNotWhole == ~Whole(EmptyMap)
<1>1. DOMAIN EmptyMap = {} /\ GlobalRefs # {}
  BY DEF EmptyMap, GlobalRefs
<1>. QED BY <1>1 DEF Whole

(* A procedure is in its own phase.                                              *)
LEMMA PhaseOf ==
  ASSUME Phase
  PROVE  /\ task \in {"rest", "bootstrap", "repair", "register", "serve"}
         /\ task = "rest" => Resting
         /\ task = "bootstrap" => Laying
         /\ task = "repair" => InPass
         /\ task = "register" => Registering
         /\ task = "serve" => Serving
BY DEF Phase

(* The first of what is to be replaced is one of the map's references.           *)
LEMMA FirstIsListed ==
  ASSUME StartupInv, Mending, Unfit # {}
  PROVE  /\ First \in Unfit /\ OfMap(First) /\ First.ref \in Refs
         /\ First.kind \in {"missing", "bad name"}
         /\ First.parent \in DOMAIN tree \cup {Root} /\ First.candidates \subseteq DOMAIN tree
         /\ \A other \in Unfit : other.ref = First.ref => other = First
<1>1. First \in Unfit
  BY FirstExists DEF First
<1>2. Whole(parkMap)
  BY PhaseOf DEF StartupInv, Mending, InPass
<1>. QED BY <1>1, <1>2 DEF StartupInv, Listed, OfMap, Whole, NamesObjects

(* A map's objects are objects, its folders' ids too.                            *)
LEMMA WholeMap ==
  ASSUME TreeTyped, Whole(parkMap), NEW ref \in DOMAIN parkMap
  PROVE  /\ ref \in Refs /\ parkMap[ref] \in DOMAIN tree /\ parkMap[ref] # Root /\ parkMap[ref] # NoObject
         /\ IdOf(parkMap, ParentOf(ref)) \in DOMAIN tree \cup {Root}
         /\ ParentOf(ref) = <<"park", "root">> \/ ParentOf(ref) \in DOMAIN parkMap
<1>1. ref \in Refs /\ parkMap[ref] \in DOMAIN tree
  BY DEF Whole, NamesObjects
<1>2. ParentOf(ref) = <<"park", "root">> \/ ParentOf(ref) \in DOMAIN parkMap
  BY <1>1, RefFacts DEF Whole
<1>3. IdOf(parkMap, ParentOf(ref)) \in DOMAIN tree \cup {Root}
  BY <1>2 DEF IdOf, Whole, NamesObjects
<1>. QED BY <1>1, <1>2, <1>3, ObjectNumbers

(* The order in which bootstrap lays the park: a folder before what lies in it.   *)
LEMMA LayOrder ==
  ASSUME NEW n \in 0 .. 3
  PROVE  LET ref == GlobalOrder[n + 1]
         IN /\ SubSeq(GlobalOrder, n + 1, 4) # <<>>
            /\ Head(SubSeq(GlobalOrder, n + 1, 4)) = ref
            /\ Tail(SubSeq(GlobalOrder, n + 1, 4)) = SubSeq(GlobalOrder, n + 2, 4)
            /\ ref \in GlobalRefs /\ ref \notin Laid(n) /\ Laid(n + 1) = Laid(n) \cup {ref}
            /\ ParentOf(ref) = <<"park", "root">> \/ ParentOf(ref) \in Laid(n)
<1>1. GlobalOrder = <<<<"park", "DOG_HOUSE">>, <<"park", "WATCHDOG_MODE">>,
                      <<"park", "BALL_PARK">>, <<"park", "DOG_POUND">>>>
  BY DEF GlobalOrder
<1>2. /\ GlobalOrder[1] = <<"park", "DOG_HOUSE">> /\ GlobalOrder[2] = <<"park", "WATCHDOG_MODE">>
      /\ GlobalOrder[3] = <<"park", "BALL_PARK">> /\ GlobalOrder[4] = <<"park", "DOG_POUND">>
      /\ Len(GlobalOrder) = 4 /\ GlobalOrder \in Seq(GlobalRefs)
  BY <1>1 DEF GlobalRefs
<1>3. n + 1 \in 1 .. Len(GlobalOrder) /\ 4 \in n + 1 .. Len(GlobalOrder) /\ (n + 1) + 1 = n + 2
  BY <1>2
<1>4. /\ Head(SubSeq(GlobalOrder, n + 1, 4)) = GlobalOrder[n + 1]
      /\ Tail(SubSeq(GlobalOrder, n + 1, 4)) = SubSeq(GlobalOrder, n + 2, 4)
  BY <1>2, <1>3, HeadTailOfSubSeq
<1>10. /\ n = 0 => GlobalOrder[n + 1] = <<"park", "DOG_HOUSE">>
       /\ n = 1 => GlobalOrder[n + 1] = <<"park", "WATCHDOG_MODE">>
       /\ n = 2 => GlobalOrder[n + 1] = <<"park", "BALL_PARK">>
       /\ n = 3 => GlobalOrder[n + 1] = <<"park", "DOG_POUND">>
       /\ n = 0 \/ n = 1 \/ n = 2 \/ n = 3
  <2>1. n = 0 => GlobalOrder[n + 1] = GlobalOrder[1]
    OBVIOUS
  <2>2. n = 1 => GlobalOrder[n + 1] = GlobalOrder[2]
    OBVIOUS
  <2>3. n = 2 => GlobalOrder[n + 1] = GlobalOrder[3]
    OBVIOUS
  <2>4. n = 3 => GlobalOrder[n + 1] = GlobalOrder[4]
    OBVIOUS
  <2>. QED BY <1>2, <2>1, <2>2, <2>3, <2>4
<1>5. GlobalOrder[n + 1] \in GlobalRefs
  BY <1>10 DEF GlobalRefs
<1>9. SubSeq(GlobalOrder, n + 1, 4) # <<>>
  <2>1. \A i \in n + 1 .. 4 : GlobalOrder[i] \in GlobalRefs
    <3>1. \A i \in 1 .. Len(GlobalOrder) : GlobalOrder[i] \in GlobalRefs
      BY <1>2, ElementOfSeq
    <3>. QED BY <1>2, <3>1
  <2>2. Len(SubSeq(GlobalOrder, n + 1, 4)) = 4 - n
    BY <1>2, <2>1, SubSeqProperties
  <2>3. 4 - n # 0 /\ Len(<< >>) = 0
    OBVIOUS
  <2>. QED BY <2>2, <2>3
<1>6. GlobalOrder[n + 1] \notin Laid(n)
  BY <1>2 DEF Laid
<1>7. Laid(n + 1) = Laid(n) \cup {GlobalOrder[n + 1]}
  BY DEF Laid
<1>8. ParentOf(GlobalOrder[n + 1]) = <<"park", "root">> \/ ParentOf(GlobalOrder[n + 1]) \in Laid(n)
  <2>1. CASE n = 1
    <3>1. GlobalOrder[n + 1] = <<"park", "WATCHDOG_MODE">>
      BY <1>10, <2>1
    <3>2. ParentOf(GlobalOrder[n + 1]) = GlobalOrder[1]
      BY <1>2, <3>1, ParkRefs
    <3>. QED BY <2>1, <3>2 DEF Laid
  <2>2. CASE n \in {0, 2, 3}
    <3>1. GlobalOrder[n + 1] \in {<<"park", "DOG_HOUSE">>, <<"park", "BALL_PARK">>, <<"park", "DOG_POUND">>}
      BY <1>10, <2>2
    <3>. QED BY <3>1, ParkRefs
  <2>. QED BY <2>1, <2>2
<1>. QED BY <1>9, <1>4, <1>5, <1>6, <1>7, <1>8

(* At the end all of the park is laid.                                            *)
LEMMA LaidAll == Laid(0) = {} /\ Laid(4) = GlobalRefs /\ SubSeq(GlobalOrder, 5, 4) = <<>>
                 /\ SubSeq(GlobalOrder, 1, 4) = GlobalOrder
<1>1. /\ GlobalOrder[1] = <<"park", "DOG_HOUSE">> /\ GlobalOrder[2] = <<"park", "WATCHDOG_MODE">>
      /\ GlobalOrder[3] = <<"park", "BALL_PARK">> /\ GlobalOrder[4] = <<"park", "DOG_POUND">>
      /\ Len(GlobalOrder) = 4 /\ GlobalOrder \in Seq(GlobalRefs)
  BY DEF GlobalOrder, GlobalRefs
<1>2. Laid(4) = {GlobalOrder[1], GlobalOrder[2], GlobalOrder[3], GlobalOrder[4]}
  BY DEF Laid
<1>3. Laid(4) = GlobalRefs
  BY <1>1, <1>2 DEF GlobalRefs
<1>4. Laid(0) = {}
  BY DEF Laid
<1>5. SubSeq(GlobalOrder, 5, 4) = <<>> /\ SubSeq(GlobalOrder, 1, 4) = GlobalOrder
  BY <1>1
<1>. QED BY <1>3, <1>4, <1>5

-----------------------------------------------------------------------------
(* What each kind of step does to the tree.                                      *)

(* An object as it is created.                                                   *)
LEMMA NewObject ==
  ASSUME TreeTyped, NEW parent, Exists(parent), NEW ref \in Refs
  PROVE  /\ New(parent, ref) \in Entry /\ New(parent, ref).parent = parent
         /\ New(parent, ref).name = Initial(ref) /\ New(parent, ref).folder = IsFolder(ref)
<1>1. parent \in Int
  BY ObjectNumbers DEF Exists, Root
<1>2. Initial(ref) \in Labels /\ IsFolder(ref) \in BOOLEAN
  BY RefFacts
<1>. QED BY <1>1, <1>2 DEF New, Entry

(* What exists is an object or the root; its id says nothing else.               *)
LEMMA WhatExists ==
  ASSUME TreeTyped, NEW id, Exists(id)
  PROVE  id \in DOMAIN tree \cup {Root} /\ id # Nowhere
BY ObjectNumbers DEF Exists, Root, Nowhere

(* A reference that is laid or taken over is in its folder, of its kind and name. *)
LEMMA EnsureLays ==
  ASSUME TreeTyped, EnsureChild, Head(todo) \in Refs
  PROVE  /\ TreeTyped' /\ Undisturbed /\ \A o \in DOMAIN tree : tree'[o] = tree[o]
         /\ \E id \in DOMAIN tree' :
              /\ held' = Remember(held, Head(todo), id)
              /\ tree'[id].parent = HomeOf(Head(todo)) /\ tree'[id].parent # Nowhere
              /\ tree'[id].folder = IsFolder(Head(todo)) /\ tree'[id].name = Initial(Head(todo))
<1>. DEFINE ref == Head(todo)
<1>1. /\ Exists(HomeOf(ref)) /\ ref \in Refs
      /\ \/ \E match \in Reuse(ref) :
              tree[match].folder = IsFolder(ref) /\ held' = Remember(held, ref, match) /\ tree' = tree
         \/ tree' = Append(tree, New(HomeOf(ref), ref)) /\ held' = Remember(held, ref, Len(tree'))
  BY DEF EnsureChild
<1>. HIDE DEF ref
<1>2. HomeOf(ref) # Nowhere
  BY <1>1, WhatExists
<1>3. CASE \E match \in Reuse(ref) :
             tree[match].folder = IsFolder(ref) /\ held' = Remember(held, ref, match) /\ tree' = tree
  <2>1. PICK match \in Reuse(ref) :
             tree[match].folder = IsFolder(ref) /\ held' = Remember(held, ref, match) /\ tree' = tree
    BY <1>3
  <2>2. match \in DOMAIN tree /\ tree[match].parent = HomeOf(ref) /\ tree[match].name = Initial(ref)
    BY DEF Reuse, Named, Children
  <2>3. TreeTyped' /\ Undisturbed
    BY <2>1 DEF TreeTyped, Undisturbed, Evolves
  <2>4. match \in DOMAIN tree'
    BY <2>1, <2>2
  <2>. QED BY <1>2, <2>1, <2>2, <2>3, <2>4 DEF ref
<1>4. CASE tree' = Append(tree, New(HomeOf(ref), ref)) /\ held' = Remember(held, ref, Len(tree'))
  <2>. DEFINE entry == New(HomeOf(ref), ref)
  <2>1. /\ entry \in Entry /\ entry.parent = HomeOf(ref)
        /\ entry.name = Initial(ref) /\ entry.folder = IsFolder(ref)
    BY <1>1, NewObject
  <2>2. Exists(entry.parent) /\ tree' = Append(tree, entry)
    BY <1>1, <1>4, <2>1
  <2>. HIDE DEF entry
  <2>3. TreeTyped' /\ Undisturbed /\ Added(entry)
    BY <2>1, <2>2, AddKeeps
  <2>4. Len(tree') \in DOMAIN tree' /\ tree'[Len(tree')] = entry /\ \A o \in DOMAIN tree : tree'[o] = tree[o]
    BY <2>3 DEF Added
  <2>. QED BY <1>2, <1>4, <2>1, <2>3, <2>4 DEF ref
<1>. QED BY <1>1, <1>3, <1>4

(* Putting an object away.                                                       *)
LEMMA QuarantineMoves ==
  ASSUME TreeTyped, NEW id, Exists(id), Quarantine(id)
  PROVE  TreeTyped' /\ Undisturbed /\ Moved(id, Pound)
BY MoveKeeps DEF Quarantine

(* A role's move renames a file that is in place to another of its names.         *)
LEMMA RoleRenames ==
  ASSUME TreeTyped, MapTyped, StateMoves
  PROVE  /\ TreeTyped' /\ Undisturbed /\ parkMap' = parkMap
         /\ \E ref \in DOMAIN parkMap : \E name \in Allowed(ref) :
              ref \in Refs /\ Stateful(ref) /\ Healthy(parkMap, ref) /\ Renamed(parkMap[ref], name)
<1>1. PICK ref \in DOMAIN parkMap :
        /\ Stateful(ref) /\ Healthy(parkMap, ref)
        /\ \E name \in Allowed(ref) : tree' = [tree EXCEPT ![parkMap[ref]].name = name]
        /\ UNCHANGED parkMap
  BY DEF StateMoves
<1>2. PICK name \in Allowed(ref) : tree' = [tree EXCEPT ![parkMap[ref]].name = name]
  BY <1>1
<1>3. ref \in Refs
  BY <1>1 DEF MapTyped, Whole, NamesObjects, EmptyMap
<1>4. name \in Labels
  BY <1>3, RefFacts
<1>. DEFINE id == parkMap[ref]
<1>5. tree' = [tree EXCEPT ![id].name = name]
  BY <1>2
<1>. HIDE DEF id
<1>6. TreeTyped' /\ Undisturbed /\ Renamed(id, name)
  BY <1>4, <1>5, RenameKeeps
<1>. QED BY <1>1, <1>3, <1>6 DEF id

(* Whatever people do, the tree stays one.                                        *)
LEMMA PeopleKeep ==
  ASSUME TreeTyped, Drift
  PROVE  TreeTyped' /\ Evolves
<1>1. CASE \E id \in DOMAIN tree : tree' = [o \in DOMAIN tree |->
             IF o \in Below(id) THEN [tree[o] EXCEPT !.parent = Nowhere] ELSE tree[o]]
  BY <1>1, DeleteKeeps
<1>2. CASE \E id \in DOMAIN tree, to \in {Root} \cup DOMAIN tree :
             Exists(id) /\ Exists(to) /\ tree' = [tree EXCEPT ![id].parent = to]
  BY <1>2, MoveKeeps DEF Undisturbed
<1>3. CASE \E id \in DOMAIN tree : tree' = [tree EXCEPT ![id].name = Foreign]
  <2>1. Foreign \in Labels
    BY DEF Labels
  <2>. QED BY <1>3, <2>1, RenameKeeps DEF Undisturbed
<1>4. CASE \E copy \in Copies :
             /\ Exists(copy.parent)
             /\ \/ tree' = Append(tree, copy)
                \/ tree' = Append(tree, [copy EXCEPT !.folder = ~copy.folder])
                \/ tree' = Append(tree, [copy EXCEPT !.name = Foreign])
  <2>1. PICK copy \in Copies :
             /\ Exists(copy.parent)
             /\ \/ tree' = Append(tree, copy)
                \/ tree' = Append(tree, [copy EXCEPT !.folder = ~copy.folder])
                \/ tree' = Append(tree, [copy EXCEPT !.name = Foreign])
    BY <1>4
  <2>2. PICK ref \in Refs : copy = New(IdOf(parkMap, ParentOf(ref)), ref)
    BY DEF Copies, Refs
  <2>3. copy.parent = IdOf(parkMap, ParentOf(ref))
    BY <2>2 DEF New
  <2>4. copy \in Entry
    BY <2>1, <2>2, <2>3, NewObject
  <2>5. Foreign \in Labels
    BY DEF Labels
  <2>6. ASSUME NEW entry \in {copy, [copy EXCEPT !.folder = ~copy.folder], [copy EXCEPT !.name = Foreign]}
        PROVE  entry \in Entry /\ entry.parent = copy.parent
    BY <2>4, <2>5, <2>6 DEF Entry
  <2>7. PICK entry \in {copy, [copy EXCEPT !.folder = ~copy.folder], [copy EXCEPT !.name = Foreign]} :
          tree' = Append(tree, entry)
    BY <2>1
  <2>. QED BY <2>1, <2>6, <2>7, AddKeeps DEF Undisturbed
<1>. QED BY <1>1, <1>2, <1>3, <1>4 DEF Drift

(* The next reference to ensure is one of the blueprint's.                       *)
LEMMA NextToLay ==
  ASSUME StartupInv, Ensuring
  PROVE  /\ Head(todo) \in Refs
         /\ task = "bootstrap" => \E n \in 0 .. 3 :
              /\ todo = SubSeq(GlobalOrder, n + 1, 4) /\ DOMAIN held = Laid(n)
              /\ Head(todo) = GlobalOrder[n + 1] /\ Tail(todo) = SubSeq(GlobalOrder, n + 2, 4)
         /\ task = "register" => \E device \in Devices \ Registered(parkMap) :
              /\ stage = "register" /\ held = parkMap
              /\ Head(todo) = <<device, "ROOT">> /\ Tail(todo) = <<>>
<1>0. Phase /\ todo # <<>> /\ task \in {"bootstrap", "register"}
  BY DEF StartupInv, Ensuring
<1>1. CASE task = "bootstrap"
  <2>1. PICK n \in 0 .. 4 : todo = SubSeq(GlobalOrder, n + 1, 4) /\ DOMAIN held = Laid(n)
    BY <1>0, <1>1, PhaseOf DEF Laying
  <2>2. n # 4
    BY <1>0, <2>1, LaidAll
  <2>3. n \in 0 .. 3
    BY <2>2
  <2>4. /\ Head(todo) = GlobalOrder[n + 1] /\ Tail(todo) = SubSeq(GlobalOrder, n + 2, 4)
        /\ GlobalOrder[n + 1] \in GlobalRefs
    BY <2>1, <2>3, LayOrder
  <2>. QED BY <1>1, <2>1, <2>3, <2>4 DEF Refs
<1>2. CASE task = "register"
  <2>1. PICK device \in Devices \ Registered(parkMap) :
          stage = "register" /\ held = parkMap /\ todo = <<<<device, "ROOT">>>>
    BY <1>0, <1>2, PhaseOf DEF Registering
  <2>2. Head(todo) = <<device, "ROOT">> /\ Tail(todo) = <<>>
    BY <2>1
  <2>. QED BY <1>2, <2>1, <2>2 DEF Refs, DeviceRefs
<1>. QED BY <1>0, <1>1, <1>2

(* The steps that move, rename or create nothing.                                *)
Looks == Audit \/ AuditIsClean \/ AuditBlocks \/ QuarantineDone \/ QuarantineFails \/ RestoreFails
           \/ RestoreDone \/ ReplaceBlocks \/ PassDone
Remaps == Adopt \/ NameCreated
Steps == Bootstrap \/ EnsureFails \/ Register \/ RegistrationConflict \/ Start \/ Serve \/ Restart \/ Stop

(* The readers, the starts, the refusals and a death leave tree and map        *)
(* alone.                                                                      *)
LEMMA StillSteps ==
  ASSUME Looks \/ Steps
  PROVE  tree' = tree /\ parkMap' = parkMap
BY DEF Looks, Steps, Audit, AuditIsClean, AuditBlocks, QuarantineDone, QuarantineFails, RestoreFails,
       RestoreDone, ReplaceBlocks, PassDone, Bootstrap, EnsureFails, Register, RegistrationConflict,
       Start, Serve, Restart, Stop, Raise, ComesToRest, AtRest, treeVars

(* Every step is one of these.                                                   *)
LEMMA StepSorts ==
  ASSUME [StartupNext]_startupVars
  PROVE  \/ UNCHANGED startupVars \/ Looks \/ Steps \/ Remaps \/ WriteFirstMap \/ PersistRegistration
         \/ EnsureChild \/ QuarantineExtra \/ RestoreOne \/ RenameBack \/ Recreate \/ PutAway
         \/ People \/ Roles
BY DEF StartupNext, RepairStep, SetupStep, ServiceStep, Disturbance, Looks, Steps, Remaps

(* The repair's moves of objects, one by one.                                    *)
LEMMA ExtraMoves ==
  ASSUME TreeTyped, QuarantineExtra
  PROVE  /\ TreeTyped' /\ Undisturbed /\ parkMap' = parkMap
         /\ \E id \in Extras : ~Away(id) /\ Moved(id, Pound)
<1>1. PICK id \in Extras : ~Away(id) /\ Quarantine(id)
  BY DEF QuarantineExtra
<1>2. Exists(id)
  BY <1>1 DEF Away
<1>3. TreeTyped' /\ Undisturbed /\ Moved(id, Pound)
  BY <1>1, <1>2, QuarantineMoves
<1>. QED BY <1>1, <1>3 DEF QuarantineExtra

(* A stray is moved home, and its issue is done with.                          *)
LEMMA StrayMoves ==
  ASSUME TreeTyped, RestoreOne
  PROVE  /\ TreeTyped' /\ Undisturbed /\ parkMap' = parkMap
         /\ \E issue \in Strays : Moved(issue.id, issue.parent) /\ issues' = issues \ {issue}
<1>. DEFINE issue == FirstOf(Strays)
<1>1. issue \in Strays
  BY FirstExists DEF RestoreOne
<1>2. MayRestore(issue) /\ tree' = [tree EXCEPT ![issue.id].parent = issue.parent] /\ issues' = issues \ {issue}
  BY DEF RestoreOne
<1>. HIDE DEF issue
<1>. DEFINE id == issue.id  to == issue.parent
<1>3. Exists(id) /\ Exists(to) /\ tree' = [tree EXCEPT ![id].parent = to]
  BY <1>2 DEF MayRestore
<1>. HIDE DEF id, to
<1>4. TreeTyped' /\ Undisturbed /\ Moved(id, to)
  BY <1>3, MoveKeeps
<1>5. Moved(issue.id, issue.parent)
  BY <1>4 DEF id, to
<1>. QED BY <1>1, <1>2, <1>4, <1>5 DEF RestoreOne

(* What a replacement displaced goes to the pound, or is gone already.         *)
LEMMA DisplacedMoves ==
  ASSUME TreeTyped, PutAway
  PROVE  /\ TreeTyped' /\ Undisturbed /\ parkMap' = parkMap
         /\ tree' = tree \/ Moved(inHand, Pound)
<1>1. CASE tree' = tree
  BY <1>1 DEF PutAway, TreeTyped, Undisturbed, Evolves
<1>2. CASE ~Away(inHand) /\ Quarantine(inHand)
  <2>. DEFINE id == inHand
  <2>1. Exists(id) /\ Quarantine(id)
    BY <1>2 DEF Away
  <2>. HIDE DEF id
  <2>2. TreeTyped' /\ Undisturbed /\ Moved(id, Pound)
    BY <2>1, QuarantineMoves
  <2>. QED BY <2>2 DEF id, PutAway
<1>. QED BY <1>1, <1>2 DEF PutAway

(* A bad name is made the initial one, and its issue is done with.             *)
LEMMA NameComesBack ==
  ASSUME StartupInv, RenameBack
  PROVE  /\ TreeTyped' /\ Undisturbed /\ parkMap' = parkMap /\ Mending /\ Unfit # {}
         /\ Renamed(First.id, Initial(First.ref)) /\ issues' = issues \ {First}
<1>1. Mending /\ Unfit # {}
  BY DEF RenameBack, Replacing, Repairing, Mending
<1>. DEFINE id == First.id  name == Initial(First.ref)
<1>2. name \in Labels
  BY <1>1, FirstIsListed, RefFacts
<1>3. tree' = [tree EXCEPT ![id].name = name]
  BY DEF RenameBack
<1>. HIDE DEF id, name
<1>4. TreeTyped' /\ Undisturbed /\ Renamed(id, name)
  BY <1>2, <1>3, RenameKeeps DEF StartupInv
<1>. QED BY <1>1, <1>4 DEF id, name, RenameBack

(* A missing object is created in the folder the audit gave, and is in hand.   *)
LEMMA ObjectIsCreated ==
  ASSUME StartupInv, Recreate
  PROVE  /\ TreeTyped' /\ Undisturbed /\ parkMap' = parkMap /\ Mending /\ Unfit # {}
         /\ Added(New(First.parent, First.ref)) /\ inHand' = Len(tree') /\ Exists(First.parent)
<1>1. Mending /\ Unfit # {} /\ Exists(First.parent)
  BY DEF Recreate, MayCreate, Replacing, Repairing, Mending
<1>. DEFINE entry == New(First.parent, First.ref)
<1>2. entry \in Entry /\ entry.parent = First.parent
  BY <1>1, FirstIsListed, NewObject DEF StartupInv
<1>3. Exists(entry.parent) /\ tree' = Append(tree, entry)
  BY <1>1, <1>2 DEF Recreate
<1>. HIDE DEF entry
<1>4. TreeTyped' /\ Undisturbed /\ Added(entry)
  BY <1>2, <1>3, AddKeeps DEF StartupInv
<1>. QED BY <1>1, <1>4 DEF entry, Recreate

(* In every step the tree stays a tree, and only people delete.                  *)
LEMMA TreeStep ==
  ASSUME StartupInv, [StartupNext]_startupVars
  PROVE  TreeTyped' /\ Evolves /\ (~People => Undisturbed)
<1>1. CASE tree' = tree
  BY <1>1 DEF StartupInv, TreeTyped, Undisturbed, Evolves
<1>2. CASE UNCHANGED startupVars \/ Looks \/ Steps \/ Remaps \/ WriteFirstMap \/ PersistRegistration
  BY <1>1, <1>2, StillSteps DEF startupVars, treeVars, Remaps, Adopt, NameCreated, WriteFirstMap, PersistRegistration
<1>3. CASE EnsureChild
  <2>1. Head(todo) \in Refs
    BY <1>3, NextToLay DEF EnsureChild
  <2>. QED BY <1>3, <2>1, EnsureLays DEF StartupInv, Undisturbed
<1>4. CASE QuarantineExtra \/ RestoreOne \/ PutAway
  BY <1>4, ExtraMoves, StrayMoves, DisplacedMoves DEF StartupInv, Undisturbed
<1>5. CASE RenameBack \/ Recreate
  BY <1>5, NameComesBack, ObjectIsCreated DEF Undisturbed
<1>6. CASE People
  BY <1>6, PeopleKeep DEF StartupInv, People
<1>7. CASE Roles
  BY <1>7, RoleRenames DEF StartupInv, Roles, Undisturbed
<1>. QED BY <1>2, <1>3, <1>4, <1>5, <1>6, <1>7, StepSorts

-----------------------------------------------------------------------------
(* The map stays whole.                                                          *)

(* A laid park names no object twice: what is in place under one folder has names *)
(* of its own.                                                                   *)
LEMMA LaidIsWhole ==
  ASSUME NamesObjects(held), InPlace(held), DOMAIN held = GlobalRefs
  PROVE  Whole(held)
<1>1. ASSUME NEW r \in DOMAIN held, NEW q \in DOMAIN held, held[r] = held[q], r # q PROVE FALSE
  <2>1. r \in Refs /\ q \in Refs /\ r \in GlobalRefs /\ q \in GlobalRefs
    BY <1>1 DEF NamesObjects
  <2>2. (IsFolder(r) <=> IsFolder(q)) /\ r # <<"park", "WATCHDOG_MODE">> /\ q # <<"park", "WATCHDOG_MODE">>
    BY <1>1, <2>1, RefFacts DEF NamesObjects
  <2>3. ParentOf(r) = <<"park", "root">> /\ ParentOf(q) = <<"park", "root">>
    BY <2>1, <2>2, ParkRefs DEF GlobalRefs
  <2>4. tree[held[r]].name \in Allowed(r) /\ tree[held[q]].name \in Allowed(q)
    BY <1>1 DEF InPlace, Healthy, Fits
  <2>5. Allowed(r) \cap Allowed(q) = {}
    BY <1>1, <2>1, <2>3, NamesApart
  <2>. QED BY <1>1, <2>4, <2>5
<1>. QED BY <1>1 DEF Whole

(* Turning one reference to another object.                                      *)
LEMMA RemapKeeps ==
  ASSUME TreeTyped, Whole(parkMap), held = parkMap, tree' = tree, NEW ref \in DOMAIN parkMap,
         NEW id \in DOMAIN tree, tree[id].folder = IsFolder(ref), id # parkMap[ref], Remap(ref, id)
  PROVE  /\ Whole(parkMap)' /\ held' = parkMap' /\ DOMAIN parkMap' = DOMAIN parkMap
         /\ parkMap'[ref] = id /\ \A q \in DOMAIN parkMap \ {ref} : parkMap'[q] = parkMap[q]
         /\ \/ inHand' = NoObject
            \/ inHand' \in DOMAIN tree /\ \A q \in DOMAIN parkMap : parkMap'[q] # inHand'
<1>1. /\ \A q \in DOMAIN parkMap \ {ref} : parkMap[q] # id
      /\ held' = [parkMap EXCEPT ![ref] = id] /\ parkMap' = held'
      /\ inHand' = NoObject \/ inHand' = parkMap[ref]
  BY DEF Remap, MayReplace, ReplaceReference
<1>2. /\ DOMAIN parkMap' = DOMAIN parkMap /\ parkMap'[ref] = id
      /\ \A q \in DOMAIN parkMap \ {ref} : parkMap'[q] = parkMap[q]
  BY <1>1
<1>3. DOMAIN parkMap \subseteq Refs /\ GlobalRefs \subseteq DOMAIN parkMap
  BY DEF Whole, NamesObjects
<1>4. ASSUME NEW q \in DOMAIN parkMap PROVE parkMap'[q] \in DOMAIN tree /\ tree[parkMap'[q]].folder = IsFolder(q)
  BY <1>2 DEF Whole, NamesObjects
<1>5. ASSUME NEW q \in DOMAIN parkMap, NEW r \in DOMAIN parkMap, parkMap'[q] = parkMap'[r] PROVE q = r
  BY <1>1, <1>2, <1>5 DEF Whole
<1>6. NamesObjects(parkMap)'
  BY <1>2, <1>3, <1>4 DEF NamesObjects
<1>7. Whole(parkMap)'
  BY <1>2, <1>3, <1>5, <1>6 DEF Whole
<1>8. \A q \in DOMAIN parkMap : parkMap'[q] # parkMap[ref]
  BY <1>2 DEF Whole
<1>9. parkMap[ref] \in DOMAIN tree
  BY WholeMap
<1>. QED BY <1>1, <1>2, <1>7, <1>8, <1>9

(* An adopted object is another one, of the right kind and in its place.          *)
LEMMA AdoptRemaps ==
  ASSUME StartupInv, Adopt
  PROVE  /\ Mending /\ stage = "replace" /\ Unfit # {} /\ First.ref \in DOMAIN parkMap /\ tree' = tree
         /\ \E id \in DOMAIN tree : /\ id # parkMap[First.ref] /\ tree[id].folder = IsFolder(First.ref)
                                    /\ Fits(id, First.ref, First.parent) /\ Remap(First.ref, id)
<1>1. Mending /\ stage = "replace" /\ Unfit # {} /\ task = "repair"
  BY DEF Adopt, Replacing, Repairing, Mending
<1>2. First.ref \in DOMAIN parkMap /\ First.candidates \subseteq DOMAIN tree
  BY <1>1, FirstIsListed DEF OfMap
<1>3. held = parkMap
  BY <1>1, PhaseOf DEF StartupInv, InPass
<1>4. PICK id \in ValidCandidates(First) : id # held[First.ref] /\ Remap(First.ref, id)
  BY DEF Adopt
<1>5. id \in First.candidates /\ Fits(id, First.ref, First.parent)
  BY <1>4 DEF ValidCandidates
<1>6. id \in DOMAIN tree /\ tree[id].folder = IsFolder(First.ref)
  BY <1>2, <1>5 DEF Fits
<1>. QED BY <1>1, <1>2, <1>3, <1>4, <1>5, <1>6 DEF Adopt

(* A created object is another one too.                                          *)
LEMMA CreatedRemaps ==
  ASSUME StartupInv, NameCreated
  PROVE  /\ Mending /\ stage = "name" /\ Unfit # {} /\ First.ref \in DOMAIN parkMap /\ tree' = tree
         /\ inHand \in DOMAIN tree /\ inHand # parkMap[First.ref] /\ tree[inHand].folder = IsFolder(First.ref)
         /\ Remap(First.ref, inHand)
<1>1. Mending /\ stage = "name" /\ Unfit # {} /\ task = "repair"
  BY DEF NameCreated, Mending, StartupInv, Created
<1>2. First.ref \in DOMAIN parkMap
  BY <1>1, FirstIsListed DEF OfMap
<1>3. inHand \in DOMAIN tree /\ inHand # parkMap[First.ref]
  BY <1>1, <1>2, PhaseOf, ObjectNumbers DEF StartupInv, InPass
<1>4. tree[inHand].folder = IsFolder(First.ref)
  BY <1>1 DEF StartupInv, Created
<1>. QED BY <1>1, <1>2, <1>3, <1>4 DEF NameCreated

(* What a replacement does to the map and to what it has in hand.                 *)
LEMMA Replaced ==
  ASSUME StartupInv, Remaps
  PROVE  /\ Mending /\ Unfit # {} /\ tree' = tree /\ Whole(parkMap)' /\ held' = parkMap'
         /\ DOMAIN parkMap' = DOMAIN parkMap /\ First.ref \in DOMAIN parkMap
         /\ parkMap'[First.ref] \in DOMAIN tree /\ parkMap'[First.ref] # parkMap[First.ref]
         /\ \A q \in DOMAIN parkMap \ {First.ref} : parkMap'[q] = parkMap[q]
         /\ \/ inHand' = NoObject
            \/ inHand' \in DOMAIN tree /\ \A q \in DOMAIN parkMap : parkMap'[q] # inHand'
         /\ stage' = "replace" /\ issues' = issues \ {First} /\ task' = "repair" /\ todo' = todo
         /\ steady' = steady
         /\ steady => Fits(parkMap'[First.ref], First.ref, First.parent)
<1>. DEFINE ref == First.ref
<1>1. /\ Mending /\ Unfit # {} /\ ref \in DOMAIN parkMap /\ tree' = tree
      /\ \E id \in DOMAIN tree : /\ id # parkMap[ref] /\ tree[id].folder = IsFolder(ref) /\ Remap(ref, id)
                                 /\ steady => Fits(id, ref, First.parent)
  <2>1. CASE Adopt
    BY <2>1, AdoptRemaps
  <2>2. CASE NameCreated
    <3>1. steady => Fits(inHand, ref, First.parent)
      BY <2>2 DEF StartupInv, Created, NameCreated
    <3>. QED BY <2>2, <3>1, CreatedRemaps
  <2>. QED BY <2>1, <2>2 DEF Remaps
<1>2. /\ stage' = "replace" /\ issues' = issues \ {First} /\ task' = "repair" /\ todo' = todo /\ steady' = steady
  BY DEF Remaps, Adopt, NameCreated, Replacing, Repairing, beside
<1>3. TreeTyped /\ Whole(parkMap) /\ held = parkMap
  BY <1>1, PhaseOf DEF StartupInv, Mending, InPass
<1>. HIDE DEF ref
<1>4. PICK id \in DOMAIN tree : /\ id # parkMap[ref] /\ tree[id].folder = IsFolder(ref) /\ Remap(ref, id)
                                /\ steady => Fits(id, ref, First.parent)
  BY <1>1
<1>5. /\ Whole(parkMap)' /\ held' = parkMap' /\ DOMAIN parkMap' = DOMAIN parkMap
      /\ parkMap'[ref] = id /\ \A q \in DOMAIN parkMap \ {ref} : parkMap'[q] = parkMap[q]
      /\ \/ inHand' = NoObject
         \/ inHand' \in DOMAIN tree /\ \A q \in DOMAIN parkMap : parkMap'[q] # inHand'
  BY <1>1, <1>3, <1>4, RemapKeeps
<1>. QED BY <1>1, <1>2, <1>4, <1>5 DEF ref

(* The map a registration ends with.                                             *)
LEMMA RegisteredMap ==
  ASSUME StartupInv, PersistRegistration
  PROVE  /\ task = "register" /\ stage = "register" /\ parkMap' = held /\ tree' = tree /\ Whole(parkMap)'
         /\ \E device \in Devices \ Registered(parkMap) : \E id : NewFolder(device, id)
<1>1. stage = "register" /\ todo = <<>> /\ IsParkMap(held) /\ parkMap' = held /\ tree' = tree
  BY DEF PersistRegistration, WriteMap
<1>2. task = "register" /\ Registering
  BY <1>1 DEF StartupInv, Phase, Resting, Laying, InPass, Serving, Idle
<1>3d. PICK device \in Devices \ Registered(parkMap) : \E id : NewFolder(device, id)
  <2>1. PICK device \in Devices \ Registered(parkMap) :
          todo = <<<<device, "ROOT">>>> \/ \E id : NewFolder(device, id)
    BY <1>1, <1>2 DEF Registering
  <2>2. <<<<device, "ROOT">>>> # <<>>
    OBVIOUS
  <2>. QED BY <1>1, <2>1, <2>2
<1>3. PICK id : NewFolder(device, id)
  BY <1>3d
<1>. DEFINE ref == <<device, "ROOT">>
<1>4. held = Remember(parkMap, ref, id) /\ id \in DOMAIN tree /\ tree[id].folder
  BY <1>3d, <1>3 DEF NewFolder
<1>5. ref \in Refs /\ IsFolder(ref) = TRUE
  BY RootRef, OneName DEF Refs, DeviceRefs
<1>6. tree[id].folder = TRUE
  BY <1>4, ObjectNumbers DEF StartupInv, Entry
<1>. HIDE DEF ref
<1>7. /\ DOMAIN held = {ref} \cup DOMAIN parkMap /\ held[ref] = id
      /\ \A q \in DOMAIN parkMap \ {ref} : held[q] = parkMap[q]
  BY <1>4 DEF Remember
<1>8. ASSUME NEW q \in DOMAIN held PROVE q \in Refs /\ held[q] \in DOMAIN tree /\ tree[held[q]].folder = IsFolder(q)
  BY <1>2, <1>4, <1>5, <1>6, <1>7 DEF Registering, Whole, NamesObjects
<1>9. GlobalRefs \subseteq DOMAIN held /\ \A r, q \in DOMAIN held : held[r] = held[q] => r = q
  BY <1>1 DEF IsParkMap, IsInjective
<1>. QED BY <1>1, <1>2, <1>3d, <1>3, <1>8, <1>9 DEF Whole, NamesObjects

(* A step that leaves the map alone leaves it whole.                              *)
LEMMA MapStays ==
  ASSUME Evolves, parkMap' = parkMap, Whole(parkMap)
  PROVE  Whole(parkMap)'
BY DEF Whole, NamesObjects, Evolves

(* The map keeps its shape and its references name different objects.          *)
LEMMA MapStep ==
  ASSUME StartupInv, [StartupNext]_startupVars
  PROVE  MapTyped'
<1>1. CASE parkMap' = parkMap
  BY <1>1, TreeStep, MapStays DEF StartupInv, MapTyped
<1>2. CASE Remaps
  BY <1>2, Replaced DEF MapTyped
<1>3. CASE WriteFirstMap
  <2>1. task = "bootstrap" /\ todo = <<>> /\ parkMap' = held /\ tree' = tree
    BY <1>3 DEF WriteFirstMap
  <2>2. Laying
    BY <2>1, PhaseOf DEF StartupInv
  <2>3. DOMAIN held = GlobalRefs
    <3>1. PICK n \in 0 .. 4 : todo = SubSeq(GlobalOrder, n + 1, 4) /\ DOMAIN held = Laid(n)
      BY <2>2 DEF Laying
    <3>2. n \notin 0 .. 3
      BY <2>1, <3>1, LayOrder
    <3>3. n = 4
      BY <3>2
    <3>. QED BY <3>1, <3>3, LaidAll
  <2>4. Whole(held)
    BY <2>2, <2>3, LaidIsWhole DEF Laying
  <2>. QED BY <2>1, <2>4 DEF MapTyped, Whole, NamesObjects
<1>4. CASE PersistRegistration
  BY <1>4, RegisteredMap DEF MapTyped
<1>5. CASE UNCHANGED startupVars \/ Looks \/ Steps \/ EnsureChild
  BY <1>1, <1>5, StillSteps DEF startupVars, treeVars, EnsureChild
<1>6. CASE QuarantineExtra \/ RestoreOne \/ RenameBack \/ Recreate \/ PutAway \/ People \/ Roles
  BY <1>1, <1>6 DEF QuarantineExtra, RestoreOne, RenameBack, Recreate, PutAway, People, Roles, Drift, StateMoves
<1>. QED BY <1>2, <1>3, <1>4, <1>5, <1>6, StepSorts

-----------------------------------------------------------------------------
(* What is in place stays in place while references are laid and roles move.      *)
FitsNext(id, ref, parent) ==
  /\ id \in DOMAIN tree' /\ tree'[id].parent = parent /\ parent # Nowhere
  /\ tree'[id].folder = IsFolder(ref) /\ tree'[id].name \in Allowed(ref)

(* A role that moves its state keeps the object fit for its reference.         *)
LEMMA RoleKeepsFit ==
  ASSUME TreeTyped, MapTyped, StateMoves, NEW id \in DOMAIN tree, NEW ref \in Refs, NEW parent,
         Fits(id, ref, parent)
  PROVE  FitsNext(id, ref, parent)
<1>0. PICK mode \in DOMAIN parkMap : \E name \in Allowed(mode) :
        mode \in Refs /\ Stateful(mode) /\ Healthy(parkMap, mode) /\ Renamed(parkMap[mode], name)
  BY RoleRenames
<1>1. PICK name \in Allowed(mode) :
        mode \in Refs /\ Stateful(mode) /\ Healthy(parkMap, mode) /\ Renamed(parkMap[mode], name)
  BY <1>0
<1>2. /\ tree[id].parent = parent /\ parent # Nowhere
      /\ tree[id].folder = IsFolder(ref) /\ tree[id].name \in Allowed(ref)
  BY ObjectNumbers DEF Fits, Exists
<1>3. /\ id \in DOMAIN tree' /\ tree'[id].parent = parent /\ tree'[id].folder = IsFolder(ref)
      /\ tree'[id].name = IF id = parkMap[mode] THEN name ELSE tree[id].name
  BY <1>1, <1>2 DEF Renamed
<1>4. CASE id = parkMap[mode]
  <2>1. tree[id].folder = IsFolder(mode)
    BY <1>1, <1>4 DEF Healthy, Fits
  <2>2. mode = <<"park", "WATCHDOG_MODE">> /\ ref = <<"park", "WATCHDOG_MODE">>
    BY <1>1, <1>2, <2>1, RefFacts
  <2>. QED BY <1>1, <1>2, <1>3, <1>4, <2>2 DEF FitsNext
<1>5. CASE id # parkMap[mode]
  BY <1>2, <1>3, <1>5 DEF FitsNext
<1>. QED BY <1>4, <1>5

(* Without people what fits goes on fitting.                                   *)
LEMMA FitsStays ==
  ASSUME TreeTyped, Evolves, NEW id \in DOMAIN tree, NEW ref \in Refs, NEW parent, Fits(id, ref, parent),
         (MapTyped /\ StateMoves) \/ \A o \in DOMAIN tree : tree'[o] = tree[o]
  PROVE  FitsNext(id, ref, parent)
<1>1. CASE \A o \in DOMAIN tree : tree'[o] = tree[o]
  BY <1>1, ObjectNumbers DEF FitsNext, Fits, Exists, Evolves
<1>. QED BY <1>1, RoleKeepsFit

(* The map of a serving or registering WATCHDOG stays in place.                   *)
LEMMA InPlaceStays ==
  ASSUME TreeTyped, Evolves, Whole(parkMap), InPlace(parkMap), parkMap' = parkMap,
         StateMoves \/ \A o \in DOMAIN tree : tree'[o] = tree[o]
  PROVE  InPlace(parkMap)'
<1>1. ASSUME NEW ref \in DOMAIN parkMap PROVE Healthy(parkMap, ref)'
  <2>. DEFINE id == parkMap[ref]  parent == IdOf(parkMap, ParentOf(ref))
  <2>1. ref \in Refs /\ id \in DOMAIN tree /\ id # Root /\ Fits(id, ref, parent)
    BY <1>1, WholeMap DEF InPlace, Healthy
  <2>2. parkMap'[ref] = id /\ IdOf(parkMap', ParentOf(ref)) = parent
    OBVIOUS
  <2>. HIDE DEF id, parent
  <2>3. FitsNext(id, ref, parent)
    BY <2>1, FitsStays DEF MapTyped
  <2>. QED BY <1>1, <2>1, <2>2, <2>3 DEF FitsNext, Healthy, Fits, Exists
<1>. QED BY <1>1 DEF InPlace

(* So does what bootstrap has laid.                                              *)
LEMMA LaidStays ==
  ASSUME TreeTyped, MapTyped, Laying, StateMoves, held' = held, stage' = stage, inHand' = inHand, todo' = todo
  PROVE  Laying'
<1>1. Evolves
  BY RoleRenames DEF Undisturbed
<1>2. ASSUME NEW ref \in DOMAIN held PROVE Healthy(held, ref)'
  <2>. DEFINE id == held[ref]  parent == IdOf(held, ParentOf(ref))
  <2>1. ref \in Refs /\ id \in DOMAIN tree /\ id # Root /\ Fits(id, ref, parent)
    BY <1>2, ObjectNumbers DEF Laying, NamesObjects, InPlace, Healthy
  <2>2. held'[ref] = id /\ IdOf(held', ParentOf(ref)) = parent
    OBVIOUS
  <2>. HIDE DEF id, parent
  <2>3. FitsNext(id, ref, parent)
    BY <2>1, RoleKeepsFit
  <2>. QED BY <1>2, <2>1, <2>2, <2>3 DEF FitsNext, Healthy, Fits, Exists
<1>3. NamesObjects(held)'
  BY <1>1 DEF Laying, NamesObjects, Evolves
<1>. QED BY <1>2, <1>3 DEF Laying, Idle, InPlace

(* An object that fits where the map held next says is in place.                 *)
LEMMA HealthyNext ==
  ASSUME NEW ref, NEW id, ref \in DOMAIN held', held'[ref] = id, id # Root,
         FitsNext(id, ref, IdOf(held', ParentOf(ref)))
  PROVE  Healthy(held, ref)'
BY DEF FitsNext, Healthy, Fits, Exists

(* Bootstrap lays one reference more.                                            *)
LEMMA LaysOneMore ==
  ASSUME StartupInv, EnsureChild, task = "bootstrap"
  PROVE  Laying'
<1>0. TreeTyped /\ Laying /\ Ensuring
  BY PhaseOf DEF StartupInv, EnsureChild
<1>r. PICK ref : ref = Head(todo)
  OBVIOUS
<1>1. PICK n \in 0 .. 3 : /\ DOMAIN held = Laid(n) /\ ref = GlobalOrder[n + 1]
                          /\ Tail(todo) = SubSeq(GlobalOrder, n + 2, 4)
  BY <1>0, <1>r, NextToLay
<1>2. /\ ref \in Refs /\ ref \in GlobalRefs /\ ref \notin DOMAIN held /\ Laid(n + 1) = DOMAIN held \cup {ref}
      /\ ParentOf(ref) = <<"park", "root">> \/ ParentOf(ref) \in DOMAIN held
  BY <1>1, LayOrder DEF Refs
<1>3. TreeTyped' /\ Evolves /\ \A o \in DOMAIN tree : tree'[o] = tree[o]
  BY <1>0, <1>r, <1>2, EnsureLays DEF Undisturbed
<1>4. PICK id \in DOMAIN tree' :
        /\ held' = Remember(held, ref, id)
        /\ tree'[id].parent = HomeOf(ref) /\ tree'[id].parent # Nowhere
        /\ tree'[id].folder = IsFolder(ref) /\ tree'[id].name = Initial(ref)
  BY <1>0, <1>r, <1>2, EnsureLays
<1>5. /\ DOMAIN held' = DOMAIN held \cup {ref} /\ held'[ref] = id
      /\ \A q \in DOMAIN held : held'[q] = held[q]
  BY <1>2, <1>4 DEF Remember
<1>6. ASSUME NEW q \in DOMAIN held
      PROVE  ParentOf(q) = <<"park", "root">> \/ ParentOf(q) \in DOMAIN held
  <2>1. Healthy(held, q) /\ q \in Refs
    BY <1>0, <1>6 DEF Laying, InPlace, NamesObjects
  <2>2. q \in Laid(n)
    BY <1>1
  <2>3. PICK m \in 1 .. n : q = GlobalOrder[m]
    BY <2>2 DEF Laid
  <2>4. m - 1 \in 0 .. 3 /\ (m - 1) + 1 = m
    BY <2>3
  <2>5. ParentOf(q) = <<"park", "root">> \/ ParentOf(q) \in Laid(m - 1)
    BY <2>3, <2>4, LayOrder
  <2>6. Laid(m - 1) \subseteq Laid(n)
    BY <2>3 DEF Laid
  <2>. QED BY <1>1, <2>5, <2>6
<1>7. /\ \A q \in DOMAIN held : IdOf(held', ParentOf(q)) = IdOf(held, ParentOf(q))
      /\ IdOf(held', ParentOf(ref)) = IdOf(held, ParentOf(ref))
  BY <1>2, <1>5, <1>6 DEF IdOf
<1>8. Healthy(held, ref)'
  <2>1. tree'[id].parent = IdOf(held', ParentOf(ref))
    BY <1>4, <1>7 DEF HomeOf
  <2>2. Initial(ref) \in Allowed(ref)
    BY <1>2, RefFacts
  <2>3. id # Root
    BY <1>3 DEF TreeTyped, Root
  <2>4. FitsNext(id, ref, IdOf(held', ParentOf(ref)))
    BY <1>4, <2>1, <2>2 DEF FitsNext
  <2>5. ref \in DOMAIN held' /\ held'[ref] = id
    BY <1>5
  <2>. QED BY <2>3, <2>4, <2>5, HealthyNext
<1>9. ASSUME NEW q \in DOMAIN held PROVE Healthy(held, q)'
  <2>. DEFINE at == held[q]  parent == IdOf(held, ParentOf(q))
  <2>1. q \in Refs /\ at \in DOMAIN tree /\ at # Root /\ Fits(at, q, parent)
    BY <1>0, <1>9, ObjectNumbers DEF Laying, NamesObjects, InPlace, Healthy
  <2>2. held'[q] = at /\ IdOf(held', ParentOf(q)) = parent /\ q \in DOMAIN held'
    BY <1>5, <1>7
  <2>. HIDE DEF at, parent
  <2>3. FitsNext(at, q, parent)
    BY <1>0, <1>3, <2>1, FitsStays
  <2>4. FitsNext(at, q, IdOf(held', ParentOf(q)))
    BY <2>2, <2>3
  <2>. QED BY <2>1, <2>2, <2>4, HealthyNext
<1>10. NamesObjects(held)'
  <2>1. ASSUME NEW q \in DOMAIN held'
        PROVE  q \in Refs /\ held'[q] \in DOMAIN tree' /\ tree'[held'[q]].folder = IsFolder(q)
    BY <1>0, <1>2, <1>3, <1>4, <1>5, <2>1 DEF Laying, NamesObjects, Evolves
  <2>. QED BY <2>1 DEF NamesObjects
<1>11. Idle' /\ todo' = SubSeq(GlobalOrder, (n + 1) + 1, 4) /\ DOMAIN held' = Laid(n + 1) /\ n + 1 \in 0 .. 4
  BY <1>0, <1>1, <1>2, <1>5 DEF Laying, Idle, EnsureChild, repairVars
<1>12. InPlace(held)'
  <2>1. ASSUME NEW q \in DOMAIN held' PROVE Healthy(held, q)'
    <3>1. q = ref \/ q \in DOMAIN held
      BY <1>5, <2>1
    <3>. QED BY <1>8, <1>9, <3>1
  <2>. QED BY <2>1 DEF InPlace
<1>13. \E m \in 0 .. 4 : todo' = SubSeq(GlobalOrder, m + 1, 4) /\ DOMAIN held' = Laid(m)
  BY <1>11
<1>. QED BY <1>10, <1>11, <1>12, <1>13 DEF Laying

-----------------------------------------------------------------------------
(* Every procedure stays in one of its phases.                                    *)

(* A procedure that stops holds nothing.                                         *)
LEMMA RestNext ==
  ASSUME ComesToRest, AtRest
  PROVE  Phase'
BY DEF ComesToRest, AtRest, Phase, Resting, Idle

(* A repair that goes on with a whole map is in a pass.                           *)
LEMMA PassNext ==
  ASSUME Whole(parkMap)', task' = "repair", held' = parkMap', todo' = <<>>,
         stage' \in {"audit", "quarantine", "restore", "replace", "name"},
         \/ inHand' = NoObject /\ stage' # "name"
         \/ /\ stage' \in {"replace", "name"}
            /\ inHand' \in DOMAIN tree' /\ \A ref \in DOMAIN parkMap' : parkMap'[ref] # inHand'
  PROVE  Phase'
BY DEF Phase, InPass

(* Where nothing that a procedure holds changes, its phase is the same.           *)
LEMMA PhaseStays ==
  ASSUME StartupInv, Evolves, parkMap' = parkMap, task' = task, held' = held, todo' = todo,
         stage' = stage, inHand' = inHand, task = "bootstrap" => Laying',
         steady' => steady /\ \A id \in DOMAIN tree, ref \in Refs, parent \in DOMAIN tree \cup {Root} :
                                Fits(id, ref, parent) => FitsNext(id, ref, parent)
  PROVE  Phase'
<1>0. TreeTyped /\ Phase
  BY DEF StartupInv
<1>1. CASE task = "rest"
  BY <1>0, <1>1, PhaseOf DEF Phase, Resting, Idle
<1>2. CASE task = "bootstrap"
  BY <1>2 DEF Phase
<1>3. CASE task = "repair"
  <2>1. InPass
    BY <1>0, <1>3, PhaseOf
  <2>2. Whole(parkMap)'
    BY <2>1, MapStays DEF InPass
  <2>. QED BY <1>3, <2>1, <2>2, PassNext DEF InPass, Evolves
<1>4. CASE task = "register"
  <2>1. Registering
    BY <1>0, <1>4, PhaseOf
  <2>2. Whole(parkMap)' /\ inHand' = NoObject
    BY <2>1, MapStays DEF Registering
  <2>3. CASE stage = "audit" /\ held = parkMap /\ todo = <<>>
    BY <1>4, <2>2, <2>3 DEF Phase, Registering
  <2>4. CASE stage = "register" /\ \E device \in Devices \ Registered(parkMap) :
               held = parkMap /\ todo = <<<<device, "ROOT">>>>
    BY <1>4, <2>2, <2>4 DEF Phase, Registering, Registered
  <2>5. CASE stage = "register" /\ \E device \in Devices \ Registered(parkMap) :
               todo = <<>> /\ \E id : NewFolder(device, id)
    <3>1. PICK device \in Devices \ Registered(parkMap) : todo = <<>> /\ \E id : NewFolder(device, id)
      BY <2>5
    <3>2. PICK id : NewFolder(device, id)
      BY <3>1
    <3>. DEFINE ref == <<device, "ROOT">>  ballPark == parkMap[<<"park", "BALL_PARK">>]
    <3>3. ref \in Refs /\ ballPark \in DOMAIN tree
      BY <2>1 DEF Refs, DeviceRefs, Registering, Whole, NamesObjects, GlobalRefs
    <3>4. steady' => FitsNext(id, ref, ballPark)
      BY <3>2, <3>3 DEF NewFolder
    <3>5. steady' => Fits(id, <<device, "ROOT">>, parkMap[<<"park", "BALL_PARK">>])'
      BY <3>4 DEF FitsNext, Fits, Exists
    <3>6. id \in DOMAIN tree' /\ tree'[id].folder /\ held' = Remember(parkMap', <<device, "ROOT">>, id)
      BY <3>2 DEF NewFolder, Evolves
    <3>7. NewFolder(device, id)'
      BY <3>5, <3>6 DEF NewFolder
    <3>8. device \in Devices \ Registered(parkMap') /\ todo' = <<>>
      BY <3>1
    <3>9. \E d \in Devices \ Registered(parkMap') : todo' = <<>> /\ \E i : NewFolder(d, i)'
      BY <3>7, <3>8
    <3>. QED BY <1>4, <2>2, <2>5, <3>9 DEF Phase, Registering
  <2>. QED BY <2>1, <2>3, <2>4, <2>5 DEF Registering
<1>5. CASE task = "serve"
  <2>1. Serving
    BY <1>0, <1>5, PhaseOf
  <2>2. Whole(parkMap)'
    BY <2>1, MapStays DEF Serving
  <2>. QED BY <1>5, <2>1, <2>2 DEF Phase, Serving, Idle, Registered
<1>. QED BY <1>0, <1>1, <1>2, <1>3, <1>4, <1>5, PhaseOf

(* The device's folder that registration took over or made.                       *)
LEMMA FolderIsHeld ==
  ASSUME StartupInv, EnsureChild, task = "register"
  PROVE  Phase'
<1>0. TreeTyped /\ Registering /\ Ensuring
  BY PhaseOf DEF StartupInv, EnsureChild
<1>1. PICK device \in Devices \ Registered(parkMap) :
        /\ stage = "register" /\ held = parkMap
        /\ Head(todo) = <<device, "ROOT">> /\ Tail(todo) = <<>>
  BY <1>0, NextToLay
<1>2. PICK ref : ref = <<device, "ROOT">>
  OBVIOUS
<1>3. ref \in Refs /\ ParentOf(ref) = <<"park", "BALL_PARK">> /\ IsFolder(ref) = TRUE /\ Initial(ref) \in Allowed(ref)
  BY <1>2, RootRef, OneName, RefFacts DEF Refs, DeviceRefs
<1>4. TreeTyped' /\ Evolves
  BY <1>0, <1>1, <1>2, <1>3, EnsureLays DEF Undisturbed
<1>5. PICK id \in DOMAIN tree' :
        /\ held' = Remember(held, ref, id)
        /\ tree'[id].parent = HomeOf(ref) /\ tree'[id].parent # Nowhere
        /\ tree'[id].folder = IsFolder(ref) /\ tree'[id].name = Initial(ref)
  BY <1>0, <1>1, <1>2, <1>3, EnsureLays
<1>6. /\ parkMap' = parkMap /\ task' = "register" /\ stage' = "register" /\ inHand' = NoObject /\ todo' = <<>>
      /\ steady' = steady
  BY <1>0, <1>1 DEF EnsureChild, Registering, repairVars, beside
<1>7. Whole(parkMap)'
  BY <1>0, <1>4, <1>6, MapStays DEF Registering
<1>8. HomeOf(ref) = parkMap[<<"park", "BALL_PARK">>]
  BY <1>1, <1>3 DEF HomeOf, IdOf
<1>9. FitsNext(id, ref, parkMap[<<"park", "BALL_PARK">>])
  BY <1>3, <1>5, <1>8 DEF FitsNext
<1>10. Fits(id, <<device, "ROOT">>, parkMap[<<"park", "BALL_PARK">>])'
  BY <1>2, <1>6, <1>9 DEF FitsNext, Fits, Exists
<1>11. NewFolder(device, id)'
  BY <1>1, <1>2, <1>3, <1>5, <1>6, <1>10 DEF NewFolder
<1>12. device \in Devices \ Registered(parkMap')
  BY <1>1, <1>6
<1>13. \E d \in Devices \ Registered(parkMap') : todo' = <<>> /\ \E i : NewFolder(d, i)'
  BY <1>6, <1>11, <1>12
<1>. QED BY <1>6, <1>7, <1>13 DEF Phase, Registering

(* The steps of a repair that move, rename or create an object leave the map and  *)
(* what the procedure holds alone.                                               *)
LEMMA MendingStep ==
  ASSUME StartupInv, QuarantineExtra \/ RestoreOne \/ RenameBack \/ Recreate \/ PutAway
  PROVE  /\ TreeTyped' /\ Undisturbed /\ parkMap' = parkMap /\ held' = held /\ task = "repair" /\ task' = task
         /\ todo' = todo /\ steady' = steady
<1>1. CASE QuarantineExtra
  BY <1>1, ExtraMoves DEF StartupInv, QuarantineExtra, Repairing, beside
<1>2. CASE RestoreOne
  BY <1>2, StrayMoves DEF StartupInv, RestoreOne, Repairing, beside
<1>3. CASE RenameBack
  BY <1>3, NameComesBack DEF RenameBack, Replacing, Repairing, beside
<1>4. CASE Recreate
  BY <1>4, ObjectIsCreated DEF Recreate, MayCreate, Replacing, Repairing, beside
<1>5. CASE PutAway
  BY <1>5, DisplacedMoves DEF StartupInv, PutAway, beside
<1>. QED BY <1>1, <1>2, <1>3, <1>4, <1>5

(* Each procedure holds what its place in the code has found out.              *)
LEMMA PhaseStep ==
  ASSUME StartupInv, [StartupNext]_startupVars
  PROVE  Phase'
<1>0. TreeTyped /\ TreeTyped' /\ Evolves /\ MapTyped /\ Phase
  BY TreeStep DEF StartupInv
<1>1. CASE UNCHANGED startupVars
  <2>1. /\ tree' = tree /\ parkMap' = parkMap /\ task' = task /\ held' = held /\ todo' = todo
        /\ stage' = stage /\ inHand' = inHand /\ steady' = steady
    BY <1>1 DEF startupVars, treeVars, repairVars, beside
  <2>2. task = "bootstrap" => Laying'
    <3>1. task = "bootstrap" => Laying
      BY <1>0, PhaseOf
    <3>. QED BY <2>1, <3>1 DEF Laying, Idle, NamesObjects, InPlace, Healthy, Fits, Exists
  <2>3. \A id \in DOMAIN tree, ref \in Refs, parent \in DOMAIN tree \cup {Root} :
          Fits(id, ref, parent) => FitsNext(id, ref, parent)
    BY <1>0, <2>1, FitsStays
  <2>. QED BY <1>0, <2>1, <2>2, <2>3, PhaseStays
<1>2. CASE AuditBlocks \/ QuarantineFails \/ RestoreFails \/ ReplaceBlocks \/ EnsureFails
            \/ RegistrationConflict \/ Restart \/ Stop \/ WriteFirstMap
  BY <1>2, RestNext DEF AuditBlocks, QuarantineFails, RestoreFails, ReplaceBlocks, EnsureFails,
     RegistrationConflict, Restart, Stop, WriteFirstMap, Raise
<1>3. CASE Audit \/ QuarantineDone \/ RestoreDone \/ PassDone
  <2>1. /\ task = "repair" /\ inHand = NoObject /\ tree' = tree /\ parkMap' = parkMap /\ task' = task
        /\ held' = held /\ todo' = todo /\ inHand' = inHand
        /\ stage' \in {"audit", "quarantine", "restore", "replace"}
    BY <1>3 DEF Audit, QuarantineDone, RestoreDone, PassDone, Repairing, treeVars
  <2>2. InPass
    BY <1>0, <2>1, PhaseOf
  <2>3. Whole(parkMap)'
    BY <1>0, <2>1, <2>2, MapStays DEF InPass
  <2>. QED BY <2>1, <2>2, <2>3, PassNext DEF InPass
<1>4. CASE AuditIsClean
  <2>1. /\ task = "repair" /\ inHand = NoObject /\ stage = "audit" /\ parkMap' = parkMap /\ task' = "register"
        /\ held' = held /\ todo' = todo /\ inHand' = inHand /\ stage' = stage
    BY <1>4 DEF AuditIsClean, Repairing, treeVars, repairVars
  <2>2. InPass
    BY <1>0, <2>1, PhaseOf
  <2>3. Whole(parkMap)'
    BY <1>0, <2>1, <2>2, MapStays DEF InPass
  <2>. QED BY <2>1, <2>2, <2>3 DEF InPass, Phase, Registering
<1>5. CASE Start
  <2>1. /\ task' = "repair" /\ held' = parkMap' /\ todo' = <<>> /\ inHand' = NoObject /\ stage' = "audit"
        /\ parkMap' = parkMap /\ parkMap # EmptyMap
    BY <1>5 DEF Start, treeVars
  <2>2. Whole(parkMap)'
    BY <1>0, <2>1, MapStays DEF MapTyped
  <2>. QED BY <2>1, <2>2, PassNext
<1>6. CASE Bootstrap
  <2>1. /\ task = "rest" /\ task' = "bootstrap" /\ held' = EmptyMap /\ todo' = GlobalOrder
        /\ stage' = stage /\ inHand' = inHand
    BY <1>6 DEF Bootstrap, repairVars
  <2>2. Idle'
    BY <1>0, <2>1, PhaseOf DEF Resting, Idle
  <2>3. DOMAIN held' = {}
    BY <2>1 DEF EmptyMap
  <2>4. todo' = SubSeq(GlobalOrder, 0 + 1, 4) /\ DOMAIN held' = Laid(0) /\ 0 \in 0 .. 4
    BY <2>1, <2>3, LaidAll
  <2>5. \E n \in 0 .. 4 : todo' = SubSeq(GlobalOrder, n + 1, 4) /\ DOMAIN held' = Laid(n)
    BY <2>4
  <2>. QED BY <2>1, <2>2, <2>3, <2>5 DEF Phase, Laying, NamesObjects, InPlace
<1>7. CASE Register
  <2>1. /\ task = "register" /\ stage = "audit" /\ stage' = "register" /\ parkMap' = parkMap /\ held' = held
        /\ task' = task /\ inHand' = inHand
        /\ \E device \in Devices \ Registered(held) : todo' = <<<<device, "ROOT">>>>
    BY <1>7 DEF Register, treeVars, Unregistered, DeviceOrder
  <2>2. Registering
    BY <1>0, <2>1, PhaseOf
  <2>3. Whole(parkMap)' /\ held = parkMap
    BY <1>0, <2>1, <2>2, MapStays DEF Registering
  <2>4. \E device \in Devices \ Registered(parkMap') : held' = parkMap' /\ todo' = <<<<device, "ROOT">>>>
    BY <2>1, <2>3
  <2>. QED BY <2>1, <2>2, <2>3, <2>4 DEF Phase, Registering
<1>8. CASE Serve
  <2>1. /\ task = "register" /\ stage = "audit" /\ stage' = stage /\ parkMap' = parkMap /\ held' = held
        /\ task' = "serve" /\ inHand' = inHand /\ todo' = todo
    BY <1>8 DEF Serve, treeVars, repairVars
  <2>2. Registering
    BY <1>0, <2>1, PhaseOf
  <2>3. Whole(parkMap)' /\ held = parkMap /\ todo = <<>>
    BY <1>0, <2>1, <2>2, MapStays DEF Registering
  <2>4. Registered(parkMap') = Devices
    BY <1>8, <2>1, <2>3 DEF Serve, Unregistered, Registered
  <2>. QED BY <2>1, <2>2, <2>3, <2>4 DEF Phase, Serving, Registering, Idle
<1>9. CASE Remaps
  <2>1. /\ Whole(parkMap)' /\ held' = parkMap' /\ DOMAIN parkMap' = DOMAIN parkMap /\ tree' = tree
        /\ inHand' = NoObject \/ (inHand' \in DOMAIN tree /\ \A q \in DOMAIN parkMap : parkMap'[q] # inHand')
        /\ stage' = "replace" /\ task' = "repair" /\ todo' = todo /\ Mending
    BY <1>9, Replaced
  <2>2. todo = <<>>
    BY <1>0, <2>1, PhaseOf DEF Mending, InPass
  <2>. QED BY <2>1, <2>2, PassNext
<1>10. CASE PersistRegistration
  <2>1. task = "register" /\ parkMap' = held /\ Whole(parkMap)'
    BY <1>10, RegisteredMap
  <2>2. stage' = "audit" /\ held' = held /\ task' = task /\ inHand' = inHand /\ todo' = todo /\ todo = <<>>
    BY <1>10 DEF PersistRegistration, beside
  <2>3. inHand = NoObject
    BY <1>0, <2>1, PhaseOf DEF Registering
  <2>. QED BY <2>1, <2>2, <2>3 DEF Phase, Registering
<1>11. CASE EnsureChild
  <2>1. CASE task = "bootstrap"
    BY <1>11, <2>1, LaysOneMore DEF Phase, EnsureChild
  <2>2. CASE task = "register"
    BY <1>11, <2>2, FolderIsHeld
  <2>. QED BY <1>11, <2>1, <2>2 DEF EnsureChild, Ensuring
<1>12. CASE QuarantineExtra \/ RestoreOne \/ RenameBack \/ Recreate \/ PutAway
  <2>1. /\ parkMap' = parkMap /\ held' = held /\ task = "repair" /\ task' = task /\ todo' = todo
    BY <1>12, MendingStep
  <2>2. InPass
    BY <1>0, <2>1, PhaseOf
  <2>3. Whole(parkMap)'
    BY <1>0, <2>1, <2>2, MapStays DEF InPass
  <2>4. CASE QuarantineExtra \/ RestoreOne \/ RenameBack
    <3>1. stage' = stage /\ inHand' = inHand
      BY <2>4 DEF QuarantineExtra, RestoreOne, RenameBack, repairVars
    <3>. QED BY <1>0, <2>1, <2>2, <2>3, <3>1, PassNext DEF InPass, Evolves
  <2>5. CASE PutAway
    <3>1. stage' = "replace" /\ inHand' = NoObject
      BY <2>5 DEF PutAway
    <3>. QED BY <2>1, <2>2, <2>3, <3>1, PassNext DEF InPass
  <2>6. CASE Recreate
    <3>1. stage' = "name" /\ inHand' = Len(tree') /\ Added(New(First.parent, First.ref))
      BY <2>6, ObjectIsCreated DEF Recreate
    <3>2. inHand' \in DOMAIN tree' /\ inHand' \notin DOMAIN tree
      BY <3>1 DEF Added
    <3>3. \A ref \in DOMAIN parkMap : parkMap[ref] # inHand'
      BY <1>0, <2>2, <3>2, WholeMap DEF InPass
    <3>. QED BY <2>1, <2>2, <2>3, <3>1, <3>2, <3>3, PassNext DEF InPass
  <2>. QED BY <1>12, <2>4, <2>5, <2>6
<1>13. CASE People
  <2>1. /\ task # "bootstrap" /\ steady' = FALSE /\ parkMap' = parkMap /\ task' = task /\ held' = held
        /\ todo' = todo /\ stage' = stage /\ inHand' = inHand
    BY <1>13 DEF People, Drift, repairVars
  <2>. QED BY <1>0, <2>1, PhaseStays
<1>14. CASE Roles
  <2>1. /\ StateMoves /\ steady' = steady /\ parkMap' = parkMap /\ task' = task /\ held' = held
        /\ todo' = todo /\ stage' = stage /\ inHand' = inHand
    BY <1>14 DEF Roles, StateMoves, repairVars, beside
  <2>2. task = "bootstrap" => Laying'
    BY <1>0, <2>1, LaidStays, PhaseOf
  <2>3. \A id \in DOMAIN tree, ref \in Refs, parent \in DOMAIN tree \cup {Root} :
          Fits(id, ref, parent) => FitsNext(id, ref, parent)
    BY <1>0, <2>1, RoleKeepsFit
  <2>. QED BY <1>0, <2>1, <2>2, <2>3, PhaseStays
<1>. QED BY <1>1, <1>2, <1>3, <1>4, <1>5, <1>6, <1>7, <1>8, <1>9, <1>10, <1>11, <1>12, <1>13, <1>14, StepSorts DEF Looks, Steps

-----------------------------------------------------------------------------
(* What an audit finds.                                                           *)

(* The parts of an issue.                                                        *)
LEMMA IssueParts ==
  ASSUME NEW kind, NEW ref, NEW id, NEW parent, NEW candidates
  PROVE  LET issue == Issue(kind, ref, id, parent, candidates)
         IN issue.kind = kind /\ issue.ref = ref /\ issue.id = id /\ issue.parent = parent
            /\ issue.candidates = candidates
BY DEF Issue

(* What can be wrong with a reference whose folder could be read.                  *)
Wrong(map, unread, issue, ref, parent) ==
  LET id == map[ref]
  IN /\ issue = Issue(issue.kind, ref, id, parent, issue.candidates)
     /\ issue.ref = ref /\ issue.id = id /\ issue.parent = parent
     /\ issue.candidates \subseteq NamedAs(ref, parent)
     /\ \/ issue.kind = "conflict" /\ <<"child", id>> \in unread
        \/ issue.kind = "missing" /\ <<"child", id>> \notin unread /\ ~Exists(id)
        \/ issue.kind = "wrong parent" /\ Exists(id)
        \/ issue.kind = "wrong kind" /\ Exists(id) /\ tree[id].folder # IsFolder(ref)
        \/ issue.kind = "bad name" /\ Exists(id) /\ tree[id].name \notin Allowed(ref)
        \/ issue.kind = "duplicate" /\ Exists(id) /\ id \notin issue.candidates
     /\ issue.kind # "duplicate" => issue.candidates = NamedAs(ref, parent)

(* An issue of one reference is what the audit saw of it.                      *)
LEMMA WrongAsFound ==
  ASSUME NEW map, NEW ref, NEW parent, NEW unread, NEW issue \in IssuesOf(map, ref, parent, unread)
  PROVE  Wrong(map, unread, issue, ref, parent)
<1>. DEFINE id == map[ref]  found == NamedAs(ref, parent)
<1>1. \/ issue = Issue("conflict", ref, id, parent, found) /\ <<"child", id>> \in unread
      \/ issue = Issue("missing", ref, id, parent, found) /\ <<"child", id>> \notin unread /\ ~Exists(id)
      \/ issue = Issue("wrong parent", ref, id, parent, found) /\ Exists(id)
      \/ issue = Issue("wrong kind", ref, id, parent, found) /\ Exists(id) /\ tree[id].folder # IsFolder(ref)
      \/ issue = Issue("bad name", ref, id, parent, found) /\ Exists(id) /\ tree[id].name \notin Allowed(ref)
      \/ issue = Issue("duplicate", ref, id, parent, found \ {id}) /\ Exists(id)
  BY DEF IssuesOf
<1>. HIDE DEF id, found
<1>2. PICK kind \in {"conflict", "missing", "wrong parent", "wrong kind", "bad name", "duplicate"} :
        /\ issue = Issue(kind, ref, id, parent, IF kind = "duplicate" THEN found \ {id} ELSE found)
        /\ \/ kind = "conflict" /\ <<"child", id>> \in unread
           \/ kind = "missing" /\ <<"child", id>> \notin unread /\ ~Exists(id)
           \/ kind = "wrong parent" /\ Exists(id)
           \/ kind = "wrong kind" /\ Exists(id) /\ tree[id].folder # IsFolder(ref)
           \/ kind = "bad name" /\ Exists(id) /\ tree[id].name \notin Allowed(ref)
           \/ kind = "duplicate" /\ Exists(id)
  BY <1>1
<1>3. /\ issue.kind = kind /\ issue.ref = ref /\ issue.id = id /\ issue.parent = parent
      /\ issue.candidates = IF kind = "duplicate" THEN found \ {id} ELSE found
  <2>1. PICK those : those = IF kind = "duplicate" THEN found \ {id} ELSE found
    OBVIOUS
  <2>2. issue = Issue(kind, ref, id, parent, those)
    BY <1>2, <2>1
  <2>. QED BY ONLY <2>1, <2>2 DEF Issue
<1>4. issue.candidates \subseteq found
  BY <1>3
<1>5. kind = "duplicate" => id \notin issue.candidates
  BY <1>3
<1>6. issue.kind # "duplicate" => issue.candidates = found
  BY <1>3
<1>7. issue = Issue(issue.kind, ref, id, parent, issue.candidates)
  <2>1. PICK those : those = IF kind = "duplicate" THEN found \ {id} ELSE found
    OBVIOUS
  <2>2. issue = Issue(kind, ref, id, parent, those) /\ issue.kind = kind /\ issue.candidates = those
    BY <1>2, <1>3, <2>1
  <2>. QED BY ONLY <2>2
<1>. QED BY ONLY <1>2, <1>3, <1>4, <1>5, <1>6, <1>7 DEF Wrong, id, found

(* What is found under one folder: everything is missing with it, everything is   *)
(* displaced with it, or each reference is looked at, and the strangers.          *)
Hidden(map, unread, issue, ref, parent) ==
  (~Exists(parent) \/ <<"parent", parent>> \in unread) /\ issue = Issue("missing", ref, map[ref], parent, {})
NoFolder(map, unread, issue, ref, parent) ==
  /\ Exists(parent) /\ <<"parent", parent>> \notin unread
  /\ issue = Issue("wrong parent", ref, map[ref], parent, {})
Seen(map, unread, issue, ref, parent) ==
  Exists(parent) /\ <<"parent", parent>> \notin unread /\ issue \in IssuesOf(map, ref, parent, unread)
Stranger(map, issue, owner) ==
  \E child \in Children(IdOf(map, owner)) :
    /\ issue = Issue("unknown", NoRef, child, IdOf(map, owner), {})
    /\ \A ref \in DOMAIN map : ParentOf(ref) = owner => map[ref] # child

(* A stranger lies in the folder and the map does not name it.                 *)
LEMMA StrangerKind ==
  ASSUME NEW map, NEW issue, NEW owner, Stranger(map, issue, owner)
  PROVE  issue.kind = "unknown" /\ issue.id \in Children(IdOf(map, owner))
         /\ \A ref \in DOMAIN map : ParentOf(ref) = owner => map[ref] # issue.id
<1>1. PICK child \in Children(IdOf(map, owner)) :
        /\ issue = Issue("unknown", NoRef, child, IdOf(map, owner), {})
        /\ \A ref \in DOMAIN map : ParentOf(ref) = owner => map[ref] # child
  BY DEF Stranger
<1>2. issue.kind = "unknown" /\ issue.id = child
  BY <1>1 DEF Issue
<1>. QED BY <1>1, <1>2

(* Every issue below an owner is a stranger or one of a reference there, unless   *)
(* the folder could not be listed.                                                *)
LEMMA FoundUnder ==
  ASSUME NEW map, NEW unread, NEW owner, NEW issue \in IssuesUnder(map, owner, unread)
  PROVE  \/ Stranger(map, issue, owner) \/ issue.kind = "conflict"
         \/ \E ref \in DOMAIN map :
              /\ ParentOf(ref) = owner
              /\ \/ Hidden(map, unread, issue, ref, IdOf(map, owner))
                 \/ NoFolder(map, unread, issue, ref, IdOf(map, owner))
                 \/ Seen(map, unread, issue, ref, IdOf(map, owner))
<1>. DEFINE parent == IdOf(map, owner)
            expected == {ref \in DOMAIN map : ParentOf(ref) = owner}
            known == {map[ref] : ref \in expected} \cup UNION {NamedAs(ref, parent) : ref \in expected}
<1>1. expected # {}
  BY DEF IssuesUnder
<1>2. CASE ~Exists(parent) \/ <<"parent", parent>> \in unread
  <2>1. IssuesUnder(map, owner, unread) = {Issue("missing", ref, map[ref], parent, {}) : ref \in expected}
    BY <1>1, <1>2 DEF IssuesUnder
  <2>. QED BY <1>2, <2>1 DEF Hidden
<1>3. CASE Exists(parent) /\ <<"parent", parent>> \notin unread /\ ~FolderAt(parent)
  <2>1. IssuesUnder(map, owner, unread) = {Issue("wrong parent", ref, map[ref], parent, {}) : ref \in expected}
    BY <1>1, <1>3 DEF IssuesUnder
  <2>. QED BY <1>3, <2>1 DEF NoFolder
<1>4. CASE /\ Exists(parent) /\ <<"parent", parent>> \notin unread /\ FolderAt(parent)
           /\ <<"list", parent>> \notin unread
  <2>1. IssuesUnder(map, owner, unread) =
          {Issue("unknown", NoRef, child, parent, {}) : child \in Children(parent) \ known}
            \cup UNION {IssuesOf(map, ref, parent, unread) : ref \in expected}
    BY <1>1, <1>4 DEF IssuesUnder
  <2>2. \/ \E ref \in expected : issue \in IssuesOf(map, ref, parent, unread)
        \/ \E child \in Children(parent) \ known : issue = Issue("unknown", NoRef, child, parent, {})
    BY <2>1
  <2>3. CASE \E child \in Children(parent) \ known : issue = Issue("unknown", NoRef, child, parent, {})
    BY <2>3 DEF Stranger
  <2>. QED BY <1>4, <2>2, <2>3 DEF Seen
<1>5. CASE /\ Exists(parent) /\ <<"parent", parent>> \notin unread /\ FolderAt(parent)
           /\ <<"list", parent>> \in unread
  <2>1. IssuesUnder(map, owner, unread) = {Issue("conflict", owner, parent, parent, {})}
    BY <1>1, <1>5 DEF IssuesUnder
  <2>. QED BY <2>1 DEF Issue
<1>. QED BY <1>2, <1>3, <1>4, <1>5

(* A clean audit finds everything in place.                                       *)
LEMMA CleanIsInPlace ==
  ASSUME TreeTyped, Whole(parkMap), Issues(parkMap, {}) = {}
  PROVE  InPlace(parkMap)
<1>1. ASSUME NEW ref \in DOMAIN parkMap PROVE Healthy(parkMap, ref)
  <2>. DEFINE owner == ParentOf(ref)
              parent == IdOf(parkMap, owner)
              expected == {q \in DOMAIN parkMap : ParentOf(q) = owner}
  <2>1. ref \in Refs /\ (owner = <<"park", "root">> \/ owner \in DOMAIN parkMap)
    BY <1>1, WholeMap
  <2>2. owner \in Owners
    BY <2>1, RefFacts
  <2>3. IssuesUnder(parkMap, owner, {}) = {}
    BY <2>1, <2>2 DEF Issues, OwnersIn
  <2>4. ref \in expected /\ expected # {}
    BY <1>1
  <2>5. Exists(parent) /\ FolderAt(parent)
    <3>1. CASE ~Exists(parent)
      <4>1. IssuesUnder(parkMap, owner, {}) = {Issue("missing", q, parkMap[q], parent, {}) : q \in expected}
        BY <2>4, <3>1 DEF IssuesUnder
      <4>. QED BY <2>3, <2>4, <4>1
    <3>2. CASE Exists(parent) /\ ~FolderAt(parent)
      <4>1. IssuesUnder(parkMap, owner, {}) = {Issue("wrong parent", q, parkMap[q], parent, {}) : q \in expected}
        BY <2>4, <3>2 DEF IssuesUnder
      <4>. QED BY <2>3, <2>4, <4>1
    <3>. QED BY <3>1, <3>2
  <2>6. UNION {IssuesOf(parkMap, q, parent, {}) : q \in expected} \subseteq IssuesUnder(parkMap, owner, {})
    BY <2>4, <2>5 DEF IssuesUnder
  <2>7. IssuesOf(parkMap, ref, parent, {}) = {}
    BY <2>3, <2>4, <2>6
  <2>8. Exists(parkMap[ref]) /\ tree[parkMap[ref]].parent = parent
        /\ tree[parkMap[ref]].folder = IsFolder(ref) /\ tree[parkMap[ref]].name \in Allowed(ref)
    BY <2>7 DEF IssuesOf
  <2>. QED BY <1>1, <2>8 DEF Healthy, Fits
<1>. QED BY <1>1 DEF InPlace

-----------------------------------------------------------------------------
(* From a clean audit on everything is in place.                                  *)

(* A registration that is written down adds a folder that is in place.            *)
LEMMA RegisteredInPlace ==
  ASSUME StartupInv, PersistRegistration, steady
  PROVE  InPlace(parkMap)'
<1>0. TreeTyped /\ task = "register" /\ parkMap' = held /\ tree' = tree /\ Whole(parkMap)' /\ Registering
  BY RegisteredMap, PhaseOf DEF StartupInv
<1>1d. PICK device \in Devices \ Registered(parkMap) : \E id : NewFolder(device, id)
  BY RegisteredMap
<1>1. PICK id : NewFolder(device, id)
  BY <1>1d
<1>2. PICK ref : ref = <<device, "ROOT">>
  OBVIOUS
<1>3. ref \in Refs /\ ParentOf(ref) = <<"park", "BALL_PARK">>
  BY <1>2, RootRef DEF Refs, DeviceRefs
<1>4. /\ DOMAIN parkMap' = DOMAIN parkMap \cup {ref} /\ parkMap'[ref] = id
      /\ ref \notin DOMAIN parkMap /\ \A q \in DOMAIN parkMap : parkMap'[q] = parkMap[q]
      /\ Fits(id, ref, parkMap[<<"park", "BALL_PARK">>])
  BY <1>0, <1>1d, <1>1, <1>2 DEF NewFolder, Remember, Registered
<1>5. \A q \in DOMAIN parkMap : Healthy(parkMap, q)
  BY <1>0 DEF StartupInv, AllInPlace, InPlace
<1>6. \A q \in DOMAIN parkMap : ParentOf(q) = <<"park", "root">> \/ ParentOf(q) \in DOMAIN parkMap
  BY <1>0, WholeMap DEF Registering
<1>7. <<"park", "BALL_PARK">> \in DOMAIN parkMap
  BY <1>0 DEF Registering, Whole, GlobalRefs
<1>8. \A q \in DOMAIN parkMap' : IdOf(parkMap', ParentOf(q)) = IdOf(parkMap, ParentOf(q))
  BY <1>3, <1>4, <1>6, <1>7 DEF IdOf
<1>9. ASSUME NEW q \in DOMAIN parkMap' PROVE Healthy(parkMap, q)'
  <2>1. Fits(parkMap'[q], q, IdOf(parkMap', ParentOf(q)))
    <3>1. CASE q = ref
      <4>1. IdOf(parkMap', ParentOf(q)) = parkMap[<<"park", "BALL_PARK">>]
        BY <1>3, <1>8, <1>9, <3>1 DEF IdOf
      <4>. QED BY <1>4, <3>1, <4>1
    <3>2. CASE q \in DOMAIN parkMap
      BY <1>4, <1>5, <1>8, <1>9, <3>2 DEF Healthy
    <3>. QED BY <1>4, <1>9, <3>1, <3>2
  <2>. QED BY <1>0, <1>9, <2>1 DEF Healthy, Fits, Exists
<1>. QED BY <1>9 DEF InPlace

(* What a clean audit found in place is so until somebody disturbs it.         *)
LEMMA InPlaceStep ==
  ASSUME StartupInv, [StartupNext]_startupVars
  PROVE  AllInPlace'
<1>. SUFFICES ASSUME task' \in {"register", "serve"}, steady' PROVE InPlace(parkMap)'
  BY DEF AllInPlace
<1>0. TreeTyped /\ TreeTyped' /\ Evolves /\ Phase
  BY TreeStep DEF StartupInv
<1>1. CASE AuditIsClean
  <2>1. task = "repair" /\ Issues(held, {}) = {} /\ tree' = tree /\ parkMap' = parkMap
    BY <1>1 DEF AuditIsClean, Repairing, treeVars
  <2>2. held = parkMap /\ Whole(parkMap)
    BY <1>0, <2>1, PhaseOf DEF InPass
  <2>3. InPlace(parkMap)
    BY <1>0, <2>1, <2>2, CleanIsInPlace
  <2>. QED BY <2>1, <2>3 DEF InPlace, Healthy, Fits, Exists
<1>2. CASE PersistRegistration
  BY <1>2, RegisteredInPlace DEF PersistRegistration, beside
<1>3. CASE UNCHANGED startupVars \/ Register \/ Serve \/ EnsureChild \/ Roles
  <2>1. parkMap' = parkMap /\ task \in {"register", "serve"} /\ steady
    BY <1>3 DEF startupVars, Register, Serve, EnsureChild, Roles, StateMoves, treeVars, beside
  <2>2. Whole(parkMap) /\ InPlace(parkMap)
    BY <1>0, <2>1, PhaseOf DEF StartupInv, AllInPlace, Registering, Serving
  <2>3. StateMoves \/ \A o \in DOMAIN tree : tree'[o] = tree[o]
    <3>1. CASE EnsureChild
      <4>1. Head(todo) \in Refs
        BY <3>1, NextToLay DEF EnsureChild
      <4>. QED BY <1>0, <3>1, <4>1, EnsureLays
    <3>. QED BY <1>3, <3>1 DEF startupVars, treeVars, Register, Serve, Roles
  <2>. QED BY <1>0, <2>1, <2>2, <2>3, InPlaceStays
<1>4. task' \in {"rest", "repair", "bootstrap"} \/ steady' = FALSE
      \/ AuditIsClean \/ PersistRegistration \/ UNCHANGED startupVars \/ Register \/ Serve \/ EnsureChild \/ Roles
  <2>1. CASE Looks
    BY <2>1 DEF Looks, Audit, AuditBlocks, QuarantineDone, QuarantineFails, RestoreFails, RestoreDone,
       ReplaceBlocks, PassDone, Repairing, Replacing, Raise, ComesToRest
  <2>2. CASE Steps
    BY <2>2 DEF Steps, Bootstrap, EnsureFails, RegistrationConflict, Start, Restart, Stop, Raise, ComesToRest
  <2>3. CASE Remaps
    BY <2>3, Replaced
  <2>4. CASE QuarantineExtra \/ RestoreOne \/ RenameBack \/ Recreate \/ PutAway
    BY <2>4, MendingStep
  <2>5. CASE WriteFirstMap \/ People
    BY <2>5 DEF WriteFirstMap, ComesToRest, People
  <2>. QED BY <2>1, <2>2, <2>3, <2>4, <2>5, StepSorts
<1>. QED BY <1>1, <1>2, <1>3, <1>4

-----------------------------------------------------------------------------
(* The issues a pass works off.                                                   *)

(* What an audit of a whole map finds to replace or to move back.                 *)
LEMMA AuditedIssue ==
  ASSUME TreeTyped, Whole(parkMap), NEW unread, NEW issue \in Issues(parkMap, unread)
  PROVE  \/ \E owner \in DOMAIN parkMap \cup {<<"park", "root">>} : Stranger(parkMap, issue, owner)
         \/ issue.kind = "conflict"
         \/ /\ OfMap(issue) /\ AsNamed(issue) /\ issue.candidates \subseteq DOMAIN tree
            /\ \/ issue.kind = "missing" /\ \/ ~Exists(issue.id) \/ ~Exists(issue.parent)
                                            \/ <<"parent", issue.parent>> \in unread
               \/ issue.kind = "wrong parent"
               \/ issue.kind = "bad name" /\ /\ Exists(issue.parent) /\ <<"parent", issue.parent>> \notin unread
                                             /\ Exists(issue.id) /\ tree[issue.id].name \notin Allowed(issue.ref)
               \/ issue.kind = "duplicate" /\ /\ issue.candidates \subseteq NamedAs(issue.ref, issue.parent)
                                              /\ issue.id \notin issue.candidates
            /\ issue.kind \in {"missing", "bad name"} =>
                 \/ Hidden(parkMap, unread, issue, issue.ref, issue.parent)
                 \/ /\ Exists(issue.parent) /\ <<"parent", issue.parent>> \notin unread
                    /\ issue.kind = "missing" => ~Exists(issue.id)
                    /\ issue.candidates = NamedAs(issue.ref, issue.parent)
                    /\ issue = Issue(issue.kind, issue.ref, issue.id, issue.parent, issue.candidates)
<1>1. PICK owner \in Owners : /\ owner = <<"park", "root">> \/ owner \in DOMAIN parkMap
                             /\ issue \in IssuesUnder(parkMap, owner, unread)
  BY DEF Issues, OwnersIn
<1>2. CASE issue.kind # "conflict" /\ ~\E o \in DOMAIN parkMap \cup {<<"park", "root">>} : Stranger(parkMap, issue, o)
  <2>1. PICK ref \in DOMAIN parkMap :
              /\ ParentOf(ref) = owner
              /\ \/ Hidden(parkMap, unread, issue, ref, IdOf(parkMap, owner))
                 \/ NoFolder(parkMap, unread, issue, ref, IdOf(parkMap, owner))
                 \/ Seen(parkMap, unread, issue, ref, IdOf(parkMap, owner))
    <3>1. owner \in DOMAIN parkMap \cup {<<"park", "root">>}
      BY <1>1
    <3>. QED BY <1>1, <1>2, <3>1, FoundUnder
  <2>. DEFINE parent == IdOf(parkMap, owner)  id == parkMap[ref]
  <2>2. id \in DOMAIN tree /\ tree[id].folder = IsFolder(ref)
    BY DEF Whole, NamesObjects
  <2>. HIDE DEF parent, id
  <2>3. CASE Hidden(parkMap, unread, issue, ref, parent)
    <3>1. /\ issue.ref = ref /\ issue.id = id /\ issue.parent = parent /\ issue.kind = "missing"
          /\ issue.candidates = {} /\ (~Exists(parent) \/ <<"parent", parent>> \in unread)
      BY <2>3 DEF Hidden, Issue, id
    <3>2. Hidden(parkMap, unread, issue, issue.ref, issue.parent)
      BY <2>3, <3>1
    <3>3. OfMap(issue) /\ AsNamed(issue)
      BY <2>1, <3>1 DEF OfMap, AsNamed, parent, id
    <3>. QED BY <3>1, <3>2, <3>3
  <2>4. CASE NoFolder(parkMap, unread, issue, ref, parent)
    <3>1. /\ issue.ref = ref /\ issue.id = id /\ issue.parent = parent /\ issue.kind = "wrong parent"
          /\ issue.candidates = {}
      BY <2>4 DEF NoFolder, Issue, id
    <3>. QED BY <2>1, <3>1 DEF OfMap, AsNamed, parent, id
  <2>5. CASE Seen(parkMap, unread, issue, ref, parent)
    <3>1. Wrong(parkMap, unread, issue, ref, parent) /\ Exists(parent) /\ <<"parent", parent>> \notin unread
      BY <2>5, WrongAsFound DEF Seen
    <3>2. NamedAs(ref, parent) \subseteq DOMAIN tree
      BY DEF NamedAs, Children
    <3>3. /\ issue.ref = ref /\ issue.id = id /\ issue.parent = parent
          /\ issue.candidates \subseteq NamedAs(ref, parent) /\ issue.candidates \subseteq DOMAIN tree
          /\ \/ issue.kind = "missing" /\ ~Exists(id)
             \/ issue.kind = "wrong parent"
             \/ issue.kind = "bad name" /\ Exists(id) /\ tree[id].name \notin Allowed(ref)
             \/ issue.kind = "duplicate" /\ id \notin issue.candidates
          /\ issue.kind # "duplicate" => issue.candidates = NamedAs(ref, parent)
          /\ issue = Issue(issue.kind, ref, id, parent, issue.candidates)
      BY <1>2, <2>2, <3>1, <3>2 DEF Wrong, id
    <3>4. OfMap(issue) /\ AsNamed(issue)
      BY <2>1, <3>3 DEF OfMap, AsNamed, parent, id
    <3>. QED BY <3>1, <3>3, <3>4
  <2>. QED BY <2>1, <2>3, <2>4, <2>5 DEF parent
<1>. QED BY <1>2

(* The audit of a repair lists what Listed says.                                  *)
LEMMA AuditLists ==
  ASSUME StartupInv, Audit
  PROVE  Listed'
<1>0. TreeTyped /\ Phase
  BY DEF StartupInv
<1>1. PICK unread \in Unread : issues' = Issues(held, unread)
  BY DEF Audit
<1>2. /\ task = "repair" /\ stage' = "quarantine" /\ parkMap' = parkMap /\ tree' = tree
  BY DEF Audit, Repairing, treeVars
<1>3. held = parkMap /\ Whole(parkMap)
  BY <1>0, <1>2, PhaseOf DEF InPass
<1>4. issues' = Issues(parkMap, unread)
  BY <1>1, <1>3
<1>. DEFINE Grave(issue) == issue \in issues' /\ issue.kind \in {"missing", "wrong kind", "bad name"}
            Blind(issue) == ~Exists(issue.parent) \/ <<"parent", issue.parent>> \in unread
<1>5. ASSUME NEW issue, Grave(issue)
      PROVE  /\ OfMap(issue) /\ AsNamed(issue) /\ issue.kind \in {"missing", "bad name"}
             /\ issue.candidates \subseteq DOMAIN tree /\ issue.parent \in DOMAIN tree \cup {Root}
             /\ \/ Blind(issue) /\ issue = Issue("missing", issue.ref, issue.id, issue.parent, {})
                \/ /\ ~Blind(issue)
                   /\ issue = Issue(issue.kind, issue.ref, issue.id, issue.parent, NamedAs(issue.ref, issue.parent))
                   /\ issue.kind = IF Exists(issue.id) THEN "bad name" ELSE "missing"
  <2>1. issue \in Issues(parkMap, unread) /\ issue.kind \in {"missing", "wrong kind", "bad name"}
    BY <1>4, <1>5
  <2>2. ~\E owner \in DOMAIN parkMap \cup {<<"park", "root">>} : Stranger(parkMap, issue, owner)
    BY <2>1, StrangerKind
  <2>3. /\ OfMap(issue) /\ AsNamed(issue) /\ issue.candidates \subseteq DOMAIN tree
        /\ issue.kind \in {"missing", "bad name"}
    BY <1>0, <1>3, <2>1, <2>2, AuditedIssue
  <2>4. issue.kind = "bad name" => Exists(issue.parent) /\ <<"parent", issue.parent>> \notin unread /\ Exists(issue.id)
    BY <1>0, <1>3, <2>1, <2>2, AuditedIssue
  <2>5. \/ Hidden(parkMap, unread, issue, issue.ref, issue.parent)
        \/ /\ Exists(issue.parent) /\ <<"parent", issue.parent>> \notin unread
           /\ issue.kind = "missing" => ~Exists(issue.id)
           /\ issue.candidates = NamedAs(issue.ref, issue.parent)
           /\ issue = Issue(issue.kind, issue.ref, issue.id, issue.parent, issue.candidates)
    BY <1>0, <1>3, <2>1, <2>2, <2>3, AuditedIssue
  <2>6. issue.parent \in DOMAIN tree \cup {Root} /\ issue.id = parkMap[issue.ref]
    BY <1>0, <1>3, <2>3, WholeMap DEF OfMap, AsNamed
  <2>7. CASE Hidden(parkMap, unread, issue, issue.ref, issue.parent)
    BY <2>3, <2>6, <2>7 DEF Hidden
  <2>8. CASE /\ Exists(issue.parent) /\ <<"parent", issue.parent>> \notin unread
             /\ issue.kind = "missing" => ~Exists(issue.id)
             /\ issue.candidates = NamedAs(issue.ref, issue.parent)
             /\ issue = Issue(issue.kind, issue.ref, issue.id, issue.parent, issue.candidates)
    <3>1. issue.kind = IF Exists(issue.id) THEN "bad name" ELSE "missing"
      BY <2>3, <2>4, <2>8
    <3>. QED BY <2>3, <2>6, <2>8, <3>1
  <2>. QED BY <2>5, <2>7, <2>8
<1>6. ASSUME NEW issue, NEW other, Grave(issue), Grave(other), other.ref = issue.ref
      PROVE  other = issue
  <2>1. issue.id = other.id /\ issue.parent = other.parent /\ (Blind(issue) <=> Blind(other))
    BY <1>5, <1>6 DEF OfMap, AsNamed
  <2>2. CASE Blind(issue)
    BY <1>5, <1>6, <2>1, <2>2
  <2>3. CASE ~Blind(issue)
    <3>1. issue.kind = other.kind
      BY <1>5, <1>6, <2>1, <2>3
    <3>2. ~Blind(other)
      BY <2>1, <2>3
    <3>3. issue = Issue(issue.kind, issue.ref, issue.id, issue.parent, NamedAs(issue.ref, issue.parent))
      BY <1>5, <1>6, <2>3
    <3>4. other = Issue(other.kind, other.ref, other.id, other.parent, NamedAs(other.ref, other.parent))
      BY <1>5, <1>6, <3>2
    <3>5. other = Issue(issue.kind, issue.ref, issue.id, issue.parent, NamedAs(issue.ref, issue.parent))
      BY ONLY <1>6, <2>1, <3>1, <3>4
    <3>. QED BY ONLY <3>3, <3>5
  <2>. QED BY <2>2, <2>3
<1>7. ASSUME NEW issue \in issues', issue.kind = "wrong parent" PROVE OfMap(issue) /\ AsNamed(issue)
  <2>1. issue \in Issues(parkMap, unread) /\ ~\E owner \in DOMAIN parkMap \cup {<<"park", "root">>} : Stranger(parkMap, issue, owner)
    BY <1>4, <1>7, StrangerKind
  <2>2. issue.kind # "conflict"
    BY <1>7
  <2>. QED BY ONLY <1>0, <1>3, <2>1, <2>2, AuditedIssue
<1>8. ASSUME NEW issue \in Unfit'
      PROVE  /\ OfMap(issue)' /\ issue.kind \in {"missing", "bad name"}
             /\ issue.parent \in DOMAIN tree' \cup {Root} /\ issue.candidates \subseteq DOMAIN tree'
             /\ \A other \in Unfit' : other.ref = issue.ref => other = issue
  <2>1. Grave(issue) /\ \A other \in Unfit' : Grave(other)
    BY <1>8 DEF Unfit
  <2>2. OfMap(issue) /\ issue.kind \in {"missing", "bad name"}
        /\ issue.candidates \subseteq DOMAIN tree /\ issue.parent \in DOMAIN tree \cup {Root}
    BY <1>5, <2>1
  <2>3. OfMap(issue)'
    BY <1>2, <2>2 DEF OfMap
  <2>. QED BY <1>2, <1>6, <2>1, <2>2, <2>3
<1>9. ASSUME NEW issue \in Strays' PROVE OfMap(issue)' /\ AsNamed(issue)'
  <2>1. OfMap(issue) /\ AsNamed(issue)
    BY <1>7, <1>9 DEF Strays
  <2>. QED BY <1>2, <2>1 DEF OfMap, AsNamed
<1>. QED BY <1>8, <1>9 DEF Listed

(* A step that only takes issues off the list.                                    *)
LEMMA ListStays ==
  ASSUME StartupInv, Mending, Evolves, issues' \subseteq issues, parkMap' = parkMap,
         stage' \in {"quarantine", "restore"} => stage \in {"quarantine", "restore"}
  PROVE  Listed'
<1>1. ASSUME NEW issue \in Unfit'
      PROVE  /\ OfMap(issue)' /\ issue.kind \in {"missing", "bad name"}
             /\ issue.parent \in DOMAIN tree' \cup {Root} /\ issue.candidates \subseteq DOMAIN tree'
             /\ \A other \in Unfit' : other.ref = issue.ref => other = issue
  <2>1. issue \in Unfit /\ Unfit' \subseteq Unfit
    BY <1>1 DEF Unfit
  <2>2. /\ OfMap(issue) /\ issue.kind \in {"missing", "bad name"}
        /\ issue.parent \in DOMAIN tree \cup {Root} /\ issue.candidates \subseteq DOMAIN tree
        /\ \A other \in Unfit : other.ref = issue.ref => other = issue
    BY <2>1 DEF StartupInv, Listed
  <2>3. OfMap(issue)'
    BY <2>2 DEF OfMap
  <2>. QED BY <2>1, <2>2, <2>3 DEF Evolves
<1>2. ASSUME stage' \in {"quarantine", "restore"}, NEW issue \in Strays' PROVE OfMap(issue)' /\ AsNamed(issue)'
  <2>1. issue \in Strays
    BY <1>2 DEF Strays
  <2>2. OfMap(issue) /\ AsNamed(issue)
    BY <1>2, <2>1 DEF StartupInv, Listed
  <2>. QED BY <2>2 DEF OfMap, AsNamed
<1>. QED BY <1>1, <1>2 DEF Listed

(* A repair goes on with its list, less what it has dealt with.                   *)
LEMMA ListShrinks ==
  ASSUME StartupInv, [StartupNext]_startupVars, Mending', ~Audit
  PROVE  /\ Mending /\ issues' \subseteq issues
         /\ stage' \in {"quarantine", "restore"} => stage \in {"quarantine", "restore"}
<1>1. CASE UNCHANGED startupVars \/ People \/ Roles
  BY <1>1 DEF startupVars, People, Roles, repairVars, Mending
<1>2. CASE Looks
  BY <1>2 DEF Looks, AuditIsClean, AuditBlocks, QuarantineDone, QuarantineFails, RestoreFails, RestoreDone,
     ReplaceBlocks, PassDone, Repairing, Replacing, Raise, ComesToRest, Mending
<1>3. CASE Steps \/ WriteFirstMap
  BY <1>3 DEF Steps, Bootstrap, EnsureFails, Register, RegistrationConflict, Start, Serve, Restart, Stop,
     WriteFirstMap, Raise, ComesToRest, Mending
<1>4. CASE Remaps
  BY <1>4, Replaced
<1>5. CASE PersistRegistration \/ EnsureChild
  BY <1>5, RegisteredMap DEF PersistRegistration, EnsureChild, Ensuring, Mending
<1>6. CASE QuarantineExtra \/ RestoreOne \/ RenameBack \/ Recreate \/ PutAway
  BY <1>6 DEF QuarantineExtra, RestoreOne, RenameBack, Recreate, PutAway, MayCreate, Replacing, Repairing,
     Mending, repairVars
<1>. QED BY <1>1, <1>2, <1>3, <1>4, <1>5, <1>6, StepSorts

(* The issues on the list stay those of the map that the pass holds.           *)
LEMMA ListedStep ==
  ASSUME StartupInv, [StartupNext]_startupVars
  PROVE  Listed'
<1>1. CASE Audit
  BY <1>1, AuditLists
<1>2. CASE ~Mending'
  BY <1>2 DEF Listed
<1>3. CASE Remaps
  <2>1. /\ Mending /\ Unfit # {} /\ tree' = tree /\ DOMAIN parkMap' = DOMAIN parkMap
        /\ \A q \in DOMAIN parkMap \ {First.ref} : parkMap'[q] = parkMap[q]
        /\ stage' = "replace" /\ issues' = issues \ {First}
    BY <1>3, Replaced
  <2>2. ASSUME NEW issue \in Unfit'
        PROVE  /\ OfMap(issue)' /\ issue.kind \in {"missing", "bad name"}
               /\ issue.parent \in DOMAIN tree' \cup {Root} /\ issue.candidates \subseteq DOMAIN tree'
               /\ \A other \in Unfit' : other.ref = issue.ref => other = issue
    <3>1. issue \in Unfit /\ issue # First /\ Unfit' \subseteq Unfit
      BY <2>1, <2>2 DEF Unfit
    <3>2. /\ OfMap(issue) /\ issue.kind \in {"missing", "bad name"}
          /\ issue.parent \in DOMAIN tree \cup {Root} /\ issue.candidates \subseteq DOMAIN tree
          /\ \A other \in Unfit : other.ref = issue.ref => other = issue
      BY <2>1, <3>1 DEF StartupInv, Listed
    <3>3. issue.ref # First.ref
      BY <2>1, <3>1, FirstIsListed
    <3>4. OfMap(issue)'
      BY <2>1, <3>2, <3>3 DEF OfMap
    <3>. QED BY <2>1, <3>1, <3>2, <3>4
  <2>. QED BY <2>1, <2>2 DEF Listed
<1>4. CASE Mending' /\ ~Audit /\ ~Remaps
  <2>1. Mending /\ issues' \subseteq issues /\ Evolves
        /\ (stage' \in {"quarantine", "restore"} => stage \in {"quarantine", "restore"})
    BY <1>4, ListShrinks, TreeStep
  <2>2. parkMap' = parkMap
    <3>1. CASE UNCHANGED startupVars \/ Looks \/ Steps \/ EnsureChild
      BY <3>1, StillSteps DEF startupVars, treeVars, EnsureChild
    <3>2. CASE WriteFirstMap \/ PersistRegistration
      BY <1>4, <2>1, <3>2, RegisteredMap DEF WriteFirstMap, ComesToRest, Mending
    <3>3. CASE QuarantineExtra \/ RestoreOne \/ RenameBack \/ Recreate \/ PutAway
      BY <3>3, MendingStep
    <3>4. CASE People \/ Roles
      BY <3>4 DEF People, Drift, Roles, StateMoves
    <3>. QED BY <1>4, <3>1, <3>2, <3>3, <3>4, StepSorts
  <2>. QED BY <2>1, <2>2, ListStays
<1>. QED BY <1>1, <1>2, <1>3, <1>4

(* A created object stays what it was made.                                       *)
LEMMA CreatedStep ==
  ASSUME StartupInv, [StartupNext]_startupVars
  PROVE  Created'
<1>. SUFFICES ASSUME task' = "repair", stage' = "name"
              PROVE  /\ Unfit' # {} /\ tree'[inHand'].folder = IsFolder(First'.ref)
                     /\ steady' => Fits(inHand, First.ref, First.parent)'
  BY DEF Created
<1>0. TreeTyped /\ TreeTyped' /\ Evolves /\ MapTyped /\ Phase
  BY TreeStep DEF StartupInv
<1>1. CASE Recreate
  <2>1. /\ Mending /\ Unfit # {} /\ Added(New(First.parent, First.ref)) /\ inHand' = Len(tree')
        /\ Exists(First.parent)
    BY <1>1, ObjectIsCreated
  <2>2. issues' = issues /\ Unfit' = Unfit /\ First' = First
    BY <1>1 DEF Recreate, First, Unfit
  <2>3. First.ref \in Refs
    BY <2>1, FirstIsListed
  <2>4. /\ inHand' \in DOMAIN tree' /\ tree'[inHand'].parent = First.parent
        /\ tree'[inHand'].folder = IsFolder(First.ref) /\ tree'[inHand'].name = Initial(First.ref)
    <3>1. inHand' \in DOMAIN tree' /\ tree'[inHand'] = New(First.parent, First.ref)
      BY <2>1 DEF Added
    <3>. QED BY <1>0, <2>1, <2>3, <3>1, NewObject
  <2>5. Initial(First.ref) \in Allowed(First.ref) /\ First.parent # Nowhere
    BY <1>0, <2>1, <2>3, RefFacts, WhatExists
  <2>7. Fits(inHand, First.ref, First.parent)'
    BY <2>2, <2>4, <2>5 DEF Fits, Exists
  <2>. QED BY <2>1, <2>2, <2>4, <2>7
<1>2. CASE UNCHANGED startupVars \/ People \/ Roles
  <2>1. /\ task = "repair" /\ stage = "name" /\ issues' = issues /\ inHand' = inHand
        /\ steady' => steady /\ (tree' = tree \/ StateMoves)
    BY <1>2 DEF startupVars, treeVars, People, Roles, repairVars, beside
  <2>2. Unfit' = Unfit /\ First' = First
    BY <2>1 DEF First, Unfit
  <2>3. /\ Unfit # {} /\ tree[inHand].folder = IsFolder(First.ref)
        /\ steady => Fits(inHand, First.ref, First.parent)
    BY <2>1 DEF StartupInv, Created
  <2>4. InPass /\ inHand \in DOMAIN tree
    BY <1>0, <2>1, PhaseOf, ObjectNumbers DEF InPass
  <2>5. First.ref \in Refs
    BY <2>1, <2>3, FirstIsListed DEF Mending
  <2>6. tree'[inHand'].folder = IsFolder(First'.ref)
    BY <1>0, <2>1, <2>2, <2>3, <2>4 DEF Evolves
  <2>7. ASSUME steady' PROVE Fits(inHand, First.ref, First.parent)'
    <3>1. Fits(inHand, First.ref, First.parent) /\ (tree' = tree \/ StateMoves)
      BY <2>1, <2>3, <2>7
    <3>2. FitsNext(inHand, First.ref, First.parent)
      BY <1>0, <2>4, <2>5, <3>1, FitsStays
    <3>. QED BY <2>1, <2>2, <3>2 DEF FitsNext, Fits, Exists
  <2>. QED BY <2>2, <2>3, <2>6, <2>7
<1>3. Recreate \/ UNCHANGED startupVars \/ People \/ Roles
  <2>1. CASE Looks
    BY <2>1 DEF Looks, Audit, AuditIsClean, AuditBlocks, QuarantineDone, QuarantineFails, RestoreFails,
       RestoreDone, ReplaceBlocks, PassDone, Raise, ComesToRest
  <2>2. CASE Steps \/ WriteFirstMap
    BY <2>2 DEF Steps, Bootstrap, EnsureFails, Register, RegistrationConflict, Start, Serve, Restart, Stop,
       WriteFirstMap, Raise, ComesToRest
  <2>3. CASE Remaps
    BY <2>3, Replaced
  <2>4. CASE PersistRegistration \/ EnsureChild
    BY <2>4, RegisteredMap DEF PersistRegistration, EnsureChild, Ensuring
  <2>5. CASE QuarantineExtra \/ RestoreOne \/ RenameBack \/ PutAway
    <3>1. stage \in {"quarantine", "restore", "replace"} /\ stage' = stage
      BY <2>5 DEF QuarantineExtra, RestoreOne, RenameBack, PutAway, Replacing, Repairing, repairVars
    <3>. QED BY <3>1
  <2>. QED BY <2>1, <2>2, <2>3, <2>4, <2>5, StepSorts
<1>. QED BY <1>1, <1>2, <1>3

(* The invariant holds at the start and is kept.                                  *)
LEMMA StartupStart ==
  ASSUME StartupInit
  PROVE  StartupInv
<1>1. TreeTyped /\ MapTyped
  BY DEF StartupInit, TreeTyped, MapTyped
<1>2. Phase
  BY DEF StartupInit, Phase, Resting, Idle
<1>3. AllInPlace /\ Listed /\ Created
  BY DEF StartupInit, AllInPlace, Listed, Mending, Created
<1>. QED BY <1>1, <1>2, <1>3 DEF StartupInv

(* The invariant is inductive: every step keeps each of its parts.             *)
LEMMA StartupStep ==
  ASSUME StartupInv, [StartupNext]_startupVars
  PROVE  StartupInv'
BY TreeStep, MapStep, PhaseStep, InPlaceStep, ListedStep, CreatedStep DEF StartupInv

(* It holds in every reachable state.                                          *)
LEMMA StartupHolds == StartupSpec => []StartupInv
<1>1. StartupInit => StartupInv
  BY StartupStart
<1>2. StartupInv /\ [StartupNext]_startupVars => StartupInv'
  BY StartupStep
<1>. QED BY <1>1, <1>2, PTL DEF StartupSpec

-----------------------------------------------------------------------------
(* A WATCHDOG that serves a folder nobody has disturbed since its audit serves a   *)
(* whole tree (watchdog/runtime.py): whatever the number of its devices, the       *)
(* passes of its repairs and the disturbances before.                             *)
THEOREM AWatchdogServesAWholeTree == StartupSpec => []ServingIsWhole
<1>1. StartupInv => ServingIsWhole
  <2>. SUFFICES ASSUME StartupInv, task = "serve", steady
                PROVE  /\ held = parkMap /\ Registered(parkMap) = Devices
                       /\ \A ref \in DOMAIN parkMap : Healthy(parkMap, ref)
    BY DEF ServingIsWhole
  <2>1. Serving
    BY PhaseOf DEF StartupInv
  <2>. QED BY <2>1 DEF StartupInv, AllInPlace, InPlace, Serving
<1>. QED BY <1>1, StartupHolds, PTL

-----------------------------------------------------------------------------
(* A reference that PARK_MAP is pointed elsewhere fits there.                     *)
NewlyNamed == {ref \in DOMAIN parkMap' : ref \notin DOMAIN parkMap \/ parkMap'[ref] # parkMap[ref]}

(* A replacement that the map comes to name is fit for its reference.          *)
LEMMA ReplacedFits ==
  ASSUME StartupInv, Remaps, steady, NEW ref \in NewlyNamed
  PROVE  Healthy(parkMap, ref)' \/ \E folder \in Left(ref) : Fits(parkMap[ref], ref, folder)'
<1>1. /\ Mending /\ Unfit # {} /\ tree' = tree /\ DOMAIN parkMap' = DOMAIN parkMap
      /\ \A q \in DOMAIN parkMap \ {First.ref} : parkMap'[q] = parkMap[q]
      /\ Fits(parkMap'[First.ref], First.ref, First.parent)
  BY Replaced
<1>2. ref = First.ref /\ First \in Unfit /\ ref \in Refs
  BY <1>1, FirstIsListed DEF NewlyNamed
<1>3. PICK folder : folder = First.parent
  OBVIOUS
<1>4. Fits(parkMap[ref], ref, folder)'
  BY <1>1, <1>2, <1>3 DEF Fits, Exists
<1>5. CASE folder = IdOf(parkMap, ParentOf(ref))
  <2>1. ParentOf(ref) # ref /\ (ParentOf(ref) = <<"park", "root">> \/ ParentOf(ref) \in DOMAIN parkMap)
    BY <1>1, <1>2, RefFacts, FirstIsListed, PhaseOf DEF StartupInv, Mending, InPass, Whole
  <2>2. IdOf(parkMap', ParentOf(ref)) = folder
    BY <1>1, <1>2, <1>5, <2>1 DEF IdOf
  <2>. QED BY <1>4, <2>2 DEF Healthy, NewlyNamed
<1>6. CASE folder # IdOf(parkMap, ParentOf(ref))
  <2>1. folder \in Left(ref)
    BY <1>2, <1>3, <1>6 DEF Left
  <2>. QED BY <1>4, <2>1
<1>. QED BY <1>5, <1>6

(* The first map names what bootstrap found or made, in place.                 *)
LEMMA FirstMapFits ==
  ASSUME StartupInv, WriteFirstMap, NEW ref \in NewlyNamed
  PROVE  Healthy(parkMap, ref)'
<1>1. task = "bootstrap" /\ parkMap' = held /\ tree' = tree
  BY DEF WriteFirstMap
<1>2. Healthy(held, ref)
  BY <1>1, PhaseOf DEF StartupInv, Laying, InPlace, NewlyNamed
<1>. QED BY <1>1, <1>2 DEF Healthy, Fits, Exists

(* The map is never pointed at an object that does not fit its reference in the    *)
(* folder the map names for it, or in the one that folder replaced                 *)
(* (tree_healer.py, bootstrap.py, device_registration.py).                        *)
THEOREM TheMapNamesWhatFits == StartupSpec => MapNamesWhatFits
<1>1. ASSUME StartupInv, [StartupNext]_startupVars, steady, steady', NEW ref \in NewlyNamed
      PROVE  Healthy(parkMap, ref)' \/ \E folder \in Left(ref) : Fits(parkMap[ref], ref, folder)'
  <2>1. CASE Remaps
    BY <1>1, <2>1, ReplacedFits
  <2>2. CASE WriteFirstMap
    BY <1>1, <2>2, FirstMapFits
  <2>3. CASE PersistRegistration
    BY <1>1, <2>3, RegisteredInPlace DEF InPlace, NewlyNamed
  <2>4. CASE UNCHANGED startupVars \/ Looks \/ Steps \/ EnsureChild
    BY <1>1, <2>4, StillSteps DEF startupVars, treeVars, EnsureChild, NewlyNamed
  <2>5. CASE QuarantineExtra \/ RestoreOne \/ RenameBack \/ Recreate \/ PutAway
    BY <1>1, <2>5, MendingStep DEF NewlyNamed
  <2>6. CASE People \/ Roles
    BY <1>1, <2>6 DEF People, Drift, Roles, StateMoves, NewlyNamed
  <2>. QED BY <1>1, <2>1, <2>2, <2>3, <2>4, <2>5, <2>6, StepSorts
<1>2. StartupInv /\ [StartupNext]_startupVars =>
        [steady /\ steady' =>
           \A ref \in DOMAIN parkMap' :
             (ref \notin DOMAIN parkMap \/ parkMap'[ref] # parkMap[ref]) =>
               \/ Healthy(parkMap, ref)'
               \/ \E folder \in Left(ref) : Fits(parkMap[ref], ref, folder)']_startupVars
  BY <1>1 DEF NewlyNamed
<1>. QED BY <1>2, StartupHolds, PTL DEF StartupSpec, MapNamesWhatFits

-----------------------------------------------------------------------------
(* What is in place is kept, as long as nobody else disturbs the folder: the       *)
(* issues of a pass are still what the audit saw.                                 *)
StillWrong(issue) ==
  IF issue.kind = "missing" THEN ~Exists(issue.id) \/ ~Exists(issue.parent)
                            ELSE tree[issue.id].name \notin Allowed(issue.ref)
NobodysExtras == \A e \in Extras, ref \in DOMAIN parkMap : Healthy(parkMap, ref) => parkMap[ref] # e
Fresh ==
  Mending /\ steady /\ ~blind =>
    /\ \A issue \in Unfit : StillWrong(issue)
    /\ stage = "quarantine" => NobodysExtras
FirstTime == task = "bootstrap" => parkMap = EmptyMap
KeptInv == StartupInv /\ Fresh /\ FirstTime

(* No two folders are one object.                                                 *)
LEMMA FoldersApart ==
  ASSUME TreeTyped, Whole(parkMap), NEW r \in DOMAIN parkMap \cup {<<"park", "root">>},
         NEW q \in DOMAIN parkMap \cup {<<"park", "root">>}, IdOf(parkMap, r) = IdOf(parkMap, q)
  PROVE  r = q
<1>1. \A ref \in DOMAIN parkMap : parkMap[ref] # Root
  BY WholeMap
<1>2. \A a, b \in DOMAIN parkMap : parkMap[a] = parkMap[b] => a = b
  BY DEF Whole
<1>. QED BY <1>1, <1>2 DEF IdOf

(* Two references in place under one folder are told apart by their names.        *)
LEMMA HealthyApart ==
  ASSUME TreeTyped, Whole(parkMap), NEW q \in DOMAIN parkMap, Healthy(parkMap, q),
         NEW r \in DOMAIN parkMap, tree[parkMap[q]].parent = IdOf(parkMap, ParentOf(r)),
         tree[parkMap[q]].name \in Allowed(r)
  PROVE  q = r
<1>1. /\ tree[parkMap[q]].parent = IdOf(parkMap, ParentOf(q)) /\ tree[parkMap[q]].name \in Allowed(q)
  BY DEF Healthy, Fits
<1>2. /\ ParentOf(q) \in DOMAIN parkMap \cup {<<"park", "root">>}
      /\ ParentOf(r) \in DOMAIN parkMap \cup {<<"park", "root">>}
      /\ q \in Refs /\ r \in Refs
  BY WholeMap
<1>3. IdOf(parkMap, ParentOf(q)) = IdOf(parkMap, ParentOf(r))
  BY <1>1
<1>4. ParentOf(q) = ParentOf(r)
  BY <1>2, <1>3, FoldersApart
<1>5. q # r => Allowed(q) \cap Allowed(r) = {}
  BY <1>2, <1>4, NamesApart
<1>. QED BY <1>1, <1>5

(* The extras of an audit are nobody's object that is in place.                   *)
LEMMA ExtrasAreNobodys ==
  ASSUME TreeTyped, Whole(parkMap), NEW unread, NEW issue \in Issues(parkMap, unread), NEW e,
         \/ issue.kind = "duplicate" /\ e \in issue.candidates
         \/ issue.kind = "unknown" /\ e = issue.id,
         NEW q \in DOMAIN parkMap, Healthy(parkMap, q)
  PROVE  parkMap[q] # e
<1>. SUFFICES ASSUME parkMap[q] = e PROVE FALSE
  OBVIOUS
<1>. DEFINE Owning == DOMAIN parkMap \cup {<<"park", "root">>}
<1>1. /\ tree[e].parent = IdOf(parkMap, ParentOf(q)) /\ tree[e].name \in Allowed(q)
      /\ ParentOf(q) \in Owning
  BY WholeMap DEF Healthy, Fits
<1>2. CASE \E owner \in Owning : Stranger(parkMap, issue, owner)
  <2>1. PICK owner \in Owning : Stranger(parkMap, issue, owner)
    BY <1>2
  <2>2. /\ issue.kind = "unknown" /\ issue.id \in Children(IdOf(parkMap, owner))
        /\ \A ref \in DOMAIN parkMap : ParentOf(ref) = owner => parkMap[ref] # issue.id
    BY <2>1, StrangerKind
  <2>3. e = issue.id
    BY <2>2
  <2>4. IdOf(parkMap, ParentOf(q)) = IdOf(parkMap, owner)
    BY <1>1, <2>2, <2>3 DEF Children
  <2>5. ParentOf(q) = owner
    BY <1>1, <2>4, FoldersApart
  <2>. QED BY <2>2, <2>3, <2>5
<1>3. CASE ~\E owner \in Owning : Stranger(parkMap, issue, owner)
  <2>1. OfMap(issue) /\ AsNamed(issue) /\ issue.kind # "unknown"
    BY <1>3, AuditedIssue
  <2>2. issue.kind = "duplicate" /\ e \in issue.candidates
    BY <2>1
  <2>3. e \in NamedAs(issue.ref, issue.parent) /\ e # issue.id
    BY <1>3, <2>2, AuditedIssue
  <2>4. tree[e].parent = issue.parent /\ tree[e].name \in Allowed(issue.ref)
    BY <2>3 DEF NamedAs, Children
  <2>5. q = issue.ref
    BY <2>1, <2>4, HealthyApart DEF OfMap, AsNamed
  <2>. QED BY <2>1, <2>3, <2>5 DEF OfMap
<1>. QED BY <1>2, <1>3

(* So an audit that was answered everything lists what is wrong and nothing else.     *)
LEMMA AuditIsFresh ==
  ASSUME StartupInv, Audit, ~blind'
  PROVE  Fresh'
<1>0. TreeTyped /\ Phase
  BY DEF StartupInv
<1>1. PICK unread \in Unread : issues' = Issues(held, unread) /\ blind' = (unread # {})
  BY DEF Audit
<1>2. unread = {}
  BY <1>1
<1>3. /\ task = "repair" /\ stage' = "quarantine" /\ parkMap' = parkMap /\ tree' = tree
  BY DEF Audit, Repairing, treeVars
<1>4. held = parkMap /\ Whole(parkMap)
  BY <1>0, <1>3, PhaseOf DEF InPass
<1>5. ASSUME NEW issue \in Unfit' PROVE StillWrong(issue)'
  <2>1. issue \in Issues(parkMap, unread) /\ issue.kind \in {"missing", "wrong kind", "bad name"}
    BY <1>1, <1>4, <1>5 DEF Unfit
  <2>2. ~\E owner \in DOMAIN parkMap \cup {<<"park", "root">>} : Stranger(parkMap, issue, owner)
    BY <2>1, StrangerKind
  <2>3. \/ issue.kind = "missing" /\ (~Exists(issue.id) \/ ~Exists(issue.parent))
        \/ issue.kind = "bad name" /\ tree[issue.id].name \notin Allowed(issue.ref)
    <3>1. /\ \/ issue.kind = "conflict"
             \/ issue.kind = "missing" /\ \/ ~Exists(issue.id) \/ ~Exists(issue.parent)
                                          \/ <<"parent", issue.parent>> \in unread
             \/ issue.kind = "wrong parent"
             \/ issue.kind = "bad name" /\ tree[issue.id].name \notin Allowed(issue.ref)
             \/ issue.kind = "duplicate"
      BY ONLY <1>0, <1>4, <2>1, <2>2, AuditedIssue
    <3>. QED BY <1>2, <2>1, <3>1
  <2>. QED BY <1>3, <2>3 DEF StillWrong, Exists
<1>6. NobodysExtras'
  <2>1. ASSUME NEW e \in Extras', NEW ref \in DOMAIN parkMap, Healthy(parkMap, ref) PROVE parkMap[ref] # e
    <3>1. PICK issue \in Issues(parkMap, unread) :
            \/ issue.kind = "duplicate" /\ e \in issue.candidates
            \/ issue.kind = "unknown" /\ e = issue.id
      BY <1>1, <1>4, <2>1 DEF Extras
    <3>. QED BY <1>0, <1>4, <2>1, <3>1, ExtrasAreNobodys
  <2>2. \A ref \in DOMAIN parkMap : Healthy(parkMap, ref)' <=> Healthy(parkMap, ref)
    BY <1>3 DEF Healthy, Fits, Exists
  <2>. QED BY <1>3, <2>1, <2>2 DEF NobodysExtras
<1>. QED BY <1>5, <1>6 DEF Fresh

(* What the steps after the audit do to the objects that the map names.           *)
LEMMA OthersAsTheyWere ==
  ASSUME StartupInv, [StartupNext]_startupVars, Mending, Mending', ~Audit, steady', NEW issue \in Unfit', StillWrong(issue)
  PROVE  StillWrong(issue)'
<1>0. TreeTyped /\ Phase /\ Undisturbed /\ Mending /\ issues' \subseteq issues
  <2>1. ~People
    BY DEF People
  <2>. QED BY <2>1, TreeStep, ListShrinks DEF StartupInv
<1>1. Whole(parkMap)
  BY <1>0, PhaseOf DEF Mending, InPass
<1>2. /\ issue \in Unfit /\ OfMap(issue) /\ issue.parent \in DOMAIN tree \cup {Root}
      /\ issue.id \in DOMAIN tree /\ issue.kind \in {"missing", "bad name"}
  <2>1. issue \in Unfit
    BY <1>0 DEF Unfit
  <2>2. OfMap(issue) /\ issue.parent \in DOMAIN tree \cup {Root} /\ issue.kind \in {"missing", "bad name"}
    BY <1>0, <2>1 DEF StartupInv, Listed
  <2>. QED BY <1>0, <1>1, <2>1, <2>2, WholeMap DEF OfMap
<1>3. CASE issue.kind = "missing"
  <2>1. ~Exists(issue.id) \/ ~Exists(issue.parent)
    BY <1>3 DEF StillWrong
  <2>2. (Exists(issue.id)' <=> Exists(issue.id)) /\ (Exists(issue.parent)' <=> Exists(issue.parent))
    BY <1>0, <1>2, ExistsStays
  <2>. QED BY <1>3, <2>1, <2>2 DEF StillWrong
<1>4. CASE issue.kind = "bad name"
  <2>1. tree[issue.id].name \notin Allowed(issue.ref)
    BY <1>4 DEF StillWrong
  <2>2. tree'[issue.id].name = tree[issue.id].name
    <3>1. CASE tree' = tree
      BY <3>1
    <3>2. CASE QuarantineExtra \/ RestoreOne \/ PutAway
      BY <1>0, <1>2, <3>1, <3>2, ExtraMoves, StrayMoves, DisplacedMoves DEF Moved
    <3>3. CASE RenameBack
      <4>1. Renamed(First.id, Initial(First.ref)) /\ issues' = issues \ {First} /\ Unfit # {}
        BY <3>3, NameComesBack
      <4>2. issue # First
        BY <4>1 DEF Unfit
      <4>3. issue.ref # First.ref /\ OfMap(First)
        BY <1>0, <1>2, <4>1, <4>2, FirstIsListed
      <4>4. issue.id # First.id
        BY <1>1, <1>2, <4>3 DEF OfMap, Whole
      <4>. QED BY <1>2, <4>1, <4>4 DEF Renamed
    <3>4. CASE Recreate
      BY <1>2, <3>4, ObjectIsCreated DEF Added
    <3>5. CASE Roles
      <4>1. PICK mode \in DOMAIN parkMap :
              \E name \in Allowed(mode) : Healthy(parkMap, mode) /\ Renamed(parkMap[mode], name)
        BY <1>0, <3>5, RoleRenames DEF Roles, StartupInv
      <4>2. PICK name \in Allowed(mode) : Healthy(parkMap, mode) /\ Renamed(parkMap[mode], name)
        BY <4>1
      <4>3. issue.ref # mode
        BY <1>2, <2>1, <4>2 DEF OfMap, Healthy, Fits
      <4>4. issue.id # parkMap[mode]
        BY <1>1, <1>2, <4>3 DEF OfMap, Whole
      <4>. QED BY <1>2, <4>2, <4>4 DEF Renamed
    <3>6. CASE EnsureChild
      BY <1>0, <3>6 DEF EnsureChild, Ensuring, Mending
    <3>7. CASE UNCHANGED startupVars \/ Looks \/ Steps \/ Remaps \/ WriteFirstMap \/ PersistRegistration
      BY <3>1, <3>7, StillSteps, Replaced, RegisteredMap DEF startupVars, treeVars, WriteFirstMap
    <3>. QED BY <3>2, <3>3, <3>4, <3>5, <3>6, <3>7, StepSorts DEF People
  <2>. QED BY <1>4, <2>1, <2>2 DEF StillWrong
<1>. QED BY <1>2, <1>3, <1>4

(* The extras left are nobody's while they are put away.                          *)
LEMMA ExtrasStayNobodys ==
  ASSUME StartupInv, [StartupNext]_startupVars, Mending, ~Audit, steady', Mending', stage' = "quarantine", NobodysExtras
  PROVE  NobodysExtras'
<1>1. QuarantineExtra \/ UNCHANGED startupVars \/ Roles
  <2>1. CASE Looks
    BY <2>1 DEF Looks, AuditIsClean, AuditBlocks, QuarantineDone, QuarantineFails, RestoreFails, RestoreDone,
       ReplaceBlocks, PassDone, Raise, ComesToRest, Mending
  <2>2. CASE Steps \/ WriteFirstMap
    BY <2>2 DEF Steps, Bootstrap, EnsureFails, Register, RegistrationConflict, Start, Serve, Restart, Stop,
       WriteFirstMap, Raise, ComesToRest, Mending
  <2>3. CASE Remaps
    BY <2>3, Replaced
  <2>4. CASE PersistRegistration \/ EnsureChild
    BY <2>4, RegisteredMap DEF PersistRegistration, EnsureChild, Ensuring, Mending
  <2>5. CASE RestoreOne \/ RenameBack \/ Recreate \/ PutAway \/ People
    BY <2>5 DEF RestoreOne, RenameBack, Recreate, PutAway, MayCreate, Replacing, Repairing, People
  <2>. QED BY <2>1, <2>2, <2>3, <2>4, <2>5, StepSorts
<1>2. /\ parkMap' = parkMap /\ held' = held /\ issues' = issues /\ task = "repair" /\ TreeTyped
      /\ Whole(parkMap) /\ held = parkMap
  <2>1. parkMap' = parkMap /\ held' = held /\ issues' = issues
    BY <1>1 DEF QuarantineExtra, Roles, StateMoves, startupVars, treeVars, repairVars
  <2>2. task = "repair" /\ InPass /\ TreeTyped
    BY PhaseOf DEF StartupInv, Mending
  <2>. QED BY <2>1, <2>2 DEF InPass
<1>3. Extras' = Extras
  BY <1>2 DEF Extras
<1>4. ASSUME NEW ref \in DOMAIN parkMap, Healthy(parkMap, ref)' PROVE Healthy(parkMap, ref)
  <2>. DEFINE id == parkMap[ref]  parent == IdOf(parkMap, ParentOf(ref))
  <2>1. /\ id \in DOMAIN tree /\ id # Root /\ ref \in Refs
        /\ ParentOf(ref) \in DOMAIN parkMap \cup {<<"park", "root">>}
    BY <1>2, WholeMap
  <2>2. /\ tree'[id].parent = parent /\ tree'[id].parent # Nowhere
        /\ tree'[id].folder = IsFolder(ref) /\ tree'[id].name \in Allowed(ref)
    BY <1>2, <1>4, <2>1 DEF Healthy, Fits, Exists
  <2>3. CASE tree'[id] = tree[id]
    BY <1>4, <2>1, <2>2, <2>3 DEF Healthy, Fits, Exists
  <2>4. CASE QuarantineExtra
    <3>1. PICK e \in Extras : Moved(e, Pound)
      BY <1>2, <2>4, ExtraMoves
    <3>2. CASE id = e
      <4>1. tree'[id].parent = Pound
        BY <2>1, <3>1, <3>2 DEF Moved
      <4>2. <<"park", "DOG_POUND">> \in DOMAIN parkMap
        BY <1>2 DEF Whole, GlobalRefs
      <4>3. IdOf(parkMap, <<"park", "DOG_POUND">>) = IdOf(parkMap, ParentOf(ref))
        BY <1>2, <2>2, <4>1 DEF IdOf, Pound
      <4>4. ParentOf(ref) = <<"park", "DOG_POUND">>
        BY <1>2, <2>1, <4>2, <4>3, FoldersApart
      <4>. QED BY <2>1, <4>4, RefFacts
    <3>3. CASE id # e
      <4>1. /\ tree'[id].parent = tree[id].parent /\ tree'[id].name = tree[id].name
            /\ tree'[id].folder = tree[id].folder
        BY <2>1, <3>1, <3>3 DEF Moved
      <4>. QED BY <1>4, <2>1, <2>2, <4>1 DEF Healthy, Fits, Exists
    <3>. QED BY <3>2, <3>3
  <2>5. CASE Roles
    <3>1. PICK mode \in DOMAIN parkMap :
            \E name \in Allowed(mode) : Healthy(parkMap, mode) /\ Renamed(parkMap[mode], name)
      BY <1>2, <2>5, RoleRenames DEF Roles, StartupInv
    <3>2. PICK name \in Allowed(mode) : Healthy(parkMap, mode) /\ Renamed(parkMap[mode], name)
      BY <3>1
    <3>3. CASE ref # mode
      <4>1. id # parkMap[mode]
        BY <1>2, <3>3 DEF Whole
      <4>2. /\ tree'[id].parent = tree[id].parent /\ tree'[id].name = tree[id].name
            /\ tree'[id].folder = tree[id].folder
        BY <2>1, <3>2, <4>1 DEF Renamed
      <4>. QED BY <1>4, <2>1, <2>2, <4>2 DEF Healthy, Fits, Exists
    <3>. QED BY <3>2, <3>3
  <2>6. CASE UNCHANGED startupVars
    BY <2>3, <2>6 DEF startupVars, treeVars
  <2>. QED BY <1>1, <2>4, <2>5, <2>6
<1>. QED BY <1>2, <1>3, <1>4 DEF NobodysExtras

(* What the audit found wrong is still wrong until somebody disturbs it, and   *)
(* an extra is nobody's in the map.                                            *)
LEMMA FreshStep ==
  ASSUME StartupInv, Fresh, [StartupNext]_startupVars
  PROVE  Fresh'
<1>1. CASE Audit /\ ~blind'
  BY <1>1, AuditIsFresh
<1>2. CASE ~Mending' \/ ~steady' \/ blind'
  BY <1>2 DEF Fresh
<1>3. CASE Mending' /\ steady' /\ ~blind' /\ ~Audit
  <2>1. /\ Mending /\ issues' \subseteq issues
        /\ stage' \in {"quarantine", "restore"} => stage \in {"quarantine", "restore"}
    BY <1>3, ListShrinks
  <2>2. steady
    <3>1. CASE Looks
      BY <1>3, <3>1 DEF Looks, AuditIsClean, AuditBlocks, QuarantineDone, QuarantineFails, RestoreFails,
         RestoreDone, ReplaceBlocks, PassDone, Raise, ComesToRest, Mending, beside
    <3>2. CASE Steps \/ WriteFirstMap
      BY <1>3, <3>2 DEF Steps, Bootstrap, EnsureFails, Register, RegistrationConflict, Start, Serve, Restart,
         Stop, WriteFirstMap, Raise, ComesToRest, Mending
    <3>3. CASE Remaps
      BY <1>3, <3>3, Replaced
    <3>4. CASE UNCHANGED startupVars \/ PersistRegistration \/ EnsureChild \/ Roles \/ People
      BY <1>3, <3>4 DEF startupVars, PersistRegistration, EnsureChild, Roles, People, beside
    <3>5. CASE QuarantineExtra \/ RestoreOne \/ RenameBack \/ Recreate \/ PutAway
      BY <1>3, <3>5, MendingStep
    <3>. QED BY <3>1, <3>2, <3>3, <3>4, <3>5, StepSorts
  <2>2b. ~blind
    <3>1. CASE Looks
      BY <1>3, <3>1 DEF Looks, AuditIsClean, AuditBlocks, QuarantineDone, QuarantineFails, RestoreFails,
         RestoreDone, ReplaceBlocks, PassDone, Raise, ComesToRest, Mending
    <3>2. CASE Steps \/ WriteFirstMap
      BY <1>3, <3>2 DEF Steps, Bootstrap, EnsureFails, Register, RegistrationConflict, Start, Serve, Restart,
         Stop, WriteFirstMap, Raise, ComesToRest, Mending
    <3>3. CASE Remaps
      BY <1>3, <3>3 DEF Remaps, Adopt, NameCreated
    <3>4. CASE UNCHANGED startupVars \/ PersistRegistration \/ EnsureChild \/ Roles \/ People
      BY <1>3, <3>4 DEF startupVars, PersistRegistration, EnsureChild, Roles, People, repairVars
    <3>5. CASE QuarantineExtra \/ RestoreOne \/ RenameBack \/ Recreate \/ PutAway
      BY <1>3, <3>5 DEF QuarantineExtra, RestoreOne, RenameBack, Recreate, PutAway, repairVars
    <3>. QED BY <3>1, <3>2, <3>3, <3>4, <3>5, StepSorts
  <2>3. ASSUME NEW issue \in Unfit' PROVE StillWrong(issue)'
    <3>1. issue \in Unfit
      BY <2>1, <2>3 DEF Unfit
    <3>2. StillWrong(issue)
      BY <2>1, <2>2, <2>2b, <3>1 DEF Fresh
    <3>. QED BY <1>3, <2>1, <2>3, <3>2, OthersAsTheyWere
  <2>4. ASSUME stage' = "quarantine" PROVE NobodysExtras'
    <3>1. stage = "quarantine"
      <4>1. stage # "restore"
        <5>1. CASE Looks
          BY <1>3, <2>4, <5>1 DEF Looks, AuditIsClean, AuditBlocks, QuarantineDone, QuarantineFails, RestoreFails,
             RestoreDone, ReplaceBlocks, PassDone, Raise, ComesToRest, Mending, Repairing
        <5>2. CASE Steps \/ WriteFirstMap
          BY <1>3, <5>2 DEF Steps, Bootstrap, EnsureFails, Register, RegistrationConflict, Start, Serve, Restart,
             Stop, WriteFirstMap, Raise, ComesToRest, Mending
        <5>3. CASE Remaps
          BY <2>4, <5>3, Replaced
        <5>4. CASE PersistRegistration \/ EnsureChild
          BY <2>1, <5>4, RegisteredMap DEF EnsureChild, Ensuring, Mending
        <5>5. CASE UNCHANGED startupVars \/ Roles \/ People \/ QuarantineExtra \/ RestoreOne \/ RenameBack
          BY <2>4, <5>5 DEF startupVars, Roles, People, QuarantineExtra, RestoreOne, RenameBack, repairVars
        <5>6. CASE Recreate \/ PutAway
          BY <2>4, <5>6 DEF Recreate, PutAway
        <5>. QED BY <1>3, <5>1, <5>2, <5>3, <5>4, <5>5, <5>6, StepSorts DEF Looks
      <4>. QED BY <2>1, <2>4, <4>1
    <3>2. NobodysExtras
      BY <2>1, <2>2, <2>2b, <3>1 DEF Fresh
    <3>. QED BY <1>3, <2>1, <2>4, <3>2, ExtrasStayNobodys
  <2>. QED BY <2>3, <2>4 DEF Fresh
<1>. QED BY <1>1, <1>2, <1>3

(* Bootstrap without a rerun lays a park that has no map yet.                     *)
LEMMA FirstTimeStep ==
  ASSUME ~Reruns, StartupInv, FirstTime, [StartupNext]_startupVars
  PROVE  FirstTime'
<1>1. CASE Looks
  BY <1>1 DEF Looks, Audit, AuditIsClean, AuditBlocks, QuarantineDone, QuarantineFails, RestoreFails, RestoreDone,
     ReplaceBlocks, PassDone, Raise, ComesToRest, Repairing, Replacing, FirstTime
<1>2. CASE Steps \/ WriteFirstMap
  BY <1>2 DEF Steps, Bootstrap, EnsureFails, Register, RegistrationConflict, Start, Serve, Restart, Stop,
     WriteFirstMap, Raise, ComesToRest, FirstTime, treeVars
<1>3. CASE Remaps
  BY <1>3, Replaced DEF FirstTime
<1>4. CASE PersistRegistration
  BY <1>4, RegisteredMap DEF PersistRegistration, FirstTime
<1>5. CASE QuarantineExtra \/ RestoreOne \/ RenameBack \/ Recreate \/ PutAway
  BY <1>5, MendingStep DEF FirstTime
<1>6. CASE UNCHANGED startupVars \/ EnsureChild \/ People \/ Roles
  BY <1>6 DEF startupVars, treeVars, EnsureChild, People, Drift, Roles, StateMoves, FirstTime
<1>. QED BY <1>1, <1>2, <1>3, <1>4, <1>5, <1>6, StepSorts

(* A reference that is replaced was not in place.                                 *)
LEMMA ReplacedWasUnfit ==
  ASSUME StartupInv, Fresh, Remaps, steady, ~blind
  PROVE  ~Healthy(parkMap, First.ref)
<1>1. /\ Mending /\ Unfit # {} /\ First.ref \in DOMAIN parkMap /\ tree' = tree
      /\ parkMap'[First.ref] \in DOMAIN tree /\ Fits(parkMap'[First.ref], First.ref, First.parent)
  BY Replaced
<1>2. First \in Unfit /\ OfMap(First)
  BY <1>1, FirstIsListed
<1>3. StillWrong(First)
  BY <1>1, <1>2 DEF Fresh
<1>4. Exists(First.parent)
  BY <1>1, LiesInWhatExists DEF StartupInv, Fits
<1>5. First.kind \in {"missing", "bad name"}
  BY <1>1, FirstIsListed
<1>. QED BY <1>2, <1>3, <1>4, <1>5 DEF StillWrong, OfMap, Healthy, Fits

(* One step keeps an object that is in place, and its place.                      *)
LEMMA OneStepKeeps ==
  ASSUME KeptInv, [StartupNext]_startupVars, steady, steady', ~blind, NEW ref \in DOMAIN parkMap, Healthy(parkMap, ref)
  PROVE  /\ ref \in DOMAIN parkMap' /\ parkMap'[ref] = parkMap[ref]
         /\ tree'[parkMap[ref]].parent = tree[parkMap[ref]].parent
<1>0. StartupInv /\ Fresh /\ FirstTime /\ TreeTyped /\ Phase
  BY DEF KeptInv, StartupInv
<1>1. Whole(parkMap)
  BY <1>0 DEF StartupInv, MapTyped, EmptyMap
<1>2. parkMap[ref] \in DOMAIN tree /\ tree[parkMap[ref]].parent = IdOf(parkMap, ParentOf(ref))
  BY <1>0, <1>1, WholeMap DEF Healthy, Fits
<1>3. CASE UNCHANGED startupVars \/ Looks \/ Steps
  BY <1>3, StillSteps DEF startupVars, treeVars
<1>4. CASE Remaps
  BY <1>0, <1>4, Replaced, ReplacedWasUnfit
<1>5. CASE WriteFirstMap
  BY <1>0, <1>5 DEF WriteFirstMap, FirstTime, EmptyMap
<1>6. CASE PersistRegistration
  <2>1. PICK device \in Devices \ Registered(parkMap) : \E id : NewFolder(device, id)
    BY <1>0, <1>6, RegisteredMap
  <2>2. PICK id : held = Remember(parkMap, <<device, "ROOT">>, id)
    BY <2>1 DEF NewFolder
  <2>3. parkMap' = held /\ tree' = tree /\ <<device, "ROOT">> \notin DOMAIN parkMap
    BY <1>0, <1>6, <2>1, RegisteredMap DEF Registered
  <2>. QED BY <2>2, <2>3 DEF Remember
<1>7. CASE EnsureChild
  <2>1. parkMap' = parkMap /\ \A o \in DOMAIN tree : tree'[o] = tree[o]
    BY <1>0, <1>7, NextToLay, EnsureLays DEF EnsureChild
  <2>. QED BY <1>2, <2>1
<1>8. CASE QuarantineExtra
  <2>1. PICK e \in Extras : Moved(e, Pound)
    BY <1>0, <1>8, ExtraMoves
  <2>2. Mending /\ stage = "quarantine" /\ parkMap' = parkMap
    BY <1>8 DEF QuarantineExtra, Repairing, Mending
  <2>3. parkMap[ref] # e
    BY <1>0, <2>2 DEF Fresh, NobodysExtras
  <2>. QED BY <1>2, <2>1, <2>2, <2>3 DEF Moved
<1>9. CASE RestoreOne
  <2>1. PICK issue \in Strays : Moved(issue.id, issue.parent)
    BY <1>0, <1>9, StrayMoves
  <2>2. Mending /\ stage = "restore" /\ parkMap' = parkMap
    BY <1>9 DEF RestoreOne, Repairing, Mending
  <2>3. OfMap(issue) /\ AsNamed(issue)
    BY <1>0, <2>2 DEF StartupInv, Listed
  <2>4. parkMap[ref] = issue.id => issue.parent = tree[parkMap[ref]].parent
    BY <1>1, <1>2, <2>3 DEF OfMap, AsNamed, Whole
  <2>. QED BY <1>2, <2>1, <2>2, <2>4 DEF Moved
<1>10. CASE PutAway
  <2>1. parkMap' = parkMap /\ (tree' = tree \/ Moved(inHand, Pound))
    BY <1>0, <1>10, DisplacedMoves
  <2>2. task = "repair" /\ inHand # NoObject
    BY <1>10 DEF PutAway
  <2>3. parkMap[ref] # inHand
    BY <1>0, <2>2, PhaseOf DEF InPass
  <2>. QED BY <1>2, <2>1, <2>3 DEF Moved
<1>11. CASE RenameBack
  BY <1>0, <1>2, <1>11, NameComesBack DEF Renamed
<1>12. CASE Recreate
  BY <1>0, <1>2, <1>12, ObjectIsCreated DEF Added
<1>13. CASE Roles
  BY <1>0, <1>2, <1>13, RoleRenames DEF Roles, StartupInv, Renamed
<1>14. ~People
  BY DEF People
<1>. QED BY <1>3, <1>4, <1>5, <1>6, <1>7, <1>8, <1>9, <1>10, <1>11, <1>12, <1>13, <1>14, StepSorts

(* The invariant with its two additions holds in every reachable state.        *)
LEMMA KeptHolds == ~Reruns => (StartupSpec => []KeptInv)
<1>. SUFFICES ASSUME ~Reruns PROVE StartupSpec => []KeptInv
  OBVIOUS
<1>1. StartupInit => KeptInv
  <2>1. StartupInit => Fresh /\ FirstTime
    BY DEF StartupInit, Fresh, Mending, FirstTime
  <2>. QED BY <2>1, StartupStart DEF KeptInv
<1>2. KeptInv /\ [StartupNext]_startupVars => KeptInv'
  BY StartupStep, FreshStep, FirstTimeStep DEF KeptInv
<1>. QED BY <1>1, <1>2, PTL DEF StartupSpec

(* What is in place when nobody else touches the folder stays where it is and      *)
(* stays the object its reference names, whatever a repair, a registration or a    *)
(* bootstrap does or wherever it stops: in every pass whose audit was answered     *)
(* each of its requests (the hazard at tree_audit.py:292 is the pass whose audit   *)
(* was not), and where bootstrap is not run on a park that has a map.              *)
THEOREM WhatIsInPlaceIsKept == ~Reruns => (StartupSpec => HealthyIsKept)
<1>. SUFFICES ASSUME ~Reruns PROVE StartupSpec => HealthyIsKept
  OBVIOUS
<1>1. KeptInv /\ [StartupNext]_startupVars =>
        [steady /\ steady' /\ ~blind =>
           \A ref \in DOMAIN parkMap :
             Healthy(parkMap, ref) =>
               /\ ref \in DOMAIN parkMap' /\ parkMap'[ref] = parkMap[ref]
               /\ tree'[parkMap[ref]].parent = tree[parkMap[ref]].parent]_startupVars
  BY OneStepKeeps
<1>2. StartupSpec => []KeptInv
  BY KeptHolds
<1>. QED BY <1>1, <1>2, PTL DEF StartupSpec, HealthyIsKept
==============================================================================
