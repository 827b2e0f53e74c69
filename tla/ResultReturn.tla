------------------------------ MODULE ResultReturn ------------------------------
(***************************************************************************)
(* How a finished job is returned (fetcher/ball_pipeline.py): a walk to    *)
(* RETURNING, a verified write of the result and a walk to the terminal    *)
(* state, one after the other on one file, each only if the one before was *)
(* reported successful.  StateWalker and BodyKeeper are composed request   *)
(* by request; FetchBall takes each of the three as a step.  Meanwhile the *)
(* job may be given up, its result published by manual recovery, and the   *)
(* channel recycled for the next job.                                      *)
(***************************************************************************)
EXTENDS StateWalker

Returning == "return"    \* walk() to RETURNING
Storing == "store"       \* replace_verified() of the result
Publishing == "publish"  \* walk() to the terminal state

JobWalk(from, to) ==
  [from |-> from, to |-> to, actor |-> Fetcher, fenced |-> TRUE,
   operation |-> "job1", generation |-> 1]

ASSUME ReturnAssumption ==
  /\ Object = "FETCH_BALL" /\ Walks = {Returning, Publishing}
  /\ "job1" \in Operations /\ Texts = {"nothing", "result"}
  /\ Plan[Returning] = JobWalk("CHEW", "RETURNING")
  /\ \E terminal \in ResultStates : Plan[Publishing] = JobWalk("RETURNING", terminal)

JobBody(text) == [operation |-> "job1", generation |-> 1, text |-> text]

VARIABLES storeStage, storeToken, storeFence, storeAttempts, storeProbes,
          storeReceipt, storeMisread, storeOutcome, storeInFlight

storeVars == <<storeStage, storeToken, storeFence, storeAttempts, storeProbes,
               storeReceipt, storeMisread, storeOutcome, storeInFlight>>
returnVars == <<vars, storeVars>>

Store ==
  INSTANCE BodyKeeper
    WITH Calls <- {Storing}, Unreadable <- {},
         Plan <- [c \in {Storing} |->
                    [state |-> "RETURNING", actor |-> Fetcher, body |-> JobBody("result"),
                     local |-> "sound", fenced |-> TRUE, operation |-> "job1", generation |-> 1]],
         stage <- storeStage, token <- storeToken, fenceName <- storeFence,
         attempts <- storeAttempts, probes <- storeProbes, receipt <- storeReceipt,
         misread <- storeMisread, outcome <- storeOutcome, inFlight <- storeInFlight

InitReturn ==
  /\ Init /\ Store!Init
  /\ log[1].state = "CHEW" /\ log[1].body = JobBody("nothing")

-----------------------------------------------------------------------------
Succeeded(w) == outcome[w] \in {"NEW_SUCCESS", "IDEMPOTENT_SUCCESS"}
Stored == storeOutcome[Storing] = "VERIFIED_SUCCESS"

ReturnStep ==
  /\ WalkStep(Returning)
  /\ UNCHANGED storeVars

StoreStep ==
  /\ storeStage[Storing] = "begin" => Succeeded(Returning)
  /\ Store!CallStep(Storing)
  /\ UNCHANGED <<callVars, inFlight>>

PublishStep_Eager ==
  /\ stage[Publishing] = "begin" => storeOutcome[Storing] # Undecided
  /\ WalkStep(Publishing)
  /\ UNCHANGED storeVars
PublishStep ==
  /\ stage[Publishing] = "begin" => Stored
  /\ WalkStep(Publishing)
  /\ UNCHANGED storeVars

Pipeline == ReturnStep \/ StoreStep \/ PublishStep

(* What else happens to the file: the WATCHDOG gives the job up, manual recovery     *)
(* publishes the result it finds under RETURNING, COACH consumes and publishes.  The *)
(* one FETCHER is busy here and takes up nothing.                                    *)
TheWorld ==
  /\ OtherWriter
  /\ LET new == log'[Len(log')]
     IN /\ <<Current.state, new.state>> \notin
             {<<"CHEW", "RETURNING">>, <<"TOSS", "CHEW">>, <<"TOSS", "RETURNING">>}
        /\ new.body # Current.body =>
             Current.state \notin {"CHEW", "RETURNING"} /\ new.body.text = "nothing"
        /\ Current.state = "RETURNING" => /\ new.state = Plan[Publishing].to
                                          /\ Current.body.text = "result"
  /\ UNCHANGED <<callVars, inFlight, storeVars>>

Late ==
  \/ (\E w \in Walks : LateRename(w)) /\ UNCHANGED storeVars
  \/ Store!LateWrite(Storing) /\ UNCHANGED <<callVars, inFlight>>

NextReturn == Pipeline \/ Late \/ TheWorld
SpecReturn == InitReturn /\ [][NextReturn]_returnVars

(* process_one runs in one thread, over requests that time out.                       *)
FairSpecReturn == SpecReturn /\ WF_returnVars(Pipeline)

-----------------------------------------------------------------------------
(* A write that is reported verified put the job's result under RETURNING, or found it *)
(* there, at some moment since the call read the file: its name, body and fence are    *)
(* read at versions of their own, before and after others write.                       *)
StoredIsRemote == Store!VerifiedIsRemote

(* Each call lands once, though the answer to any of the three requests may be lost, *)
(* and the result is in the file before the worker publishes: neither a late rename *)
(* nor a late write changes the order RETURNING, result, terminal state              *)
(* (FETCH_BALL.md, RETURNING; state_walker.py:330-332; body_keeper.py:259).          *)
BodyBeforeName ==
  /\ AtMostOneEffect /\ Store!AtMostOneEffect
  /\ \A i \in EffectsOf(Publishing) : \E j \in 1 .. i - 1 : log[j].by = Storing
  /\ \A j \in DOMAIN log : log[j].by = Storing =>
       \E k \in 1 .. j - 1 : log[k].by = Returning

(* The transaction ends, with a report of its last request or short of it.            *)
ReturnEnds ==
  <>(\/ outcome[Publishing] # Undecided
     \/ outcome[Returning] # Undecided /\ ~Succeeded(Returning)
     \/ storeOutcome[Storing] # Undecided /\ ~Stored)
================================================================================
