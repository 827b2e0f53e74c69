-------------------------------- MODULE OneFile --------------------------------
(***************************************************************************)
(* The two ways a stateful file is changed, at work on one file: walks,    *)
(* which move its state (StateWalker), and verified writes, which replace  *)
(* its body (BodyKeeper), request by request and against a provider that   *)
(* compares the version inside the mutation (memory_backend.py).           *)
(***************************************************************************)
EXTENDS StateWalker

CONSTANTS Writes,      \* the calls of replace_verified()
          WritePlan,   \* their arguments
          Unreadable   \* texts that fail the schema a body is read back with

VARIABLES writeStage, writeToken, writeFence, writeAttempts, writeProbes,
          writeReceipt, writeMisread, writeOutcome, writesInFlight

writeVars == <<writeStage, writeToken, writeFence, writeAttempts, writeProbes,
               writeReceipt, writeMisread, writeOutcome, writesInFlight>>
fileVars == <<vars, writeVars>>

Keeper ==
  INSTANCE BodyKeeper
    WITH Calls <- Writes, Plan <- WritePlan,
         stage <- writeStage, token <- writeToken, fenceName <- writeFence,
         attempts <- writeAttempts, probes <- writeProbes, receipt <- writeReceipt,
         misread <- writeMisread, outcome <- writeOutcome, inFlight <- writesInFlight

ASSUME OneFileAssumption == Walks \cap Writes = {} /\ Keeper!KeeperAssumption

InitFile == Init /\ Keeper!Init

WalkersStep ==
  /\ \E w \in Walks : AtomicStep(w) \/ LateRename(w)
  /\ UNCHANGED writeVars

KeepersStep ==
  /\ \E c \in Writes : Keeper!AtomicStep(c) \/ Keeper!LateWrite(c)
  /\ UNCHANGED <<callVars, inFlight>>

NextFile == WalkersStep \/ KeepersStep \/ (Others /\ UNCHANGED writeVars)

FileSpec == InitFile /\ [][NextFile]_fileVars

-----------------------------------------------------------------------------
(* What BodyKeeper promises its callers holds among walks that move the file   *)
(* and others that write it.                                                   *)
BodiesAreOwned == Keeper!BodiesAreOwned
LateWritesRepeat == Keeper!LateWritesRepeat
================================================================================
