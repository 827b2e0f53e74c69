------------------------------ MODULE DriveObject ------------------------------
(***************************************************************************)
(* One stateful Google Drive file as its clients meet it through           *)
(* src/src/tb4/drive/backend.py: a name that spells its state, a body, and *)
(* a version that every mutation advances.  The file is kept as the log of *)
(* its snapshots, so that a version token is an index into the log and the *)
(* history is there to be judged.                                          *)
(*                                                                         *)
(* Reads are exact but may lag: `visible` is the newest version the        *)
(* metadata endpoint is sure to show, and it only moves forward (the       *)
(* VisibilityLag of memory_backend.py).  A body is read no older than the  *)
(* metadata, but it may be newer (the comment at body_keeper.py:305).      *)
(*                                                                         *)
(* AtomicPrecondition is DriveCapabilities.atomic_version_precondition:    *)
(* TRUE is the reference backend, which compares the expected version and  *)
(* mutates in one step; FALSE is the Google adapter, which reads the       *)
(* version first and sends an unconditional update afterwards.             *)
(***************************************************************************)
EXTENDS Channel, Sequences

CONSTANTS MaxVersion,         \* bound: other writers stop at this version
          AtomicPrecondition  \* does the provider compare and set atomically?

ASSUME DriveAssumption == MaxVersion \in Nat /\ AtomicPrecondition \in BOOLEAN

Elsewhere == "elsewhere"      \* author of the writes of the other clients

VARIABLES log,      \* the snapshots of the file, oldest first
          visible   \* reads return this version or a later one

driveVars == <<log, visible>>

Latest == Len(log)
Current == log[Latest]

(* The versions a metadata read may return; the read makes them visible.     *)
ReadVersion(v) ==
  /\ v \in visible .. Latest
  /\ visible' = v
  /\ UNCHANGED log

(* A version-checked mutation finds its token current, where the provider     *)
(* checks that at all.  (A definition named <definition>_<bug>, here and      *)
(* elsewhere, is a bug this code could have, for the properties to find.)     *)
PreconditionHolds_Unchecked(token) == TRUE
PreconditionHolds(token) == AtomicPrecondition => token = Latest

Write(state, body, author) ==
  /\ log' = Append(log, [state |-> state, body |-> body, by |-> author])
  /\ UNCHANGED visible

OtherWriter ==
  /\ Latest < MaxVersion
  /\ \E s \in OtherSnapshots(Current) : Write(s.state, s.body, Elsewhere)
================================================================================
