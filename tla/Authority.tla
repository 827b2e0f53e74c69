------------------------------- MODULE Authority --------------------------------
(***************************************************************************)
(* The one native document that several WATCHDOGs write together, as its   *)
(* clients meet it through NativeDocsAuthority (drive/docs_authority.py):  *)
(* read() returns a whole document with its revision, compare_replace      *)
(* sends a whole document that the provider applies only to the revision   *)
(* it was made from.  The document is kept as the log of its revisions;    *)
(* a revision is an index into the log.                                    *)
(*                                                                         *)
(* A read may lag behind the newest revision (authority_transaction.py:131 *)
(* takes an absent write for undecided), and an answer may be lost: the    *)
(* write has been applied, or is still on its way.  Whatever is on its way *)
(* was made from the newest revision, or the provider will refuse it.      *)
(***************************************************************************)
EXTENDS Integers, Sequences

CONSTANT MaxRevision     \* bound: writes to unrelated records stop here

ASSUME RevisionAssumption == MaxRevision \in Nat

VARIABLES log,       \* the revisions of the document, oldest first
          visible,   \* a read returns this revision or a later one
          flight     \* documents whose replacement may still be applied

authorityVars == <<log, visible, flight>>

Latest == Len(log)
Current == log[Latest]

Read(revision) ==
  /\ revision \in visible .. Latest
  /\ visible' = revision
  /\ UNCHANGED <<log, flight>>

Put_Unconditional(document) ==
  /\ log' = Append(log, document)
  /\ flight' = flight \ {document}
  /\ UNCHANGED visible
Put(document) ==
  /\ log' = Append(log, document)
  /\ flight' = {}
  /\ UNCHANGED visible

Accepted(revision, document) == revision = Latest /\ Put(document)

(* Status 400, 409 or 412: not always a changed revision, but never applied.    *)
Rejected == UNCHANGED authorityVars

(* 429, 5xx, a lost or malformed response.                                      *)
Unanswered(revision, document) ==
  \/ Accepted(revision, document)
  \/ /\ flight' = IF revision = Latest THEN flight \cup {document} ELSE flight
     /\ UNCHANGED <<log, visible>>

(* The targets' records in the same document.                                   *)
WriteElsewhere == Latest < MaxRevision /\ Put(Current)

CatchUp == visible < Latest /\ visible' = Latest /\ UNCHANGED <<log, flight>>
================================================================================
