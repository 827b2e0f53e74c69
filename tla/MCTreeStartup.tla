----------------------------- MODULE MCTreeStartup -----------------------------
(***************************************************************************)
(* A tree of four global references and one device's folder.               *)
(***************************************************************************)
EXTENDS TreeStartup
================================================================================
