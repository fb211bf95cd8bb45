----------------------------- MODULE MCLogFiles -----------------------------
(***************************************************************************)
(* Instance of LogFiles for TLC.                                           *)
(***************************************************************************)
EXTENDS LogFiles
=============================================================================
