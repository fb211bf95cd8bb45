------------------------ MODULE MCThreadPoolExecutor -------------------------
(***************************************************************************)
(* Instances of ThreadPoolExecutor for TLC.                                *)
(***************************************************************************)
EXTENDS ThreadPoolExecutor

=============================================================================
