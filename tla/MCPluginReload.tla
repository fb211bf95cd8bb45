---------------------------- MODULE MCPluginReload ----------------------------
(***************************************************************************)
(* Instances of PluginReload for TLC.                                      *)
(***************************************************************************)
EXTENDS PluginReload, TLC

\* Worker threads are interchangeable.
WorkerSymmetry == Permutations(Worker)
=============================================================================
