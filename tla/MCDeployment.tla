---------------------------- MODULE MCDeployment ----------------------------
(* A model of Deployment for TLC: see Deployment.cfg. *)
EXTENDS Deployment
=============================================================================
