------------------------------ MODULE MCCiDeploy ------------------------------
(* The two lab nodes, for the instances of CiDeploy. *)
EXTENDS CiDeploy

TwoNodes == {"server", "client"}
===============================================================================
