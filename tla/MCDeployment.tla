---------------------------- MODULE MCDeployment ----------------------------
(* A deployment with Reality and one capability behind a switch.           *)
EXTENDS Deployment
=============================================================================
