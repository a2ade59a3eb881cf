------------------------------ MODULE MCDeployment ------------------------------
(****************************************************************************)
(* Small instances of Deployment for TLC.                                   *)
(****************************************************************************)
EXTENDS Deployment

AnyEnvironment == [parts : SUBSET {"admin", "service"}, phone : Phone]

(* One complete environment for all instances: the other numbers are those  *)
(* of other users, and of the administrator before the deployment.          *)
Configured == {[parts |-> {"admin", "service"}, phone |-> CHOOSE p \in Phone : TRUE]}
================================================================================
