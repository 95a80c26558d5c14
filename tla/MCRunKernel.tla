---------------------------- MODULE MCRunKernel ----------------------------
(* Instances of RunKernel for TLC; the actors and the plan are given in each  *)
(* configuration.                                                             *)
EXTENDS RunKernel
=============================================================================
