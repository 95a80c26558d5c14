------------------------ MODULE MCSubagentDispatch ------------------------
(* Instances of SubagentDispatch for TLC: two orders, in every way they may   *)
(* depend on each other.                                                      *)
EXTENDS SubagentDispatch
===========================================================================
