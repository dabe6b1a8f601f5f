------------------------------ MODULE MCRymRun ------------------------------
(* RymRun on small programs, from the first construct lowered to the return *)
(* of one call.                                                             *)
EXTENDS RymRun

Terminated == Lowered /\ at = NoLabel /\ UNCHANGED allVars

MCSpec == RunInit /\ [][RunNext \/ Terminated]_allVars
MCFairSpec == MCSpec /\ RunFairness
=============================================================================
