---------------------------- MODULE MCRymParser ----------------------------
(* RymParser on files of any length, over the tokens of a run.              *)
EXTENDS RymParser

Stopped == ~Parsing /\ UNCHANGED vars

MCSpec == Init /\ [][Next \/ Stopped]_vars
MCFairSpec == MCSpec /\ Fairness
=============================================================================
