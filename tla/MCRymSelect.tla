----------------------------- MODULE MCRymSelect ----------------------------
(* RymSelect on words of eight bits: fields of 2, 3, 2 and 1 bits.          *)
EXTENDS RymSelect

Finished == ~Idle /\ Done /\ UNCHANGED selectVars

MCSpec == SelectInit /\ [][SelectNext \/ Finished]_selectVars
=============================================================================
