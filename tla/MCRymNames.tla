----------------------------- MODULE MCRymNames -----------------------------
(* RymNames on small files: an enum, and a function besides the one that is *)
(* lowered.                                                                 *)
EXTENDS RymNames

Ended == fn = "end" /\ UNCHANGED vars

MCSpec == Init /\ [][Next \/ Ended]_vars
=============================================================================
