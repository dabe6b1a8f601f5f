----------------------------- MODULE MCRymLower -----------------------------
(* RymLower on small programs. Lowering stops after the last function, so   *)
(* that is a legal last state and every other dead end a deadlock.          *)
EXTENDS RymLower

Terminated == Lowered /\ UNCHANGED vars

MCSpec == Init /\ [][Next \/ Terminated]_vars
=============================================================================
