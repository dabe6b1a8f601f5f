---------------------------- MODULE MCRymRegAlloc ----------------------------
(* Small instances of RymRegAlloc; a function that has returned stays so.    *)
EXTENDS RymRegAlloc

MCTemps == <<"%0", "%1", "%2">>
MCParams == <<"p">>

Terminated == pc > Len(code) /\ UNCHANGED vars

MCSpec == Init /\ [][Next \/ Terminated]_vars
=============================================================================
