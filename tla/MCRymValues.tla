----------------------------- MODULE MCRymValues -----------------------------
(* RymValues on small programs, to the end of the last function.  In code   *)
(* that control does not reach nothing is opened.                           *)
EXTENDS RymValues

Terminated == Lowered /\ UNCHANGED valueVars

Opens ==
    \/ Len(held') > Len(held) \/ Len(deferred') > Len(deferred)
    \/ nextBlock' > nextBlock /\ Len(stack') >= Len(stack)

MCSpec == ValueInit /\ [][(ValueNext /\ (live \/ ~Opens)) \/ Terminated]_valueVars
=============================================================================
