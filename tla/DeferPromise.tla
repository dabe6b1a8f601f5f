---------------------------- MODULE DeferPromise ----------------------------
(****************************************************************************)
(* What defer promises of one call of a function: "Deferred expressions for *)
(* the current function (LIFO at return/exit)" (rym-ir/src/lower.rs), the   *)
(* field's comment.  A defer statement queues its expression when control   *)
(* reaches it; leaving the function runs what is queued, the last first,    *)
(* and only then returns.                                                   *)
(****************************************************************************)
EXTENDS Integers, SequencesExt

CONSTANT Exprs   \* the deferred expressions of the function

VARIABLES
    pending,   \* the deferred expressions queued and not run yet
    returned   \* the call is over

Init == pending = <<>> /\ returned = FALSE

Defer(d) ==
    /\ ~returned
    /\ pending' = Append(pending, d)
    /\ UNCHANGED returned

RunLast ==
    /\ ~returned
    /\ pending # <<>>
    /\ pending' = Front(pending)
    /\ UNCHANGED returned

Return ==
    /\ ~returned
    /\ pending = <<>>
    /\ returned' = TRUE
    /\ UNCHANGED pending

Next == (\E d \in Exprs : Defer(d)) \/ RunLast \/ Return

Spec == Init /\ [][Next]_<<pending, returned>>
=============================================================================
