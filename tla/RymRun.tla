------------------------------- MODULE RymRun -------------------------------
(****************************************************************************)
(* One call of a function that RymLower has lowered: the basic blocks are   *)
(* executed the way both backends jump between them, event by event, with   *)
(* every branch on a value free to go either way and a for loop's branch    *)
(* decided by its counter, a variable as C has it (what the LA64 backend    *)
(* makes of an assignment is in RymRegAlloc).  This is where the promises   *)
(* of the source language meet the blocks they were lowered to.             *)
(****************************************************************************)
EXTENDS RymLower

CONSTANT Trip   \* the number of elements each for loop ranges over

ASSUME TripAssumption == Trip \in Nat

VARIABLES
    at,        \* label of the block being executed, NoLabel after the return
    pos,       \* events of that block already executed
    counter,   \* i_var of the for loop that is running
    pending,   \* auxiliary: deferred expressions reached and not run yet
    aborted    \* auxiliary: the call ended in Unreachable (or_panic)

runVars == <<at, pos, counter, pending, aborted>>
allVars == <<vars, runVars>>

RunInit ==
    /\ Init
    /\ at = Entry
    /\ pos = 0
    /\ counter = 0
    /\ pending = <<>>
    /\ aborted = FALSE

-----------------------------------------------------------------------------
Running == Lowered /\ at # NoLabel

(* The block control is in.  There is one, by Closed and UniqueLabels. *)
Here == blocks[CHOOSE i \in DOMAIN blocks : blocks[i].label = at]

AtEvent == Running /\ pos < Len(Here.code)
NextEvent == Here.code[pos + 1]

(* A defer statement queues its expression; the code emits nothing. *)
ExecDefer ==
    /\ AtEvent /\ NextEvent.op = "defer"
    /\ pending' = Append(pending, NextEvent.arg)
    /\ pos' = pos + 1
    /\ UNCHANGED <<vars, at, counter, aborted>>

(* The instructions a deferred expression was lowered to. *)
ExecDeferred ==
    /\ AtEvent /\ NextEvent.op = "run"
    /\ pending' = RemoveFirst(pending, NextEvent.arg)
    /\ pos' = pos + 1
    /\ UNCHANGED <<vars, at, counter, aborted>>

(* Load of the start value into i_var; i_next = i_cur + 1, stored to i_var. *)
ExecCounter ==
    /\ AtEvent /\ NextEvent.op \in {"init", "inc"}
    /\ counter' = IF NextEvent.op = "init" THEN 0 ELSE counter + 1
    /\ pos' = pos + 1
    /\ UNCHANGED <<vars, at, pending, aborted>>

AtTerm(term) == Running /\ pos = Len(Here.code) /\ Here.term = term

GoTo(l) ==
    /\ at' = l
    /\ pos' = 0
    /\ UNCHANGED <<vars, counter, pending, aborted>>

ExecJump == AtTerm("jump") /\ GoTo(Here.to[1])
ExecBranch == AtTerm("branch") /\ \E i \in 1..2 : GoTo(Here.to[i])

ExecFor == AtTerm("lt") /\ GoTo(Here.to[IF counter < Trip THEN 1 ELSE 2])

ExecReturn ==
    /\ AtTerm("return")
    /\ at' = NoLabel
    /\ pos' = 0
    /\ UNCHANGED <<vars, counter, pending, aborted>>

(* or_panic's error block: __builtin_unreachable in C, break 0 in LA64. *)
ExecUnreachable ==
    /\ AtTerm("unreachable")
    /\ at' = NoLabel
    /\ pos' = 0
    /\ aborted' = TRUE
    /\ UNCHANGED <<vars, counter, pending>>

Exec ==
    \/ ExecDefer \/ ExecDeferred \/ ExecCounter
    \/ ExecJump \/ ExecBranch \/ ExecFor \/ ExecReturn \/ ExecUnreachable

RunNext == (Next /\ UNCHANGED runVars) \/ Exec

RunSpec == RunInit /\ [][RunNext]_allVars

(* The compiler is one sequential program and so is what it compiles:       *)
(* neither waits for anything, so neither stops while it has a step left.   *)
RunFairness == WF_allVars(RunNext)

Returned == at = NoLabel /\ ~aborted

-----------------------------------------------------------------------------
(* Properties.                                                              *)

(* Leaving the function has run every deferred expression control had       *)
(* reached: "Deferred expressions for the current function (LIFO at         *)
(* return/exit)".                                                           *)
ReturnRunsDeferred == Returned => pending = <<>>

(* The lowered code keeps the promise of DeferPromise.                      *)
Promise == INSTANCE DeferPromise WITH Exprs <- 0..(MaxDefers - 1), returned <- Returned
KeepsDeferPromise == Promise!Spec

(* A call returns: a for loop ranges over finitely many elements, and the   *)
(* programs of the runs that check this have no other loop.                 *)
CallReturns == <>(at = NoLabel)
=============================================================================
