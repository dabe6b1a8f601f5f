------------------------------ MODULE RymLower ------------------------------
(****************************************************************************)
(* The control-flow half of rym-ir's Lowerer (rym-ir/src/lower.rs): how one *)
(* function body after another is cut into labelled basic blocks.           *)
(*                                                                          *)
(* The program being lowered is chosen one construct at a time: whenever    *)
(* the recursive descent of lower_stmt / lower_expr is at a point where the *)
(* grammar allows a construct, the action that lowers it is enabled.  The   *)
(* descent itself, i.e. the labels each open activation still holds in its  *)
(* local variables, is the variable stack.                                  *)
(*                                                                          *)
(* Values are not modelled; of the instructions only those are kept that    *)
(* mark a control event: a deferred expression, a for-loop's counter.       *)
(****************************************************************************)
EXTENDS Integers, SequencesExt

CONSTANTS
    Constructs,   \* the constructs a program may use, a subset of AllConstructs
    FnKinds,      \* which bodies are lowered: "fn" (lower_fn), "__main" (lower_file)
    MaxFns,       \* bound: functions lowered by the same Lowerer
    MaxLabels,    \* bound: no construct is opened once next_block passed this
    MaxDefers,    \* bound: defer statements per function
    MaxArms,      \* bound: arms of a match
    MaxDepth      \* bound: constructs open at the same time

AllConstructs ==
    {"if", "while", "loop", "for", "break", "continue", "return",
     "match", "empty_match", "or_return", "or_panic", "or_zero", "or_else",
     "defer",          \* a defer statement directly in the function body,
     "nested_defer",   \* one inside a branch or a loop body,
     "jump_in_defer"}  \* a return, break or continue inside a deferred if

ASSUME ConstructsAssumption == Constructs \subseteq AllConstructs
ASSUME FnKindsAssumption == FnKinds \subseteq {"fn", "__main"}
ASSUME BoundsAssumption ==
    /\ MaxFns \in Nat /\ MaxLabels \in Nat /\ MaxDefers \in Nat
    /\ MaxArms \in Nat /\ MaxDepth \in Nat

VARIABLES
    fn,            \* what is being lowered: a function or the implicit __main
    fnCount,       \* functions started so far
    done,          \* the current function's blocks have been handed over
    nextBlock,     \* next_block: number of the next fresh label
    nextDefer,     \* number of the next defer statement (names the statement)
    instrs,        \* instrs: events of the current block
    blocks,        \* blocks: the finished basic blocks
    currentLabel,  \* current_label
    deferred,      \* deferred: defer statements seen and not flushed yet
    loopStack,     \* loop_stack: break and continue label of each open loop
    stack,         \* the activations of lower_stmt / lower_expr that are open
    live           \* auxiliary: can the source program reach this point?

vars == <<fn, fnCount, done, nextBlock, nextDefer, instrs, blocks,
          currentLabel, deferred, loopStack, stack, live>>

-----------------------------------------------------------------------------
(* Labels, blocks and frames.                                               *)

Entry == -1     \* the label "entry"; bb{n} is the number n
NoLabel == -2

Label == {Entry} \cup Nat

(* The events kept of an instruction list. "defer" marks where a defer      *)
(* statement stands: the code emits nothing there, it only queues.          *)
Event == [op : {"defer", "run", "init", "inc"}, arg : Int]

Ev(op, arg) == [op |-> op, arg |-> arg]

(* "lt" is the branch of a for loop on its counter, the others are the      *)
(* Terminator's variants. to lists the targets in the order then, else.     *)
Terms == {"jump", "branch", "lt", "return", "unreachable"}

Block == [label : Label, code : Seq(Event), term : Terms, to : Seq(Label),
          live : BOOLEAN]

BB(l, code, term, to, lv) ==
    [label |-> l, code |-> code, term |-> term, to |-> to, live |-> lv]

(* An open activation: the labels it allocated and has not started yet, in  *)
(* the order it will start them (the last one is where the construct        *)
(* continues); for a loop, the label of its back edge; for a flush, the     *)
(* deferred expressions still to be lowered.  fall and exit are auxiliary:  *)
(* the source can reach the next label / the last label of todo.            *)
FrameKinds == {"then", "else", "cond", "while", "loop", "for", "arm",
               "default", "flush_return", "flush_exit"}

Frame == [kind : FrameKinds, todo : Seq(Label), head : Label \cup {NoLabel},
          rest : Seq(Nat), fall : BOOLEAN, exit : BOOLEAN]

NewFrame(kind, todo, head, exit) ==
    [kind |-> kind, todo |-> todo, head |-> head, rest |-> <<>>,
     fall |-> live, exit |-> exit]

(* An entry of loop_stack. *)
LoopLabels == [brk : Label, cont : Label]

LoopKinds == {"while", "loop", "for"}
FlushKinds == {"flush_return", "flush_exit"}

Top == stack[Len(stack)]
Push(f) == stack' = Append(stack, f)
ReplaceTop(f) == stack' = [stack EXCEPT ![Len(stack)] = f]
Pop == stack' = SubSeq(stack, 1, Len(stack) - 1)
TopIs(kinds) == stack # <<>> /\ Top.kind \in kinds

(* Merge(f): the label at which the construct of frame f continues. *)
Merge(f) == f.todo[Len(f.todo)]

(* The grammar has statements only in a function body and in the braces of  *)
(* if, else and the loops; a match arm, a condition, an or_else default and *)
(* a deferred expression are expressions.                                   *)
AtStmt == stack = <<>> \/ TopIs({"then", "else"} \cup LoopKinds)

(* A return, break or continue: where the grammar has one. *)
InFlush == \E i \in DOMAIN stack : stack[i].kind \in FlushKinds
AtJump == AtStmt /\ (InFlush => "jump_in_defer" \in Constructs)

(* for, while and loop are IllegalNesting inside any other construct. *)
AtLoopStmt == stack = <<>>

(* Opening construct c with n fresh labels. *)
CanOpen(c, n) ==
    /\ ~done
    /\ c \in Constructs
    /\ nextBlock + n <= MaxLabels
    /\ Len(stack) < MaxDepth

-----------------------------------------------------------------------------
(* The builder helpers.                                                     *)

(* finish_block: the current block gets its terminator and joins blocks. *)
Finished(term, to) == BB(currentLabel, instrs, term, to, live)

(* finish_block(term) followed by start_block(l). *)
Switch(term, to, l) ==
    /\ blocks' = Append(blocks, Finished(term, to))
    /\ currentLabel' = l
    /\ instrs' = <<>>

(* emit *)
Emit(e) == instrs' = Append(instrs, e)

(* Fault: the deferred expressions are lowered first to last. *)
BeginFlushFifo(kind) ==
    /\ Emit(Ev("run", Head(deferred)))
    /\ Push([NewFrame(kind, <<>>, NoLabel, FALSE) EXCEPT !.rest = Tail(deferred)])
    /\ deferred' = <<>>

(* flush_deferred drains the queue and lowers the expressions last first.   *)
(* The frame is pushed with the first one already begun.                    *)
BeginFlush(kind) ==
    /\ Emit(Ev("run", deferred[Len(deferred)]))
    /\ Push([NewFrame(kind, <<>>, NoLabel, FALSE)
               EXCEPT !.rest = Reverse(Front(deferred))])
    /\ deferred' = <<>>

Unchanged_fn == UNCHANGED <<fn, fnCount, done>>

-----------------------------------------------------------------------------
(* Statements (lower_stmt).                                                 *)

(* defer e *)
LowerDefer ==
    /\ ~done /\ AtStmt /\ nextDefer < MaxDefers
    /\ (IF stack = <<>> THEN "defer" ELSE "nested_defer") \in Constructs
    /\ deferred' = Append(deferred, nextDefer)
    /\ nextDefer' = nextDefer + 1
    /\ Emit(Ev("defer", nextDefer))
    /\ UNCHANGED <<nextBlock, blocks, currentLabel, loopStack, stack, live>>
    /\ Unchanged_fn

(* Fault: no block is started after the return. *)
FinishReturnOpenEnded ==
    /\ Switch("return", <<>>, NoLabel)
    /\ live' = FALSE
    /\ UNCHANGED nextBlock

(* Fault: the dead block's label is not taken out of circulation. *)
FinishReturnReusesLabel ==
    /\ Switch("return", <<>>, nextBlock)
    /\ live' = FALSE
    /\ UNCHANGED nextBlock

(* return e: flush what is deferred so far, finish the block, go on in a    *)
(* fresh dead block.                                                        *)
FinishReturn ==
    /\ Switch("return", <<>>, nextBlock)
    /\ nextBlock' = nextBlock + 1
    /\ live' = FALSE

LowerReturn ==
    /\ AtJump /\ CanOpen("return", 1)
    /\ IF deferred = <<>>
       THEN FinishReturn /\ UNCHANGED <<deferred, stack>>
       ELSE /\ BeginFlush("flush_return")
            /\ UNCHANGED <<nextBlock, blocks, currentLabel, live>>
    /\ UNCHANGED <<nextDefer, loopStack>>
    /\ Unchanged_fn

(* The next deferred expression of a flush. *)
FlushNext ==
    /\ TopIs(FlushKinds) /\ Top.rest # <<>>
    /\ Emit(Ev("run", Head(Top.rest)))
    /\ ReplaceTop([Top EXCEPT !.rest = Tail(@)])
    /\ UNCHANGED <<nextBlock, nextDefer, blocks, currentLabel, deferred,
                   loopStack, live>>
    /\ Unchanged_fn

(* The flush of a return statement is over: the rest of StmtKind::Return. *)
EndFlushReturn ==
    /\ TopIs({"flush_return"}) /\ Top.rest = <<>>
    /\ FinishReturn
    /\ Pop
    /\ UNCHANGED <<nextDefer, deferred, loopStack>>
    /\ Unchanged_fn

(* break and continue jump to the innermost loop's labels; outside a loop   *)
(* they lower to nothing, which is no step.                                 *)
InnermostLoop(i) ==
    /\ stack[i].kind \in LoopKinds
    /\ \A j \in (i + 1)..Len(stack) : stack[j].kind \notin LoopKinds

JumpOut(label) ==
    /\ Switch("jump", <<label>>, nextBlock)
    /\ nextBlock' = nextBlock + 1
    /\ live' = FALSE
    /\ UNCHANGED <<nextDefer, deferred, loopStack>>
    /\ Unchanged_fn

LowerBreak ==
    /\ AtJump /\ CanOpen("break", 1) /\ loopStack # <<>>
    /\ JumpOut(loopStack[Len(loopStack)].brk)
    /\ \E i \in DOMAIN stack :
          /\ InnermostLoop(i)
          /\ stack' = [stack EXCEPT ![i].exit = @ \/ live]

LowerContinue ==
    /\ AtJump /\ CanOpen("continue", 1) /\ loopStack # <<>>
    /\ JumpOut(loopStack[Len(loopStack)].cont)
    /\ UNCHANGED stack

(* loop_stack.push and loop_stack.pop around the body of a loop. *)
(* Fault: break and continue change places. *)
EnterLoopSwapped(brk, cont) == loopStack' = Append(loopStack, [brk |-> cont, cont |-> brk])

EnterLoop(brk, cont) == loopStack' = Append(loopStack, [brk |-> brk, cont |-> cont])
LeaveLoop == loopStack' = SubSeq(loopStack, 1, Len(loopStack) - 1)

(* for: the counter is initialised, the condition block is finished at      *)
(* once and the body is started.  Labels: cond, body, after.                *)
OpenFor ==
    /\ AtLoopStmt /\ CanOpen("for", 3)
    /\ LET cond == nextBlock  body == nextBlock + 1  after == nextBlock + 2 IN
          /\ blocks' = blocks \o
                << BB(currentLabel, Append(instrs, Ev("init", cond)), "jump",
                      <<cond>>, live),
                   BB(cond, <<>>, "lt", <<body, after>>, live) >>
          /\ currentLabel' = body
          /\ EnterLoop(after, cond)
          /\ Push(NewFrame("for", <<after>>, cond, live))
    /\ instrs' = <<>>
    /\ nextBlock' = nextBlock + 3
    /\ UNCHANGED <<nextDefer, deferred, live>>
    /\ Unchanged_fn

(* while: the condition is an expression with control flow of its own.  *)
(* Labels: cond, body, after.                                           *)
OpenWhile ==
    /\ AtLoopStmt /\ CanOpen("while", 3)
    /\ Switch("jump", <<nextBlock>>, nextBlock)
    /\ Push(NewFrame("cond", <<nextBlock + 1, nextBlock + 2>>, nextBlock, FALSE))
    /\ nextBlock' = nextBlock + 3
    /\ UNCHANGED <<nextDefer, deferred, loopStack, live>>
    /\ Unchanged_fn

CloseWhileCond ==
    /\ TopIs({"cond"})
    /\ Switch("branch", Top.todo, Top.todo[1])
    /\ EnterLoop(Merge(Top), Top.head)
    /\ ReplaceTop([Top EXCEPT !.kind = "while", !.todo = Tail(@), !.exit = live])
    /\ UNCHANGED <<nextBlock, nextDefer, deferred, live>>
    /\ Unchanged_fn

(* loop.  Labels: loop, after. *)
OpenLoop ==
    /\ AtLoopStmt /\ CanOpen("loop", 2)
    /\ Switch("jump", <<nextBlock>>, nextBlock)
    /\ EnterLoop(nextBlock + 1, nextBlock)
    /\ Push(NewFrame("loop", <<nextBlock + 1>>, nextBlock, FALSE))
    /\ nextBlock' = nextBlock + 2
    /\ UNCHANGED <<nextDefer, deferred, live>>
    /\ Unchanged_fn

(* A for loop's body ends by stepping the counter. *)
(* Fault: the counter is never stepped. *)
CounterNotStepped(f) == <<>>

CounterStep(f) == IF f.kind = "for" THEN <<Ev("inc", f.head)>> ELSE <<>>

(* The closing brace of a loop body. *)
CloseLoop ==
    /\ TopIs(LoopKinds)
    /\ blocks' = Append(blocks, BB(currentLabel, instrs \o CounterStep(Top), "jump",
                                   <<Top.head>>, live))
    /\ currentLabel' = Merge(Top)
    /\ instrs' = <<>>
    /\ LeaveLoop
    /\ Pop
    /\ live' = Top.exit
    /\ UNCHANGED <<nextBlock, nextDefer, deferred>>
    /\ Unchanged_fn

-----------------------------------------------------------------------------
(* Expressions (lower_expr).                                                *)

(* e.or_return, e.or_panic, e.or_zero and or_nil once e is lowered: a       *)
(* branch to ok and err, both finished at once.  Labels: ok, err, cont.     *)
OrOp(c, errTerm, errTo) ==
    /\ CanOpen(c, 3)
    /\ LET ok == nextBlock  err == nextBlock + 1  cont == nextBlock + 2 IN
          /\ blocks' = blocks \o
                << Finished("branch", <<ok, err>>),
                   BB(ok, <<>>, "jump", <<cont>>, live),
                   BB(err, <<>>, errTerm, errTo, live) >>
          /\ currentLabel' = cont
    /\ instrs' = <<>>
    /\ nextBlock' = nextBlock + 3
    /\ UNCHANGED <<nextDefer, deferred, loopStack, stack, live>>
    /\ Unchanged_fn

OrReturn == OrOp("or_return", "return", <<>>)
OrPanic == OrOp("or_panic", "unreachable", <<>>)
(* Fault: the err block jumps to a fresh label instead of the shared one. *)
OrZeroFreshTarget == OrOp("or_zero", "jump", <<nextBlock + 3>>)

OrZero == OrOp("or_zero", "jump", <<nextBlock + 2>>)

(* e.or_else(d): d is lowered in the err block.  Labels: ok, default, cont. *)
OpenOrElse ==
    /\ CanOpen("or_else", 3)
    /\ LET ok == nextBlock  default == nextBlock + 1  cont == nextBlock + 2 IN
          /\ blocks' = blocks \o
                << Finished("branch", <<ok, default>>),
                   BB(ok, <<>>, "jump", <<cont>>, live) >>
          /\ currentLabel' = default
          /\ Push(NewFrame("default", <<cont>>, NoLabel, live))
    /\ instrs' = <<>>
    /\ nextBlock' = nextBlock + 3
    /\ UNCHANGED <<nextDefer, deferred, loopStack, live>>
    /\ Unchanged_fn

(* if: both branches always get a block.  Labels: then, else, merge. *)
OpenIf ==
    /\ CanOpen("if", 3)
    /\ Switch("branch", <<nextBlock, nextBlock + 1>>, nextBlock)
    /\ Push(NewFrame("then", <<nextBlock + 1, nextBlock + 2>>, NoLabel, FALSE))
    /\ nextBlock' = nextBlock + 3
    /\ UNCHANGED <<nextDefer, deferred, loopStack, live>>
    /\ Unchanged_fn

CloseThen ==
    /\ TopIs({"then"})
    /\ Switch("jump", <<Merge(Top)>>, Top.todo[1])
    /\ ReplaceTop([Top EXCEPT !.kind = "else", !.todo = Tail(@), !.exit = live])
    /\ live' = Top.fall
    /\ UNCHANGED <<nextBlock, nextDefer, deferred, loopStack>>
    /\ Unchanged_fn

(* Fault: the dispatch blocks are numbered one too high. *)
MatchTodoShifted(n) ==
    [j \in 1..(2 * n - 1) |->
        IF j = 2 * n - 1 THEN nextBlock
        ELSE IF j % 2 = 1 THEN nextBlock + n + 1 + (j + 1) \div 2
        ELSE nextBlock + 1 + j \div 2]

(* match with n >= 1 arms.  Labels: merge, the n bodies, the n-1 dispatch   *)
(* blocks after the first.  They are started in the order body 1, dispatch  *)
(* 2, body 2, ..., body n, merge; body 1 right away.                        *)
MatchTodo(n) ==
    [j \in 1..(2 * n - 1) |->
        IF j = 2 * n - 1 THEN nextBlock
        ELSE IF j % 2 = 1 THEN nextBlock + n + (j + 1) \div 2
        ELSE nextBlock + 1 + j \div 2]

(* A wildcard (_ or else) jumps to the arm's body, any other pattern falls  *)
(* through to the next dispatch block, after the last arm to merge.         *)
DispatchTerm(wild) == IF wild THEN "jump" ELSE "branch"
DispatchTo(wild, body, next) == IF wild THEN <<body>> ELSE <<body, next>>

OpenMatch(n, wild) ==
    /\ CanOpen("match", 2 * n)
    /\ LET todo == MatchTodo(n)  body == nextBlock + 1 IN
          /\ Switch(DispatchTerm(wild), DispatchTo(wild, body, todo[1]), body)
          /\ Push([NewFrame("arm", todo, NoLabel, FALSE)
                     EXCEPT !.fall = live /\ ~wild])
    /\ nextBlock' = nextBlock + 2 * n
    /\ UNCHANGED <<nextDefer, deferred, loopStack, live>>
    /\ Unchanged_fn

NextArm(wild) ==
    /\ TopIs({"arm"}) /\ Len(Top.todo) >= 3
    /\ blocks' = blocks \o
          << Finished("jump", <<Merge(Top)>>),
             BB(Top.todo[1], <<>>, DispatchTerm(wild),
                DispatchTo(wild, Top.todo[2], Top.todo[3]), Top.fall) >>
    /\ currentLabel' = Top.todo[2]
    /\ instrs' = <<>>
    /\ ReplaceTop([Top EXCEPT !.todo = Tail(Tail(@)), !.exit = @ \/ live,
                             !.fall = @ /\ ~wild])
    /\ live' = Top.fall
    /\ UNCHANGED <<nextBlock, nextDefer, deferred, loopStack>>
    /\ Unchanged_fn

(* The end of an else branch, of an or_else default and of the last arm:    *)
(* jump to the label at which the construct continues and start it.         *)
CloseExpr ==
    /\ TopIs({"else", "default", "arm"}) /\ Len(Top.todo) = 1
    /\ Switch("jump", <<Merge(Top)>>, Merge(Top))
    /\ Pop
    /\ live' = (Top.exit \/ live \/ (Top.kind = "arm" /\ Top.fall))
    /\ UNCHANGED <<nextBlock, nextDefer, deferred, loopStack>>
    /\ Unchanged_fn

(* match without arms: merge is started and the current block, which has    *)
(* not been finished, loses its label.                                      *)
EmptyMatch ==
    /\ CanOpen("empty_match", 1)
    /\ currentLabel' = nextBlock
    /\ nextBlock' = nextBlock + 1
    /\ UNCHANGED <<nextDefer, instrs, blocks, deferred, loopStack, stack, live>>
    /\ Unchanged_fn

-----------------------------------------------------------------------------
(* Functions (lower_fn, lower_file).                                        *)

FinishFn ==
    /\ Switch("return", <<>>, NoLabel)
    /\ done' = TRUE
    /\ UNCHANGED <<fn, fnCount, nextBlock, live>>

(* The end of a function body: flush, then the implicit return. *)
EndFn ==
    /\ ~done /\ fn = "fn" /\ stack = <<>>
    /\ IF deferred = <<>>
       THEN FinishFn /\ UNCHANGED <<deferred, stack>>
       ELSE /\ BeginFlush("flush_exit")
            /\ UNCHANGED <<fn, fnCount, done, nextBlock, blocks, currentLabel, live>>
    /\ UNCHANGED <<nextDefer, loopStack>>

EndFlushExit ==
    /\ TopIs({"flush_exit"}) /\ Top.rest = <<>>
    /\ FinishFn
    /\ Pop
    /\ UNCHANGED <<nextDefer, deferred, loopStack>>

(* The end of the algorithm zone: lower_file finishes __main and does not   *)
(* flush what it deferred.                                                  *)
EndMain ==
    /\ ~done /\ fn = "__main" /\ stack = <<>>
    /\ FinishFn
    /\ UNCHANGED <<nextDefer, deferred, loopStack, stack>>

(* Fault: the blocks of the function before stay. *)
ResetFnKeepsBlocks ==
    /\ done /\ fn = "fn" /\ fnCount < MaxFns
    /\ fn' \in FnKinds /\ fnCount' = fnCount + 1 /\ done' = FALSE
    /\ nextBlock' = 0 /\ nextDefer' = 0
    /\ instrs' = <<>> /\ deferred' = <<>> /\ loopStack' = <<>> /\ stack' = <<>>
    /\ currentLabel' = Entry /\ live' = TRUE
    /\ UNCHANGED blocks

(* reset_fn, before every function; __main comes last. *)
ResetFn ==
    /\ done /\ fn = "fn" /\ fnCount < MaxFns
    /\ fn' \in FnKinds
    /\ fnCount' = fnCount + 1
    /\ done' = FALSE
    /\ nextBlock' = 0
    /\ nextDefer' = 0
    /\ instrs' = <<>>
    /\ blocks' = <<>>
    /\ deferred' = <<>>
    /\ loopStack' = <<>>
    /\ currentLabel' = Entry
    /\ stack' = <<>>
    /\ live' = TRUE

-----------------------------------------------------------------------------
Init ==
    /\ fn \in FnKinds
    /\ fnCount = 1
    /\ done = FALSE
    /\ nextBlock = 0
    /\ nextDefer = 0
    /\ instrs = <<>>
    /\ blocks = <<>>
    /\ currentLabel = Entry
    /\ deferred = <<>>
    /\ loopStack = <<>>
    /\ stack = <<>>
    /\ live = TRUE

Stmt ==
    \/ LowerDefer \/ LowerReturn \/ FlushNext \/ EndFlushReturn
    \/ LowerBreak \/ LowerContinue
    \/ OpenFor \/ OpenWhile \/ CloseWhileCond \/ OpenLoop \/ CloseLoop

Expr ==
    \/ OrReturn \/ OrPanic \/ OrZero \/ OpenOrElse
    \/ OpenIf \/ CloseThen
    \/ \E n \in 1..MaxArms, wild \in BOOLEAN : OpenMatch(n, wild)
    \/ \E wild \in BOOLEAN : NextArm(wild)
    \/ CloseExpr \/ EmptyMatch

Fn == EndFn \/ EndFlushExit \/ EndMain \/ ResetFn

(* The Lowerer has produced its last function. *)
Lowered == done /\ (fn = "__main" \/ fnCount = MaxFns)

Next == Stmt \/ Expr \/ Fn

Spec == Init /\ [][Next]_vars

-----------------------------------------------------------------------------
(* Properties.                                                              *)

TypeOK ==
    /\ fn \in {"fn", "__main"}
    /\ fnCount \in Nat
    /\ done \in BOOLEAN
    /\ nextBlock \in Nat
    /\ nextDefer \in Nat
    /\ instrs \in Seq(Event)
    /\ blocks \in Seq(Block)
    /\ currentLabel \in (IF done THEN {NoLabel} ELSE Label)
    /\ deferred \in Seq(Nat)
    /\ loopStack \in Seq(LoopLabels)
    /\ stack \in Seq(Frame)
    /\ live \in BOOLEAN

(* What each kind of frame still has to start, and which have a back edge.  *)
FrameOK(f) ==
    /\ f.kind \in {"then", "cond"} => Len(f.todo) = 2
    /\ f.kind \in {"else", "default"} \cup LoopKinds => Len(f.todo) = 1
    /\ f.kind = "arm" => Len(f.todo) % 2 = 1
    /\ f.kind \in FlushKinds => f.todo = <<>>
    /\ f.kind \in {"cond"} \cup LoopKinds => f.head \in Label

(* The flush at the end of the function is never inside anything. *)
StackOK ==
    \A i \in DOMAIN stack :
       FrameOK(stack[i]) /\ (stack[i].kind = "flush_exit" => i = 1)

(* A function is handed over only when every construct has been closed. *)
Shape == StackOK /\ (done => stack = <<>>)

(* Types, and the shape that keeps them: no activation reads a label it has *)
(* already used up, no function is finished inside a construct.             *)
TypeInv == TypeOK /\ Shape

BlockLabels == {blocks[i].label : i \in DOMAIN blocks}
Started == BlockLabels \cup (IF done THEN {} ELSE {currentLabel})
Pending == UNION {Range(stack[i].todo) : i \in DOMAIN stack}

(* No two blocks share a label, whether finished, being filled or still     *)
(* pending in an open construct: a backend that emits one goto label per    *)
(* block would otherwise define it twice (the comment in Match warns of     *)
(* duplicate labels).                                                       *)
UniqueLabels ==
    /\ IsInjective([i \in DOMAIN blocks |-> blocks[i].label])
    /\ ~done => currentLabel \notin BlockLabels
    /\ Started \cap Pending = {}
    /\ \A i, j \in DOMAIN stack :
          \A k \in DOMAIN stack[i].todo, l \in DOMAIN stack[j].todo :
             stack[i].todo[k] = stack[j].todo[l] => i = j /\ k = l

(* Every label that can be jumped to, by a finished block or by a later     *)
(* break, continue or back edge, has been started or will be by a construct *)
(* that is still open; so every jump of the finished function has a target. *)
JumpTargets == UNION {Range(blocks[i].to) : i \in DOMAIN blocks}
LoopTargets == {loopStack[i].brk : i \in DOMAIN loopStack}
                 \cup {loopStack[i].cont : i \in DOMAIN loopStack}
BackTargets == {stack[i].head : i \in DOMAIN stack} \ {NoLabel}

Known == Started \cup Pending

TargetsResolved == JumpTargets \cup LoopTargets \cup BackTargets \subseteq Known

(* What a finished function looks like to a backend: control flow closed,   *)
(* entered at a block labelled entry that comes first.                      *)
EntryFirst ==
    IF blocks = <<>> THEN ~done /\ currentLabel = Entry ELSE blocks[1].label = Entry

Closed ==
    done => /\ \A i \in DOMAIN blocks : Range(blocks[i].to) \subseteq BlockLabels
            /\ blocks[1].label = Entry

(* Every label that was handed out has got its block and, with it, its      *)
(* terminator: "exactly one per basic block" (rym-ir/src/lib.rs).           *)
OneTerminatorPerLabel ==
    done => BlockLabels = {Entry} \cup 0..(nextBlock - 1)

(* loop_stack holds exactly the loops whose body is being lowered, with     *)
(* their own labels: a break leaves the loop it is written in.              *)
LoopFrames == {i \in DOMAIN stack : stack[i].kind \in LoopKinds}

LoopStackMatches ==
    ~done => \E at \in [DOMAIN loopStack -> LoopFrames] :
                /\ \A i, j \in DOMAIN loopStack : i < j => at[i] < at[j]
                /\ Range(at) = LoopFrames
                /\ \A i \in DOMAIN loopStack :
                      loopStack[i] = [brk |-> Merge(stack[at[i]]), cont |-> stack[at[i]].head]

(* The blocks a run can enter: the closure of the jumps, from the first.    *)
Succ(L) == UNION {Range(blocks[i].to) :
                    i \in {j \in DOMAIN blocks : blocks[j].label \in L}}

ReachableLabels ==
    LET reach[n \in 0..Len(blocks)] ==
          IF n = 0 THEN {Entry} ELSE LET L == reach[n - 1] IN L \cup Succ(L)
    IN  reach[Len(blocks)]

(* A block of the finished function can be entered exactly if the source    *)
(* reaches the code it was lowered from: nothing after a return, break or   *)
(* continue runs, and nothing the program can reach is cut off.             *)
ReachableIffLive ==
    done => LET reachable == ReachableLabels IN
            \A i \in DOMAIN blocks : blocks[i].label \in reachable <=> blocks[i].live
=============================================================================
