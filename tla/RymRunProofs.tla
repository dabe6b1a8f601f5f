---------------------------- MODULE RymRunProofs ----------------------------
(****************************************************************************)
(* Proofs about the control-flow graphs that RymLower makes and about       *)
(* RymRun, which executes them, for every program and every bound.          *)
(*                                                                          *)
(*   1. Control: every label a finished block jumps to is that of a block   *)
(*      and every label handed out has its block, if no match is empty.     *)
(*   2. Lively: then a run can enter a block exactly if the source reaches  *)
(*      its code.                                                           *)
(*   3. The books: where defer is lowered the way its promise assumes,      *)
(*      every call of the lowered function keeps DeferPromise.              *)
(****************************************************************************)
EXTENDS RymRun, RymLowerProofs

-----------------------------------------------------------------------------
(* What a step does to the labels of loops and of pending blocks.           *)

LEMMA InRange == ASSUME NEW S, NEW s \in Seq(S), NEW i \in 1..Len(s)
                 PROVE  s[i] \in Range(s)
  BY DEF Range

LEMMA PendingReplace ==
  ASSUME TypeOK, NEW k \in DOMAIN stack, NEW f,
         stack' = [stack EXCEPT ![k] = f], f.head = stack[k].head
  PROVE  /\ Pending \subseteq Pending' \cup Range(stack[k].todo)
         /\ Range(f.todo) \subseteq Pending'
         /\ BackTargets' = BackTargets
<1>1. stack \in Seq(Frame)
  BY DEF TypeOK
<1>2. /\ DOMAIN stack' = DOMAIN stack /\ stack'[k] = f
      /\ \A i \in DOMAIN stack : i # k => stack'[i] = stack[i]
  BY <1>1
<1>3. Pending \subseteq Pending' \cup Range(stack[k].todo)
  BY <1>2 DEF Pending
<1>4. Range(f.todo) \subseteq Pending'
  BY <1>2 DEF Pending
<1>5. BackTargets' = BackTargets
  BY <1>2 DEF BackTargets
<1> QED
  BY <1>3, <1>4, <1>5

LEMMA LoopAppend ==
  ASSUME TypeOK, NEW e, loopStack' = Append(loopStack, e)
  PROVE  LoopTargets' = LoopTargets \cup {e.brk, e.cont}
<1>1. loopStack \in Seq(LoopLabels)
  BY DEF TypeOK
<1>2. /\ DOMAIN loopStack' = 1..(Len(loopStack) + 1)
      /\ DOMAIN loopStack = 1..Len(loopStack) /\ Len(loopStack) \in Nat
      /\ \A i \in 1..Len(loopStack) : loopStack'[i] = loopStack[i]
      /\ loopStack'[Len(loopStack) + 1] = e
  BY <1>1
<1>3. 1..(Len(loopStack) + 1) = 1..Len(loopStack) \cup {Len(loopStack) + 1}
  BY <1>2
<1> QED
  BY <1>2, <1>3 DEF LoopTargets

LEMMA LoopPop ==
  ASSUME TypeOK, loopStack' = SubSeq(loopStack, 1, Len(loopStack) - 1)
  PROVE  LoopTargets' \subseteq LoopTargets
<1>1. loopStack \in Seq(LoopLabels)
  BY DEF TypeOK
<1>2. /\ DOMAIN loopStack = 1..Len(loopStack) /\ Len(loopStack) \in Nat
      /\ DOMAIN loopStack' = 1..(Len(loopStack) - 1)
      /\ \A i \in 1..(Len(loopStack) - 1) : loopStack'[i] = loopStack[i]
  BY <1>1
<1> QED
  BY <1>2 DEF LoopTargets

-----------------------------------------------------------------------------
(* Finishing the current block, alone or followed by blocks of the same     *)
(* construct, keeps entry the first label.                                  *)

LEMMA Grow1 ==
  ASSUME TypeInv, ~done, EntryFirst, NEW b, b.label = currentLabel,
         blocks' = Append(blocks, b)
  PROVE  /\ EntryFirst'
         /\ BlockLabels' = BlockLabels \cup {currentLabel}
         /\ JumpTargets' = JumpTargets \cup Range(b.to)
<1>1. blocks \in Seq(Block)
  BY DEF TypeInv, TypeOK
<1>2. blocks' # <<>> /\ blocks'[1].label = Entry
  BY <1>1 DEF EntryFirst
<1>3. EntryFirst'
  BY <1>2 DEF EntryFirst
<1>4. /\ LabelsOf(blocks') = LabelsOf(blocks) \cup {b.label}
      /\ TargetsOf(blocks') = TargetsOf(blocks) \cup Range(b.to)
  BY <1>1, AppendOf
<1>5. /\ BlockLabels' = BlockLabels \cup {currentLabel}
      /\ JumpTargets' = JumpTargets \cup Range(b.to)
  BY <1>4, BlocksOf
<1> QED
  BY <1>3, <1>5

LEMMA Grow2 ==
  ASSUME TypeInv, ~done, EntryFirst, NEW b, NEW c,
         b.label = currentLabel, blocks' = blocks \o <<b, c>>
  PROVE  /\ EntryFirst'
         /\ BlockLabels' = BlockLabels \cup {currentLabel, c.label}
         /\ JumpTargets' = JumpTargets \cup Range(b.to) \cup Range(c.to)
<1>1. blocks \in Seq(Block)
  BY DEF TypeInv, TypeOK
<1> DEFINE s == Append(blocks, b)
<1>2. LabelsOf(s) = BlockLabels \cup {currentLabel}
      /\ TargetsOf(s) = JumpTargets \cup Range(b.to)
  BY <1>1, AppendOf, BlocksOf
<1>s. s \in Seq(Block \cup {b})
  BY <1>1, AppendOf
<1>3. blocks' = Append(s, c)
  BY <1>1
<1>4. blocks' # <<>> /\ blocks'[1].label = Entry
  BY <1>1 DEF EntryFirst
<1> HIDE DEF s
<1>5. /\ LabelsOf(Append(s, c)) = LabelsOf(s) \cup {c.label}
      /\ TargetsOf(Append(s, c)) = TargetsOf(s) \cup Range(c.to)
  BY <1>s, AppendOf, Zenon
<1> QED
  BY <1>2, <1>3, <1>4, <1>5, BlocksOf DEF EntryFirst

LEMMA Grow3 ==
  ASSUME TypeInv, ~done, EntryFirst, NEW b, NEW c, NEW d,
         b.label = currentLabel, blocks' = blocks \o <<b, c, d>>
  PROVE  /\ EntryFirst'
         /\ BlockLabels' = BlockLabels \cup {currentLabel, c.label, d.label}
         /\ JumpTargets' = JumpTargets \cup (Range(b.to) \cup Range(c.to) \cup Range(d.to))
<1>1. blocks \in Seq(Block)
  BY DEF TypeInv, TypeOK
<1> DEFINE s == Append(blocks, b)
           t == Append(s, c)
<1>2. LabelsOf(s) = BlockLabels \cup {currentLabel}
      /\ TargetsOf(s) = JumpTargets \cup Range(b.to)
  BY <1>1, AppendOf, BlocksOf
<1>s. s \in Seq(Block \cup {b})
  BY <1>1, AppendOf
<1>3. blocks' = Append(t, d)
  BY <1>1
<1>4. blocks' # <<>> /\ blocks'[1].label = Entry
  BY <1>1 DEF EntryFirst
<1> HIDE DEF s
<1>5. /\ LabelsOf(t) = LabelsOf(s) \cup {c.label}
      /\ TargetsOf(t) = TargetsOf(s) \cup Range(c.to)
  BY <1>s, AppendOf, Zenon
<1>t. t \in Seq((Block \cup {b}) \cup {c})
  BY <1>s, AppendOf, Zenon
<1> HIDE DEF t
<1>6. /\ LabelsOf(Append(t, d)) = LabelsOf(t) \cup {d.label}
      /\ TargetsOf(Append(t, d)) = TargetsOf(t) \cup Range(d.to)
  BY <1>t, AppendOf, Zenon
<1> QED
  BY <1>2, <1>3, <1>4, <1>5, <1>6, BlocksOf DEF EntryFirst

LEMMA SwitchGrows ==
  ASSUME TypeInv, ~done, EntryFirst, NEW term, NEW to, NEW l, Switch(term, to, l)
  PROVE  /\ EntryFirst'
         /\ BlockLabels' = BlockLabels \cup {currentLabel}
         /\ JumpTargets' = JumpTargets \cup Range(to)
         /\ currentLabel' = l
<1> DEFINE b == Finished(term, to)
<1>1. b.label = currentLabel /\ b.to = to
  BY DEF Finished, BB
<1>2. blocks' = Append(blocks, b) /\ currentLabel' = l
  BY DEF Switch
<1> HIDE DEF b
<1> QED
  BY <1>1, <1>2, Grow1

(* What the inductive argument carries from step to step. *)
Control == TargetsResolved /\ EntryFirst /\ Numbered \subseteq Known

(* The numbers a step hands out. *)
LEMMA Numbered0 == UNCHANGED nextBlock => Numbered' \subseteq Numbered \cup {}
  BY DEF Numbered

LEMMA NumberedTo ==
  ASSUME TypeInv, NEW n \in Nat, nextBlock' = nextBlock + n
  PROVE  Numbered' \subseteq Numbered \cup nextBlock..(nextBlock + n - 1)
<1>1. nextBlock \in Nat
  BY DEF TypeInv, TypeOK
<1> QED
  BY SMT, <1>1 DEF Numbered

LEMMA Numbered1 ==
  ASSUME TypeInv, nextBlock' = nextBlock + 1
  PROVE  Numbered' \subseteq Numbered \cup {nextBlock}
<1>1. nextBlock \in Nat
  BY DEF TypeInv, TypeOK
<1> QED
  BY SMT, <1>1 DEF Numbered

LEMMA Numbered2 ==
  ASSUME TypeInv, nextBlock' = nextBlock + 2
  PROVE  Numbered' \subseteq Numbered \cup {nextBlock, nextBlock + 1}
<1>1. nextBlock \in Nat
  BY DEF TypeInv, TypeOK
<1> QED
  BY SMT, <1>1 DEF Numbered

LEMMA Numbered3 ==
  ASSUME TypeInv, nextBlock' = nextBlock + 3
  PROVE  Numbered' \subseteq Numbered \cup {nextBlock, nextBlock + 1, nextBlock + 2}
<1>1. nextBlock \in Nat
  BY DEF TypeInv, TypeOK
<1> QED
  BY SMT, <1>1 DEF Numbered

(* A step that forgets no label, adds only targets it knows and puts every  *)
(* fresh label to use keeps every target resolved and every number known.   *)
LEMMA Advance ==
  ASSUME TargetsResolved, ~done, ~done', NEW T,
         BlockLabels \cup {currentLabel} \subseteq BlockLabels' \cup {currentLabel'},
         Pending \subseteq Pending' \cup BlockLabels' \cup {currentLabel'},
         JumpTargets' \subseteq JumpTargets \cup T,
         LoopTargets' \subseteq LoopTargets \cup T,
         BackTargets' \subseteq BackTargets \cup T,
         T \subseteq Known \cup BlockLabels' \cup {currentLabel'} \cup Pending',
         Numbered \subseteq Known, NEW N, Numbered' \subseteq Numbered \cup N,
         N \subseteq BlockLabels' \cup {currentLabel'} \cup Pending'
  PROVE  TargetsResolved' /\ Numbered' \subseteq Known'
<1>1. Known = BlockLabels \cup {currentLabel} \cup Pending
  BY DEF Known, Started
<1>2. Known' = BlockLabels' \cup {currentLabel'} \cup Pending'
  BY DEF Known, Started
<1> QED
  BY <1>1, <1>2 DEF TargetsResolved

(* The stack does not change, or only in what is not a label. *)
LEMMA SameStack ==
  ASSUME UNCHANGED stack
  PROVE  Pending' = Pending /\ BackTargets' = BackTargets
  BY DEF Pending, BackTargets

LEMMA SameLoops ==
  ASSUME UNCHANGED loopStack PROVE LoopTargets' = LoopTargets
  BY DEF LoopTargets

(* Nothing that Known or the targets are made of changes. *)
LEMMA SameControl ==
  ASSUME UNCHANGED <<blocks, currentLabel, loopStack, done, nextBlock>>,
         Pending' = Pending, BackTargets' = BackTargets, Control
  PROVE  Control'
<1>1. /\ BlockLabels' = BlockLabels /\ JumpTargets' = JumpTargets
      /\ LoopTargets' = LoopTargets /\ Started' = Started
  BY DEF BlockLabels, JumpTargets, LoopTargets, Started
<1>2. Known' = Known
  BY <1>1 DEF Known
<1> QED
  BY <1>1, <1>2 DEF Control, TargetsResolved, EntryFirst, Numbered

(* The labels of the construct on top of the stack are known. *)
LEMMA TopKnown ==
  ASSUME TypeInv, TargetsResolved, stack # <<>>
  PROVE  /\ Range(Top.todo) \subseteq Pending
         /\ Range(Top.todo) \subseteq Known
         /\ Top.head # NoLabel => Top.head \in Known
<1>1. Len(stack) \in DOMAIN stack
  BY TopType
<1>2. Range(Top.todo) \subseteq Pending /\ (Top.head # NoLabel => Top.head \in BackTargets)
  BY <1>1 DEF Pending, BackTargets, Top
<1> QED
  BY <1>2 DEF TargetsResolved, Known

-----------------------------------------------------------------------------
(* One lemma per action.                                                    *)

LEMMA LowerDeferControl == TypeInv /\ Control /\ LowerDefer => Control'
<1> SUFFICES ASSUME TypeInv, Control, LowerDefer PROVE Control'
  OBVIOUS
<1>1. UNCHANGED <<blocks, currentLabel, loopStack, done, stack, nextBlock>>
  BY DEF LowerDefer, Unchanged_fn
<1> QED
  BY <1>1, SameControl, SameStack

(* Starting a flush opens a construct without labels. *)
LEMMA BeginFlushControl ==
  ASSUME TypeInv, Control, NEW kind, BeginFlush(kind),
         UNCHANGED <<blocks, currentLabel, loopStack, done, nextBlock>>
  PROVE  Control'
<1> DEFINE f == [NewFrame(kind, <<>>, NoLabel, FALSE) EXCEPT !.rest = Reverse(Front(deferred))]
<1>1. f.todo = <<>> /\ f.head = NoLabel /\ Push(f)
  BY DEF BeginFlush, NewFrame
<1> HIDE DEF f
<1>2. Pending' = Pending /\ BackTargets' = BackTargets
  BY <1>1, PendingPush, Range0 DEF TypeInv
<1> QED
  BY <1>2, SameControl

LEMMA FlushNextControl == TypeInv /\ Control /\ FlushNext => Control'
<1> SUFFICES ASSUME TypeInv, Control, FlushNext PROVE Control'
  OBVIOUS
<1> DEFINE f == [Top EXCEPT !.rest = Tail(@)]
<1>1. /\ UNCHANGED <<blocks, currentLabel, loopStack, done, nextBlock>>
      /\ stack' = [stack EXCEPT ![Len(stack)] = f] /\ stack # <<>>
  BY DEF FlushNext, Unchanged_fn, ReplaceTop, TopIs
<1>2. Len(stack) \in DOMAIN stack /\ Top \in Frame
  BY <1>1, TopType
<1>3. f.todo = Top.todo /\ f.head = Top.head
  BY <1>2 DEF Frame
<1> HIDE DEF f
<1>4. \A i \in DOMAIN stack :
         stack'[i].todo = stack[i].todo /\ stack'[i].head = stack[i].head
  BY <1>1, <1>2, <1>3 DEF Top, TypeInv, TypeOK
<1>5. DOMAIN stack' = DOMAIN stack
  BY <1>1 DEF TypeInv, TypeOK
<1>6. Pending' = Pending /\ BackTargets' = BackTargets
  BY <1>4, <1>5 DEF Pending, BackTargets
<1> QED
  BY <1>1, <1>6, SameControl

(* Finishing the current block with no jump, or one to a known label, and   *)
(* going on in a dead block.                                                *)
LEMMA DeadBlock ==
  ASSUME TypeInv, Control, ~done, ~done', NEW term, NEW to,
         Switch(term, to, nextBlock), Range(to) \subseteq Known,
         Pending \subseteq Pending', BackTargets' \subseteq BackTargets,
         UNCHANGED loopStack, nextBlock' = nextBlock + 1
  PROVE  Control'
<1>1. /\ EntryFirst' /\ BlockLabels' = BlockLabels \cup {currentLabel}
      /\ JumpTargets' = JumpTargets \cup Range(to) /\ currentLabel' = nextBlock
  BY SwitchGrows DEF Control
<1>2. LoopTargets' = LoopTargets
  BY SameLoops
<1> QED
  BY <1>1, <1>2, Numbered1, Advance DEF Control

LEMMA LowerReturnControl == TypeInv /\ Control /\ LowerReturn => Control'
<1> SUFFICES ASSUME TypeInv, Control, LowerReturn PROVE Control'
  OBVIOUS
<1>1. ~done /\ UNCHANGED <<done, loopStack>>
  BY DEF LowerReturn, CanOpen, Unchanged_fn
<1>2. CASE deferred = <<>>
  <2>1. Switch("return", <<>>, nextBlock) /\ UNCHANGED stack /\ nextBlock' = nextBlock + 1
    BY <1>2 DEF LowerReturn, FinishReturn
  <2> QED
    BY <1>1, <2>1, DeadBlock, SameStack, Range0
<1>3. CASE deferred # <<>>
  <2>1. BeginFlush("flush_return") /\ UNCHANGED <<blocks, currentLabel, nextBlock>>
    BY <1>3 DEF LowerReturn
  <2> QED
    BY <1>1, <2>1, BeginFlushControl
<1> QED
  BY <1>2, <1>3

LEMMA EndFlushReturnControl == TypeInv /\ Control /\ EndFlushReturn => Control'
<1> SUFFICES ASSUME TypeInv, Control, EndFlushReturn PROVE Control'
  OBVIOUS
<1>1. /\ stack # <<>> /\ Top.kind = "flush_return" /\ Pop
      /\ Switch("return", <<>>, nextBlock) /\ UNCHANGED <<done, loopStack>>
      /\ nextBlock' = nextBlock + 1
  BY DEF EndFlushReturn, TopIs, FinishReturn, Unchanged_fn
<1>2. ~done /\ Top.todo = <<>>
  BY <1>1, TopType DEF FrameOK, FlushKinds
<1>3. Pending = Pending' /\ BackTargets' \subseteq BackTargets
  BY <1>1, <1>2, PendingPop, Range0 DEF TypeInv
<1> QED
  BY <1>1, <1>2, <1>3, DeadBlock, Range0

LEMMA InnermostKnown ==
  ASSUME TypeInv, TargetsResolved, loopStack # <<>>
  PROVE  {loopStack[Len(loopStack)].brk, loopStack[Len(loopStack)].cont} \subseteq Known
<1>1. Len(loopStack) \in DOMAIN loopStack
  BY DEF TypeInv, TypeOK
<1> QED
  BY <1>1 DEF TargetsResolved, LoopTargets

LEMMA LowerBreakControl == TypeInv /\ Control /\ LowerBreak => Control'
<1> SUFFICES ASSUME TypeInv, Control, LowerBreak PROVE Control'
  OBVIOUS
<1> DEFINE l == loopStack[Len(loopStack)].brk
<1>1. /\ ~done /\ Switch("jump", <<l>>, nextBlock) /\ UNCHANGED <<done, loopStack>>
      /\ loopStack # <<>> /\ nextBlock' = nextBlock + 1
  BY DEF LowerBreak, JumpOut, CanOpen, Unchanged_fn
<1>2. l \in Known
  BY <1>1, InnermostKnown DEF Control
<1> HIDE DEF l
<1>3. PICK i \in DOMAIN stack : stack' = [stack EXCEPT ![i].exit = @ \/ live]
  BY DEF LowerBreak
<1>4. stack[i] \in Frame
  BY DEF TypeInv, TypeOK
<1>5. /\ [stack[i] EXCEPT !.exit = @ \/ live].todo = stack[i].todo
      /\ [stack[i] EXCEPT !.exit = @ \/ live].head = stack[i].head
      /\ stack' = [stack EXCEPT ![i] = [stack[i] EXCEPT !.exit = @ \/ live]]
  BY <1>3, <1>4 DEF Frame
<1>6. Pending \subseteq Pending' /\ BackTargets' = BackTargets
  BY <1>5, PendingReplace DEF TypeInv
<1> QED
  BY <1>1, <1>2, <1>6, DeadBlock, Range1

LEMMA LowerContinueControl == TypeInv /\ Control /\ LowerContinue => Control'
<1> SUFFICES ASSUME TypeInv, Control, LowerContinue PROVE Control'
  OBVIOUS
<1> DEFINE l == loopStack[Len(loopStack)].cont
<1>1. /\ ~done /\ Switch("jump", <<l>>, nextBlock) /\ UNCHANGED <<done, loopStack, stack>>
      /\ loopStack # <<>> /\ nextBlock' = nextBlock + 1
  BY DEF LowerContinue, JumpOut, CanOpen, Unchanged_fn
<1>2. l \in Known
  BY <1>1, InnermostKnown DEF Control
<1> HIDE DEF l
<1> QED
  BY <1>1, <1>2, DeadBlock, SameStack, Range1

LEMMA OpenForControl == TypeInv /\ Control /\ OpenFor => Control'
<1> SUFFICES ASSUME TypeInv, Control, OpenFor PROVE Control'
  OBVIOUS
<1> DEFINE b == BB(currentLabel, Append(instrs, Ev("init", nextBlock)), "jump",
                   <<nextBlock>>, live)
           c == BB(nextBlock, <<>>, "lt", <<nextBlock + 1, nextBlock + 2>>, live)
           e == [brk |-> nextBlock + 2, cont |-> nextBlock]
           f == NewFrame("for", <<nextBlock + 2>>, nextBlock, live)
<1>1. /\ blocks' = blocks \o <<b, c>> /\ currentLabel' = nextBlock + 1
      /\ loopStack' = Append(loopStack, e) /\ Push(f)
      /\ ~done /\ UNCHANGED done /\ nextBlock' = nextBlock + 3
  BY DEF OpenFor, EnterLoop, CanOpen, Unchanged_fn
<1>2. /\ b.label = currentLabel /\ b.to = <<nextBlock>>
      /\ c.label = nextBlock /\ c.to = <<nextBlock + 1, nextBlock + 2>>
      /\ e.brk = nextBlock + 2 /\ e.cont = nextBlock
      /\ f.todo = <<nextBlock + 2>> /\ f.head = nextBlock
  BY DEF BB, NewFrame
<1> HIDE DEF b, c, e, f
<1>r. Range(b.to) = {nextBlock} /\ Range(c.to) = {nextBlock + 1, nextBlock + 2}
  BY <1>2, Range1, Range2
<1>g. /\ EntryFirst' /\ BlockLabels' = BlockLabels \cup {currentLabel, c.label}
      /\ JumpTargets' = JumpTargets \cup Range(b.to) \cup Range(c.to)
  <2>1. EntryFirst
    BY DEF Control
  <2> QED
    BY <1>1, <1>2, <2>1, Grow2, Zenon
<1>3. /\ EntryFirst' /\ BlockLabels' = BlockLabels \cup {currentLabel, nextBlock}
      /\ JumpTargets' = JumpTargets \cup {nextBlock, nextBlock + 1, nextBlock + 2}
  BY <1>2, <1>r, <1>g
<1>4. LoopTargets' = LoopTargets \cup {nextBlock, nextBlock + 2}
  BY <1>1, <1>2, LoopAppend DEF TypeInv
<1>5. /\ Pending' = Pending \cup {nextBlock + 2}
      /\ BackTargets' \subseteq BackTargets \cup {nextBlock}
  BY <1>1, <1>2, PendingPush, Range1 DEF TypeInv
<1> DEFINE T == {nextBlock, nextBlock + 1, nextBlock + 2}
<1>6. /\ BlockLabels \cup {currentLabel} \subseteq BlockLabels' \cup {currentLabel'}
      /\ Pending \subseteq Pending' \cup BlockLabels' \cup {currentLabel'}
      /\ JumpTargets' \subseteq JumpTargets \cup T
      /\ LoopTargets' \subseteq LoopTargets \cup T
      /\ BackTargets' \subseteq BackTargets \cup T
      /\ T \subseteq Known \cup BlockLabels' \cup {currentLabel'} \cup Pending'
      /\ T \subseteq BlockLabels' \cup {currentLabel'} \cup Pending'
  BY <1>1, <1>3, <1>4, <1>5
<1>7. Numbered' \subseteq Numbered \cup T
  BY <1>1, Numbered3
<1> HIDE DEF T
<1> QED
  BY <1>1, <1>3, <1>6, <1>7, Advance DEF Control

LEMMA OpenWhileControl == TypeInv /\ Control /\ OpenWhile => Control'
<1> SUFFICES ASSUME TypeInv, Control, OpenWhile PROVE Control'
  OBVIOUS
<1> DEFINE f == NewFrame("cond", <<nextBlock + 1, nextBlock + 2>>, nextBlock, FALSE)
<1>1. /\ Switch("jump", <<nextBlock>>, nextBlock) /\ Push(f)
      /\ ~done /\ UNCHANGED <<done, loopStack>> /\ nextBlock' = nextBlock + 3
  BY DEF OpenWhile, CanOpen, Unchanged_fn
<1>2. f.todo = <<nextBlock + 1, nextBlock + 2>> /\ f.head = nextBlock
  BY DEF NewFrame
<1> HIDE DEF f
<1>3. /\ EntryFirst' /\ BlockLabels' = BlockLabels \cup {currentLabel}
      /\ JumpTargets' = JumpTargets \cup {nextBlock} /\ currentLabel' = nextBlock
  BY <1>1, SwitchGrows, Range1 DEF Control
<1>r. Range(f.todo) = {nextBlock + 1, nextBlock + 2}
  BY <1>2, Range2
<1>4. /\ Pending' = Pending \cup {nextBlock + 1, nextBlock + 2}
      /\ BackTargets' \subseteq BackTargets \cup {nextBlock}
  BY <1>1, <1>2, <1>r, PendingPush DEF TypeInv
<1> DEFINE N == {nextBlock, nextBlock + 1, nextBlock + 2}
<1>5. Numbered' \subseteq Numbered \cup N
  BY <1>1, Numbered3
<1>6. N \subseteq BlockLabels' \cup {currentLabel'} \cup Pending'
  BY <1>3, <1>4
<1> HIDE DEF N
<1> QED
  BY <1>1, <1>3, <1>4, <1>5, <1>6, SameLoops, Advance DEF Control

LEMMA CloseWhileCondControl == TypeInv /\ Control /\ CloseWhileCond => Control'
<1> SUFFICES ASSUME TypeInv, Control, CloseWhileCond PROVE Control'
  OBVIOUS
<1> DEFINE f == [Top EXCEPT !.kind = "while", !.todo = Tail(@), !.exit = live]
           e == [brk |-> Merge(Top), cont |-> Top.head]
<1>1. /\ stack # <<>> /\ Top.kind = "cond"
      /\ Switch("branch", Top.todo, Top.todo[1])
      /\ loopStack' = Append(loopStack, e)
      /\ stack' = [stack EXCEPT ![Len(stack)] = f] /\ UNCHANGED <<done, nextBlock>>
  BY DEF CloseWhileCond, EnterLoop, TopIs, ReplaceTop, Unchanged_fn
<1>2. /\ ~done /\ Top \in Frame /\ Top.head \in Label /\ Len(Top.todo) = 2
      /\ Len(stack) \in DOMAIN stack /\ Top = stack[Len(stack)]
  BY <1>1, TopType DEF FrameOK, Top
<1>3. f.todo = Tail(Top.todo) /\ f.head = Top.head
      /\ e.brk = Merge(Top) /\ e.cont = Top.head
  BY <1>2 DEF Frame
<1> HIDE DEF f, e
<1>4. /\ Top.todo \in Seq(Label) /\ Top.todo # <<>> /\ Merge(Top) \in Range(Top.todo)
  BY <1>1, <1>2, TopLabels, LastIn DEF Merge, Range
<1>5. Range(Top.todo) = {Top.todo[1]} \cup Range(f.todo)
  BY <1>3, <1>4, RangeTail
<1>6. /\ EntryFirst' /\ BlockLabels' = BlockLabels \cup {currentLabel}
      /\ JumpTargets' = JumpTargets \cup Range(Top.todo) /\ currentLabel' = Top.todo[1]
  BY <1>1, <1>2, SwitchGrows DEF Control
<1>7. LoopTargets' = LoopTargets \cup {Merge(Top), Top.head}
  BY <1>1, <1>3, LoopAppend DEF TypeInv
<1>8. /\ Pending \subseteq Pending' \cup Range(Top.todo)
      /\ Range(f.todo) \subseteq Pending' /\ BackTargets' = BackTargets
  BY <1>1, <1>2, <1>3, PendingReplace DEF TypeInv
<1>9. Range(Top.todo) \subseteq Known /\ Top.head \in Known
  BY <1>1, <1>2, TopKnown DEF Control, Label, Entry, NoLabel
<1> DEFINE T == Range(Top.todo) \cup {Top.head}
<1>10. /\ T \subseteq Known
       /\ LoopTargets' \subseteq LoopTargets \cup T
       /\ JumpTargets' \subseteq JumpTargets \cup T
  BY <1>4, <1>6, <1>7, <1>9
<1>11. Pending \subseteq Pending' \cup {currentLabel'}
  BY <1>5, <1>6, <1>8
<1> HIDE DEF T
<1> QED
  BY <1>1, <1>2, <1>6, <1>8, <1>10, <1>11, Numbered0, Advance DEF Control

LEMMA OpenLoopControl == TypeInv /\ Control /\ OpenLoop => Control'
<1> SUFFICES ASSUME TypeInv, Control, OpenLoop PROVE Control'
  OBVIOUS
<1> DEFINE f == NewFrame("loop", <<nextBlock + 1>>, nextBlock, FALSE)
           e == [brk |-> nextBlock + 1, cont |-> nextBlock]
<1>1. /\ Switch("jump", <<nextBlock>>, nextBlock) /\ Push(f)
      /\ loopStack' = Append(loopStack, e) /\ ~done /\ UNCHANGED done
      /\ nextBlock' = nextBlock + 2
  BY DEF OpenLoop, EnterLoop, CanOpen, Unchanged_fn
<1>2. /\ f.todo = <<nextBlock + 1>> /\ f.head = nextBlock
      /\ e.brk = nextBlock + 1 /\ e.cont = nextBlock
  BY DEF NewFrame
<1> HIDE DEF f, e
<1>3. /\ EntryFirst' /\ BlockLabels' = BlockLabels \cup {currentLabel}
      /\ JumpTargets' = JumpTargets \cup {nextBlock} /\ currentLabel' = nextBlock
  BY <1>1, SwitchGrows, Range1 DEF Control
<1>4. LoopTargets' = LoopTargets \cup {nextBlock, nextBlock + 1}
  BY <1>1, <1>2, LoopAppend DEF TypeInv
<1>5. /\ Pending' = Pending \cup {nextBlock + 1}
      /\ BackTargets' \subseteq BackTargets \cup {nextBlock}
  BY <1>1, <1>2, PendingPush, Range1 DEF TypeInv
<1> DEFINE T == {nextBlock, nextBlock + 1}
<1>6. /\ TargetsResolved /\ ~done /\ ~done'
      /\ BlockLabels \cup {currentLabel} \subseteq BlockLabels' \cup {currentLabel'}
      /\ Pending \subseteq Pending' \cup BlockLabels' \cup {currentLabel'}
  BY <1>1, <1>3, <1>5 DEF Control
<1>7. /\ JumpTargets' \subseteq JumpTargets \cup T
      /\ LoopTargets' \subseteq LoopTargets \cup T
      /\ BackTargets' \subseteq BackTargets \cup T
      /\ T \subseteq Known \cup BlockLabels' \cup {currentLabel'} \cup Pending'
      /\ T \subseteq BlockLabels' \cup {currentLabel'} \cup Pending'
  BY <1>3, <1>4, <1>5
<1>8. Numbered \subseteq Known /\ Numbered' \subseteq Numbered \cup T
  BY <1>1, Numbered2 DEF Control
<1> HIDE DEF T
<1>9. TargetsResolved' /\ Numbered' \subseteq Known'
  BY <1>6, <1>7, <1>8, Advance
<1> QED
  BY <1>3, <1>9 DEF Control

LEMMA CloseLoopControl == TypeInv /\ Control /\ CloseLoop => Control'
<1> SUFFICES ASSUME TypeInv, Control, CloseLoop PROVE Control'
  OBVIOUS
<1> DEFINE step == CounterStep(Top)
           b == BB(currentLabel, instrs \o step, "jump", <<Top.head>>, live)
<1>1. /\ stack # <<>> /\ Top.kind \in LoopKinds /\ blocks' = Append(blocks, b)
      /\ currentLabel' = Merge(Top) /\ Pop /\ UNCHANGED <<done, nextBlock>>
      /\ loopStack' = SubSeq(loopStack, 1, Len(loopStack) - 1)
  BY DEF CloseLoop, LeaveLoop, TopIs, Unchanged_fn
<1>2. b.label = currentLabel /\ b.to = <<Top.head>>
  BY DEF BB
<1> HIDE DEF b
<1>3. ~done /\ Top.head \in Label /\ Len(Top.todo) = 1 /\ Top.todo \in Seq(Label)
  BY <1>1, TopType, TopLabels DEF FrameOK
<1>4. /\ EntryFirst' /\ BlockLabels' = BlockLabels \cup {currentLabel}
      /\ JumpTargets' = JumpTargets \cup {Top.head}
  BY <1>1, <1>2, <1>3, Grow1, Range1 DEF Control
<1>5. LoopTargets' \subseteq LoopTargets
  BY <1>1, LoopPop DEF TypeInv
<1>6. /\ Pending = Pending' \cup {currentLabel'} /\ BackTargets' \subseteq BackTargets
  BY <1>1, <1>3, PendingPop, LastLabel DEF TypeInv, Merge
<1>7. Top.head \in Known
  BY <1>1, <1>3, TopKnown DEF Control, Label, Entry, NoLabel
<1> QED
  BY <1>1, <1>3, <1>4, <1>5, <1>6, <1>7, Numbered0, Advance DEF Control

LEMMA OrOpControl ==
  ASSUME TypeInv, Control, NEW c, NEW errTerm, NEW errTo, OrOp(c, errTerm, errTo),
         Range(errTo) \subseteq {nextBlock + 2}
  PROVE  Control'
<1> DEFINE b1 == Finished("branch", <<nextBlock, nextBlock + 1>>)
           b2 == BB(nextBlock, <<>>, "jump", <<nextBlock + 2>>, live)
           b3 == BB(nextBlock + 1, <<>>, errTerm, errTo, live)
<1>1. /\ blocks' = blocks \o <<b1, b2, b3>> /\ currentLabel' = nextBlock + 2
      /\ ~done /\ UNCHANGED <<done, loopStack, stack>> /\ nextBlock' = nextBlock + 3
  BY DEF OrOp, CanOpen, Unchanged_fn
<1>2. /\ b1.label = currentLabel /\ b1.to = <<nextBlock, nextBlock + 1>>
      /\ b2.label = nextBlock /\ b2.to = <<nextBlock + 2>>
      /\ b3.label = nextBlock + 1 /\ b3.to = errTo
  BY DEF BB, Finished
<1> HIDE DEF b1, b2, b3
<1>r. /\ Range(b1.to) = {nextBlock, nextBlock + 1} /\ Range(b2.to) = {nextBlock + 2}
      /\ Range(b3.to) \subseteq {nextBlock + 2}
  BY <1>2, Range1, Range2
<1>3. /\ EntryFirst'
      /\ BlockLabels' = BlockLabels \cup {currentLabel, nextBlock, nextBlock + 1}
      /\ JumpTargets' \subseteq JumpTargets \cup {nextBlock, nextBlock + 1, nextBlock + 2}
  <2>1. EntryFirst
    BY DEF Control
  <2>2. ~done /\ b1.label = currentLabel /\ blocks' = blocks \o <<b1, b2, b3>>
    BY <1>1, <1>2
  <2>3. EntryFirst'
    BY <2>1, <2>2, Grow3, Zenon
  <2>4. BlockLabels' = BlockLabels \cup {currentLabel, b2.label, b3.label}
    BY <2>1, <2>2, Grow3, Zenon
  <2>5. JumpTargets' = JumpTargets \cup (Range(b1.to) \cup Range(b2.to) \cup Range(b3.to))
    BY <2>1, <2>2, Grow3, Zenon
  <2> QED
    BY <1>2, <1>r, <2>3, <2>4, <2>5
<1> DEFINE N == {nextBlock, nextBlock + 1, nextBlock + 2}
<1>4. Numbered' \subseteq Numbered \cup N
  BY <1>1, Numbered3
<1>5. /\ N \subseteq BlockLabels' \cup {currentLabel'} \cup Pending'
      /\ JumpTargets' \subseteq JumpTargets \cup N
  BY <1>1, <1>3
<1> HIDE DEF N
<1> QED
  BY <1>1, <1>3, <1>4, <1>5, SameStack, SameLoops, Advance DEF Control

LEMMA OpenOrElseControl == TypeInv /\ Control /\ OpenOrElse => Control'
<1> SUFFICES ASSUME TypeInv, Control, OpenOrElse PROVE Control'
  OBVIOUS
<1> DEFINE b1 == Finished("branch", <<nextBlock, nextBlock + 1>>)
           b2 == BB(nextBlock, <<>>, "jump", <<nextBlock + 2>>, live)
           f == NewFrame("default", <<nextBlock + 2>>, NoLabel, live)
<1>1. /\ blocks' = blocks \o <<b1, b2>> /\ currentLabel' = nextBlock + 1 /\ Push(f)
      /\ ~done /\ UNCHANGED <<done, loopStack>> /\ nextBlock' = nextBlock + 3
  BY DEF OpenOrElse, CanOpen, Unchanged_fn
<1>2. /\ b1.label = currentLabel /\ b1.to = <<nextBlock, nextBlock + 1>>
      /\ b2.label = nextBlock /\ b2.to = <<nextBlock + 2>>
      /\ f.todo = <<nextBlock + 2>> /\ f.head = NoLabel
  BY DEF BB, Finished, NewFrame
<1> HIDE DEF b1, b2, f
<1>r. Range(b1.to) = {nextBlock, nextBlock + 1} /\ Range(b2.to) = {nextBlock + 2}
  BY <1>2, Range1, Range2
<1>g. /\ EntryFirst' /\ BlockLabels' = BlockLabels \cup {currentLabel, b2.label}
      /\ JumpTargets' = JumpTargets \cup Range(b1.to) \cup Range(b2.to)
  <2>1. EntryFirst
    BY DEF Control
  <2> QED
    BY <1>1, <1>2, <2>1, Grow2, Zenon
<1>3. /\ EntryFirst' /\ BlockLabels' = BlockLabels \cup {currentLabel, nextBlock}
      /\ JumpTargets' = JumpTargets \cup {nextBlock, nextBlock + 1, nextBlock + 2}
  BY <1>2, <1>r, <1>g
<1>4. Pending' = Pending \cup {nextBlock + 2} /\ BackTargets' = BackTargets
  BY <1>1, <1>2, PendingPush, Range1 DEF TypeInv
<1> DEFINE N == {nextBlock, nextBlock + 1, nextBlock + 2}
<1>5. Numbered' \subseteq Numbered \cup N
  BY <1>1, Numbered3
<1>6. /\ N \subseteq BlockLabels' \cup {currentLabel'} \cup Pending'
      /\ JumpTargets' \subseteq JumpTargets \cup N
  BY <1>1, <1>3, <1>4
<1> HIDE DEF N
<1> QED
  BY <1>1, <1>3, <1>4, <1>5, <1>6, SameLoops, Advance DEF Control

LEMMA OpenIfControl == TypeInv /\ Control /\ OpenIf => Control'
<1> SUFFICES ASSUME TypeInv, Control, OpenIf PROVE Control'
  OBVIOUS
<1> DEFINE f == NewFrame("then", <<nextBlock + 1, nextBlock + 2>>, NoLabel, FALSE)
<1>1. /\ Switch("branch", <<nextBlock, nextBlock + 1>>, nextBlock) /\ Push(f)
      /\ ~done /\ UNCHANGED <<done, loopStack>> /\ nextBlock' = nextBlock + 3
  BY DEF OpenIf, CanOpen, Unchanged_fn
<1>2. f.todo = <<nextBlock + 1, nextBlock + 2>> /\ f.head = NoLabel
  BY DEF NewFrame
<1> HIDE DEF f
<1>3. /\ EntryFirst' /\ BlockLabels' = BlockLabels \cup {currentLabel}
      /\ JumpTargets' = JumpTargets \cup {nextBlock, nextBlock + 1}
      /\ currentLabel' = nextBlock
  BY <1>1, SwitchGrows, Range2 DEF Control
<1>4. /\ Pending' = Pending \cup {nextBlock + 1, nextBlock + 2}
      /\ BackTargets' = BackTargets
  BY <1>1, <1>2, PendingPush, Range2 DEF TypeInv
<1> DEFINE N == {nextBlock, nextBlock + 1, nextBlock + 2}
<1>5. Numbered' \subseteq Numbered \cup N
  BY <1>1, Numbered3
<1>6. N \subseteq BlockLabels' \cup {currentLabel'} \cup Pending'
  BY <1>3, <1>4
<1> HIDE DEF N
<1> QED
  BY <1>1, <1>3, <1>4, <1>5, <1>6, SameLoops, Advance DEF Control

LEMMA CloseThenControl == TypeInv /\ Control /\ CloseThen => Control'
<1> SUFFICES ASSUME TypeInv, Control, CloseThen PROVE Control'
  OBVIOUS
<1> DEFINE f == [Top EXCEPT !.kind = "else", !.todo = Tail(@), !.exit = live]
<1>1. /\ stack # <<>> /\ Top.kind = "then"
      /\ Switch("jump", <<Merge(Top)>>, Top.todo[1])
      /\ stack' = [stack EXCEPT ![Len(stack)] = f] /\ UNCHANGED <<done, loopStack, nextBlock>>
  BY DEF CloseThen, TopIs, ReplaceTop, Unchanged_fn
<1>2. /\ ~done /\ Top \in Frame /\ Len(Top.todo) = 2
      /\ Len(stack) \in DOMAIN stack /\ Top = stack[Len(stack)]
  BY <1>1, TopType DEF FrameOK, Top
<1>3. f.todo = Tail(Top.todo) /\ f.head = Top.head
  BY <1>2 DEF Frame
<1> HIDE DEF f
<1>4. /\ Top.todo \in Seq(Label) /\ Top.todo # <<>> /\ Merge(Top) \in Range(Top.todo)
  BY <1>1, <1>2, TopLabels, LastIn DEF Merge, Range
<1>5. Range(Top.todo) = {Top.todo[1]} \cup Range(f.todo)
  BY <1>3, <1>4, RangeTail
<1>6. /\ EntryFirst' /\ BlockLabels' = BlockLabels \cup {currentLabel}
      /\ JumpTargets' = JumpTargets \cup {Merge(Top)} /\ currentLabel' = Top.todo[1]
  BY <1>1, <1>2, SwitchGrows, Range1 DEF Control
<1>7. /\ Pending \subseteq Pending' \cup Range(Top.todo)
      /\ Range(f.todo) \subseteq Pending' /\ BackTargets' = BackTargets
  BY <1>1, <1>2, <1>3, PendingReplace DEF TypeInv
<1>8. Merge(Top) \in Known
  BY <1>1, <1>4, TopKnown DEF Control
<1>9. Pending \subseteq Pending' \cup {currentLabel'}
  BY <1>5, <1>6, <1>7
<1> DEFINE T == {Merge(Top)}
<1>10. /\ Numbered' \subseteq Numbered \cup {} /\ LoopTargets' = LoopTargets
       /\ T \subseteq Known /\ JumpTargets' = JumpTargets \cup T
  BY <1>1, <1>6, <1>8, SameLoops, Numbered0
<1> HIDE DEF T
<1> QED
  BY <1>1, <1>2, <1>6, <1>7, <1>9, <1>10, Advance DEF Control

(* A match uses all the labels it takes. *)
LEMMA MatchTakesAll ==
  ASSUME TypeInv, NEW n \in 1..MaxArms
  PROVE  nextBlock..(nextBlock + 2 * n - 1) \subseteq {nextBlock + 1} \cup Range(MatchTodo(n))
<1> DEFINE t == MatchTodo(n)
<1>1. nextBlock \in Nat /\ n \in Nat /\ n >= 1
  BY BoundsAssumption, SMT DEF TypeInv, TypeOK
<1>2. /\ DOMAIN t = 1..(2 * n - 1)
      /\ \A j \in 1..(2 * n - 1) :
            t[j] = IF j = 2 * n - 1 THEN nextBlock
                   ELSE IF j % 2 = 1 THEN nextBlock + n + (j + 1) \div 2
                   ELSE nextBlock + 1 + j \div 2
  BY DEF MatchTodo
<1> HIDE DEF t
<1>3. ASSUME NEW x \in nextBlock..(nextBlock + 2 * n - 1), x # nextBlock + 1
      PROVE  \E j \in 1..(2 * n - 1) : x = t[j]
  <2>1. CASE x = nextBlock
    <3>1. 2 * n - 1 \in 1..(2 * n - 1)
      BY SMT, <1>1
    <3> QED
      BY <1>2, <2>1, <3>1
  <2>2. CASE x > nextBlock + 1 /\ x <= nextBlock + n
    <3> DEFINE m == x - nextBlock - 1
               j == 2 * m
    <3>1. m \in Nat /\ m >= 1 /\ m <= n - 1 /\ x = nextBlock + 1 + m
      BY SMT, <1>1, <2>2
    <3> HIDE DEF m
    <3>2. j \in 1..(2 * n - 1) /\ j # 2 * n - 1 /\ j % 2 # 1 /\ j \div 2 = m
      BY SMT, <1>1, <3>1
    <3> HIDE DEF j
    <3> QED
      BY <1>2, <3>1, <3>2
  <2>3. CASE x > nextBlock + n
    <3> DEFINE m == x - nextBlock - n
               j == 2 * m - 1
    <3>1. m \in Nat /\ m >= 1 /\ m <= n - 1 /\ x = nextBlock + n + m
      BY SMT, <1>1, <2>3
    <3> HIDE DEF m
    <3>2. j \in 1..(2 * n - 1) /\ j # 2 * n - 1 /\ j % 2 = 1 /\ (j + 1) \div 2 = m
      BY SMT, <1>1, <3>1
    <3> HIDE DEF j
    <3> QED
      BY <1>2, <3>1, <3>2
  <2> QED
    BY SMT, <1>1, <1>3, <2>1, <2>2, <2>3
<1>4. \A x \in nextBlock..(nextBlock + 2 * n - 1) :
         x # nextBlock + 1 => x \in {t[j] : j \in DOMAIN t}
  BY <1>2, <1>3
<1>5. {t[j] : j \in DOMAIN t} = Range(MatchTodo(n))
  BY DEF Range, t
<1> QED
  BY <1>4, <1>5, Zenon

LEMMA OpenMatchControl ==
  ASSUME TypeInv, Control, NEW n \in 1..MaxArms, NEW wild \in BOOLEAN, OpenMatch(n, wild)
  PROVE  Control'
<1>n. nextBlock..(nextBlock + 2 * n - 1) \subseteq {nextBlock + 1} \cup Range(MatchTodo(n))
  BY MatchTakesAll
<1> DEFINE todo == MatchTodo(n)
           body == nextBlock + 1
           to == DispatchTo(wild, body, todo[1])
           f == [NewFrame("arm", todo, NoLabel, FALSE) EXCEPT !.fall = live /\ ~wild]
<1>1. /\ Switch(DispatchTerm(wild), to, body) /\ Push(f)
      /\ ~done /\ UNCHANGED <<done, loopStack>> /\ nextBlock' = nextBlock + 2 * n
  BY DEF OpenMatch, CanOpen, Unchanged_fn
<1>2. f.todo = todo /\ f.head = NoLabel
  BY DEF NewFrame
<1>3. todo[1] \in Range(todo)
  <2>1. BoundsAssumption
    BY BoundsAssumption
  <2>2. 1 \in 1..(2 * n - 1)
    BY <2>1
  <2>3. DOMAIN todo = 1..(2 * n - 1)
    BY DEF MatchTodo
  <2> HIDE DEF todo
  <2> QED
    BY <2>2, <2>3 DEF Range
<1>4. Range(to) \subseteq {body, todo[1]}
  BY DispatchRange
<1> HIDE DEF f, todo, to, body
<1>5. /\ EntryFirst' /\ BlockLabels' = BlockLabels \cup {currentLabel}
      /\ JumpTargets' = JumpTargets \cup Range(to) /\ currentLabel' = body
  BY <1>1, SwitchGrows DEF Control
<1>6. Pending' = Pending \cup Range(todo) /\ BackTargets' = BackTargets
  BY <1>1, <1>2, PendingPush DEF TypeInv
<1>7. Range(to) \subseteq {currentLabel'} \cup Pending'
  BY <1>3, <1>4, <1>5, <1>6
<1> DEFINE N == nextBlock..(nextBlock + 2 * n - 1)
<1>m. N \subseteq {body} \cup Range(todo)
  BY <1>n, Zenon DEF body, todo
<1>8. Numbered' \subseteq Numbered \cup N
  <2>1. 2 * n \in Nat
    BY BoundsAssumption, SMT
  <2> HIDE DEF N
  <2> QED
    BY <1>1, <2>1, NumberedTo DEF N
<1>9. N \subseteq BlockLabels' \cup {currentLabel'} \cup Pending'
  BY <1>m, <1>5, <1>6, Zenon
<1> HIDE DEF N
<1> QED
  BY <1>1, <1>5, <1>6, <1>7, <1>8, <1>9, SameLoops, Advance DEF Control

LEMMA NextArmControl ==
  ASSUME TypeInv, Control, NEW wild \in BOOLEAN, NextArm(wild)
  PROVE  Control'
<1> DEFINE t == Top.todo
           to == DispatchTo(wild, t[2], t[3])
           b == Finished("jump", <<Merge(Top)>>)
           c == BB(t[1], <<>>, DispatchTerm(wild), to, Top.fall)
           f == [Top EXCEPT !.todo = Tail(Tail(@)), !.exit = @ \/ live, !.fall = @ /\ ~wild]
<1>1. /\ stack # <<>> /\ blocks' = blocks \o <<b, c>> /\ currentLabel' = t[2]
      /\ stack' = [stack EXCEPT ![Len(stack)] = f] /\ UNCHANGED <<done, loopStack, nextBlock>>
      /\ Len(t) >= 3
  BY DEF NextArm, TopIs, ReplaceTop, Unchanged_fn
<1>2. /\ ~done /\ Top \in Frame /\ t \in Seq(Label)
      /\ Len(stack) \in DOMAIN stack /\ Top = stack[Len(stack)]
  BY <1>1, TopType, TopLabels DEF Top
<1>3. f.todo = Tail(Tail(t)) /\ f.head = Top.head
  BY <1>2 DEF Frame
<1>4. /\ b.label = currentLabel /\ b.to = <<Merge(Top)>> /\ c.label = t[1] /\ c.to = to
  BY DEF BB, Finished
<1> HIDE DEF f, b, c
<1>5. /\ t[1] \in Range(t) /\ t[2] \in Range(t) /\ t[3] \in Range(t)
      /\ Merge(Top) \in Range(t)
  BY <1>1, <1>2 DEF Range, Merge
<1>6. Range(t) = {t[1], t[2]} \cup Range(f.todo)
  BY <1>1, <1>2, <1>3, RangeTailTail, Zenon
<1>7. Range(b.to) \subseteq Range(t) /\ Range(c.to) \subseteq Range(t)
  <2>1. Range(c.to) \subseteq {t[2], t[3]}
    BY <1>4, DispatchRange
  <2> QED
    BY <1>4, <1>5, <2>1, Range1
<1>8. /\ EntryFirst' /\ BlockLabels' = BlockLabels \cup {currentLabel, t[1]}
      /\ JumpTargets' \subseteq JumpTargets \cup Range(t)
  <2>1. EntryFirst
    BY DEF Control
  <2>2. /\ EntryFirst' /\ BlockLabels' = BlockLabels \cup {currentLabel, c.label}
        /\ JumpTargets' = JumpTargets \cup Range(b.to) \cup Range(c.to)
    BY <1>1, <1>2, <1>4, <2>1, Grow2, Zenon
  <2> QED
    BY <1>4, <1>7, <2>2
<1>9. /\ Pending \subseteq Pending' \cup Range(t)
      /\ Range(f.todo) \subseteq Pending' /\ BackTargets' = BackTargets
  BY <1>1, <1>2, <1>3, PendingReplace DEF TypeInv
<1>10. Range(t) \subseteq Known
  BY <1>1, TopKnown DEF Control
<1>11. Pending \subseteq Pending' \cup BlockLabels' \cup {currentLabel'}
  BY <1>1, <1>6, <1>8, <1>9
<1> HIDE DEF t
<1> QED
  BY <1>1, <1>2, <1>8, <1>9, <1>10, <1>11, SameLoops, Numbered0, Advance DEF Control

LEMMA CloseExprControl == TypeInv /\ Control /\ CloseExpr => Control'
<1> SUFFICES ASSUME TypeInv, Control, CloseExpr PROVE Control'
  OBVIOUS
<1>1. /\ stack # <<>> /\ Len(Top.todo) = 1 /\ Pop /\ UNCHANGED <<done, loopStack, nextBlock>>
      /\ Switch("jump", <<Merge(Top)>>, Merge(Top))
  BY DEF CloseExpr, TopIs, Unchanged_fn
<1>2. ~done /\ Top.todo \in Seq(Label)
  BY <1>1, TopType, TopLabels
<1>3. /\ EntryFirst' /\ BlockLabels' = BlockLabels \cup {currentLabel}
      /\ JumpTargets' = JumpTargets \cup {currentLabel'} /\ currentLabel' = Merge(Top)
  BY <1>1, <1>2, SwitchGrows, Range1 DEF Control
<1>4. /\ Pending = Pending' \cup {currentLabel'} /\ BackTargets' \subseteq BackTargets
  BY <1>1, <1>2, <1>3, PendingPop, LastLabel DEF TypeInv, Merge
<1> QED
  BY <1>1, <1>2, <1>3, <1>4, SameLoops, Numbered0, Advance DEF Control

(* The end of a function: nothing is pending any more, so what is known is  *)
(* what has a block.                                                        *)
LEMMA FinishFnControl ==
  ASSUME TypeInv, Control, ~done, FinishFn, Pending = {}, stack' = <<>>,
         UNCHANGED loopStack
  PROVE  Control'
<1>1. Switch("return", <<>>, NoLabel) /\ done' /\ UNCHANGED nextBlock
  BY DEF FinishFn
<1>2. /\ EntryFirst' /\ BlockLabels' = BlockLabels \cup {currentLabel}
      /\ JumpTargets' = JumpTargets
  BY <1>1, SwitchGrows, Range0 DEF Control
<1>3. LoopTargets' = LoopTargets /\ BackTargets' = {}
  BY SameLoops DEF BackTargets
<1>4. Known = BlockLabels' /\ BlockLabels' \subseteq Known'
  BY <1>2 DEF Known, Started
<1> QED
  BY <1>1, <1>2, <1>3, <1>4 DEF Control, TargetsResolved, Numbered

LEMMA EndFnControl == TypeInv /\ Control /\ EndFn => Control'
<1> SUFFICES ASSUME TypeInv, Control, EndFn PROVE Control'
  OBVIOUS
<1>1. ~done /\ stack = <<>> /\ UNCHANGED loopStack
  BY DEF EndFn
<1>2. CASE deferred = <<>>
  <2>1. FinishFn /\ UNCHANGED stack
    BY <1>2 DEF EndFn
  <2> QED
    BY <1>1, <2>1, FinishFnControl, NoStack
<1>3. CASE deferred # <<>>
  <2>1. BeginFlush("flush_exit") /\ UNCHANGED <<blocks, currentLabel, done, nextBlock>>
    BY <1>3 DEF EndFn
  <2> QED
    BY <1>1, <2>1, BeginFlushControl
<1> QED
  BY <1>2, <1>3

LEMMA EndFlushExitControl == TypeInv /\ Control /\ EndFlushExit => Control'
<1> SUFFICES ASSUME TypeInv, Control, EndFlushExit PROVE Control'
  OBVIOUS
<1>1. /\ stack # <<>> /\ Top.kind = "flush_exit" /\ Pop /\ FinishFn
      /\ UNCHANGED loopStack
  BY DEF EndFlushExit, TopIs
<1>2. ~done /\ Top.todo = <<>>
  BY <1>1, TopType DEF FrameOK, FlushKinds
<1>3. stack' = <<>>
  <2>1. Len(stack) = 1 /\ stack \in Seq(Frame)
    BY <1>1, TopType DEF TypeInv, TypeOK, Shape, StackOK, Top
  <2> QED
    BY <1>1, <2>1 DEF Pop
<1>4. Pending' = {}
  BY <1>3 DEF Pending
<1>5. Pending = {}
  BY <1>1, <1>2, <1>4, PendingPop, Range0 DEF TypeInv
<1> QED
  BY <1>1, <1>2, <1>3, <1>5, FinishFnControl

LEMMA EndMainControl == TypeInv /\ Control /\ EndMain => Control'
  BY FinishFnControl, NoStack DEF EndMain

(* A function that has emitted nothing satisfies Control. *)
LEMMA FreshControl ==
  ASSUME blocks = <<>>, loopStack = <<>>, stack = <<>>, currentLabel = Entry, ~done, nextBlock = 0
  PROVE  Control
<1>1. Numbered = {Entry}
  BY SMT DEF Numbered
<1>2. Entry \in Known
  BY DEF Known, Started
<1> QED
  BY <1>1, <1>2 DEF Control, TargetsResolved, EntryFirst, JumpTargets, LoopTargets, BackTargets

LEMMA ResetFnControl == ResetFn => Control'
<1> SUFFICES ASSUME ResetFn PROVE Control'
  OBVIOUS
<1>1. /\ blocks' = <<>> /\ loopStack' = <<>> /\ stack' = <<>> /\ currentLabel' = Entry /\ ~done'
      /\ nextBlock' = 0
  BY DEF ResetFn
<1>2. Numbered' = {Entry}
  BY SMT, <1>1 DEF Numbered
<1>3. Entry \in Known'
  BY <1>1 DEF Known, Started
<1> QED
  BY <1>1, <1>2, <1>3 DEF Control, TargetsResolved, EntryFirst, JumpTargets, LoopTargets, BackTargets

-----------------------------------------------------------------------------
LEMMA ControlInit == Init => Control
  BY FreshControl DEF Init

LEMMA ControlStep ==
  ASSUME "empty_match" \notin Constructs
  PROVE  TypeInv /\ Control /\ [Next]_vars => Control'
<1> SUFFICES ASSUME TypeInv, Control, [Next]_vars PROVE Control'
  OBVIOUS
<1>1. CASE Stmt
  BY <1>1, LowerDeferControl, LowerReturnControl, FlushNextControl,
     EndFlushReturnControl, LowerBreakControl, LowerContinueControl, OpenForControl,
     OpenWhileControl, CloseWhileCondControl, OpenLoopControl, CloseLoopControl DEF Stmt
<1>2. CASE Expr
  <2>1. ASSUME OrReturn \/ OrPanic PROVE Control'
    BY <2>1, OrOpControl, Range0 DEF OrReturn, OrPanic
  <2>2. ASSUME OrZero PROVE Control'
    BY <2>2, OrOpControl, Range1 DEF OrZero
  <2>3. ASSUME NEW n \in 1..MaxArms, NEW wild \in BOOLEAN, OpenMatch(n, wild) PROVE Control'
    BY <2>3, OpenMatchControl
  <2>4. ASSUME NEW wild \in BOOLEAN, NextArm(wild) PROVE Control'
    BY <2>4, NextArmControl
  <2>5. ~EmptyMatch
    BY DEF EmptyMatch, CanOpen
  <2> QED
    BY <1>2, <2>1, <2>2, <2>3, <2>4, <2>5, OpenOrElseControl, OpenIfControl,
       CloseThenControl, CloseExprControl DEF Expr
<1>3. CASE Fn
  BY <1>3, EndFnControl, EndFlushExitControl, EndMainControl, ResetFnControl DEF Fn
<1>4. CASE UNCHANGED vars
  <2>1. UNCHANGED <<blocks, currentLabel, loopStack, done, stack, nextBlock>>
    BY <1>4 DEF vars
  <2> QED
    BY <2>1, SameControl, SameStack
<1> QED
  BY <1>1, <1>2, <1>3, <1>4 DEF Next

(* Every jump, break, continue and back edge of the lowered code leads to a *)
(* block that exists or that an open construct will start, in every program *)
(* without an empty match.                                                  *)
THEOREM Resolved ==
  ASSUME "empty_match" \notin Constructs
  PROVE  Spec => []TargetsResolved
<1>1. Init => TypeInv /\ Control
  BY TypeInit, ControlInit
<1>2. TypeInv /\ Control /\ [Next]_vars => TypeInv' /\ Control'
  BY TypeStep, ControlStep
<1>3. TypeInv /\ Control => TargetsResolved
  BY DEF Control
<1> QED
  BY <1>1, <1>2, <1>3, PTL DEF Spec

LEMMA ControlCloses == TypeInv /\ Control => Closed
<1> SUFFICES ASSUME TypeInv, Control, done
             PROVE  /\ \A i \in DOMAIN blocks : Range(blocks[i].to) \subseteq BlockLabels
                    /\ blocks[1].label = Entry
  BY DEF Closed
<1>1. stack = <<>>
  BY DEF TypeInv, Shape
<1>2. Known = BlockLabels
  BY <1>1, NoStack DEF Known, Started
<1>3. JumpTargets \subseteq BlockLabels
  BY <1>2 DEF Control, TargetsResolved
<1>4. ASSUME NEW i \in DOMAIN blocks PROVE Range(blocks[i].to) \subseteq BlockLabels
  BY <1>3 DEF JumpTargets
<1> QED
  BY <1>4 DEF Control, EntryFirst

(* What lower_fn and lower_file hand over is a closed control-flow graph    *)
(* that is entered at its first block.                                      *)
THEOREM FinishedIsClosed ==
  ASSUME "empty_match" \notin Constructs
  PROVE  Spec => []Closed
<1>1. Init => TypeInv /\ Control
  BY TypeInit, ControlInit
<1>2. TypeInv /\ Control /\ [Next]_vars => TypeInv' /\ Control'
  BY TypeStep, ControlStep
<1>3. TypeInv /\ Control => Closed
  BY ControlCloses
<1> QED
  BY <1>1, <1>2, <1>3, PTL DEF Spec

(* Every label that was handed out has a block once the function is done,   *)
(* and no block has another label: what fresh_label counts, start_block     *)
(* starts and finish_block finishes.                                        *)
LEMMA BlocksNumbered ==
  ASSUME TypeInv, Control, Unique
  PROVE  OneTerminatorPerLabel
<1> SUFFICES ASSUME done PROVE BlockLabels = Numbered
  BY DEF OneTerminatorPerLabel, Numbered
<1>1. stack = <<>>
  BY DEF TypeInv, Shape
<1>2. Pending = {}
  BY <1>1 DEF Pending
<1>3. Started = BlockLabels
  BY DEF Started
<1>4. Numbered \subseteq BlockLabels
  BY <1>2, <1>3 DEF Control, Known
<1>5. BlockLabels \subseteq Numbered
  BY <1>3 DEF Unique
<1> QED
  BY <1>4, <1>5

(* In a finished function the labels of the blocks are exactly those that   *)
(* fresh_label handed out: no label is lost and none is invented.           *)
THEOREM LabelsAllFinished ==
  ASSUME "empty_match" \notin Constructs
  PROVE  Spec => []OneTerminatorPerLabel
<1>1. Init => TypeInv /\ Control /\ Unique
  BY TypeInit, ControlInit, UniqueInit
<1>2. TypeInv /\ Control /\ Unique /\ [Next]_vars => TypeInv' /\ Control' /\ Unique'
  BY TypeStep, ControlStep, UniqueStep
<1>3. TypeInv /\ Control /\ Unique => OneTerminatorPerLabel
  BY BlocksNumbered
<1> QED
  BY <1>1, <1>2, <1>3, PTL DEF Spec

-----------------------------------------------------------------------------
(* What the program can reach: a label is alive if a live block, finished   *)
(* or current, has it or if an open construct will start it live.           *)

Only(b, S) == IF b THEN S ELSE {}

LiveLabels(s) == {s[i].label : i \in {j \in DOMAIN s : s[j].live}}

LiveTargets(s) == UNION {Range(s[i].to) : i \in {j \in DOMAIN s : s[j].live}}

Promised(f) ==
    Only(f.fall /\ f.kind \in {"then", "arm"}, {f.todo[1]}) \cup Only(f.exit, {Merge(f)})

Promises == UNION {Promised(stack[i]) : i \in DOMAIN stack}

Alive == LiveLabels(blocks) \cup Only(live /\ ~done, {currentLabel}) \cup Promises

(* A live block is the first or a live block before it jumps to it.         *)
Founded(s) ==
    \A i \in DOMAIN s :
       s[i].live => \/ s[i].label = Entry
                    \/ \E j \in 1..(i - 1) : s[j].live /\ s[i].label \in Range(s[j].to)

(* In a loop that is not reached nothing is; and what has not been reached  *)
(* when a construct is opened cannot be its exit yet.                       *)
Awake == live \/ \E j \in DOMAIN stack : stack[j].fall \/ stack[j].exit

Shut == {"then", "cond"} \cup FlushKinds

Heads ==
    /\ stack # <<>> /\ stack[1].kind \in Repeats /\ Awake => stack[1].head \in Alive
    /\ \A i \in DOMAIN stack : stack[i].kind \in Shut => ~stack[i].exit

Lively == Founded(blocks) /\ Alive = {Entry} \cup LiveTargets(blocks) /\ Heads

LEMMA LiveAppend ==
  ASSUME NEW S, NEW s \in Seq(S), NEW b
  PROVE  /\ LiveLabels(Append(s, b)) = LiveLabels(s) \cup Only(b.live, {b.label})
         /\ LiveTargets(Append(s, b)) = LiveTargets(s) \cup Only(b.live, Range(b.to))
         /\ Append(s, b) \in Seq(S \cup {b})
<1> DEFINE t == Append(s, b)
<1>1. /\ DOMAIN t = 1..(Len(s) + 1) /\ DOMAIN s = 1..Len(s) /\ Len(s) \in Nat
      /\ \A i \in 1..Len(s) : t[i] = s[i]
      /\ t[Len(s) + 1] = b
      /\ t \in Seq(S \cup {b})
  OBVIOUS
<1> HIDE DEF t
<1>2. DOMAIN t = DOMAIN s \cup {Len(s) + 1} /\ Len(s) + 1 \notin DOMAIN s
  BY <1>1
<1>3. PICK n : n = Len(s) + 1
  OBVIOUS
<1>4. /\ DOMAIN t = DOMAIN s \cup {n} /\ n \notin DOMAIN s /\ t[n] = b
      /\ \A i \in DOMAIN s : t[i] = s[i]
  BY <1>1, <1>2, <1>3
<1>5. LiveLabels(t) = LiveLabels(s) \cup Only(b.live, {b.label})
  <2>1. CASE b.live
    BY <1>4, <2>1 DEF LiveLabels, Only
  <2>2. CASE ~b.live
    BY <1>4, <2>2 DEF LiveLabels, Only
  <2> QED
    BY <2>1, <2>2
<1>6. LiveTargets(t) = LiveTargets(s) \cup Only(b.live, Range(b.to))
  <2>1. CASE b.live
    BY <1>4, <2>1 DEF LiveTargets, Only
  <2>2. CASE ~b.live
    BY <1>4, <2>2 DEF LiveTargets, Only
  <2> QED
    BY <2>1, <2>2
<1> QED
  BY <1>1, <1>5, <1>6 DEF t

LEMMA FoundedAppend ==
  ASSUME NEW S, NEW s \in Seq(S), NEW b, Founded(s),
         b.live => b.label \in {Entry} \cup LiveTargets(s)
  PROVE  Founded(Append(s, b))
<1> DEFINE t == Append(s, b)
<1>1. /\ DOMAIN t = 1..(Len(s) + 1) /\ DOMAIN s = 1..Len(s) /\ Len(s) \in Nat
      /\ \A i \in 1..Len(s) : t[i] = s[i]
      /\ t[Len(s) + 1] = b
  OBVIOUS
<1> HIDE DEF t
<1>2. ASSUME NEW i \in DOMAIN t, t[i].live
      PROVE  t[i].label = Entry \/ \E j \in 1..(i - 1) : t[j].live /\ t[i].label \in Range(t[j].to)
  <2>1. CASE i \in 1..Len(s)
    <3>1. s[i].label = Entry \/ \E j \in 1..(i - 1) : s[j].live /\ s[i].label \in Range(s[j].to)
      BY <1>1, <1>2, <2>1 DEF Founded
    <3>2. \A j \in 1..(i - 1) : j \in 1..Len(s)
      BY <1>1, <2>1
    <3> QED
      BY <1>1, <2>1, <3>1, <3>2
  <2>2. CASE i = Len(s) + 1
    <3>1. b.live /\ t[i] = b
      BY <1>1, <1>2, <2>2
    <3>2. CASE b.label = Entry
      BY <3>1, <3>2
    <3>3. CASE b.label \in LiveTargets(s)
      <4>1. PICK j \in DOMAIN s : s[j].live /\ b.label \in Range(s[j].to)
        BY <3>3 DEF LiveTargets
      <4>2. j \in 1..(i - 1) /\ t[j] = s[j]
        BY <1>1, <2>2, <4>1
      <4> QED
        BY <3>1, <4>1, <4>2
    <3> QED
      BY <3>1, <3>2, <3>3
  <2> QED
    BY <1>1, <2>1, <2>2
<1> QED
  BY <1>2 DEF Founded, t

(* One, two or three blocks are finished, the current one first.            *)
LEMMA LiveGrow1 ==
  ASSUME TypeInv, ~done, Lively, NEW b, b.label = currentLabel, b.live = live,
         blocks' = Append(blocks, b)
  PROVE  /\ LiveLabels(blocks') = LiveLabels(blocks) \cup Only(live, {currentLabel})
         /\ LiveTargets(blocks') = LiveTargets(blocks) \cup Only(live, Range(b.to))
         /\ Founded(blocks')
<1>1. blocks \in Seq(Block)
  BY DEF TypeInv, TypeOK
<1>2. live => currentLabel \in {Entry} \cup LiveTargets(blocks)
  BY DEF Lively, Alive, Only
<1>3. Founded(blocks')
  BY <1>1, <1>2, FoundedAppend DEF Lively
<1> QED
  BY <1>1, <1>3, LiveAppend

LEMMA LiveGrow2 ==
  ASSUME TypeInv, ~done, Lively, NEW b, b.label = currentLabel, b.live = live, NEW c,
         c.live => c.label \in {Entry} \cup LiveTargets(blocks) \cup Only(live, Range(b.to)),
         blocks' = blocks \o <<b, c>>
  PROVE  /\ LiveLabels(blocks') = LiveLabels(blocks) \cup Only(live, {currentLabel})
                                     \cup Only(c.live, {c.label})
         /\ LiveTargets(blocks') = LiveTargets(blocks) \cup Only(live, Range(b.to))
                                     \cup Only(c.live, Range(c.to))
         /\ Founded(blocks')
<1>1. blocks \in Seq(Block)
  BY DEF TypeInv, TypeOK
<1>2. live => currentLabel \in {Entry} \cup LiveTargets(blocks)
  BY DEF Lively, Alive, Only
<1> DEFINE s == Append(blocks, b)
<1>3. s \in Seq(Block \cup {b}) /\ blocks' = Append(s, c)
  BY <1>1
<1>4. /\ LiveLabels(s) = LiveLabels(blocks) \cup Only(live, {currentLabel})
      /\ LiveTargets(s) = LiveTargets(blocks) \cup Only(live, Range(b.to))
  BY <1>1, LiveAppend
<1>5. Founded(s)
  BY <1>1, <1>2, FoundedAppend DEF Lively
<1> HIDE DEF s
<1>6. c.live => c.label \in {Entry} \cup LiveTargets(s)
  BY <1>4
<1>7. Founded(blocks')
  BY <1>3, <1>5, <1>6, FoundedAppend
<1>8. /\ LiveLabels(blocks') = LiveLabels(s) \cup Only(c.live, {c.label})
      /\ LiveTargets(blocks') = LiveTargets(s) \cup Only(c.live, Range(c.to))
  BY <1>3, LiveAppend
<1> QED
  BY <1>4, <1>7, <1>8

LEMMA LiveGrow3 ==
  ASSUME TypeInv, ~done, Lively, NEW b, b.label = currentLabel, b.live = live, NEW c, NEW d,
         c.live => c.label \in {Entry} \cup LiveTargets(blocks) \cup Only(live, Range(b.to)),
         d.live => d.label \in {Entry} \cup LiveTargets(blocks) \cup Only(live, Range(b.to)),
         blocks' = blocks \o <<b, c, d>>
  PROVE  /\ LiveLabels(blocks') = LiveLabels(blocks) \cup Only(live, {currentLabel})
                                     \cup Only(c.live, {c.label}) \cup Only(d.live, {d.label})
         /\ LiveTargets(blocks') = LiveTargets(blocks) \cup Only(live, Range(b.to))
                                     \cup Only(c.live, Range(c.to)) \cup Only(d.live, Range(d.to))
         /\ Founded(blocks')
<1>1. blocks \in Seq(Block)
  BY DEF TypeInv, TypeOK
<1>2. live => currentLabel \in {Entry} \cup LiveTargets(blocks)
  BY DEF Lively, Alive, Only
<1> DEFINE s == Append(blocks, b)
           t == Append(s, c)
<1>3. s \in Seq(Block \cup {b}) /\ t \in Seq(Block \cup {b} \cup {c}) /\ blocks' = Append(t, d)
  BY <1>1
<1>4. /\ LiveLabels(s) = LiveLabels(blocks) \cup Only(live, {currentLabel})
      /\ LiveTargets(s) = LiveTargets(blocks) \cup Only(live, Range(b.to))
  BY <1>1, LiveAppend
<1>5. Founded(s)
  BY <1>1, <1>2, FoundedAppend DEF Lively
<1> HIDE DEF s
<1>6. Founded(t)
  BY <1>3, <1>4, <1>5, FoundedAppend
<1>7. /\ LiveLabels(t) = LiveLabels(s) \cup Only(c.live, {c.label})
      /\ LiveTargets(t) = LiveTargets(s) \cup Only(c.live, Range(c.to))
  BY <1>3, LiveAppend
<1> HIDE DEF t
<1>8. d.live => d.label \in {Entry} \cup LiveTargets(t)
  BY <1>4, <1>7
<1>9. Founded(blocks')
  BY <1>3, <1>6, <1>8, FoundedAppend
<1>10. /\ LiveLabels(blocks') = LiveLabels(t) \cup Only(d.live, {d.label})
       /\ LiveTargets(blocks') = LiveTargets(t) \cup Only(d.live, Range(d.to))
  BY <1>3, LiveAppend
<1> QED
  BY <1>4, <1>7, <1>9, <1>10

(* What opening, closing and continuing a construct does to the promises.   *)
LEMMA PromisesPush ==
  ASSUME TypeInv, NEW f, Push(f)
  PROVE  Promises' = Promises \cup Promised(f)
<1>1. stack \in Seq(Frame)
  BY DEF TypeInv, TypeOK
<1>2. PICK n : n = Len(stack) + 1
  OBVIOUS
<1>3. /\ DOMAIN stack' = DOMAIN stack \cup {n} /\ n \notin DOMAIN stack
      /\ \A i \in DOMAIN stack : stack'[i] = stack[i]
      /\ stack'[n] = f
  BY <1>1, <1>2 DEF Push
<1> QED
  BY <1>3 DEF Promises

LEMMA PromisesPop ==
  ASSUME TypeInv, stack # <<>>, Pop
  PROVE  Promises = Promises' \cup Promised(Top)
<1>1. stack \in Seq(Frame)
  BY DEF TypeInv, TypeOK
<1>2. PICK n : n = Len(stack)
  OBVIOUS
<1>3. /\ DOMAIN stack = DOMAIN stack' \cup {n}
      /\ \A i \in DOMAIN stack' : stack'[i] = stack[i]
      /\ stack[n] = Top
  BY <1>1, <1>2 DEF Pop, Top
<1> QED
  BY <1>3 DEF Promises

LEMMA PromisesReplace ==
  ASSUME TypeInv, NEW k \in DOMAIN stack, NEW f, stack' = [stack EXCEPT ![k] = f]
  PROVE  \E R : Promises = R \cup Promised(stack[k]) /\ Promises' = R \cup Promised(f)
<1>1. /\ DOMAIN stack' = DOMAIN stack /\ stack'[k] = f
      /\ \A i \in DOMAIN stack : i # k => stack'[i] = stack[i]
  BY DEF TypeInv, TypeOK
<1> DEFINE R == UNION {Promised(stack[i]) : i \in DOMAIN stack \ {k}}
<1>2. Promises = R \cup Promised(stack[k])
  BY DEF Promises
<1>3. Promises' = R \cup Promised(f)
  BY <1>1 DEF Promises
<1> QED
  BY <1>2, <1>3

LEMMA PromisesSame == UNCHANGED stack => Promises' = Promises
  BY DEF Promises

LEMMA NoPromises == stack = <<>> => Promises = {}
  BY DEF Promises

(* And to Heads.                                                            *)
LEMMA HeadsPush ==
  ASSUME TypeInv, Heads, Alive \subseteq Alive', NEW f, Push(f),
         f.kind \in Shut => ~f.exit,
         f.fall \/ f.exit => Awake, live' => Awake,
         stack = <<>> /\ f.kind \in Repeats /\ Awake => f.head \in Alive'
  PROVE  Heads'
<1>1. stack \in Seq(Frame)
  BY DEF TypeInv, TypeOK
<1>2. PICK n : n = Len(stack) + 1
  OBVIOUS
<1>3. /\ DOMAIN stack' = DOMAIN stack \cup {n} /\ n \notin DOMAIN stack
      /\ \A i \in DOMAIN stack : stack'[i] = stack[i]
      /\ stack'[n] = f
  BY <1>1, <1>2 DEF Push
<1>4. Awake' => Awake
  BY <1>3 DEF Awake
<1>5. \A i \in DOMAIN stack' : stack'[i].kind \in Shut => ~stack'[i].exit
  BY <1>3 DEF Heads
<1>6. CASE stack = <<>>
  <2>1. stack'[1] = f
    BY <1>6 DEF Push
  <2> QED
    BY <1>4, <1>5, <1>6, <2>1 DEF Heads
<1>7. CASE stack # <<>>
  <2>1. 1 \in DOMAIN stack
    BY <1>1, <1>7
  <2>2. stack'[1] = stack[1]
    BY <1>3, <2>1
  <2> QED
    BY <1>4, <1>5, <1>7, <2>2 DEF Heads
<1> QED
  BY <1>6, <1>7

LEMMA HeadsPop ==
  ASSUME TypeInv, Heads, Alive \subseteq Alive', stack # <<>>, Pop, live' => Awake
  PROVE  Heads'
<1>1. stack \in Seq(Frame)
  BY DEF TypeInv, TypeOK
<1>2. /\ DOMAIN stack' \subseteq DOMAIN stack
      /\ \A i \in DOMAIN stack' : stack'[i] = stack[i]
      /\ stack' # <<>> => 1 \in DOMAIN stack'
  BY <1>1 DEF Pop
<1>3. Awake' => Awake
  BY <1>2 DEF Awake
<1> QED
  BY <1>2, <1>3 DEF Heads

LEMMA HeadsReplace ==
  ASSUME TypeInv, Heads, Alive \subseteq Alive', NEW k \in DOMAIN stack, NEW f,
         stack' = [stack EXCEPT ![k] = f], f.head = stack[k].head,
         f.kind \in Repeats => stack[k].kind \in Repeats,
         f.kind \in Shut => ~f.exit,
         f.fall \/ f.exit => Awake, live' => Awake
  PROVE  Heads'
<1>1. /\ DOMAIN stack' = DOMAIN stack /\ stack'[k] = f
      /\ \A i \in DOMAIN stack : i # k => stack'[i] = stack[i]
      /\ 1 \in DOMAIN stack /\ stack # <<>>
  BY DEF TypeInv, TypeOK
<1>2. Awake' => Awake
  BY <1>1 DEF Awake
<1>3. \A i \in DOMAIN stack' : stack'[i].kind \in Shut => ~stack'[i].exit
  BY <1>1 DEF Heads
<1>4. stack'[1].head = stack[1].head /\ (stack'[1].kind \in Repeats => stack[1].kind \in Repeats)
  BY <1>1
<1> QED
  BY <1>1, <1>2, <1>3, <1>4 DEF Heads

LEMMA HeadsSame ==
  ASSUME Heads, Alive \subseteq Alive', UNCHANGED stack, live' => Awake
  PROVE  Heads'
<1>1. Awake' => Awake
  BY DEF Awake
<1> QED
  BY <1>1 DEF Heads

(* The frame on top. *)
LEMMA TopLively ==
  ASSUME TypeInv, stack # <<>>
  PROVE  /\ Promised(Top) \subseteq Promises
         /\ Top.fall \/ Top.exit => Awake
         /\ Heads /\ Top.kind \in Shut => ~Top.exit
<1>1. Len(stack) \in DOMAIN stack
  BY TopType
<1> QED
  BY <1>1 DEF Promises, Awake, Heads, Top

(* What finishing the current block, and blocks with the labels X behind    *)
(* it, means for the labels alive: N are jumped to, the rest comes from     *)
(* what is current and what is promised then.                               *)
Grows(X, N, Y) ==
    /\ LiveLabels(blocks') = LiveLabels(blocks) \cup Only(live, {currentLabel}) \cup X
    /\ LiveTargets(blocks') = LiveTargets(blocks) \cup N
    /\ Founded(blocks')
    /\ Y = X \cup Only(live', {currentLabel'}) \cup Promises'
    /\ Y \subseteq Alive \cup N /\ Promises \subseteq Y /\ N \subseteq Alive \cup Y

LEMMA AliveStep ==
  ASSUME ~done, ~done', Lively, NEW X, NEW N, NEW Y, Grows(X, N, Y)
  PROVE  Alive \subseteq Alive' /\ N \subseteq Alive' /\ (Heads' => Lively')
<1>1. Alive = LiveLabels(blocks) \cup Only(live, {currentLabel}) \cup Promises
  BY DEF Alive, Only
<1>2. Alive' = LiveLabels(blocks') \cup Only(live', {currentLabel'}) \cup Promises'
  BY DEF Alive, Only
<1>3. Alive \subseteq Alive'
  BY <1>1, <1>2 DEF Grows
<1>4. Alive' = Alive \cup N
  BY <1>1, <1>2, <1>3 DEF Grows
<1> QED
  BY <1>3, <1>4 DEF Lively, Grows

(* With the current block alone. *)
Passes(to, l, Y) ==
    /\ Y = Only(live', {l}) \cup Promises'
    /\ Y \subseteq Alive \cup Only(live, Range(to)) /\ Promises \subseteq Y
    /\ Only(live, Range(to)) \subseteq Alive \cup Y

LEMMA SwitchLively ==
  ASSUME TypeInv, ~done, ~done', Lively, NEW term, NEW to, NEW l, Switch(term, to, l), NEW Y,
         Passes(to, l, Y)
  PROVE  /\ Alive \subseteq Alive' /\ Only(live, Range(to)) \subseteq Alive'
         /\ Heads' => Lively'
<1>1. PICK b : b = Finished(term, to)
  OBVIOUS
<1>2. /\ b.label = currentLabel /\ b.live = live /\ b.to = to /\ blocks' = Append(blocks, b)
      /\ currentLabel' = l
  BY <1>1 DEF Finished, BB, Switch
<1>3. /\ LiveLabels(blocks') = LiveLabels(blocks) \cup Only(live, {currentLabel}) \cup {}
      /\ LiveTargets(blocks') = LiveTargets(blocks) \cup Only(live, Range(to))
      /\ Founded(blocks')
  BY <1>2, LiveGrow1
<1>4. PICK X : X = {}
  OBVIOUS
<1>5. Y = X \cup Only(live', {currentLabel'}) \cup Promises'
  BY <1>2, <1>4 DEF Passes
<1>6. PICK N : N = Only(live, Range(to))
  OBVIOUS
<1>7. Grows(X, N, Y)
  BY <1>3, <1>4, <1>5, <1>6 DEF Grows, Passes
<1> QED
  BY <1>6, <1>7, AliveStep

(* No block is finished. *)
LEMMA SameLively ==
  ASSUME Lively, UNCHANGED <<blocks, currentLabel, live, done>>, Promises' = Promises
  PROVE  Alive' = Alive /\ (Heads' => Lively')
<1>1. Alive' = Alive
  BY DEF Alive
<1> QED
  BY <1>1 DEF Lively

-----------------------------------------------------------------------------
(* One lemma per action.                                                    *)

LEMMA LowerDeferLively == TypeInv /\ Lively /\ LowerDefer => Lively'
<1> SUFFICES ASSUME TypeInv, Lively, LowerDefer PROVE Lively'
  OBVIOUS
<1>1. UNCHANGED <<blocks, currentLabel, live, done>> /\ UNCHANGED stack
  BY DEF LowerDefer, Unchanged_fn
<1>2. Promises' = Promises
  BY <1>1, PromisesSame
<1>3. Alive' = Alive
  BY <1>1, <1>2, SameLively
<1>4. Heads'
  BY <1>1, <1>3, HeadsSame DEF Lively, Awake
<1> QED
  BY <1>1, <1>2, <1>4, SameLively

LEMMA BeginFlushLively ==
  ASSUME TypeInv, Lively, NEW kind \in FlushKinds, BeginFlush(kind),
         UNCHANGED <<blocks, currentLabel, live, done>>
  PROVE  Lively'
<1> DEFINE f == [NewFrame(kind, <<>>, NoLabel, FALSE) EXCEPT !.rest = Reverse(Front(deferred))]
<1>1. Push(f)
  BY DEF BeginFlush
<1>2. f.kind = kind /\ f.fall = live /\ f.exit = FALSE
  BY DEF NewFrame
<1>3. kind \notin {"then", "arm"} /\ kind \notin Repeats
  BY DEF FlushKinds, Repeats, LoopKinds
<1> HIDE DEF f
<1>4. Promised(f) = {}
  BY <1>2, <1>3 DEF Promised, Only
<1>5. Promises' = Promises
  BY <1>1, <1>4, PromisesPush
<1>6. Alive' = Alive
  BY <1>5, SameLively
<1>7. Heads'
  <2>1. (f.fall \/ f.exit => Awake) /\ (live' => Awake)
    BY <1>2 DEF Awake
  <2>2. ~f.exit /\ Alive \subseteq Alive' /\ Heads
    BY <1>2, <1>6 DEF Lively
  <2>3. f.kind \notin Repeats
    BY <1>2, <1>3
  <2> QED
    BY <1>1, <2>1, <2>2, <2>3, HeadsPush
<1> QED
  BY <1>5, <1>7, SameLively

LEMMA FlushNextLively == TypeInv /\ Lively /\ FlushNext => Lively'
<1> SUFFICES ASSUME TypeInv, Lively, FlushNext PROVE Lively'
  OBVIOUS
<1> DEFINE f == [Top EXCEPT !.rest = Tail(@)]
           k == Len(stack)
<1>1. /\ stack # <<>> /\ Top \in Frame /\ Top.kind \in FlushKinds
      /\ UNCHANGED <<blocks, currentLabel, live, done>>
      /\ stack' = [stack EXCEPT ![k] = f] /\ k \in DOMAIN stack
  BY TopType DEF FlushNext, TopIs, ReplaceTop, Unchanged_fn
<1>2. /\ f.kind = Top.kind /\ f.fall = Top.fall /\ f.exit = Top.exit /\ f.todo = Top.todo
      /\ f.head = Top.head /\ stack[k] = Top
  BY <1>1 DEF Frame, Top
<1> HIDE DEF f, k
<1>3. Promised(f) = Promised(Top)
  BY <1>2 DEF Promised, Merge
<1>4. Promises' = Promises
  <2>1. PICK R : Promises = R \cup Promised(stack[k]) /\ Promises' = R \cup Promised(f)
    BY <1>1, PromisesReplace
  <2> QED
    BY <1>2, <1>3, <2>1
<1>5. Alive' = Alive
  BY <1>1, <1>4, SameLively
<1>6. Heads'
  <2>1. (f.fall \/ f.exit => Awake) /\ (live' => Awake)
    BY <1>1, <1>2, TopLively DEF Awake
  <2>2. (f.kind \in Shut => ~f.exit) /\ Alive \subseteq Alive' /\ Heads
    BY <1>1, <1>2, <1>5, TopLively DEF Lively
  <2> QED
    BY <1>1, <1>2, <2>1, <2>2, HeadsReplace
<1> QED
  BY <1>1, <1>4, <1>6, SameLively

(* return, and the dead block behind it. *)
LEMMA DeadLively ==
  ASSUME TypeInv, ~done, ~done', Lively, NEW to, NEW l, NEW term, Switch(term, to, l), ~live',
         Promises \subseteq Promises', Promises' \subseteq Promises \cup Only(live, Range(to)),
         Only(live, Range(to)) \subseteq Alive \cup Promises'
  PROVE  Alive \subseteq Alive' /\ (Heads' => Lively')
<1>1. PICK Y : Y = Only(live', {l}) \cup Promises'
  OBVIOUS
<1>2. Y = Promises'
  BY <1>1 DEF Only
<1>3. Promises \subseteq Alive
  BY DEF Alive
<1>4. Passes(to, l, Y)
  BY <1>1, <1>2, <1>3 DEF Passes
<1> QED
  BY <1>4, SwitchLively

LEMMA LowerReturnLively == TypeInv /\ Lively /\ LowerReturn => Lively'
<1> SUFFICES ASSUME TypeInv, Lively, LowerReturn PROVE Lively'
  OBVIOUS
<1>1. ~done /\ UNCHANGED done
  BY DEF LowerReturn, CanOpen, Unchanged_fn
<1>2. CASE deferred = <<>>
  <2>1. Switch("return", <<>>, nextBlock) /\ ~live' /\ UNCHANGED stack
    BY <1>2 DEF LowerReturn, FinishReturn
  <2>2. Promises' = Promises
    BY <2>1, PromisesSame
  <2>3. Only(live, Range(<<>>)) = {}
    BY Range0 DEF Only
  <2>4. Alive \subseteq Alive' /\ (Heads' => Lively')
    BY <1>1, <2>1, <2>2, <2>3, DeadLively
  <2> QED
    BY <2>1, <2>4, HeadsSame DEF Lively
<1>3. CASE deferred # <<>>
  <2>1. BeginFlush("flush_return") /\ UNCHANGED <<blocks, currentLabel, live, done>>
    BY <1>1, <1>3 DEF LowerReturn
  <2>2. "flush_return" \in FlushKinds
    BY DEF FlushKinds
  <2> QED
    BY <2>1, <2>2, BeginFlushLively
<1> QED
  BY <1>2, <1>3

LEMMA EndFlushReturnLively == TypeInv /\ Lively /\ EndFlushReturn => Lively'
<1> SUFFICES ASSUME TypeInv, Lively, EndFlushReturn PROVE Lively'
  OBVIOUS
<1>1. /\ stack # <<>> /\ Top.kind = "flush_return" /\ ~done /\ UNCHANGED done
      /\ Switch("return", <<>>, nextBlock) /\ ~live' /\ Pop
  BY TopType DEF EndFlushReturn, TopIs, FinishReturn, Unchanged_fn
<1>2. Promised(Top) = {}
  <2>1. ~Top.exit
    BY <1>1, TopLively DEF Lively, Shut, FlushKinds
  <2> QED
    BY <1>1, <2>1 DEF Promised, Only
<1>3. Promises' = Promises
  BY <1>1, <1>2, PromisesPop
<1>4. Only(live, Range(<<>>)) = {}
  BY Range0 DEF Only
<1>5. Alive \subseteq Alive' /\ (Heads' => Lively')
  BY <1>1, <1>3, <1>4, DeadLively
<1> QED
  BY <1>1, <1>5, HeadsPop DEF Lively

LEMMA LowerBreakLively == TypeInv /\ Loops /\ Lively /\ LowerBreak => Lively'
<1> SUFFICES ASSUME TypeInv, Loops, Lively, LowerBreak PROVE Lively'
  OBVIOUS
<1> DEFINE l == loopStack[Len(loopStack)].brk
<1>1. /\ ~done /\ Switch("jump", <<l>>, nextBlock) /\ UNCHANGED done /\ ~live'
      /\ loopStack # <<>>
  BY DEF LowerBreak, JumpOut, CanOpen, Unchanged_fn
<1>2. PICK k \in DOMAIN stack : InnermostLoop(k) /\ stack' = [stack EXCEPT ![k].exit = @ \/ live]
  BY DEF LowerBreak
<1>3. stack[k].kind \in LoopKinds /\ k = 1
  BY <1>2 DEF InnermostLoop, Loops, Repeats
<1>4. loopStack = <<LoopOf(stack[1])>> /\ l = Merge(stack[1])
  <2>1. loopStack = <<LoopOf(stack[1])>>
    BY <1>1 DEF Loops
  <2> QED
    BY <2>1 DEF LoopOf
<1> DEFINE f == [stack[k] EXCEPT !.exit = @ \/ live]
<1>5. stack[k] \in Frame
  BY DEF TypeInv, TypeOK
<1>6. /\ f.todo = stack[k].todo /\ f.head = stack[k].head /\ f.kind = stack[k].kind
      /\ f.fall = stack[k].fall /\ f.exit = (stack[k].exit \/ live)
      /\ stack' = [stack EXCEPT ![k] = f]
  BY <1>2, <1>5 DEF Frame
<1> HIDE DEF f, l
<1>7. PICK R : Promises = R \cup Promised(stack[k]) /\ Promises' = R \cup Promised(f)
  BY <1>6, PromisesReplace
<1>8. Promised(f) = Promised(stack[k]) \cup Only(live, {l})
  <2>1. Merge(f) = l
    BY <1>3, <1>4, <1>6 DEF Merge
  <2>2. f.kind \notin {"then", "arm"} /\ stack[k].kind \notin {"then", "arm"}
    BY <1>3, <1>6 DEF LoopKinds
  <2>3. Promised(f) = Only(f.exit, {l})
    BY <2>1, <2>2 DEF Promised, Only
  <2>4. Promised(stack[k]) = Only(stack[k].exit, {l})
    BY <1>3, <1>4, <2>2 DEF Promised, Only
  <2> QED
    BY <1>6, <2>3, <2>4 DEF Only
<1>9. Only(live, Range(<<l>>)) = Only(live, {l})
  BY Range1
<1>10. Alive \subseteq Alive' /\ (Heads' => Lively')
  <2>1. /\ Promises \subseteq Promises'
        /\ Promises' \subseteq Promises \cup Only(live, Range(<<l>>))
        /\ Only(live, Range(<<l>>)) \subseteq Alive \cup Promises'
    BY <1>7, <1>8, <1>9
  <2> QED
    BY <1>1, <2>1, DeadLively
<1>11. Heads'
  <2>1. f.fall \/ f.exit => Awake
    BY <1>6 DEF Awake
  <2>2. f.kind \notin Shut
    BY <1>3, <1>6 DEF Shut, LoopKinds, FlushKinds
  <2> QED
    BY <1>1, <1>6, <1>10, <2>1, <2>2, HeadsReplace DEF Lively
<1> QED
  BY <1>10, <1>11

LEMMA LowerContinueLively == TypeInv /\ Loops /\ Lively /\ LowerContinue => Lively'
<1> SUFFICES ASSUME TypeInv, Loops, Lively, LowerContinue PROVE Lively'
  OBVIOUS
<1> DEFINE l == loopStack[Len(loopStack)].cont
<1>1. /\ ~done /\ Switch("jump", <<l>>, nextBlock) /\ UNCHANGED <<done, stack>> /\ ~live'
      /\ loopStack # <<>>
  BY DEF LowerContinue, JumpOut, CanOpen, Unchanged_fn
<1>2. stack # <<>> /\ stack[1].kind \in Repeats /\ l = stack[1].head
  <2>1. stack # <<>> /\ stack[1].kind \in LoopKinds /\ loopStack = <<LoopOf(stack[1])>>
    BY <1>1 DEF Loops
  <2> QED
    BY <2>1 DEF LoopOf, Repeats
<1> HIDE DEF l
<1>3. Only(live, Range(<<l>>)) \subseteq Alive
  <2>1. live => l \in Alive
    BY <1>2 DEF Lively, Heads, Awake
  <2> QED
    BY <2>1, Range1 DEF Only
<1>4. Promises' = Promises
  BY <1>1, PromisesSame
<1>5. Alive \subseteq Alive' /\ (Heads' => Lively')
  BY <1>1, <1>3, <1>4, DeadLively
<1> QED
  BY <1>1, <1>5, HeadsSame DEF Lively

(* A construct is opened: the current block ends in a jump or a branch to   *)
(* the label l that is started and to what the new frame promises.          *)
LEMMA OpenLively ==
  ASSUME TypeInv, ~done, ~done', Lively, live' = live,
         NEW term, NEW to, NEW l, Switch(term, to, l), NEW f, Push(f),
         Only(live, Range(to)) = Only(live, {l}) \cup Promised(f),
         f.kind \in Shut => ~f.exit, f.fall \/ f.exit => live,
         f.kind \in Repeats => f.head = l
  PROVE  Lively'
<1>1. Promises' = Promises \cup Promised(f)
  BY PromisesPush
<1>2. PICK Y : Y = Only(live', {l}) \cup Promises'
  OBVIOUS
<1>3. Promises \subseteq Alive
  BY DEF Alive
<1>4. Passes(to, l, Y)
  BY <1>1, <1>2, <1>3 DEF Passes
<1>5. /\ Alive \subseteq Alive' /\ Only(live, Range(to)) \subseteq Alive'
      /\ Heads' => Lively'
  BY <1>4, SwitchLively
<1>6. (f.fall \/ f.exit => Awake) /\ (live' => Awake)
  BY DEF Awake
<1>7. stack = <<>> /\ f.kind \in Repeats /\ Awake => f.head \in Alive'
  <2>1. SUFFICES ASSUME stack = <<>>, f.kind \in Repeats, Awake PROVE l \in Alive'
    OBVIOUS
  <2>2. live
    BY <2>1 DEF Awake
  <2> QED
    BY <1>5, <2>2 DEF Only
<1>8. Heads'
  BY <1>5, <1>6, <1>7, HeadsPush DEF Lively
<1> QED
  BY <1>5, <1>8

LEMMA OpenWhileLively == TypeInv /\ Lively /\ OpenWhile => Lively'
<1> SUFFICES ASSUME TypeInv, Lively, OpenWhile PROVE Lively'
  OBVIOUS
<1> DEFINE f == NewFrame("cond", <<nextBlock + 1, nextBlock + 2>>, nextBlock, FALSE)
<1>1. /\ ~done /\ UNCHANGED <<done, live>> /\ Push(f)
      /\ Switch("jump", <<nextBlock>>, nextBlock)
  BY DEF OpenWhile, CanOpen, Unchanged_fn
<1>2. f.kind = "cond" /\ f.fall = live /\ f.exit = FALSE /\ f.head = nextBlock
  BY DEF NewFrame
<1> HIDE DEF f
<1>3. Promised(f) = {}
  BY <1>2 DEF Promised, Only
<1>4. Only(live, Range(<<nextBlock>>)) = Only(live, {nextBlock}) \cup Promised(f)
  BY <1>3, Range1
<1> QED
  BY <1>1, <1>2, <1>4, OpenLively

LEMMA OpenLoopLively == TypeInv /\ Lively /\ OpenLoop => Lively'
<1> SUFFICES ASSUME TypeInv, Lively, OpenLoop PROVE Lively'
  OBVIOUS
<1> DEFINE f == NewFrame("loop", <<nextBlock + 1>>, nextBlock, FALSE)
<1>1. /\ ~done /\ UNCHANGED <<done, live>> /\ Push(f)
      /\ Switch("jump", <<nextBlock>>, nextBlock)
  BY DEF OpenLoop, CanOpen, Unchanged_fn
<1>2. f.kind = "loop" /\ f.fall = live /\ f.exit = FALSE /\ f.head = nextBlock
  BY DEF NewFrame
<1> HIDE DEF f
<1>3. Promised(f) = {}
  BY <1>2 DEF Promised, Only
<1>4. Only(live, Range(<<nextBlock>>)) = Only(live, {nextBlock}) \cup Promised(f)
  BY <1>3, Range1
<1> QED
  BY <1>1, <1>2, <1>4, OpenLively

LEMMA OpenIfLively == TypeInv /\ Lively /\ OpenIf => Lively'
<1> SUFFICES ASSUME TypeInv, Lively, OpenIf PROVE Lively'
  OBVIOUS
<1> DEFINE f == NewFrame("then", <<nextBlock + 1, nextBlock + 2>>, NoLabel, FALSE)
           to == <<nextBlock, nextBlock + 1>>
<1>1. /\ ~done /\ UNCHANGED <<done, live>> /\ Push(f)
      /\ Switch("branch", to, nextBlock)
  BY DEF OpenIf, CanOpen, Unchanged_fn
<1>2. /\ f.kind = "then" /\ f.fall = live /\ f.exit = FALSE /\ f.todo[1] = nextBlock + 1
      /\ f.kind \notin Repeats
  BY DEF NewFrame, Repeats, LoopKinds
<1>3. Range(to) = {nextBlock, nextBlock + 1}
  BY Range2
<1> HIDE DEF f, to
<1>4. Promised(f) = Only(live, {nextBlock + 1})
  BY <1>2 DEF Promised, Only
<1>5. Only(live, Range(to)) = Only(live, {nextBlock}) \cup Promised(f)
  BY <1>3, <1>4 DEF Only
<1> QED
  BY <1>1, <1>2, <1>5, OpenLively

LEMMA OpenMatchLively ==
  ASSUME TypeInv, Lively, NEW n \in 1..MaxArms, NEW wild \in BOOLEAN, OpenMatch(n, wild)
  PROVE  Lively'
<1> DEFINE todo == MatchTodo(n)
           f == [NewFrame("arm", todo, NoLabel, FALSE) EXCEPT !.fall = live /\ ~wild]
<1>1. PICK body : body = nextBlock + 1
  OBVIOUS
<1>2. PICK to : to = DispatchTo(wild, body, todo[1])
  OBVIOUS
<1>3. /\ ~done /\ UNCHANGED <<done, live>> /\ Push(f)
      /\ Switch(DispatchTerm(wild), to, body)
  BY <1>1, <1>2 DEF OpenMatch, CanOpen, Unchanged_fn
<1>4. /\ f.kind = "arm" /\ f.fall = (live /\ ~wild) /\ f.exit = FALSE /\ f.todo = todo
      /\ f.kind \notin Repeats /\ f.kind \notin Shut
  BY DEF NewFrame, Repeats, LoopKinds, Shut, FlushKinds
<1>5. Range(to) = {body} \cup Only(~wild, {todo[1]})
  BY <1>2, Range1, Range2 DEF DispatchTo, Only
<1> HIDE DEF f, todo
<1>6. Promised(f) = Only(live /\ ~wild, {todo[1]})
  BY <1>4 DEF Promised, Only
<1>7. Only(live, Range(to)) = Only(live, {body}) \cup Promised(f)
  BY <1>5, <1>6 DEF Only
<1>8. f.fall \/ f.exit => live
  BY <1>4
<1> QED
  BY <1>3, <1>4, <1>7, <1>8, OpenLively

(* The construct on top goes on with one of its labels, or ends.            *)
LEMMA CloseWhileCondLively == TypeInv /\ Lively /\ CloseWhileCond => Lively'
<1> SUFFICES ASSUME TypeInv, Lively, CloseWhileCond PROVE Lively'
  OBVIOUS
<1> DEFINE f == [Top EXCEPT !.kind = "while", !.todo = Tail(@), !.exit = live]
           k == Len(stack)
<1>1. /\ stack # <<>> /\ Top \in Frame /\ FrameOK(Top) /\ Top.kind = "cond" /\ ~done
      /\ k \in DOMAIN stack /\ stack' = [stack EXCEPT ![k] = f] /\ stack[k] = Top
      /\ UNCHANGED <<done, live>>
      /\ Switch("branch", Top.todo, Top.todo[1])
  BY TopType DEF CloseWhileCond, TopIs, ReplaceTop, Unchanged_fn, Top
<1>2. PICK to : to = Top.todo
  OBVIOUS
<1>3. Len(to) = 2 /\ to \in Seq(Label)
  BY <1>1, <1>2, TopLabels DEF FrameOK
<1>4. /\ f.kind = "while" /\ f.todo = Tail(to) /\ f.exit = live /\ f.head = Top.head
      /\ f.fall = Top.fall
  BY <1>1, <1>2 DEF Frame
<1>5. f.todo[Len(f.todo)] = to[2]
  <2>1. PICK t : t = Tail(to)
    OBVIOUS
  <2>2. Len(t) = 1 /\ t[1] = to[2]
    <3>1. to # <<>> /\ Len(to) - 1 = 1 /\ 1 + 1 = 2
      BY <1>3
    <3>2. Len(t) = 1
      BY <1>3, <2>1, <3>1, TailType
    <3>3. \A i \in 1..Len(to) - 1 : t[i] = to[i + 1]
      BY <1>3, <2>1, <3>1, TailElement
    <3>4. 1 \in 1..Len(to) - 1
      BY <3>1
    <3>5. t[1] = to[1 + 1]
      BY <3>3, <3>4, Zenon
    <3> QED
      BY <3>1, <3>2, <3>5
  <2>3. f.todo = t
    BY <1>4, <2>1
  <2> HIDE DEF f
  <2> QED
    BY <2>2, <2>3
<1> HIDE DEF f, k
<1>6. Range(to) = {to[1], to[2]}
  <2>1. DOMAIN to = {1, 2}
    BY <1>3
  <2> QED
    BY <2>1 DEF Range
<1>7. Promised(f) = Only(live, {to[2]})
  BY <1>4, <1>5 DEF Promised, Only, Merge
<1>8. Promised(Top) = {}
  <2>1. ~Top.exit
    BY <1>1, TopLively DEF Lively, Shut
  <2> QED
    BY <1>1, <2>1 DEF Promised, Only
<1>9. PICK R : Promises = R \cup Promised(Top) /\ Promises' = R \cup Promised(f)
  BY <1>1, PromisesReplace
<1>10. PICK Y : Y = Only(live', {to[1]}) \cup Promises'
  OBVIOUS
<1>11. Y = Promises \cup Only(live, Range(to))
  BY <1>1, <1>6, <1>7, <1>8, <1>9, <1>10 DEF Only
<1>12. Promises \subseteq Alive
  BY DEF Alive
<1>13. Alive \subseteq Alive' /\ (Heads' => Lively')
  <2>1. Passes(to, to[1], Y)
    BY <1>10, <1>11, <1>12 DEF Passes
  <2>2. Switch("branch", to, to[1]) /\ ~done'
    BY <1>1, <1>2
  <2> QED
    BY <1>1, <2>1, <2>2, SwitchLively
<1>14. Heads'
  <2>1. (f.fall \/ f.exit => Awake) /\ (live' => Awake)
    BY <1>1, <1>4, TopLively DEF Awake
  <2>2. f.kind \notin Shut /\ Top.kind \in Repeats
    BY <1>1, <1>4 DEF Shut, FlushKinds, Repeats
  <2> QED
    BY <1>1, <1>4, <1>13, <2>1, <2>2, HeadsReplace DEF Lively
<1> QED
  BY <1>13, <1>14

LEMMA CloseThenLively == TypeInv /\ Lively /\ CloseThen => Lively'
<1> SUFFICES ASSUME TypeInv, Lively, CloseThen PROVE Lively'
  OBVIOUS
<1> DEFINE f == [Top EXCEPT !.kind = "else", !.todo = Tail(@), !.exit = live]
           k == Len(stack)
<1>1. /\ stack # <<>> /\ Top \in Frame /\ FrameOK(Top) /\ Top.kind = "then" /\ ~done
      /\ k \in DOMAIN stack /\ stack' = [stack EXCEPT ![k] = f] /\ stack[k] = Top
      /\ UNCHANGED done /\ live' = Top.fall
      /\ Switch("jump", <<Merge(Top)>>, Top.todo[1])
  BY TopType DEF CloseThen, TopIs, ReplaceTop, Unchanged_fn, Top
<1>2. Len(Top.todo) = 2 /\ Top.todo \in Seq(Label)
  BY <1>1, TopLabels DEF FrameOK
<1>3. /\ f.kind = "else" /\ f.todo = Tail(Top.todo) /\ f.exit = live /\ f.head = Top.head
      /\ f.fall = Top.fall
  BY <1>1 DEF Frame
<1>4. Merge(f) = Merge(Top)
  BY <1>2, <1>3 DEF Merge
<1> HIDE DEF f, k
<1>5. PICK a, m : a = Top.todo[1] /\ m = Merge(Top)
  OBVIOUS
<1>6. Promised(f) = Only(live, {m})
  BY <1>3, <1>4, <1>5 DEF Promised, Only
<1>7. Promised(Top) = Only(Top.fall, {a})
  <2>1. ~Top.exit
    BY <1>1, TopLively DEF Lively, Shut
  <2> QED
    BY <1>1, <1>5, <2>1 DEF Promised, Only
<1>8. PICK R : Promises = R \cup Promised(Top) /\ Promises' = R \cup Promised(f)
  BY <1>1, PromisesReplace
<1>9. PICK Y : Y = Only(live', {a}) \cup Promises'
  OBVIOUS
<1>10. Only(live, Range(<<m>>)) = Only(live, {m})
  BY Range1
<1>11. Y = Promises \cup Only(live, Range(<<m>>))
  BY <1>1, <1>6, <1>7, <1>8, <1>9, <1>10
<1>12. Promises \subseteq Alive
  BY DEF Alive
<1>13. Alive \subseteq Alive' /\ (Heads' => Lively')
  <2>1. Passes(<<m>>, a, Y)
    BY <1>9, <1>11, <1>12 DEF Passes
  <2>2. Switch("jump", <<m>>, a) /\ ~done'
    BY <1>1, <1>5
  <2> QED
    BY <1>1, <2>1, <2>2, SwitchLively
<1>14. Heads'
  <2>1. (f.fall \/ f.exit => Awake) /\ (live' => Awake)
    BY <1>1, <1>3, TopLively DEF Awake
  <2>2. f.kind \notin Shut /\ f.kind \notin Repeats
    BY <1>3 DEF Shut, FlushKinds, Repeats, LoopKinds
  <2> QED
    BY <1>1, <1>3, <1>13, <2>1, <2>2, HeadsReplace DEF Lively
<1> QED
  BY <1>13, <1>14

LEMMA CloseExprLively == TypeInv /\ Lively /\ CloseExpr => Lively'
<1> SUFFICES ASSUME TypeInv, Lively, CloseExpr PROVE Lively'
  OBVIOUS
<1>1. /\ stack # <<>> /\ Top.kind \in {"else", "default", "arm"} /\ ~done /\ Len(Top.todo) = 1
      /\ UNCHANGED done /\ Pop
      /\ Switch("jump", <<Merge(Top)>>, Merge(Top))
      /\ live' = (Top.exit \/ live \/ (Top.kind = "arm" /\ Top.fall))
  BY TopType DEF CloseExpr, TopIs, Unchanged_fn
<1>2. PICK m : m = Merge(Top)
  OBVIOUS
<1>3. Top.todo[1] = m
  BY <1>1, <1>2 DEF Merge
<1>4. Promised(Top) = Only(Top.exit \/ (Top.kind = "arm" /\ Top.fall), {m})
  BY <1>1, <1>2, <1>3 DEF Promised, Only
<1>5. Promises = Promises' \cup Promised(Top)
  BY <1>1, PromisesPop
<1>6. Only(live, Range(<<m>>)) = Only(live, {m})
  BY Range1
<1>7. PICK Y : Y = Only(live', {m}) \cup Promises'
  OBVIOUS
<1>8. Only(live', {m}) = Promised(Top) \cup Only(live, {m})
  BY <1>1, <1>4 DEF Only
<1>9. Y = Promises \cup Only(live, Range(<<m>>))
  BY <1>5, <1>6, <1>7, <1>8
<1>10. Promises \subseteq Alive
  BY DEF Alive
<1>11. Alive \subseteq Alive' /\ (Heads' => Lively')
  <2>1. Passes(<<m>>, m, Y)
    BY <1>7, <1>9, <1>10 DEF Passes
  <2>2. Switch("jump", <<m>>, m) /\ ~done'
    BY <1>1, <1>2
  <2> QED
    BY <1>1, <2>1, <2>2, SwitchLively
<1>12. live' => Awake
  BY <1>1, TopLively DEF Awake
<1> QED
  BY <1>1, <1>11, <1>12, HeadsPop DEF Lively

(* A for: its condition block is finished with the current one. *)
LEMMA OpenForLively == TypeInv /\ Lively /\ OpenFor => Lively'
<1> SUFFICES ASSUME TypeInv, Lively, OpenFor PROVE Lively'
  OBVIOUS
<1>1. PICK cond, body, after :
         cond = nextBlock /\ body = nextBlock + 1 /\ after = nextBlock + 2
  OBVIOUS
<1> DEFINE f == NewFrame("for", <<after>>, cond, live)
<1>2. PICK b, c :
         /\ b = BB(currentLabel, Append(instrs, Ev("init", cond)), "jump", <<cond>>, live)
         /\ c = BB(cond, <<>>, "lt", <<body, after>>, live)
  OBVIOUS
<1>3. /\ ~done /\ ~done' /\ live' = live /\ Push(f) /\ stack = <<>>
      /\ blocks' = blocks \o <<b, c>> /\ currentLabel' = body
  BY <1>1, <1>2 DEF OpenFor, CanOpen, Unchanged_fn, AtLoopStmt
<1>4. /\ b.label = currentLabel /\ b.live = live /\ b.to = <<cond>>
      /\ c.label = cond /\ c.live = live /\ c.to = <<body, after>>
  BY <1>2 DEF BB
<1>5. Range(b.to) = {cond} /\ Range(c.to) = {body, after}
  BY <1>4, Range1, Range2
<1>6. f.kind = "for" /\ f.fall = live /\ f.exit = live /\ f.head = cond /\ Merge(f) = after
  BY DEF NewFrame, Merge
<1> HIDE DEF f
<1>7. /\ LiveLabels(blocks') = LiveLabels(blocks) \cup Only(live, {currentLabel})
                                 \cup Only(live, {cond})
      /\ LiveTargets(blocks') = LiveTargets(blocks) \cup Only(live, {cond})
                                  \cup Only(live, {body, after})
      /\ Founded(blocks')
  <2>1. c.live => c.label \in {Entry} \cup LiveTargets(blocks) \cup Only(live, Range(b.to))
    BY <1>4, <1>5 DEF Only
  <2>2. /\ LiveLabels(blocks') = LiveLabels(blocks) \cup Only(live, {currentLabel})
                                   \cup Only(c.live, {c.label})
        /\ LiveTargets(blocks') = LiveTargets(blocks) \cup Only(live, Range(b.to))
                                    \cup Only(c.live, Range(c.to))
        /\ Founded(blocks')
    BY <1>3, <1>4, <2>1, LiveGrow2
  <2> QED
    BY <1>4, <1>5, <2>2
<1>8. Promised(f) = Only(live, {after})
  BY <1>6 DEF Promised, Only
<1>9. Promises' = Promises \cup Only(live, {after})
  BY <1>3, <1>8, PromisesPush
<1>10. PICK X, N, Y :
         /\ X = Only(live, {cond})
         /\ N = Only(live, {cond}) \cup Only(live, {body, after})
         /\ Y = X \cup Only(live', {currentLabel'}) \cup Promises'
  OBVIOUS
<1>11. Y = Promises \cup N
  BY <1>3, <1>9, <1>10 DEF Only
<1>12. Promises \subseteq Alive
  BY DEF Alive
<1>13. Alive \subseteq Alive' /\ N \subseteq Alive' /\ (Heads' => Lively')
  <2>1. /\ LiveLabels(blocks') = LiveLabels(blocks) \cup Only(live, {currentLabel}) \cup X
        /\ LiveTargets(blocks') = LiveTargets(blocks) \cup N
    BY <1>7, <1>10
  <2>2. Y \subseteq Alive \cup N /\ Promises \subseteq Y /\ N \subseteq Alive \cup Y
    BY <1>11, <1>12
  <2>4. Grows(X, N, Y)
    BY <1>7, <1>10, <2>1, <2>2 DEF Grows
  <2> QED
    BY <1>3, <2>4, AliveStep
<1>14. Heads'
  <2>1. (f.fall \/ f.exit => Awake) /\ (live' => Awake)
    BY <1>3, <1>6 DEF Awake
  <2>2. f.kind \notin Shut
    BY <1>6 DEF Shut, FlushKinds
  <2>3. Awake => f.head \in Alive'
    <3>1. Awake => live
      BY <1>3 DEF Awake
    <3> QED
      BY <1>6, <1>10, <1>13, <3>1 DEF Only
  <2> QED
    BY <1>3, <1>13, <2>1, <2>2, <2>3, HeadsPush DEF Lively
<1> QED
  BY <1>13, <1>14

(* The end of a loop body: back to the head, which the program can reach if *)
(* it can reach anything here.                                              *)
LEMMA CloseLoopLively == TypeInv /\ Loops /\ Lively /\ CloseLoop => Lively'
<1> SUFFICES ASSUME TypeInv, Loops, Lively, CloseLoop PROVE Lively'
  OBVIOUS
<1>1. PICK h, m : h = Top.head /\ m = Merge(Top)
  OBVIOUS
<1>2. PICK b : b = BB(currentLabel, instrs \o CounterStep(Top), "jump", <<h>>, live)
  OBVIOUS
<1>3. /\ stack # <<>> /\ Top.kind \in LoopKinds /\ ~done /\ ~done' /\ Pop
      /\ blocks' = Append(blocks, b) /\ currentLabel' = m /\ live' = Top.exit
  BY <1>1, <1>2, TopType DEF CloseLoop, TopIs, Unchanged_fn
<1>4. b.label = currentLabel /\ b.live = live /\ b.to = <<h>>
  BY <1>2 DEF BB
<1>5. Range(b.to) = {h}
  BY <1>4, Range1
<1>6. Top = stack[1] /\ Top.kind \in Repeats
  BY <1>3, LoopAlone DEF Repeats
<1>7. live => h \in Alive
  BY <1>1, <1>3, <1>6 DEF Lively, Heads, Awake
<1>8. Promised(Top) = Only(Top.exit, {m})
  <2>1. Top.kind \notin {"then", "arm"}
    BY <1>3 DEF LoopKinds
  <2> QED
    BY <1>1, <2>1 DEF Promised, Only
<1>9. Promises = Promises' \cup Only(live', {m})
  BY <1>3, <1>8, PromisesPop
<1>10. PICK X, N, Y :
         /\ X = {} /\ N = Only(live, {h})
         /\ Y = X \cup Only(live', {currentLabel'}) \cup Promises'
  OBVIOUS
<1>11. Y = Promises
  BY <1>3, <1>9, <1>10
<1>12. Promises \subseteq Alive
  BY DEF Alive
<1>13. Alive \subseteq Alive' /\ (Heads' => Lively')
  <2>3. /\ LiveLabels(blocks') = LiveLabels(blocks) \cup Only(live, {currentLabel})
        /\ LiveTargets(blocks') = LiveTargets(blocks) \cup Only(live, Range(b.to))
        /\ Founded(blocks')
    BY <1>3, <1>4, LiveGrow1
  <2>1. /\ LiveLabels(blocks') = LiveLabels(blocks) \cup Only(live, {currentLabel}) \cup X
        /\ LiveTargets(blocks') = LiveTargets(blocks) \cup N
        /\ Founded(blocks')
    BY <1>5, <1>10, <2>3
  <2>2. Y \subseteq Alive \cup N /\ Promises \subseteq Y /\ N \subseteq Alive \cup Y
    BY <1>7, <1>10, <1>11, <1>12 DEF Only
  <2>4. Grows(X, N, Y)
    BY <1>10, <2>1, <2>2 DEF Grows
  <2> QED
    BY <1>3, <2>4, AliveStep
<1>14. live' => Awake
  BY <1>3, TopLively
<1> QED
  BY <1>3, <1>13, <1>14, HeadsPop DEF Lively

(* or_return, or_panic and or_zero: ok always goes on at cont.              *)
LEMMA OrOpLively ==
  ASSUME TypeInv, Lively, NEW c, NEW errTerm, NEW errTo, OrOp(c, errTerm, errTo),
         Range(errTo) \subseteq {nextBlock + 2}
  PROVE  Lively'
<1>1. PICK ok, err, cont : ok = nextBlock /\ err = nextBlock + 1 /\ cont = nextBlock + 2
  OBVIOUS
<1>2. PICK b, d, e :
         /\ b = Finished("branch", <<ok, err>>)
         /\ d = BB(ok, <<>>, "jump", <<cont>>, live)
         /\ e = BB(err, <<>>, errTerm, errTo, live)
  OBVIOUS
<1>3. /\ ~done /\ ~done' /\ live' = live /\ UNCHANGED stack
      /\ blocks' = blocks \o <<b, d, e>> /\ currentLabel' = cont
  BY <1>1, <1>2 DEF OrOp, CanOpen, Unchanged_fn
<1>4. /\ b.label = currentLabel /\ b.live = live /\ b.to = <<ok, err>>
      /\ d.label = ok /\ d.live = live /\ d.to = <<cont>>
      /\ e.label = err /\ e.live = live /\ e.to = errTo
  BY <1>2 DEF BB, Finished
<1>5. Range(b.to) = {ok, err} /\ Range(d.to) = {cont} /\ Range(e.to) \subseteq {cont}
  BY <1>1, <1>4, Range1, Range2
<1>6. /\ LiveLabels(blocks') = LiveLabels(blocks) \cup Only(live, {currentLabel})
                                 \cup Only(live, {ok}) \cup Only(live, {err})
      /\ LiveTargets(blocks') = LiveTargets(blocks) \cup Only(live, {ok, err})
                                  \cup Only(live, {cont}) \cup Only(live, Range(e.to))
      /\ Founded(blocks')
  <2>1. /\ d.live => d.label \in {Entry} \cup LiveTargets(blocks) \cup Only(live, Range(b.to))
        /\ e.live => e.label \in {Entry} \cup LiveTargets(blocks) \cup Only(live, Range(b.to))
    BY <1>4, <1>5 DEF Only
  <2>2. /\ LiveLabels(blocks') = LiveLabels(blocks) \cup Only(live, {currentLabel})
                                   \cup Only(d.live, {d.label}) \cup Only(e.live, {e.label})
        /\ LiveTargets(blocks') = LiveTargets(blocks) \cup Only(live, Range(b.to))
                                    \cup Only(d.live, Range(d.to)) \cup Only(e.live, Range(e.to))
        /\ Founded(blocks')
    BY <1>3, <1>4, <2>1, LiveGrow3
  <2> QED
    BY <1>4, <1>5, <2>2
<1>7. Promises' = Promises
  BY <1>3, PromisesSame
<1>8. PICK X, N, Y :
         /\ X = Only(live, {ok}) \cup Only(live, {err})
         /\ N = Only(live, {ok, err}) \cup Only(live, {cont}) \cup Only(live, Range(e.to))
         /\ Y = X \cup Only(live', {currentLabel'}) \cup Promises'
  OBVIOUS
<1>9. Y = Promises \cup N
  BY <1>3, <1>5, <1>7, <1>8 DEF Only
<1>10. Promises \subseteq Alive
  BY DEF Alive
<1>11. Alive \subseteq Alive' /\ (Heads' => Lively')
  <2>1. /\ LiveLabels(blocks') = LiveLabels(blocks) \cup Only(live, {currentLabel}) \cup X
        /\ LiveTargets(blocks') = LiveTargets(blocks) \cup N
    BY <1>6, <1>8
  <2>2. Y \subseteq Alive \cup N /\ Promises \subseteq Y /\ N \subseteq Alive \cup Y
    BY <1>9, <1>10
  <2>4. Grows(X, N, Y)
    BY <1>6, <1>8, <2>1, <2>2 DEF Grows
  <2> QED
    BY <1>3, <2>4, AliveStep
<1> QED
  BY <1>3, <1>11, HeadsSame DEF Lively, Awake

LEMMA OpenOrElseLively == TypeInv /\ Lively /\ OpenOrElse => Lively'
<1> SUFFICES ASSUME TypeInv, Lively, OpenOrElse PROVE Lively'
  OBVIOUS
<1>1. PICK ok, default, cont :
         ok = nextBlock /\ default = nextBlock + 1 /\ cont = nextBlock + 2
  OBVIOUS
<1> DEFINE f == NewFrame("default", <<cont>>, NoLabel, live)
<1>2. PICK b, c :
         /\ b = Finished("branch", <<ok, default>>)
         /\ c = BB(ok, <<>>, "jump", <<cont>>, live)
  OBVIOUS
<1>3. /\ ~done /\ ~done' /\ live' = live /\ Push(f)
      /\ blocks' = blocks \o <<b, c>> /\ currentLabel' = default
  BY <1>1, <1>2 DEF OpenOrElse, CanOpen, Unchanged_fn
<1>4. /\ b.label = currentLabel /\ b.live = live /\ b.to = <<ok, default>>
      /\ c.label = ok /\ c.live = live /\ c.to = <<cont>>
  BY <1>2 DEF BB, Finished
<1>5. Range(b.to) = {ok, default} /\ Range(c.to) = {cont}
  BY <1>4, Range1, Range2
<1>6. f.kind = "default" /\ f.fall = live /\ f.exit = live /\ Merge(f) = cont
  BY DEF NewFrame, Merge
<1> HIDE DEF f
<1>7. /\ LiveLabels(blocks') = LiveLabels(blocks) \cup Only(live, {currentLabel})
                                 \cup Only(live, {ok})
      /\ LiveTargets(blocks') = LiveTargets(blocks) \cup Only(live, {ok, default})
                                  \cup Only(live, {cont})
      /\ Founded(blocks')
  <2>1. c.live => c.label \in {Entry} \cup LiveTargets(blocks) \cup Only(live, Range(b.to))
    BY <1>4, <1>5 DEF Only
  <2>2. /\ LiveLabels(blocks') = LiveLabels(blocks) \cup Only(live, {currentLabel})
                                   \cup Only(c.live, {c.label})
        /\ LiveTargets(blocks') = LiveTargets(blocks) \cup Only(live, Range(b.to))
                                    \cup Only(c.live, Range(c.to))
        /\ Founded(blocks')
    BY <1>3, <1>4, <2>1, LiveGrow2
  <2> QED
    BY <1>4, <1>5, <2>2
<1>8. Promised(f) = Only(live, {cont})
  BY <1>6 DEF Promised, Only
<1>9. Promises' = Promises \cup Only(live, {cont})
  BY <1>3, <1>8, PromisesPush
<1>10. PICK X, N, Y :
         /\ X = Only(live, {ok})
         /\ N = Only(live, {ok, default}) \cup Only(live, {cont})
         /\ Y = X \cup Only(live', {currentLabel'}) \cup Promises'
  OBVIOUS
<1>11. Y = Promises \cup N
  BY <1>3, <1>9, <1>10 DEF Only
<1>12. Promises \subseteq Alive
  BY DEF Alive
<1>13. Alive \subseteq Alive' /\ (Heads' => Lively')
  <2>1. /\ LiveLabels(blocks') = LiveLabels(blocks) \cup Only(live, {currentLabel}) \cup X
        /\ LiveTargets(blocks') = LiveTargets(blocks) \cup N
    BY <1>7, <1>10
  <2>2. Y \subseteq Alive \cup N /\ Promises \subseteq Y /\ N \subseteq Alive \cup Y
    BY <1>11, <1>12
  <2>4. Grows(X, N, Y)
    BY <1>7, <1>10, <2>1, <2>2 DEF Grows
  <2> QED
    BY <1>3, <2>4, AliveStep
<1>14. Heads'
  <2>1. (f.fall \/ f.exit => Awake) /\ (live' => Awake)
    BY <1>3, <1>6 DEF Awake
  <2>2. f.kind \notin Shut /\ f.kind \notin Repeats
    BY <1>6 DEF Shut, FlushKinds, Repeats, LoopKinds
  <2> QED
    BY <1>3, <1>13, <2>1, <2>2, HeadsPush DEF Lively
<1> QED
  BY <1>13, <1>14

(* The next arm of a match. *)
LEMMA NextArmLively ==
  ASSUME TypeInv, Lively, NEW wild \in BOOLEAN, NextArm(wild)
  PROVE  Lively'
<1> DEFINE f == [Top EXCEPT !.todo = Tail(Tail(@)), !.exit = @ \/ live, !.fall = @ /\ ~wild]
           k == Len(stack)
<1>1. PICK t, m : t = Top.todo /\ m = Merge(Top)
  OBVIOUS
<1>2. PICK x, y, z : x = t[1] /\ y = t[2] /\ z = t[3]
  OBVIOUS
<1>3. PICK b, c :
         /\ b = Finished("jump", <<m>>)
         /\ c = BB(x, <<>>, DispatchTerm(wild), DispatchTo(wild, y, z), Top.fall)
  OBVIOUS
<1>4. /\ stack # <<>> /\ Top.kind = "arm" /\ blocks' = blocks \o <<b, c>> /\ currentLabel' = y
      /\ stack' = [stack EXCEPT ![k] = f] /\ live' = Top.fall
      /\ Len(t) >= 3
  BY <1>1, <1>2, <1>3 DEF NextArm, TopIs, ReplaceTop
<1>5. /\ ~done /\ ~done' /\ Top \in Frame /\ t \in Seq(Label) /\ k \in DOMAIN stack
      /\ Top = stack[k]
  BY <1>1, <1>4, TopType, TopLabels DEF NextArm, Unchanged_fn, Top
<1>6. /\ f.kind = "arm" /\ f.todo = Tail(Tail(t)) /\ f.exit = (Top.exit \/ live)
      /\ f.fall = (Top.fall /\ ~wild) /\ f.head = Top.head
  BY <1>1, <1>4, <1>5 DEF Frame
<1>7. /\ b.label = currentLabel /\ b.live = live /\ b.to = <<m>>
      /\ c.label = x /\ c.live = Top.fall /\ c.to = DispatchTo(wild, y, z)
  BY <1>3 DEF BB, Finished
<1>8. Range(b.to) = {m} /\ Range(c.to) = {y} \cup Only(~wild, {z})
  BY <1>7, Range1, Range2 DEF DispatchTo, Only
<1> HIDE DEF f, k
<1>9. f.todo[1] = z /\ Merge(f) = m
  <2>1. PICK s : s = Tail(Tail(t))
    OBVIOUS
  <2>2. PICK n : n = Len(s)
    OBVIOUS
  <2>3. n = Len(t) - 2 /\ Len(t) \in Nat /\ n \in Nat /\ n >= 1
    BY <1>4, <1>5, <2>1, <2>2, TailTail
  <2>4. \A i \in 1..n : s[i] = t[i + 2]
    BY <1>4, <1>5, <2>1, <2>2, TailTailElements
  <2>5. s[1] = t[3] /\ s[n] = t[Len(t)]
    <3>1. 1 \in 1..n /\ n \in 1..n /\ n + 2 = Len(t) /\ 1 + 2 = 3
      BY <2>3
    <3>2. s[1] = t[1 + 2] /\ s[n] = t[n + 2]
      BY <2>4, <3>1
    <3> QED
      BY <3>1, <3>2
  <2>6. m = t[Len(t)] /\ Merge(f) = s[n] /\ f.todo = s
    BY <1>1, <1>6, <2>1, <2>2 DEF Merge
  <2> QED
    BY <1>2, <2>5, <2>6
<1>10. Promised(Top) = Only(Top.fall, {x}) \cup Only(Top.exit, {m})
  BY <1>1, <1>2, <1>4 DEF Promised, Only
<1>11. Promised(f) = Only(Top.fall /\ ~wild, {z}) \cup Only(Top.exit \/ live, {m})
  BY <1>6, <1>9 DEF Promised, Only
<1>12. PICK R : Promises = R \cup Promised(Top) /\ Promises' = R \cup Promised(f)
  BY <1>4, <1>5, PromisesReplace
<1>13. Promises \subseteq Alive
  BY DEF Alive
<1>14. /\ LiveLabels(blocks') = LiveLabels(blocks) \cup Only(live, {currentLabel})
                                 \cup Only(Top.fall, {x})
       /\ LiveTargets(blocks') = LiveTargets(blocks) \cup Only(live, {m})
                                  \cup Only(Top.fall, {y} \cup Only(~wild, {z}))
       /\ Founded(blocks')
  <2>1. c.live => c.label \in {Entry} \cup LiveTargets(blocks) \cup Only(live, Range(b.to))
    <3>1. Top.fall => x \in Alive
      BY <1>10, <1>12, <1>13 DEF Only
    <3> QED
      BY <1>7, <3>1 DEF Lively
  <2>2. /\ LiveLabels(blocks') = LiveLabels(blocks) \cup Only(live, {currentLabel})
                                   \cup Only(c.live, {c.label})
        /\ LiveTargets(blocks') = LiveTargets(blocks) \cup Only(live, Range(b.to))
                                    \cup Only(c.live, Range(c.to))
        /\ Founded(blocks')
    BY <1>4, <1>5, <1>7, <2>1, LiveGrow2
  <2> QED
    BY <1>7, <1>8, <2>2
<1>15. PICK X, N, Y :
         /\ X = Only(Top.fall, {x})
         /\ N = Only(live, {m}) \cup Only(Top.fall, {y} \cup Only(~wild, {z}))
         /\ Y = X \cup Only(live', {currentLabel'}) \cup Promises'
  OBVIOUS
<1>16. Y = Promises \cup N
  BY <1>4, <1>10, <1>11, <1>12, <1>15 DEF Only
<1>17. Alive \subseteq Alive' /\ (Heads' => Lively')
  <2>1. /\ LiveLabels(blocks') = LiveLabels(blocks) \cup Only(live, {currentLabel}) \cup X
        /\ LiveTargets(blocks') = LiveTargets(blocks) \cup N
    BY <1>14, <1>15
  <2>2. Y \subseteq Alive \cup N /\ Promises \subseteq Y /\ N \subseteq Alive \cup Y
    BY <1>13, <1>16
  <2>3. Grows(X, N, Y)
    BY <1>14, <1>15, <2>1, <2>2 DEF Grows
  <2> QED
    BY <1>5, <2>3, AliveStep
<1>18. Heads'
  <2>1. (f.fall \/ f.exit => Awake) /\ (live' => Awake)
    BY <1>4, <1>6, TopLively DEF Awake
  <2>2. f.kind \notin Shut /\ f.kind \notin Repeats
    BY <1>6 DEF Shut, FlushKinds, Repeats, LoopKinds
  <2> QED
    BY <1>5, <1>4, <1>6, <1>17, <2>1, <2>2, HeadsReplace DEF Lively
<1> QED
  BY <1>17, <1>18

(* The end of a function. *)
LEMMA FinishFnLively ==
  ASSUME TypeInv, Lively, ~done, FinishFn, Promises = {}, stack' = <<>>
  PROVE  Lively'
<1>1. PICK b : b = Finished("return", <<>>)
  OBVIOUS
<1>2. /\ b.label = currentLabel /\ b.live = live /\ b.to = <<>>
      /\ blocks' = Append(blocks, b) /\ done'
  BY <1>1 DEF FinishFn, Switch, Finished, BB
<1>3. /\ LiveLabels(blocks') = LiveLabels(blocks) \cup Only(live, {currentLabel})
      /\ LiveTargets(blocks') = LiveTargets(blocks) \cup Only(live, Range(b.to))
      /\ Founded(blocks')
  BY <1>2, LiveGrow1
<1>4. LiveTargets(blocks') = LiveTargets(blocks)
  BY <1>2, <1>3, Range0 DEF Only
<1>5. Promises' = {}
  BY DEF Promises
<1>6. Alive' = Alive
  BY <1>2, <1>3, <1>5 DEF Alive, Only
<1>7. Heads'
  BY DEF Heads
<1> QED
  BY <1>3, <1>4, <1>6, <1>7 DEF Lively

LEMMA EndFnLively == TypeInv /\ Lively /\ EndFn => Lively'
<1> SUFFICES ASSUME TypeInv, Lively, EndFn PROVE Lively'
  OBVIOUS
<1>1. ~done /\ stack = <<>>
  BY DEF EndFn
<1>2. CASE deferred = <<>>
  <2>1. FinishFn /\ UNCHANGED stack
    BY <1>2 DEF EndFn
  <2> QED
    BY <1>1, <2>1, FinishFnLively, NoPromises
<1>3. CASE deferred # <<>>
  <2>1. BeginFlush("flush_exit") /\ UNCHANGED <<blocks, currentLabel, live, done>>
    BY <1>3 DEF EndFn
  <2>2. "flush_exit" \in FlushKinds
    BY DEF FlushKinds
  <2> QED
    BY <2>1, <2>2, BeginFlushLively
<1> QED
  BY <1>2, <1>3

LEMMA EndFlushExitLively == TypeInv /\ Lively /\ EndFlushExit => Lively'
<1> SUFFICES ASSUME TypeInv, Lively, EndFlushExit PROVE Lively'
  OBVIOUS
<1>1. stack # <<>> /\ Top.kind = "flush_exit" /\ Pop /\ FinishFn /\ ~done
  BY TopType DEF EndFlushExit, TopIs
<1>2. stack' = <<>>
  <2>1. Len(stack) = 1 /\ stack \in Seq(Frame)
    BY <1>1, TopType DEF TypeInv, TypeOK, Shape, StackOK, Top
  <2> QED
    BY <1>1, <2>1 DEF Pop
<1>3. Promised(Top) = {}
  <2>1. ~Top.exit
    BY <1>1, TopLively DEF Lively, Shut, FlushKinds
  <2> QED
    BY <1>1, <2>1 DEF Promised, Only
<1>4. Promises' = {}
  BY <1>2 DEF Promises
<1>5. Promises = {}
  BY <1>1, <1>3, <1>4, PromisesPop
<1> QED
  BY <1>1, <1>2, <1>5, FinishFnLively

LEMMA EndMainLively == TypeInv /\ Lively /\ EndMain => Lively'
  BY FinishFnLively, NoPromises DEF EndMain

LEMMA NothingLively == LiveLabels(<<>>) = {} /\ LiveTargets(<<>>) = {} /\ Founded(<<>>)
  BY DEF LiveLabels, LiveTargets, Founded

LEMMA LivelyInit == Init => Lively
<1> SUFFICES ASSUME Init PROVE Lively
  OBVIOUS
<1>1. blocks = <<>> /\ stack = <<>> /\ currentLabel = Entry /\ live /\ ~done
  BY DEF Init
<1>2. Alive = {Entry}
  BY <1>1, NothingLively, NoPromises DEF Alive, Only
<1> QED
  BY <1>1, <1>2, NothingLively DEF Lively, Heads

LEMMA ResetFnLively == ResetFn => Lively'
<1> SUFFICES ASSUME ResetFn PROVE Lively'
  OBVIOUS
<1>1. blocks' = <<>> /\ stack' = <<>> /\ currentLabel' = Entry /\ live' /\ ~done'
  BY DEF ResetFn
<1>2. Promises' = {}
  BY <1>1 DEF Promises
<1>3. Alive' = {Entry}
  BY <1>1, <1>2, NothingLively DEF Alive, Only
<1> QED
  BY <1>1, <1>3, NothingLively DEF Lively, Heads

LEMMA LivelyStep ==
  ASSUME "empty_match" \notin Constructs
  PROVE  TypeInv /\ Loops /\ Lively /\ [Next]_vars => Lively'
<1> SUFFICES ASSUME TypeInv, Loops, Lively, [Next]_vars PROVE Lively'
  OBVIOUS
<1>1. CASE Stmt
  BY <1>1, LowerDeferLively, LowerReturnLively, FlushNextLively, EndFlushReturnLively,
     LowerBreakLively, LowerContinueLively, OpenForLively, OpenWhileLively,
     CloseWhileCondLively, OpenLoopLively, CloseLoopLively DEF Stmt
<1>2. CASE Expr
  <2>1. ASSUME OrReturn \/ OrPanic PROVE Lively'
    BY <2>1, OrOpLively, Range0 DEF OrReturn, OrPanic
  <2>2. ASSUME OrZero PROVE Lively'
    BY <2>2, OrOpLively, Range1 DEF OrZero
  <2>3. ASSUME NEW n \in 1..MaxArms, NEW wild \in BOOLEAN, OpenMatch(n, wild) PROVE Lively'
    BY <2>3, OpenMatchLively
  <2>4. ASSUME NEW wild \in BOOLEAN, NextArm(wild) PROVE Lively'
    BY <2>4, NextArmLively
  <2>5. ~EmptyMatch
    BY DEF EmptyMatch, CanOpen
  <2> QED
    BY <1>2, <2>1, <2>2, <2>3, <2>4, <2>5, OpenOrElseLively, OpenIfLively, CloseThenLively,
       CloseExprLively DEF Expr
<1>3. CASE Fn
  BY <1>3, EndFnLively, EndFlushExitLively, EndMainLively, ResetFnLively DEF Fn
<1>4. CASE UNCHANGED vars
  <2>1. UNCHANGED <<blocks, currentLabel, live, done>> /\ UNCHANGED stack
    BY <1>4 DEF vars
  <2>2. Promises' = Promises
    BY <2>1, PromisesSame
  <2>3. Alive' = Alive
    BY <2>1, <2>2, SameLively
  <2>4. Heads'
    BY <2>1, <2>3, HeadsSame DEF Lively, Awake
  <2> QED
    BY <2>1, <2>2, <2>4, SameLively
<1> QED
  BY <1>1, <1>2, <1>3, <1>4 DEF Next

-----------------------------------------------------------------------------
(* What a run can enter, computed as ReachableLabels does: from the entry,  *)
(* once more through the jumps for every block.                             *)

ReachRun(g) ==
    g = [k \in 0..Len(blocks) |->
           IF k = 0 THEN {Entry} ELSE LET L == g[k - 1] IN L \cup Succ(L)]

LEMMA ReachIs ==
  ASSUME TypeInv
  PROVE  \E h : /\ h[0] = {Entry}
                /\ \A i \in 1..Len(blocks) : h[i] = h[i - 1] \cup Succ(h[i - 1])
                /\ ReachableLabels = h[Len(blocks)]
<1> DEFINE n == Len(blocks)
           X == SUBSET Label
           step == [L \in X |-> L \cup Succ(L)]
           c == {Entry}
<1>1. blocks \in Seq(Block) /\ n \in Nat /\ c \in X
  BY DEF TypeInv, TypeOK, Label
<1>2. \A L \in X : step[L] = L \cup Succ(L) /\ L \cup Succ(L) \in X
  <2>1. ASSUME NEW j \in DOMAIN blocks PROVE Range(blocks[j].to) \in SUBSET Label
    <3>1. blocks[j] \in Block
      BY <1>1
    <3>2. blocks[j].to \in Seq(Label)
      BY <3>1 DEF Block
    <3> QED
      BY <3>2 DEF Range
  <2>2. \A L \in X : Succ(L) \in SUBSET Label
    BY <2>1 DEF Succ
  <2> QED
    BY <2>2
<1>3. step \in [X -> X]
  BY <1>2
<1> HIDE DEF step, X, c
<1>4. PICK f : Iterated(f, step, c, n, X)
  BY <1>1, <1>3, Iterate
<1>5. f \in [0..n -> X] /\ f[0] = c /\ \A i \in 1..n : f[i] = step[f[i - 1]]
  BY <1>4 DEF Iterated
<1>6. f = [i \in 0..n |-> f[i]]
  BY <1>5
<1>7. ASSUME NEW i \in 1..n PROVE f[i] = f[i - 1] \cup Succ(f[i - 1])
  <2>1. i - 1 \in 0..n
    OBVIOUS
  <2>2. f[i - 1] \in X
    BY <1>5, <2>1
  <2> QED
    BY <1>2, <1>5, <2>2
<1>8. ASSUME NEW i \in 0..n
      PROVE  f[i] = IF i = 0 THEN {Entry} ELSE LET L == f[i - 1] IN L \cup Succ(L)
  <2>1. i = 0 \/ i \in 1..n
    OBVIOUS
  <2> QED
    BY <1>5, <1>7, <2>1 DEF c
<1>9. ReachRun(f)
  BY <1>6, <1>8 DEF ReachRun
<1>10. ReachableLabels = (CHOOSE g : ReachRun(g))[n]
  BY DEF ReachableLabels, ReachRun
<1>11. PICK h : h = CHOOSE g : ReachRun(g)
  OBVIOUS
<1>12. ReachRun(h)
  BY <1>9, <1>11, Zenon
<1>13. h[0] = {Entry} /\ \A i \in 1..n : h[i] = h[i - 1] \cup Succ(h[i - 1])
  <2>1. \A i \in 0..n : h[i] = IF i = 0 THEN {Entry} ELSE h[i - 1] \cup Succ(h[i - 1])
    BY <1>12 DEF ReachRun
  <2>2. h[0] = {Entry}
    <3>1. 0 \in 0..n
      BY <1>1
    <3>2. h[0] = IF 0 = 0 THEN {Entry} ELSE h[0 - 1] \cup Succ(h[0 - 1])
      BY <2>1, <3>1, Zenon
    <3> QED
      BY <3>2, Zenon
  <2>3. ASSUME NEW i \in 1..n PROVE h[i] = h[i - 1] \cup Succ(h[i - 1])
    <3>1. i \in 0..n /\ i # 0
      OBVIOUS
    <3> QED
      BY <2>1, <3>1, Zenon
  <2> QED
    BY <2>2, <2>3
<1> QED
  BY <1>10, <1>11, <1>13

(* In a finished function with one block per label, the jumps from what is  *)
(* alive lead to what is alive.                                             *)
LEMMA AliveClosed ==
  ASSUME DistinctBlocks(blocks), LiveLabels(blocks) = {Entry} \cup LiveTargets(blocks),
         NEW L, L \subseteq LiveLabels(blocks)
  PROVE  Succ(L) \subseteq LiveLabels(blocks)
<1> SUFFICES ASSUME NEW j \in DOMAIN blocks, blocks[j].label \in L
             PROVE  Range(blocks[j].to) \subseteq LiveLabels(blocks)
  BY DEF Succ
<1>1. PICK i \in DOMAIN blocks : blocks[i].live /\ blocks[i].label = blocks[j].label
  BY DEF LiveLabels
<1>2. i = j
  BY <1>1 DEF DistinctBlocks, IsInjective
<1> QED
  BY <1>1, <1>2 DEF LiveTargets

LEMMA LiveReachable ==
  ASSUME TypeInv, UniqueLabels, Lively
  PROVE  ReachableIffLive
<1> SUFFICES ASSUME done
             PROVE  \A i \in DOMAIN blocks :
                       blocks[i].label \in ReachableLabels <=> blocks[i].live
  BY DEF ReachableIffLive
<1> DEFINE n == Len(blocks)
<1>1. blocks \in Seq(Block) /\ n \in Nat /\ DOMAIN blocks = 1..n
  BY DEF TypeInv, TypeOK
<1>2. DistinctBlocks(blocks)
  BY DEF UniqueLabels, DistinctBlocks
<1>3. LiveLabels(blocks) = {Entry} \cup LiveTargets(blocks) /\ Founded(blocks)
  <2>1. stack = <<>>
    BY DEF TypeInv, Shape
  <2>2. Alive = LiveLabels(blocks)
    BY <2>1, NoPromises DEF Alive, Only
  <2> QED
    BY <2>2 DEF Lively
<1>4. PICK h : /\ h[0] = {Entry}
               /\ \A i \in 1..n : h[i] = h[i - 1] \cup Succ(h[i - 1])
               /\ ReachableLabels = h[n]
  BY ReachIs
<1>5. h[n] \subseteq LiveLabels(blocks)
  <2> DEFINE S == {m \in 0..n : h[m] \subseteq LiveLabels(blocks)}
  <2>1. 0 \in S
    BY <1>1, <1>3, <1>4
  <2>2. ASSUME NEW i \in 1..n, i - 1 \in S PROVE i \in S
    <3>1. h[i - 1] \subseteq LiveLabels(blocks)
      BY <2>2
    <3>2. Succ(h[i - 1]) \subseteq LiveLabels(blocks)
      BY <1>2, <1>3, <3>1, AliveClosed
    <3>3. h[i] = h[i - 1] \cup Succ(h[i - 1])
      BY <1>4
    <3> QED
      BY <3>1, <3>2, <3>3
  <2> HIDE DEF S
  <2>3. \A i \in 0..n : i \in S
    BY <1>1, <2>1, <2>2, Walk
  <2> QED
    BY <1>1, <2>3 DEF S
<1>6. \A i \in 1..n : blocks[i].live => blocks[i].label \in h[n]
  <2> DEFINE S == {m \in 0..n : /\ Entry \in h[m]
                                /\ \A i \in 1..m : blocks[i].live => blocks[i].label \in h[m]}
  <2>1. 0 \in S
    BY <1>1, <1>4
  <2>2. ASSUME NEW m \in 1..n, m - 1 \in S PROVE m \in S
    <3>1. PICK k : k = m - 1
      OBVIOUS
    <3>2. /\ Entry \in h[k] /\ h[m] = h[k] \cup Succ(h[k])
          /\ \A i \in 1..k : blocks[i].live => blocks[i].label \in h[k]
      BY <1>4, <2>2, <3>1
    <3>3. ASSUME NEW i \in 1..m, blocks[i].live PROVE blocks[i].label \in h[m]
      <4>1. CASE i \in 1..k
        BY <3>2, <3>3, <4>1
      <4>2. CASE i = m
        <5>1. m \in DOMAIN blocks
          BY <1>1
        <5>2. CASE blocks[m].label = Entry
          BY <3>2, <4>2, <5>2
        <5>3. CASE blocks[m].label # Entry
          <6>1. PICK j \in 1..(m - 1) :
                   blocks[j].live /\ blocks[m].label \in Range(blocks[j].to)
            BY <1>3, <3>3, <4>2, <5>1, <5>3 DEF Founded
          <6>2. j \in 1..k /\ j \in DOMAIN blocks
            BY <1>1, <3>1, <6>1
          <6>3. blocks[j].label \in h[k]
            BY <3>2, <6>1, <6>2
          <6>4. blocks[m].label \in Succ(h[k])
            BY <6>1, <6>2, <6>3 DEF Succ
          <6> QED
            BY <3>2, <4>2, <6>4
        <5> QED
          BY <5>2, <5>3
      <4>3. i \in 1..k \/ i = m
        BY <3>1, <1>1
      <4> QED
        BY <4>1, <4>2, <4>3
    <3> QED
      BY <3>2, <3>3
  <2> HIDE DEF S
  <2>3. \A i \in 0..n : i \in S
    BY <1>1, <2>1, <2>2, Walk
  <2> QED
    BY <1>1, <2>3 DEF S
<1>7. ASSUME NEW i \in DOMAIN blocks, blocks[i].label \in h[n] PROVE blocks[i].live
  <2>1. PICK j \in DOMAIN blocks : blocks[j].live /\ blocks[j].label = blocks[i].label
    BY <1>5, <1>7 DEF LiveLabels
  <2>2. i = j
    BY <1>2, <2>1 DEF DistinctBlocks, IsInjective
  <2> QED
    BY <2>1, <2>2
<1> QED
  BY <1>1, <1>4, <1>6, <1>7

(* In every finished function without an empty match, a run can enter a     *)
(* block exactly if the source program can reach the code it was lowered    *)
(* from: what follows a return, a break or a continue is cut off, and       *)
(* nothing else is.                                                         *)
THEOREM ReachableAreLive ==
  ASSUME "empty_match" \notin Constructs
  PROVE  Spec => []ReachableIffLive
<1>1. Init => TypeInv /\ Unique /\ Loops /\ Lively
  BY TypeInit, UniqueInit, LoopsInit, LivelyInit
<1>2. TypeInv /\ Unique /\ Loops /\ Lively /\ [Next]_vars
         => TypeInv' /\ Unique' /\ Loops' /\ Lively'
  BY TypeStep, UniqueStep, LoopsStep, LivelyStep
<1>3. TypeInv /\ Unique /\ Loops /\ Lively => ReachableIffLive
  BY LiveReachable DEF Unique
<1> QED
  BY <1>1, <1>2, <1>3, PTL DEF Spec

-----------------------------------------------------------------------------
(* The books: how many deferred expressions are queued when a block is      *)
(* entered, whatever the way to it.                                         *)

(* Event e takes a queue of x expressions to one of y.                      *)
Moves(e, x, y) ==
    \/ e.op = "defer" /\ e.arg = x /\ y = x + 1 /\ x < MaxDefers
    \/ e.op = "run" /\ e.arg = y /\ x = y + 1
    \/ e.op \in {"init", "inc"} /\ y = x

(* d[k] expressions are queued after k events of c. *)
Trace(c, d) == /\ d \in [0..Len(c) -> Nat]
               /\ \A k \in 1..Len(c) : Moves(c[k], d[k - 1], d[k])

Takes(c, x, y) == \E d : Trace(c, d) /\ d[0] = x /\ d[Len(c)] = y

(* Where it has a block, label t is entered with x queued; where it has     *)
(* none yet, so is the next block.                                          *)
Has(s, lvl, t, x) ==
    /\ \A k \in DOMAIN s : s[k].label = t => lvl[k] = x
    /\ t \notin LabelsOf(s) => lvl[Len(s) + 1] = x

(* What is queued when block b is left, x, is what all its targets expect.  *)
Exits(b, x) ==
    /\ b.term = "return" => x = 0
    /\ b.term = "jump" => Len(b.to) = 1
    /\ b.term \in {"branch", "lt"} => Len(b.to) = 2

Fits(s, lvl) ==
    \A i \in DOMAIN s : /\ Takes(s[i].code, lvl[i], lvl[i + 1])
                        /\ Exits(s[i], lvl[i + 1])
                        /\ \A t \in Range(s[i].to) : Has(s, lvl, t, lvl[i + 1])

Books(s, lvl, x, T) ==
    /\ s \in Seq(Block) /\ lvl \in Seq(Nat) /\ Len(lvl) = Len(s) + 1
    /\ lvl[1] = 0 /\ lvl[Len(s) + 1] = x
    /\ Fits(s, lvl)
    /\ \A t \in T : Has(s, lvl, t, x)

LEMMA TakesNothing == ASSUME NEW x \in Nat PROVE Takes(<<>>, x, x)
<1> DEFINE d == [k \in {0} |-> x]
<1>1. Len(<<>>) = 0 /\ 0..0 = {0} /\ 1..0 = {}
  OBVIOUS
<1>2. d \in [0..Len(<<>>) -> Nat] /\ d[0] = x /\ d[Len(<<>>)] = x
  BY <1>1
<1>3. Trace(<<>>, d)
  BY <1>1, <1>2 DEF Trace
<1> QED
  BY <1>2, <1>3 DEF Takes

LEMMA TakesAppend ==
  ASSUME NEW S, NEW c \in Seq(S), NEW e, NEW x, NEW y, NEW z \in Nat, Takes(c, x, y),
         Moves(e, y, z)
  PROVE  Takes(Append(c, e), x, z)
<1>1. PICK d : Trace(c, d) /\ d[0] = x /\ d[Len(c)] = y
  BY DEF Takes
<1> DEFINE n == Len(c)
           f == [k \in 0..(n + 1) |-> IF k = n + 1 THEN z ELSE d[k]]
<1>2. /\ n \in Nat /\ Len(Append(c, e)) = n + 1 /\ Append(c, e)[n + 1] = e
      /\ \A k \in 1..n : Append(c, e)[k] = c[k]
  OBVIOUS
<1>3. d \in [0..n -> Nat] /\ \A k \in 1..n : Moves(c[k], d[k - 1], d[k])
  BY <1>1 DEF Trace
<1>4. f \in [0..(n + 1) -> Nat]
  BY <1>2, <1>3
<1>5. f[n + 1] = z /\ f[0] = x /\ f[n] = y
  BY <1>1, <1>2
<1>6. ASSUME NEW k \in 1..(n + 1) PROVE Moves(Append(c, e)[k], f[k - 1], f[k])
  <2>1. CASE k = n + 1
    <3>1. k - 1 = n
      BY <1>2, <2>1
    <3> QED
      BY <1>2, <1>5, <2>1, <3>1
  <2>2. CASE k # n + 1
    <3>1. k \in 1..n /\ f[k] = d[k] /\ f[k - 1] = d[k - 1]
      BY <1>2, <2>2
    <3> QED
      BY <1>2, <1>3, <3>1
  <2> QED
    BY <2>1, <2>2
<1> HIDE DEF f
<1>7. Trace(Append(c, e), f)
  BY <1>2, <1>4, <1>6 DEF Trace
<1> QED
  BY <1>2, <1>5, <1>7 DEF Takes

LEMMA TakesNat == ASSUME NEW c, NEW x, NEW y, Len(c) \in Nat, Takes(c, x, y) PROVE x \in Nat /\ y \in Nat
<1>1. PICK d : Trace(c, d) /\ d[0] = x /\ d[Len(c)] = y
  BY DEF Takes
<1>2. d \in [0..Len(c) -> Nat] /\ 0 \in 0..Len(c) /\ Len(c) \in 0..Len(c)
  BY <1>1 DEF Trace
<1> QED
  BY <1>1, <1>2

(* A label's entry in the books does not change when a block is added.      *)
LEMMA HasAppend ==
  ASSUME NEW s \in Seq(Block), NEW lvl \in Seq(Nat), Len(lvl) = Len(s) + 1, NEW b, NEW x \in Nat,
         NEW t, NEW y, Has(s, lvl, t, y), b.label \notin LabelsOf(s),
         x = lvl[Len(s) + 1] \/ t \in LabelsOf(s) \cup {b.label}
  PROVE  Has(Append(s, b), Append(lvl, x), t, y)
<1> DEFINE r == Append(s, b)  v == Append(lvl, x)
<1>1. /\ DOMAIN r = 1..(Len(s) + 1) /\ DOMAIN s = 1..Len(s) /\ Len(s) \in Nat
      /\ Len(r) = Len(s) + 1
      /\ \A i \in 1..Len(s) : r[i] = s[i]
      /\ r[Len(s) + 1] = b
  OBVIOUS
<1>2. /\ \A i \in 1..(Len(s) + 1) : v[i] = lvl[i]
      /\ v[Len(s) + 2] = x
  BY <1>1
<1>3. LabelsOf(r) = LabelsOf(s) \cup {b.label}
  BY LabelsAppend
<1> HIDE DEF r, v
<1>4. ASSUME NEW k \in DOMAIN r, r[k].label = t PROVE v[k] = y
  <2>1. CASE k = Len(s) + 1
    BY <1>1, <1>2, <1>4, <2>1 DEF Has
  <2>2. CASE k # Len(s) + 1
    BY <1>1, <1>2, <1>4, <2>2 DEF Has
  <2> QED
    BY <2>1, <2>2
<1>5. ASSUME t \notin LabelsOf(r) PROVE v[Len(r) + 1] = y
  <2>1. Len(r) + 1 = Len(s) + 2
    BY <1>1
  <2>2. x = lvl[Len(s) + 1] /\ lvl[Len(s) + 1] = y
    BY <1>3, <1>5 DEF Has
  <2> QED
    BY <1>2, <2>1, <2>2
<1> QED
  BY <1>4, <1>5 DEF Has, r, v

(* A label that has no block yet is expected with what is queued now. *)
LEMMA HasFresh ==
  ASSUME NEW s, NEW lvl, NEW t, t \notin LabelsOf(s)
  PROVE  Has(s, lvl, t, lvl[Len(s) + 1])
  BY DEF Has, LabelsOf

LEMMA BooksFresh ==
  ASSUME NEW s, NEW lvl, NEW x, NEW T, NEW F, Books(s, lvl, x, T), F \cap LabelsOf(s) = {}
  PROVE  Books(s, lvl, x, T \cup F)
<1>1. \A t \in F : Has(s, lvl, t, x)
  BY HasFresh DEF Books
<1> QED
  BY <1>1 DEF Books

(* A block is finished. *)
LEMMA BooksAppend ==
  ASSUME NEW s, NEW lvl, NEW w, NEW T, Books(s, lvl, w, T),
         NEW b \in Block, b.label \notin LabelsOf(s), NEW x \in Nat, Takes(b.code, w, x),
         Exits(b, x),
         x = w \/ (TargetsOf(s) \subseteq LabelsOf(s) \cup {b.label} /\ T = {}),
         \A t \in Range(b.to) : t \notin LabelsOf(s) \cup {b.label} \/ (x = w /\ t \in T)
  PROVE  Books(Append(s, b), Append(lvl, x), x, T)
<1> DEFINE r == Append(s, b)  v == Append(lvl, x)
<1>0. s \in Seq(Block) /\ lvl \in Seq(Nat) /\ Len(lvl) = Len(s) + 1 /\ lvl[Len(s) + 1] = w
      /\ lvl[1] = 0 /\ Fits(s, lvl) /\ \A t \in T : Has(s, lvl, t, w)
  BY DEF Books
<1>1. /\ DOMAIN r = 1..(Len(s) + 1) /\ DOMAIN s = 1..Len(s) /\ Len(s) \in Nat
      /\ Len(r) = Len(s) + 1
      /\ \A i \in 1..Len(s) : r[i] = s[i]
      /\ r[Len(s) + 1] = b /\ r \in Seq(Block)
  BY <1>0
<1>2. /\ \A i \in 1..(Len(s) + 1) : v[i] = lvl[i]
      /\ v[Len(s) + 2] = x /\ v \in Seq(Nat) /\ Len(v) = Len(s) + 2
  BY <1>0, <1>1
<1>3. LabelsOf(r) = LabelsOf(s) \cup {b.label}
  BY <1>0, LabelsAppend
<1>4. ASSUME NEW t, NEW y, Has(s, lvl, t, y), x = w \/ t \in LabelsOf(s) \cup {b.label}
      PROVE  Has(r, v, t, y)
  BY <1>0, <1>4, HasAppend
<1>5. ASSUME NEW t \in T PROVE Has(r, v, t, x)
  BY <1>0, <1>4, <1>5
<1>6. ASSUME NEW t \in Range(b.to) PROVE Has(r, v, t, x)
  <2>1. CASE t \notin LabelsOf(s) \cup {b.label}
    <3>1. t \notin LabelsOf(r) /\ v[Len(r) + 1] = x
      BY <1>1, <1>2, <1>3, <2>1
    <3> HIDE DEF r, v
    <3> QED
      BY <3>1, HasFresh
  <2>2. CASE x = w /\ t \in T
    BY <1>5, <2>2
  <2> QED
    BY <1>6, <2>1, <2>2
<1>7. ASSUME NEW i \in DOMAIN s, NEW t \in Range(s[i].to) PROVE Has(r, v, t, lvl[i + 1])
  <2>1. Has(s, lvl, t, lvl[i + 1]) /\ t \in TargetsOf(s)
    BY <1>0 DEF Fits, TargetsOf
  <2> QED
    BY <1>4, <2>1
<1> HIDE DEF r, v
<1>8. ASSUME NEW i \in DOMAIN r
      PROVE  /\ Takes(r[i].code, v[i], v[i + 1]) /\ Exits(r[i], v[i + 1])
             /\ \A t \in Range(r[i].to) : Has(r, v, t, v[i + 1])
  <2>1. CASE i = Len(s) + 1
    <3>0. i + 1 = Len(s) + 2 /\ Len(s) + 1 \in 1..(Len(s) + 1)
      BY <1>1, <2>1
    <3>1. r[i] = b /\ v[i] = w /\ v[i + 1] = x
      BY <1>0, <1>1, <1>2, <2>1, <3>0
    <3> QED
      BY <1>6, <3>1
  <2>2. CASE i # Len(s) + 1
    <3>1. i \in DOMAIN s /\ r[i] = s[i] /\ v[i] = lvl[i] /\ v[i + 1] = lvl[i + 1]
      BY <1>1, <1>2, <2>2
    <3> QED
      BY <1>0, <1>7, <3>1 DEF Fits
  <2> QED
    BY <2>1, <2>2
<1>9. Fits(r, v)
  BY <1>8 DEF Fits
<1>10. v[1] = 0 /\ v[Len(r) + 1] = x /\ Len(v) = Len(r) + 1
  BY <1>0, <1>1, <1>2
<1> QED
  BY <1>1, <1>2, <1>5, <1>9, <1>10 DEF Books, r, v

-----------------------------------------------------------------------------
(* The lowering keeps the books.                                            *)

Countup(m) == [j \in 1..m |-> j - 1]
Countdown(m) == [j \in 1..m |-> m - j]

(* The flush at the end of the function has begun. *)
Flushing == stack # <<>> /\ stack[1].kind = "flush_exit"

(* The Lowerer's own queue holds what is queued when control is here, or    *)
(* the flush has that left to do.                                           *)
Owed(now) ==
    IF Flushing THEN deferred = <<>> /\ stack[1].rest = Countdown(now)
    ELSE deferred = Countup(now) /\ nextDefer = now

(* Nothing is open but the flush. *)
Bare == \A i \in DOMAIN stack : i = 1 /\ stack[i].kind = "flush_exit"

(* What a break, a continue or the end of a loop's body jumps to. *)
Repeating == IF stack # <<>> /\ stack[1].kind \in Repeats
             THEN {stack[1].head, Merge(stack[1])} ELSE {}

NoReturn == \A i \in DOMAIN stack : stack[i].kind # "flush_return"

Open(x, now) ==
    /\ Takes(instrs, x, now)
    /\ instrs # <<>> => Bare
    /\ Owed(now)
    /\ NoReturn

Ledger ==
    /\ fn \in FnKinds
    /\ \E lvl, x : /\ Books(blocks, lvl, x, IF done THEN {} ELSE Repeating)
                   /\ ~done => \E now \in Nat : Open(x, now)

LEMMA SameSeq ==
  ASSUME NEW S, NEW s \in Seq(S), NEW t \in Seq(S), Len(s) = Len(t),
         \A j \in 1..Len(s) : s[j] = t[j]
  PROVE  s = t
  OBVIOUS

LEMMA CountNothing == Countup(0) = <<>> /\ Countdown(0) = <<>>
  BY DEF Countup, Countdown

LEMMA CountMore == ASSUME NEW m \in Nat PROVE Append(Countup(m), m) = Countup(m + 1)
  BY DEF Countup

LEMMA CountLess ==
  ASSUME NEW m \in Nat
  PROVE  /\ Len(Countup(m)) = m /\ Len(Countdown(m)) = m
         /\ m # 0 => /\ Countup(m) # <<>> /\ Countup(m)[m] = m - 1
                     /\ Front(Countup(m)) = Countup(m - 1)
                     /\ Countdown(m) # <<>> /\ Countdown(m)[1] = m - 1
                     /\ Tail(Countdown(m)) = Countdown(m - 1)
<1>1. Len(Countup(m)) = m /\ Len(Countdown(m)) = m
  BY DEF Countup, Countdown
<1> SUFFICES ASSUME m # 0
             PROVE  /\ Countup(m) # <<>> /\ Countup(m)[m] = m - 1
                    /\ Front(Countup(m)) = Countup(m - 1)
                    /\ Countdown(m) # <<>> /\ Countdown(m)[1] = m - 1
                    /\ Tail(Countdown(m)) = Countdown(m - 1)
  BY <1>1
<1>2. Countup(m)[m] = m - 1 /\ Countdown(m)[1] = m - 1
  BY DEF Countup, Countdown
<1>3. Countup(m) # <<>> /\ Countdown(m) # <<>>
  BY <1>1, NonEmpty
<1>4. Front(Countup(m)) = Countup(m - 1)
  <2>1. Countup(m) \in Seq(Int) /\ \A j \in 1..m : Countup(m)[j] = j - 1
    BY DEF Countup
  <2>2. Front(Countup(m)) \in Seq(Int) /\ Len(Front(Countup(m))) = m - 1
        /\ \A j \in 1..(m - 1) : Front(Countup(m))[j] = j - 1
    BY <1>1, <2>1 DEF Front
  <2>3. Countup(m - 1) \in Seq(Int) /\ Len(Countup(m - 1)) = m - 1
        /\ \A j \in 1..(m - 1) : Countup(m - 1)[j] = j - 1
    BY DEF Countup
  <2> QED
    BY <2>2, <2>3, SameSeq
<1>5. Tail(Countdown(m)) = Countdown(m - 1)
  <2>1. Countdown(m) \in Seq(Int) /\ \A j \in 1..m : Countdown(m)[j] = m - j
    BY DEF Countdown
  <2>2. Tail(Countdown(m)) \in Seq(Int) /\ Len(Tail(Countdown(m))) = m - 1
        /\ \A j \in 1..(m - 1) : Tail(Countdown(m))[j] = m - 1 - j
    BY <1>1, <1>3, <2>1
  <2>3. Countdown(m - 1) \in Seq(Int) /\ Len(Countdown(m - 1)) = m - 1
        /\ \A j \in 1..(m - 1) : Countdown(m - 1)[j] = m - 1 - j
    BY DEF Countdown
  <2>4. \A j \in 1..Len(Tail(Countdown(m))) : Tail(Countdown(m))[j] = Countdown(m - 1)[j]
    BY <2>2, <2>3
  <2> QED
    BY <2>2, <2>3, <2>4, SameSeq, Zenon
<1> QED
  BY <1>2, <1>3, <1>4, <1>5

LEMMA CountBack == ASSUME NEW m \in Nat PROVE Reverse(Countup(m)) = Countdown(m)
  BY CountLess DEF Countup, Countdown, Reverse

(* With nothing but the flush open no label is pending, so every target has *)
(* its block or is the current label, and nothing is repeated.              *)
LEMMA BareKnown ==
  ASSUME TypeInv, Control, ~done, Bare
  PROVE  TargetsOf(blocks) \subseteq LabelsOf(blocks) \cup {currentLabel} /\ Repeating = {}
<1>1. \A i \in DOMAIN stack : stack[i].todo = <<>>
  BY DEF TypeInv, Shape, StackOK, FrameOK, FlushKinds, Bare
<1>2. Pending = {}
  BY <1>1, Range0 DEF Pending
<1>3. Known = LabelsOf(blocks) \cup {currentLabel}
  BY <1>2, BlocksOf DEF Known, Started
<1>4. Repeating = {}
  <2>1. stack # <<>> => 1 \in DOMAIN stack
    BY StackBounds
  <2> QED
    BY <2>1 DEF Repeating, Bare, Repeats, LoopKinds
<1> QED
  BY <1>3, <1>4, BlocksOf DEF Control, TargetsResolved

(* The current block is finished with code c, and its targets are new or    *)
(* repeated.                                                                *)
LEMMA Finish ==
  ASSUME TypeInv, Control, Unique, ~done, NEW lvl, NEW x, NEW now \in Nat,
         Books(blocks, lvl, x, Repeating), Open(x, now),
         NEW b \in Block, b.label = currentLabel, Takes(b.code, x, now), Exits(b, now),
         \A t \in Range(b.to) : t \notin Started \/ (~Bare /\ t \in Repeating)
  PROVE  Books(Append(blocks, b), Append(lvl, now), now, Repeating)
<1>1. Started = LabelsOf(blocks) \cup {currentLabel} /\ currentLabel \notin LabelsOf(blocks)
  BY UniqueParts, BlocksOf DEF Started, Unique
<1>2. CASE Bare
  BY <1>1, <1>2, BareKnown, BooksAppend
<1>3. CASE ~Bare
  <2>1. instrs = <<>> /\ Takes(instrs, x, now)
    BY <1>3 DEF Open
  <2>2. x = now
    <3>1. PICK d : d[0] = x /\ d[Len(<<>>)] = now
      BY <2>1 DEF Takes
    <3>2. Len(<<>>) = 0
      OBVIOUS
    <3> QED
      BY <3>1, <3>2
  <2> QED
    BY <1>1, <2>2, BooksAppend
<1> QED
  BY <1>2, <1>3

(* The same for finish_block and start_block.                               *)
LEMMA SwitchBooks ==
  ASSUME TypeInv, Control, Unique, ~done, NEW lvl, NEW x, NEW now \in Nat,
         Books(blocks, lvl, x, Repeating), Open(x, now),
         NEW term \in {"jump", "branch"}, NEW to \in Seq(Label), NEW l, Switch(term, to, l),
         Len(to) = IF term = "jump" THEN 1 ELSE 2,
         \A t \in Range(to) : t \notin Started \/ (~Bare /\ t \in Repeating)
  PROVE  /\ Books(blocks', Append(lvl, now), now, Repeating)
         /\ Takes(instrs', now, now) /\ instrs' = <<>> /\ currentLabel' = l
<1> DEFINE b == Finished(term, to)
<1>1. b \in Block
  BY BlockType DEF Finished, TypeInv, TypeOK, Terms
<1>2. /\ b.label = currentLabel /\ b.code = instrs /\ b.to = to /\ b.term = term
      /\ blocks' = Append(blocks, b) /\ instrs' = <<>> /\ currentLabel' = l
  BY DEF Switch, Finished, BB
<1>3. Exits(b, now) /\ Takes(b.code, x, now)
  BY <1>2 DEF Exits, Open
<1> HIDE DEF b
<1>4. Books(Append(blocks, b), Append(lvl, now), now, Repeating)
  BY <1>1, <1>2, <1>3, Finish
<1> QED
  BY <1>2, <1>4, TakesNothing

(* Further blocks that hold nothing. *)
LEMMA BooksEmpty ==
  ASSUME NEW s, NEW lvl, NEW x \in Nat, NEW T, Books(s, lvl, x, T),
         NEW b \in Block, b.label \notin LabelsOf(s), b.code = <<>>, Exits(b, x),
         \A t \in Range(b.to) : t \notin LabelsOf(s) \cup {b.label} \/ t \in T
  PROVE  Books(Append(s, b), Append(lvl, x), x, T)
<1>1. Takes(b.code, x, x)
  BY TakesNothing
<1> QED
  BY <1>1, BooksAppend

(* A step does not touch the flush, and opens none for a return.            *)
BottomKept ==
    /\ Flushing' = Flushing
    /\ Flushing => stack'[1].rest = stack[1].rest
    /\ NoReturn => NoReturn'

(* What is open after a step that has emptied instrs. *)
LEMMA Reopen ==
  ASSUME TypeInv, ~done, ~done', NEW x, NEW now \in Nat, Open(x, now), NEW lvl,
         Books(blocks', lvl, now, Repeating), (Repeating' \ Repeating) \cap LabelsOf(blocks') = {},
         instrs' = <<>>, UNCHANGED <<deferred, nextDefer, fn>>, Ledger, BottomKept
  PROVE  Ledger'
<1>1. LabelsOf(blocks') \cap (Repeating' \ Repeating) = {}
  OBVIOUS
<1>2. Books(blocks', lvl, now, Repeating \cup (Repeating' \ Repeating))
  BY <1>1, BooksFresh
<1>3. Books(blocks', lvl, now, Repeating')
  BY <1>2 DEF Books
<1>4. Takes(instrs', now, now)
  BY TakesNothing
<1>5. Owed(now)'
  BY DEF Owed, Open, BottomKept
<1>6. Open(now, now)'
  BY <1>4, <1>5 DEF Open, BottomKept
<1> QED
  BY <1>3, <1>6 DEF Ledger

(* What the bottom of the stack is after the three ways it changes.         *)
LEMMA OpenSome ==
  ASSUME TypeInv, NEW f, Push(f), f.kind \notin Repeats, f.kind \notin FlushKinds
  PROVE  Repeating' \subseteq Repeating /\ BottomKept
<1>0. stack \in Seq(Frame)
  BY DEF TypeInv, TypeOK
<1>1. /\ DOMAIN stack' = 1..(Len(stack) + 1) /\ DOMAIN stack = 1..Len(stack)
      /\ Len(stack) \in Nat /\ stack' # <<>>
      /\ \A i \in 1..Len(stack) : stack'[i] = stack[i]
      /\ stack'[Len(stack) + 1] = f
  BY <1>0 DEF Push
<1>2. NoReturn => NoReturn'
  BY <1>1 DEF NoReturn, FlushKinds
<1>3. CASE stack = <<>>
  <2>1. stack'[1] = f
    BY <1>1, <1>3
  <2> QED
    BY <1>1, <1>2, <1>3, <2>1 DEF Repeating, Flushing, FlushKinds, BottomKept
<1>4. CASE stack # <<>>
  <2>1. stack'[1] = stack[1]
    BY <1>1, <1>4, StackBounds
  <2> QED
    BY <1>1, <1>2, <1>4, <2>1 DEF Repeating, Flushing, Merge, BottomKept
<1> QED
  BY <1>3, <1>4

LEMMA CloseSome ==
  ASSUME TypeInv, stack # <<>>, Pop, Top.kind # "flush_exit"
  PROVE  Repeating' \subseteq Repeating /\ BottomKept
<1>1. /\ DOMAIN stack' = 1..(Len(stack) - 1) /\ DOMAIN stack = 1..Len(stack)
      /\ Len(stack) \in Nat /\ Len(stack) >= 1
      /\ \A i \in 1..(Len(stack) - 1) : stack'[i] = stack[i]
  BY DEF Pop, TypeInv, TypeOK
<1>2. NoReturn => NoReturn'
  BY <1>1 DEF NoReturn
<1>3. CASE Len(stack) = 1
  <2>1. stack' = <<>> /\ ~Flushing
    BY <1>3 DEF Pop, TypeInv, TypeOK, Flushing, Top
  <2> QED
    BY <1>2, <2>1 DEF Repeating, Flushing, BottomKept
<1>4. CASE Len(stack) # 1
  <2>1. stack'[1] = stack[1] /\ stack' # <<>>
    BY <1>1, <1>4
  <2> QED
    BY <1>1, <1>2, <1>4, <2>1 DEF Repeating, Flushing, Merge, BottomKept
<1> QED
  BY <1>3, <1>4

LEMMA ChangeSome ==
  ASSUME TypeInv, NEW k \in DOMAIN stack, NEW f, stack' = [stack EXCEPT ![k] = f],
         f.kind \notin FlushKinds, stack[k].kind \notin FlushKinds,
         f.kind \in Repeats => stack[k].kind \in Repeats /\ f.head = stack[k].head
                               /\ Merge(f) = Merge(stack[k])
  PROVE  Repeating' \subseteq Repeating /\ BottomKept
<1>1. /\ DOMAIN stack' = DOMAIN stack /\ stack'[k] = f
      /\ \A i \in DOMAIN stack : i # k => stack'[i] = stack[i]
      /\ stack # <<>> /\ stack' # <<>> /\ 1 \in DOMAIN stack
  BY DEF TypeInv, TypeOK
<1>2. NoReturn => NoReturn'
  BY <1>1 DEF NoReturn, FlushKinds
<1>3. CASE k = 1
  BY <1>1, <1>2, <1>3 DEF Repeating, Flushing, FlushKinds, Merge, BottomKept
<1>4. CASE k # 1
  BY <1>1, <1>2, <1>4 DEF Repeating, Flushing, Merge, BottomKept
<1> QED
  BY <1>3, <1>4

-----------------------------------------------------------------------------
(* One lemma per action.                                                    *)

(* What the promise needs of the program: no defer in a branch or in a loop *)
(* (queued for the whole function), no return before the end (it drains the *)
(* queue for both branches), no or_return (it leaves without a flush), not  *)
(* __main (never flushed).  An empty match leaves jumps without a target.   *)
Plain == /\ {"nested_defer", "return", "or_return", "empty_match"} \cap Constructs = {}
         /\ "__main" \notin FnKinds

LEMMA LowerDeferLedger == Plain /\ TypeInv /\ Ledger /\ LowerDefer => Ledger'
<1> SUFFICES ASSUME Plain, TypeInv, Ledger, LowerDefer PROVE Ledger'
  OBVIOUS
<1>1. /\ ~done /\ stack = <<>> /\ nextDefer < MaxDefers
      /\ deferred' = Append(deferred, nextDefer) /\ nextDefer' = nextDefer + 1
      /\ instrs' = Append(instrs, Ev("defer", nextDefer))
      /\ blocks' = blocks /\ loopStack' = loopStack /\ stack' = stack
      /\ done' = done /\ fn' = fn
  BY DEF LowerDefer, Emit, Unchanged_fn, Plain
<1>2. PICK lvl, x : Books(blocks, lvl, x, Repeating) /\ \E now \in Nat : Open(x, now)
  BY <1>1 DEF Ledger
<1>3. PICK now \in Nat : Open(x, now)
  BY <1>2
<1>4. deferred = Countup(now) /\ nextDefer = now /\ Takes(instrs, x, now)
  BY <1>1, <1>3 DEF Open, Owed, Flushing
<1>5. Moves(Ev("defer", nextDefer), now, now + 1)
  BY <1>1, <1>4 DEF Moves, Ev
<1>6. instrs \in Seq(Event)
  BY DEF TypeInv, TypeOK
<1>7. Takes(instrs', x, now + 1)
  BY <1>1, <1>4, <1>5, <1>6, TakesAppend
<1>8. deferred' = Countup(now + 1)
  BY <1>1, <1>4, CountMore
<1>9. Open(x, now + 1)'
  BY <1>1, <1>4, <1>7, <1>8 DEF Open, Owed, Flushing, Bare, NoReturn
<1>10. Repeating' = Repeating
  BY <1>1 DEF Repeating, Merge
<1> QED
  BY <1>1, <1>2, <1>9, <1>10 DEF Ledger

(* The last event of a flush that has m left. *)
LEMMA RunMoves == ASSUME NEW m \in Nat, m # 0 PROVE Moves(Ev("run", m - 1), m, m - 1)
  BY DEF Moves, Ev

LEMMA FlushNextLedger == TypeInv /\ Ledger /\ FlushNext => Ledger'
<1> SUFFICES ASSUME TypeInv, Ledger, FlushNext PROVE Ledger'
  OBVIOUS
<1> DEFINE f == [Top EXCEPT !.rest = Tail(@)]
<1>1. /\ stack # <<>> /\ Top.kind \in FlushKinds /\ Top.rest # <<>>
      /\ instrs' = Append(instrs, Ev("run", Head(Top.rest)))
      /\ stack' = [stack EXCEPT ![Len(stack)] = f]
      /\ blocks' = blocks /\ deferred' = deferred /\ nextDefer' = nextDefer
      /\ done' = done /\ fn' = fn
  BY DEF FlushNext, TopIs, Emit, ReplaceTop, Unchanged_fn
<1>2. ~done /\ Top \in Frame /\ Len(stack) \in DOMAIN stack
  BY <1>1, TopType
<1>3. PICK lvl, x : Books(blocks, lvl, x, Repeating) /\ \E now \in Nat : Open(x, now)
  BY <1>2 DEF Ledger
<1>4. PICK now \in Nat : Open(x, now)
  BY <1>3
<1>5. Top.kind = "flush_exit"
  BY <1>1, <1>2, <1>4 DEF Open, NoReturn, FlushKinds, Top
<1>6. Len(stack) = 1 /\ Top = stack[1] /\ stack \in Seq(Frame)
  BY <1>2, <1>5 DEF Top, TypeInv, TypeOK, Shape, StackOK
<1>7. Top.rest = Countdown(now) /\ deferred = <<>> /\ Takes(instrs, x, now)
  BY <1>1, <1>4, <1>5, <1>6 DEF Open, Owed, Flushing
<1>8. now # 0
  BY <1>1, <1>7, CountNothing
<1>9. Head(Top.rest) = now - 1 /\ Tail(Top.rest) = Countdown(now - 1)
  <2>1. Head(Top.rest) = Top.rest[1]
    OBVIOUS
  <2> QED
    BY <1>7, <1>8, <2>1, CountLess
<1>10. f.kind = "flush_exit" /\ f.rest = Countdown(now - 1)
  BY <1>2, <1>5, <1>9 DEF Frame
<1> HIDE DEF f
<1>11. /\ DOMAIN stack' = {1} /\ stack'[1] = f /\ stack' # <<>>
  BY <1>1, <1>6
<1>12. Bare' /\ Flushing' /\ Repeating' = {} /\ Repeating = {}
  BY <1>1, <1>5, <1>6, <1>10, <1>11 DEF Bare, Flushing, Repeating, Repeats, LoopKinds
<1>13. Takes(instrs', x, now - 1)
  <2>1. instrs \in Seq(Event)
    BY DEF TypeInv, TypeOK
  <2>2. now - 1 \in Nat
    BY <1>8
  <2> QED
    BY <1>1, <1>7, <1>8, <1>9, <2>1, <2>2, RunMoves, TakesAppend
<1>14. Open(x, now - 1)'
  BY <1>1, <1>7, <1>10, <1>11, <1>12, <1>13 DEF Open, Owed, NoReturn
<1>15. now - 1 \in Nat
  BY <1>8
<1> QED
  BY <1>1, <1>3, <1>12, <1>14, <1>15 DEF Ledger

(* A step that finishes the current block and starts another one.           *)
LEMMA SwitchLedger ==
  ASSUME TypeInv, Control, Unique, Ledger, ~done, ~done',
         NEW term \in {"jump", "branch"}, NEW to \in Seq(Label), NEW l, Switch(term, to, l),
         Len(to) = IF term = "jump" THEN 1 ELSE 2,
         \A t \in Range(to) : t \notin Started \/ (~Bare /\ t \in Repeating),
         (Repeating' \ Repeating) \cap (BlockLabels \cup {currentLabel}) = {},
         UNCHANGED <<deferred, nextDefer, fn>>, BottomKept
  PROVE  Ledger'
<1>1. PICK lvl, x : Books(blocks, lvl, x, Repeating) /\ \E now \in Nat : Open(x, now)
  BY DEF Ledger
<1>2. PICK now \in Nat : Open(x, now)
  BY <1>1
<1>3. Books(blocks', Append(lvl, now), now, Repeating) /\ instrs' = <<>>
  BY <1>1, <1>2, SwitchBooks
<1>4. LabelsOf(blocks') = BlockLabels \cup {currentLabel}
  <2>1. PICK b : b = Finished(term, to)
    OBVIOUS
  <2>2. b.label = currentLabel /\ blocks' = Append(blocks, b)
    BY <2>1 DEF Switch, Finished, BB
  <2>3. blocks \in Seq(Block)
    BY DEF TypeInv, TypeOK
  <2> QED
    BY <2>2, <2>3, LabelsAppend, BlocksOf
<1> QED
  BY <1>2, <1>3, <1>4, Reopen

LEMMA LowerBreakLedger ==
  TypeInv /\ Control /\ Unique /\ Loops /\ Ledger /\ LowerBreak => Ledger'
<1> SUFFICES ASSUME TypeInv, Control, Unique, Loops, Ledger, LowerBreak PROVE Ledger'
  OBVIOUS
<1> DEFINE l == loopStack[Len(loopStack)].brk
<1>1. /\ ~done /\ Switch("jump", <<l>>, nextBlock) /\ done' = done /\ fn' = fn
      /\ loopStack # <<>> /\ deferred' = deferred /\ nextDefer' = nextDefer
  BY DEF LowerBreak, JumpOut, CanOpen, Unchanged_fn
<1>2. PICK k \in DOMAIN stack : InnermostLoop(k) /\ stack' = [stack EXCEPT ![k].exit = @ \/ live]
  BY DEF LowerBreak
<1>3. stack # <<>> /\ stack[1].kind \in LoopKinds /\ loopStack = <<LoopOf(stack[1])>>
  BY <1>1 DEF Loops
<1>4. l = Merge(stack[1]) /\ <<l>> \in Seq(Label)
  <2>0. loopStack[Len(loopStack)] \in LoopLabels
    BY <1>1, LastIn DEF TypeInv, TypeOK
  <2>1. l \in Label
    BY <2>0 DEF LoopLabels
  <2> QED
    BY <1>3, <2>1, Seq1 DEF LoopOf
<1> HIDE DEF l
<1>7. l \in Repeating /\ ~Bare
  <2>1. 1 \in DOMAIN stack
    BY <1>3, StackBounds
  <2> QED
    BY <1>3, <1>4, <2>1 DEF Repeating, Repeats, Bare, LoopKinds
<1>8. Len(<<l>>) = 1 /\ \A t \in Range(<<l>>) : ~Bare /\ t \in Repeating
  BY <1>7, Range1
<1> DEFINE f == [stack[k] EXCEPT !.exit = @ \/ live]
<1>10. stack[k] \in Frame /\ stack[k].kind \in LoopKinds
  BY <1>2 DEF TypeInv, TypeOK, InnermostLoop
<1>11. /\ f.todo = stack[k].todo /\ f.head = stack[k].head /\ f.kind = stack[k].kind
       /\ stack' = [stack EXCEPT ![k] = f]
  BY <1>2, <1>10 DEF Frame
<1> HIDE DEF f
<1>12. Repeating' \subseteq Repeating /\ BottomKept
  <2>1. f.kind \notin FlushKinds /\ stack[k].kind \notin FlushKinds /\ stack[k].kind \in Repeats
    BY <1>10, <1>11 DEF FlushKinds, LoopKinds, Repeats
  <2>2. Merge(f) = Merge(stack[k])
    BY <1>11 DEF Merge
  <2> QED
    BY <1>11, <2>1, <2>2, ChangeSome
<1> QED
  BY <1>1, <1>4, <1>8, <1>12, SwitchLedger

LEMMA LowerContinueLedger ==
  TypeInv /\ Control /\ Unique /\ Loops /\ Ledger /\ LowerContinue => Ledger'
<1> SUFFICES ASSUME TypeInv, Control, Unique, Loops, Ledger, LowerContinue PROVE Ledger'
  OBVIOUS
<1> DEFINE l == loopStack[Len(loopStack)].cont
<1>1. /\ ~done /\ Switch("jump", <<l>>, nextBlock) /\ done' = done /\ fn' = fn
      /\ loopStack # <<>> /\ deferred' = deferred /\ nextDefer' = nextDefer /\ stack' = stack
  BY DEF LowerContinue, JumpOut, CanOpen, Unchanged_fn
<1>3. stack # <<>> /\ stack[1].kind \in LoopKinds /\ loopStack = <<LoopOf(stack[1])>>
  BY <1>1 DEF Loops
<1>4. l = stack[1].head /\ <<l>> \in Seq(Label)
  <2>0. loopStack[Len(loopStack)] \in LoopLabels
    BY <1>1, LastIn DEF TypeInv, TypeOK
  <2>1. l \in Label
    BY <2>0 DEF LoopLabels
  <2> QED
    BY <1>3, <2>1, Seq1 DEF LoopOf
<1> HIDE DEF l
<1>7. l \in Repeating /\ ~Bare
  <2>1. 1 \in DOMAIN stack
    BY <1>3, StackBounds
  <2> QED
    BY <1>3, <1>4, <2>1 DEF Repeating, Repeats, Bare, LoopKinds
<1>8. Len(<<l>>) = 1 /\ \A t \in Range(<<l>>) : ~Bare /\ t \in Repeating
  BY <1>7, Range1
<1>12. Repeating' = Repeating /\ BottomKept
  BY <1>1 DEF NoReturn, Repeating, Flushing, Merge, BottomKept
<1> QED
  BY <1>1, <1>4, <1>8, <1>12, SwitchLedger

(* The labels of a construct that opens are new. *)
LEMMA NewLabels ==
  ASSUME TypeInv, Unique, ~done
  PROVE  /\ \A l \in Int : l >= nextBlock => l \notin Started
         /\ Started = BlockLabels \cup {currentLabel}
         /\ nextBlock \in Nat
  BY FreshUnused, Bounds0 DEF Started

LEMMA OpenWhileLedger ==
  TypeInv /\ Control /\ Unique /\ Ledger /\ OpenWhile => Ledger'
<1> SUFFICES ASSUME TypeInv, Control, Unique, Ledger, OpenWhile PROVE Ledger'
  OBVIOUS
<1> DEFINE f == NewFrame("cond", <<nextBlock + 1, nextBlock + 2>>, nextBlock, FALSE)
<1>1. /\ ~done /\ done' = done /\ fn' = fn /\ deferred' = deferred /\ nextDefer' = nextDefer
      /\ Switch("jump", <<nextBlock>>, nextBlock) /\ Push(f) /\ stack = <<>>
  BY DEF OpenWhile, CanOpen, Unchanged_fn, AtLoopStmt
<1>2. f.kind = "cond" /\ f.todo = <<nextBlock + 1, nextBlock + 2>> /\ f.head = nextBlock
  BY DEF NewFrame
<1> HIDE DEF f
<1>3. nextBlock \notin Started /\ nextBlock + 2 \notin Started
  BY <1>1, NewLabels
<1>4. stack' = <<f>> /\ stack' # <<>> /\ stack'[1] = f /\ DOMAIN stack' = {1}
  BY <1>1 DEF Push
<1>5. Repeating' = {nextBlock, nextBlock + 2}
  <2>1. Merge(f) = nextBlock + 2
    BY <1>2 DEF Merge
  <2> QED
    BY <1>2, <1>4, <2>1 DEF Repeating, Repeats, Merge
<1>6. (Repeating' \ Repeating) \cap (BlockLabels \cup {currentLabel}) = {}
  BY <1>1, <1>3, <1>5, NewLabels
<1>7. BottomKept
  BY <1>1, <1>2, <1>4 DEF BottomKept, Flushing, NoReturn
<1>8. /\ <<nextBlock>> \in Seq(Label) /\ Len(<<nextBlock>>) = 1
      /\ \A t \in Range(<<nextBlock>>) : t \notin Started
  BY <1>3, Range1, ThreeFresh, Seq1
<1> QED
  BY <1>1, <1>6, <1>7, <1>8, SwitchLedger

LEMMA OpenLoopLedger ==
  TypeInv /\ Control /\ Unique /\ Ledger /\ OpenLoop => Ledger'
<1> SUFFICES ASSUME TypeInv, Control, Unique, Ledger, OpenLoop PROVE Ledger'
  OBVIOUS
<1> DEFINE f == NewFrame("loop", <<nextBlock + 1>>, nextBlock, FALSE)
<1>1. /\ ~done /\ done' = done /\ fn' = fn /\ deferred' = deferred /\ nextDefer' = nextDefer
      /\ Switch("jump", <<nextBlock>>, nextBlock) /\ Push(f) /\ stack = <<>>
  BY DEF OpenLoop, CanOpen, Unchanged_fn, AtLoopStmt
<1>2. f.kind = "loop" /\ f.todo = <<nextBlock + 1>> /\ f.head = nextBlock
  BY DEF NewFrame
<1> HIDE DEF f
<1>3. nextBlock \notin Started /\ nextBlock + 1 \notin Started
  BY <1>1, NewLabels
<1>4. stack' = <<f>> /\ stack' # <<>> /\ stack'[1] = f /\ DOMAIN stack' = {1}
  BY <1>1 DEF Push
<1>5. Repeating' = {nextBlock, nextBlock + 1}
  <2>1. Merge(f) = nextBlock + 1
    BY <1>2 DEF Merge
  <2> QED
    BY <1>2, <1>4, <2>1 DEF Repeating, Repeats, LoopKinds, Merge
<1>6. (Repeating' \ Repeating) \cap (BlockLabels \cup {currentLabel}) = {}
  BY <1>1, <1>3, <1>5, NewLabels
<1>7. BottomKept
  BY <1>1, <1>2, <1>4 DEF BottomKept, Flushing, NoReturn
<1>8. /\ <<nextBlock>> \in Seq(Label) /\ Len(<<nextBlock>>) = 1
      /\ \A t \in Range(<<nextBlock>>) : t \notin Started
  BY <1>3, Range1, ThreeFresh, Seq1
<1> QED
  BY <1>1, <1>6, <1>7, <1>8, SwitchLedger

LEMMA OpenIfLedger ==
  TypeInv /\ Control /\ Unique /\ Ledger /\ OpenIf => Ledger'
<1> SUFFICES ASSUME TypeInv, Control, Unique, Ledger, OpenIf PROVE Ledger'
  OBVIOUS
<1> DEFINE f == NewFrame("then", <<nextBlock + 1, nextBlock + 2>>, NoLabel, FALSE)
           to == <<nextBlock, nextBlock + 1>>
<1>1. /\ ~done /\ done' = done /\ fn' = fn /\ deferred' = deferred /\ nextDefer' = nextDefer
      /\ Switch("branch", to, nextBlock) /\ Push(f)
  BY DEF OpenIf, CanOpen, Unchanged_fn
<1>2. f.kind = "then"
  BY DEF NewFrame
<1>3. f.kind \notin Repeats /\ f.kind \notin FlushKinds
  BY <1>2 DEF Repeats, LoopKinds, FlushKinds
<1>4. to \in Seq(Label) /\ Len(to) = 2 /\ \A t \in Range(to) : t \notin Started
  BY <1>1, NewLabels, Range2, ThreeFresh, Seq2
<1> HIDE DEF f, to
<1>5. Repeating' \subseteq Repeating /\ BottomKept
  BY <1>1, <1>3, OpenSome
<1> QED
  BY <1>1, <1>4, <1>5, SwitchLedger

LEMMA OpenMatchLedger ==
  ASSUME TypeInv, Control, Unique, Ledger, NEW n \in 1..MaxArms, NEW wild \in BOOLEAN,
         OpenMatch(n, wild)
  PROVE  Ledger'
<1> DEFINE todo == MatchTodo(n)
           body == nextBlock + 1
           to == DispatchTo(wild, body, todo[1])
           f == [NewFrame("arm", todo, NoLabel, FALSE) EXCEPT !.fall = live /\ ~wild]
<1>1. /\ ~done /\ done' = done /\ fn' = fn /\ deferred' = deferred /\ nextDefer' = nextDefer
      /\ Switch(DispatchTerm(wild), to, body) /\ Push(f)
  BY DEF OpenMatch, CanOpen, Unchanged_fn
<1>2. f.kind = "arm"
  BY DEF NewFrame
<1>3. f.kind \notin Repeats /\ f.kind \notin FlushKinds
  BY <1>2 DEF Repeats, LoopKinds, FlushKinds
<1>4. to \in Seq(Label) /\ \A t \in Range(to) : t \notin Started
  <2>1. n \in Nat /\ n >= 1
    BY BoundsAssumption
  <2>2. Range(todo) \subseteq nextBlock..(nextBlock + (2 * n - 1)) /\ todo[1] \in Range(todo)
    <3>1. 1 \in 1..Len(todo) /\ todo \in Seq(Label)
      BY <2>1, MatchTodoType
    <3> HIDE DEF todo
    <3>2. todo[1] \in Range(todo)
      BY <3>1, InRange
    <3> QED
      BY <2>1, <3>2, MatchTodoDistinct DEF todo
  <2>3. \A l \in nextBlock..(nextBlock + (2 * n - 1)) : l \notin Started
    BY <1>1, <2>1, NewLabels
  <2>4. body \notin Started /\ todo[1] \notin Started
    BY <1>1, <2>2, <2>3, NewLabels
  <2>5. to \in Seq(Label)
    BY ThreeFresh, MatchTodoType, DispatchType
  <2> QED
    BY <2>4, <2>5, DispatchRange
<1>5. /\ DispatchTerm(wild) \in {"jump", "branch"}
      /\ Len(to) = IF DispatchTerm(wild) = "jump" THEN 1 ELSE 2
  BY DEF DispatchTerm, DispatchTo
<1> HIDE DEF f, to, body
<1>6. Repeating' \subseteq Repeating /\ BottomKept
  BY <1>1, <1>3, OpenSome
<1> QED
  BY <1>1, <1>4, <1>5, <1>6, SwitchLedger

(* The labels an open construct still has to start have no block yet.       *)
LEMMA TodoUnstarted ==
  ASSUME TypeInv, Unique, stack # <<>>
  PROVE  \A t \in Range(Top.todo) : t \notin Started
<1>1. Len(stack) \in DOMAIN stack
  BY TopType
<1>2. Range(Top.todo) \subseteq Pending
  BY <1>1 DEF Pending, Top
<1> QED
  BY <1>2, UniqueParts DEF Unique

LEMMA CloseWhileCondLedger ==
  TypeInv /\ Control /\ Unique /\ Ledger /\ CloseWhileCond => Ledger'
<1> SUFFICES ASSUME TypeInv, Control, Unique, Ledger, CloseWhileCond PROVE Ledger'
  OBVIOUS
<1> DEFINE f == [Top EXCEPT !.kind = "while", !.todo = Tail(@), !.exit = live]
           k == Len(stack)
<1>1. /\ stack # <<>> /\ Top.kind = "cond" /\ Switch("branch", Top.todo, Top.todo[1])
      /\ stack' = [stack EXCEPT ![k] = f] /\ done' = done /\ fn' = fn
      /\ deferred' = deferred /\ nextDefer' = nextDefer
  BY DEF CloseWhileCond, TopIs, ReplaceTop, Unchanged_fn
<1>2. /\ ~done /\ Top \in Frame /\ k \in DOMAIN stack /\ Top = stack[k] /\ FrameOK(Top)
  BY <1>1, TopType DEF Top
<1>3. Len(Top.todo) = 2 /\ Top.todo \in Seq(Label) /\ Tail(Top.todo) \in Seq(Label)
  BY <1>1, <1>2, TopLabels DEF FrameOK
<1>4. f.kind = "while" /\ f.todo = Tail(Top.todo) /\ f.head = Top.head
  BY <1>2 DEF Frame
<1>5. Merge(f) = Merge(Top)
  BY <1>3, <1>4 DEF Merge
<1> HIDE DEF f
<1>6. Repeating' \subseteq Repeating /\ BottomKept
  <2>1. stack[k].kind = "cond" /\ f.head = stack[k].head /\ Merge(f) = Merge(stack[k])
    BY <1>1, <1>2, <1>4, <1>5
  <2>2. f.kind \notin FlushKinds /\ stack[k].kind \notin FlushKinds /\ stack[k].kind \in Repeats
    BY <1>4, <2>1 DEF FlushKinds, Repeats
  <2> QED
    BY <1>1, <1>2, <2>1, <2>2, ChangeSome
<1> QED
  BY <1>1, <1>2, <1>3, <1>6, TodoUnstarted, SwitchLedger

LEMMA CloseThenLedger ==
  TypeInv /\ Control /\ Unique /\ Ledger /\ CloseThen => Ledger'
<1> SUFFICES ASSUME TypeInv, Control, Unique, Ledger, CloseThen PROVE Ledger'
  OBVIOUS
<1> DEFINE f == [Top EXCEPT !.kind = "else", !.todo = Tail(@), !.exit = live]
           k == Len(stack)
<1>1. /\ stack # <<>> /\ Top.kind = "then" /\ Switch("jump", <<Merge(Top)>>, Top.todo[1])
      /\ stack' = [stack EXCEPT ![k] = f] /\ done' = done /\ fn' = fn
      /\ deferred' = deferred /\ nextDefer' = nextDefer
  BY DEF CloseThen, TopIs, ReplaceTop, Unchanged_fn
<1>2. /\ ~done /\ Top \in Frame /\ k \in DOMAIN stack /\ Top = stack[k] /\ FrameOK(Top)
  BY <1>1, TopType DEF Top
<1>3. /\ Len(Top.todo) = 2 /\ Top.todo \in Seq(Label) /\ Merge(Top) \in Label
      /\ Merge(Top) \in Range(Top.todo)
  <2>1. Len(Top.todo) = 2 /\ Top.todo \in Seq(Label) /\ Merge(Top) \in Label
    BY <1>1, <1>2, TopLabels DEF FrameOK
  <2> QED
    BY <2>1, InRange DEF Merge
<1>4. f.kind = "else"
  BY <1>2 DEF Frame
<1> HIDE DEF f
<1>6. Repeating' \subseteq Repeating /\ BottomKept
  <2>1. /\ f.kind \notin FlushKinds /\ stack[k].kind \notin FlushKinds
        /\ f.kind \notin Repeats
    BY <1>1, <1>2, <1>4 DEF FlushKinds, Repeats, LoopKinds
  <2> QED
    BY <1>1, <1>2, <2>1, ChangeSome
<1>7. /\ <<Merge(Top)>> \in Seq(Label) /\ Len(<<Merge(Top)>>) = 1
      /\ \A t \in Range(<<Merge(Top)>>) : t \notin Started
  BY <1>1, <1>3, TodoUnstarted, Range1, Seq1
<1> QED
  BY <1>1, <1>2, <1>6, <1>7, SwitchLedger

LEMMA CloseExprLedger ==
  TypeInv /\ Control /\ Unique /\ Ledger /\ CloseExpr => Ledger'
<1> SUFFICES ASSUME TypeInv, Control, Unique, Ledger, CloseExpr PROVE Ledger'
  OBVIOUS
<1>1. /\ stack # <<>> /\ Top.kind \in {"else", "default", "arm"} /\ Len(Top.todo) = 1
      /\ Switch("jump", <<Merge(Top)>>, Merge(Top)) /\ Pop /\ done' = done /\ fn' = fn
      /\ deferred' = deferred /\ nextDefer' = nextDefer
  BY DEF CloseExpr, TopIs, Unchanged_fn
<1>2. ~done
  BY <1>1, TopType
<1>3. Merge(Top) \in Label /\ Merge(Top) \in Range(Top.todo)
  <2>1. Top.todo \in Seq(Label) /\ Merge(Top) \in Label
    BY <1>1, TopLabels
  <2> QED
    BY <1>1, <2>1, InRange DEF Merge
<1>4. Repeating' \subseteq Repeating /\ BottomKept
  BY <1>1, CloseSome
<1>5. /\ <<Merge(Top)>> \in Seq(Label) /\ Len(<<Merge(Top)>>) = 1
      /\ \A t \in Range(<<Merge(Top)>>) : t \notin Started
  BY <1>1, <1>3, TodoUnstarted, Range1, Seq1
<1> QED
  BY <1>1, <1>2, <1>4, <1>5, SwitchLedger

LEMMA OpenForLedger ==
  TypeInv /\ Control /\ Unique /\ Ledger /\ OpenFor => Ledger'
<1> SUFFICES ASSUME TypeInv, Control, Unique, Ledger, OpenFor PROVE Ledger'
  OBVIOUS
<1> DEFINE b == BB(currentLabel, Append(instrs, Ev("init", nextBlock)), "jump",
                   <<nextBlock>>, live)
           c == BB(nextBlock, <<>>, "lt", <<nextBlock + 1, nextBlock + 2>>, live)
           f == NewFrame("for", <<nextBlock + 2>>, nextBlock, live)
<1>1. /\ ~done /\ done' = done /\ fn' = fn /\ deferred' = deferred /\ nextDefer' = nextDefer
      /\ blocks' = blocks \o <<b, c>> /\ instrs' = <<>> /\ Push(f) /\ stack = <<>>
  BY DEF OpenFor, CanOpen, Unchanged_fn, AtLoopStmt
<1>2. PICK lvl, x : Books(blocks, lvl, x, Repeating) /\ \E now \in Nat : Open(x, now)
  BY <1>1 DEF Ledger
<1>3. PICK now \in Nat : Open(x, now)
  BY <1>2
<1>4. /\ instrs \in Seq(Event) /\ live \in BOOLEAN /\ currentLabel \in Label
      /\ blocks \in Seq(Block)
  BY <1>1 DEF TypeInv, TypeOK
<1>5. b \in Block /\ c \in Block
  <2>1. Append(instrs, Ev("init", nextBlock)) \in Seq(Event)
    BY <1>4, ThreeFresh, Cat1 DEF Ev, Event
  <2>2. b \in Block
    BY <1>4, <2>1, ThreeFresh, Seq1, BlockType DEF Terms
  <2>3. c \in Block
    BY <1>4, ThreeFresh, Seq2, EmptyIn, BlockType DEF Terms
  <2> QED
    BY <2>2, <2>3
<1>6. /\ b.label = currentLabel /\ b.code = Append(instrs, Ev("init", nextBlock))
      /\ b.term = "jump" /\ b.to = <<nextBlock>>
      /\ c.label = nextBlock /\ c.code = <<>> /\ c.term = "lt"
      /\ c.to = <<nextBlock + 1, nextBlock + 2>>
  BY DEF BB
<1>7. f.kind = "for" /\ f.todo = <<nextBlock + 2>> /\ f.head = nextBlock
  BY DEF NewFrame
<1> HIDE DEF b, c, f
<1>8. /\ nextBlock \notin Started /\ nextBlock + 1 \notin Started /\ nextBlock + 2 \notin Started
      /\ nextBlock \in Nat
  BY <1>1, NewLabels
<1>9. Takes(b.code, x, now) /\ Exits(b, now)
  <2>1. Moves(Ev("init", nextBlock), now, now)
    BY DEF Moves, Ev
  <2>2. Takes(instrs, x, now)
    BY <1>3 DEF Open
  <2>3. Takes(b.code, x, now)
    BY <1>4, <1>6, <2>1, <2>2, TakesAppend
  <2> QED
    BY <1>6, <2>3 DEF Exits
<1>10. Bare /\ Repeating = {}
  BY <1>1 DEF Bare, Repeating
<1>11. \A t \in Range(b.to) : t \notin Started
  BY <1>6, <1>8, Range1
<1> DEFINE s == Append(blocks, b)  v == Append(lvl, now)
<1>12. Books(s, v, now, {})
  BY <1>1, <1>2, <1>3, <1>5, <1>6, <1>9, <1>10, <1>11, Finish
<1>13. LabelsOf(s) = BlockLabels \cup {currentLabel} /\ s \in Seq(Block)
  BY <1>4, <1>5, <1>6, LabelsAppend, BlocksOf
<1>14. LabelsOf(s) = Started
  BY <1>1, <1>13, NewLabels
<1> DEFINE T == {nextBlock, nextBlock + 2}
<1>15. Books(s, v, now, T)
  <2>1. T \cap LabelsOf(s) = {}
    BY <1>8, <1>14
  <2>2. {} \cup T = T
    OBVIOUS
  <2> HIDE DEF s, v, T
  <2> QED
    BY <1>12, <2>1, <2>2, BooksFresh
<1>16. blocks' = Append(s, c)
  BY <1>1, <1>4
<1>17. Books(Append(s, c), Append(v, now), now, T)
  <2>1. Range(c.to) = {nextBlock + 1, nextBlock + 2}
    BY <1>6, Range2
  <2>2. \A t \in Range(c.to) : t \notin LabelsOf(s) \cup {c.label} \/ t \in T
    BY <1>6, <1>8, <1>14, <2>1
  <2>3. Exits(c, now)
    BY <1>6 DEF Exits
  <2>4. c.label \notin LabelsOf(s)
    BY <1>6, <1>8, <1>14
  <2> HIDE DEF s, v, T
  <2> QED
    BY <1>5, <1>6, <1>15, <2>2, <2>3, <2>4, BooksEmpty
<1>18. stack' = <<f>> /\ stack' # <<>> /\ stack'[1] = f /\ DOMAIN stack' = {1}
  BY <1>1 DEF Push
<1>19. Repeating' = T
  <2>1. Merge(f) = nextBlock + 2
    BY <1>7 DEF Merge
  <2> QED
    BY <1>7, <1>18, <2>1 DEF Repeating, Repeats, LoopKinds, Merge
<1>20. BottomKept
  BY <1>1, <1>7, <1>18 DEF BottomKept, Flushing, NoReturn
<1> DEFINE u == Append(v, now)
<1>21. Books(blocks', u, now, T)
  BY <1>16, <1>17
<1> HIDE DEF u, v, s, T
<1>22. Open(now, now)'
  <2>1. Takes(instrs', now, now)
    BY <1>1, TakesNothing
  <2>2. Owed(now)'
    BY <1>1, <1>3, <1>20 DEF Owed, Open, BottomKept
  <2> QED
    BY <1>1, <1>3, <1>20, <2>1, <2>2 DEF Open, BottomKept
<1>23. ~done'
  BY <1>1
<1>24. fn' \in FnKinds
  BY <1>1 DEF Ledger
<1>25. Books(blocks', u, now, Repeating')
  BY <1>19, <1>21
<1> QED
  BY <1>22, <1>23, <1>24, <1>25 DEF Ledger

LEMMA CloseLoopLedger ==
  TypeInv /\ Control /\ Unique /\ Loops /\ Ledger /\ CloseLoop => Ledger'
<1> SUFFICES ASSUME TypeInv, Control, Unique, Loops, Ledger, CloseLoop PROVE Ledger'
  OBVIOUS
<1> DEFINE b == BB(currentLabel, instrs \o CounterStep(Top), "jump", <<Top.head>>, live)
<1>1. /\ stack # <<>> /\ Top.kind \in LoopKinds /\ blocks' = Append(blocks, b)
      /\ instrs' = <<>> /\ Pop /\ done' = done /\ fn' = fn
      /\ deferred' = deferred /\ nextDefer' = nextDefer
  BY DEF CloseLoop, TopIs, Unchanged_fn
<1>2. ~done /\ FrameOK(Top)
  BY <1>1, TopType
<1>3. Len(stack) = 1 /\ Top = stack[1] /\ Top.kind \in Repeats
  BY <1>1, LoopAlone DEF Repeats
<1>4. PICK lvl, x : Books(blocks, lvl, x, Repeating) /\ \E now \in Nat : Open(x, now)
  BY <1>2 DEF Ledger
<1>5. PICK now \in Nat : Open(x, now)
  BY <1>4
<1>6. ~Bare
  <2>1. 1 \in DOMAIN stack
    BY <1>1, StackBounds
  <2> QED
    BY <1>1, <1>3, <2>1 DEF Bare, LoopKinds
<1>7. instrs = <<>> /\ Takes(instrs, x, now)
  BY <1>5, <1>6 DEF Open
<1>8. b \in Block
  <2>1. Top.head \in Label /\ live \in BOOLEAN /\ currentLabel \in Label
    BY <1>1, <1>2 DEF FrameOK, TypeInv, TypeOK
  <2>2. Ev("inc", Top.head) \in Event
    BY <2>1 DEF Ev, Event, Label, Entry
  <2>3. instrs \o CounterStep(Top) \in Seq(Event)
    <3>1. CounterStep(Top) \in Seq(Event) /\ instrs \in Seq(Event)
      BY <2>2, Seq1, EmptyIn DEF CounterStep, TypeInv, TypeOK
    <3> QED
      BY <3>1
  <2> QED
    BY <2>1, <2>3, Seq1, BlockType DEF Terms
<1>9. /\ b.label = currentLabel /\ b.term = "jump" /\ b.to = <<Top.head>>
      /\ b.code = instrs \o CounterStep(Top)
  BY DEF BB
<1> HIDE DEF b
<1>10. Takes(b.code, x, now) /\ Exits(b, now)
  <2>1. CASE Top.kind = "for"
    <3>1. b.code = Append(<<>>, Ev("inc", Top.head))
      BY <1>7, <1>9, <2>1 DEF CounterStep
    <3>2. Moves(Ev("inc", Top.head), now, now)
      BY DEF Moves, Ev
    <3>3. <<>> \in Seq(Event)
      BY EmptyIn
    <3>4. Takes(b.code, x, now)
      BY <1>7, <3>1, <3>2, <3>3, TakesAppend
    <3> QED
      BY <1>9, <3>4 DEF Exits
  <2>2. CASE Top.kind # "for"
    <3>1. b.code = <<>>
      BY <1>7, <1>9, <2>2 DEF CounterStep
    <3> QED
      BY <1>7, <1>9, <3>1 DEF Exits
  <2> QED
    BY <2>1, <2>2
<1>11. \A t \in Range(b.to) : ~Bare /\ t \in Repeating
  BY <1>1, <1>3, <1>6, <1>9, Range1 DEF Repeating
<1>12. Books(blocks', Append(lvl, now), now, Repeating)
  BY <1>1, <1>2, <1>4, <1>5, <1>8, <1>9, <1>10, <1>11, Finish
<1>13. Repeating' \subseteq Repeating /\ BottomKept
  BY <1>1, CloseSome DEF LoopKinds
<1> QED
  BY <1>1, <1>2, <1>5, <1>12, <1>13, Reopen

(* The current block is finished with a branch, and blocks that hold        *)
(* nothing follow: b is finished first, then c.                             *)
LEMMA FinishTwo ==
  ASSUME TypeInv, Control, Unique, ~done, NEW lvl, NEW x, NEW now \in Nat,
         Books(blocks, lvl, x, Repeating), Open(x, now),
         NEW b \in Block, b.label = currentLabel, b.code = instrs, Exits(b, now),
         \A t \in Range(b.to) : t \notin Started,
         NEW c \in Block, c.label \notin Started, c.code = <<>>, Exits(c, now),
         \A t \in Range(c.to) : t \notin Started \cup {c.label}
  PROVE  /\ Books(Append(Append(blocks, b), c), Append(Append(lvl, now), now), now, Repeating)
         /\ LabelsOf(Append(Append(blocks, b), c)) = Started \cup {c.label}
<1> DEFINE s == Append(blocks, b)  v == Append(lvl, now)
<1>1. blocks \in Seq(Block)
  BY DEF TypeInv, TypeOK
<1>2. LabelsOf(s) = Started /\ s \in Seq(Block)
  <2>1. LabelsOf(s) = LabelsOf(blocks) \cup {currentLabel} /\ s \in Seq(Block)
    BY <1>1, LabelsAppend
  <2> QED
    BY <2>1, BlocksOf DEF Started
<1>3. Takes(b.code, x, now)
  BY DEF Open
<1>4. Books(s, v, now, Repeating)
  BY <1>3, Finish
<1>5. \A t \in Range(c.to) : t \notin LabelsOf(s) \cup {c.label} \/ t \in Repeating
  BY <1>2
<1>6. c.label \notin LabelsOf(s)
  BY <1>2
<1> HIDE DEF s, v
<1>7. Books(Append(s, c), Append(v, now), now, Repeating)
  BY <1>4, <1>5, <1>6, BooksEmpty
<1>8. LabelsOf(Append(s, c)) = LabelsOf(s) \cup {c.label}
  BY <1>2, LabelsAppend
<1> QED
  BY <1>2, <1>7, <1>8 DEF s, v

LEMMA OrOpLedger ==
  ASSUME TypeInv, Control, Unique, Ledger, NEW op, NEW errTerm \in {"jump", "unreachable"},
         NEW errTo \in Seq(Label), errTerm = "jump" => errTo = <<nextBlock + 2>>,
         errTerm = "unreachable" => errTo = <<>>, OrOp(op, errTerm, errTo)
  PROVE  Ledger'
<1> DEFINE b == Finished("branch", <<nextBlock, nextBlock + 1>>)
           c == BB(nextBlock, <<>>, "jump", <<nextBlock + 2>>, live)
           d == BB(nextBlock + 1, <<>>, errTerm, errTo, live)
<1>1. /\ ~done /\ done' = done /\ fn' = fn /\ deferred' = deferred /\ nextDefer' = nextDefer
      /\ blocks' = blocks \o <<b, c, d>> /\ instrs' = <<>> /\ stack' = stack
  BY DEF OrOp, CanOpen, Unchanged_fn
<1>2. PICK lvl, x : Books(blocks, lvl, x, Repeating) /\ \E now \in Nat : Open(x, now)
  BY <1>1 DEF Ledger
<1>3. PICK now \in Nat : Open(x, now)
  BY <1>2
<1>4. /\ instrs \in Seq(Event) /\ live \in BOOLEAN /\ currentLabel \in Label
      /\ blocks \in Seq(Block)
  BY <1>1 DEF TypeInv, TypeOK
<1>5. b \in Block /\ c \in Block /\ d \in Block
  <2>1. b \in Block
    BY <1>4, ThreeFresh, Seq2, BlockType DEF Finished, Terms
  <2>2. c \in Block
    BY <1>4, ThreeFresh, Seq1, EmptyIn, BlockType DEF Terms
  <2>3. d \in Block
    BY <1>4, ThreeFresh, EmptyIn, BlockType DEF Terms
  <2> QED
    BY <2>1, <2>2, <2>3
<1>6. /\ b.label = currentLabel /\ b.code = instrs /\ b.term = "branch"
      /\ b.to = <<nextBlock, nextBlock + 1>>
      /\ c.label = nextBlock /\ c.code = <<>> /\ c.term = "jump" /\ c.to = <<nextBlock + 2>>
      /\ d.label = nextBlock + 1 /\ d.code = <<>> /\ d.term = errTerm /\ d.to = errTo
  BY DEF BB, Finished
<1> HIDE DEF b, c, d
<1>8. /\ nextBlock \notin Started /\ nextBlock + 1 \notin Started /\ nextBlock + 2 \notin Started
      /\ nextBlock \in Nat
  BY <1>1, NewLabels
<1>9. Exits(b, now) /\ Exits(c, now) /\ Exits(d, now)
  BY <1>6 DEF Exits
<1>10. \A t \in Range(b.to) : t \notin Started
  BY <1>6, <1>8, Range2
<1>11. \A t \in Range(c.to) : t \notin Started \cup {c.label}
  BY <1>6, <1>8, Range1
<1> DEFINE s == Append(Append(blocks, b), c)
           v == Append(Append(lvl, now), now)
<1>12. Books(s, v, now, Repeating) /\ LabelsOf(s) = Started \cup {c.label}
  <2>1. c.label \notin Started
    BY <1>6, <1>8
  <2>2. Books(s, v, now, Repeating)
    BY <1>1, <1>2, <1>3, <1>5, <1>6, <1>9, <1>10, <1>11, <2>1, FinishTwo
  <2>3. LabelsOf(s) = Started \cup {c.label}
    <3>1. LabelsOf(Append(blocks, b)) = LabelsOf(blocks) \cup {b.label}
          /\ Append(blocks, b) \in Seq(Block)
      BY <1>4, <1>5, LabelsAppend
    <3>2. LabelsOf(s) = LabelsOf(Append(blocks, b)) \cup {c.label}
      BY <3>1, LabelsAppend
    <3>3. Started = LabelsOf(blocks) \cup {b.label}
      BY <1>1, <1>6, BlocksOf DEF Started
    <3> QED
      BY <3>1, <3>2, <3>3
  <2> QED
    BY <2>2, <2>3
<1>13. \A t \in Range(d.to) : t \notin LabelsOf(s) \cup {d.label} \/ t \in Repeating
  BY <1>6, <1>8, <1>12, Range0, Range1
<1>14. d.label \notin LabelsOf(s)
  BY <1>6, <1>8, <1>12
<1>15. blocks' = Append(s, d)
  BY <1>1, <1>4
<1> DEFINE u == Append(v, now)
<1>16. Books(blocks', u, now, Repeating)
  <2> HIDE DEF s, v
  <2>1. Books(Append(s, d), Append(v, now), now, Repeating)
    BY <1>5, <1>6, <1>9, <1>12, <1>13, <1>14, BooksEmpty
  <2> QED
    BY <1>15, <2>1
<1>17. Repeating' = Repeating /\ BottomKept
  BY <1>1 DEF Repeating, BottomKept, Flushing, NoReturn, Merge
<1>18. (Repeating' \ Repeating) \cap LabelsOf(blocks') = {}
  BY <1>17
<1> HIDE DEF u
<1> QED
  BY <1>1, <1>3, <1>16, <1>17, <1>18, Reopen

LEMMA OpenOrElseLedger ==
  TypeInv /\ Control /\ Unique /\ Ledger /\ OpenOrElse => Ledger'
<1> SUFFICES ASSUME TypeInv, Control, Unique, Ledger, OpenOrElse PROVE Ledger'
  OBVIOUS
<1> DEFINE b == Finished("branch", <<nextBlock, nextBlock + 1>>)
           c == BB(nextBlock, <<>>, "jump", <<nextBlock + 2>>, live)
           f == NewFrame("default", <<nextBlock + 2>>, NoLabel, live)
<1>1. /\ ~done /\ done' = done /\ fn' = fn /\ deferred' = deferred /\ nextDefer' = nextDefer
      /\ blocks' = blocks \o <<b, c>> /\ instrs' = <<>> /\ Push(f)
  BY DEF OpenOrElse, CanOpen, Unchanged_fn
<1>2. PICK lvl, x : Books(blocks, lvl, x, Repeating) /\ \E now \in Nat : Open(x, now)
  BY <1>1 DEF Ledger
<1>3. PICK now \in Nat : Open(x, now)
  BY <1>2
<1>4. /\ instrs \in Seq(Event) /\ live \in BOOLEAN /\ currentLabel \in Label
      /\ blocks \in Seq(Block)
  BY <1>1 DEF TypeInv, TypeOK
<1>5. b \in Block /\ c \in Block
  <2>1. b \in Block
    BY <1>4, ThreeFresh, Seq2, BlockType DEF Finished, Terms
  <2>2. c \in Block
    BY <1>4, ThreeFresh, Seq1, EmptyIn, BlockType DEF Terms
  <2> QED
    BY <2>1, <2>2
<1>6. /\ b.label = currentLabel /\ b.code = instrs /\ b.term = "branch"
      /\ b.to = <<nextBlock, nextBlock + 1>>
      /\ c.label = nextBlock /\ c.code = <<>> /\ c.term = "jump" /\ c.to = <<nextBlock + 2>>
  BY DEF BB, Finished
<1>7. f.kind = "default"
  BY DEF NewFrame
<1> HIDE DEF b, c, f
<1>8. /\ nextBlock \notin Started /\ nextBlock + 1 \notin Started /\ nextBlock + 2 \notin Started
      /\ nextBlock \in Nat
  BY <1>1, NewLabels
<1>9. Exits(b, now) /\ Exits(c, now)
  BY <1>6 DEF Exits
<1>10. \A t \in Range(b.to) : t \notin Started
  BY <1>6, <1>8, Range2
<1>11. \A t \in Range(c.to) : t \notin Started \cup {c.label}
  BY <1>6, <1>8, Range1
<1> DEFINE s == Append(Append(blocks, b), c)
           v == Append(Append(lvl, now), now)
<1>12. Books(s, v, now, Repeating)
  BY <1>1, <1>2, <1>3, <1>5, <1>6, <1>8, <1>9, <1>10, <1>11, FinishTwo
<1>13. blocks' = s
  BY <1>1, <1>4
<1>14. Repeating' \subseteq Repeating /\ BottomKept
  BY <1>1, <1>7, OpenSome DEF Repeats, LoopKinds, FlushKinds
<1>15. (Repeating' \ Repeating) \cap LabelsOf(blocks') = {} /\ Books(blocks', v, now, Repeating)
  BY <1>12, <1>13, <1>14
<1> HIDE DEF s, v
<1> QED
  BY <1>1, <1>3, <1>14, <1>15, Reopen

LEMMA NextArmLedger ==
  ASSUME TypeInv, Control, Unique, Ledger, NEW wild \in BOOLEAN, NextArm(wild)
  PROVE  Ledger'
<1> DEFINE t == Top.todo
           b == Finished("jump", <<Merge(Top)>>)
           c == BB(t[1], <<>>, DispatchTerm(wild), DispatchTo(wild, t[2], t[3]), Top.fall)
           f == [Top EXCEPT !.todo = Tail(Tail(@)), !.exit = @ \/ live, !.fall = @ /\ ~wild]
           k == Len(stack)
<1>1. /\ stack # <<>> /\ Top.kind = "arm" /\ Len(t) >= 3 /\ blocks' = blocks \o <<b, c>>
      /\ instrs' = <<>> /\ stack' = [stack EXCEPT ![k] = f]
      /\ done' = done /\ fn' = fn /\ deferred' = deferred /\ nextDefer' = nextDefer
  BY DEF NextArm, TopIs, ReplaceTop, Unchanged_fn
<1>2. /\ ~done /\ Top \in Frame /\ t \in Seq(Label) /\ k \in DOMAIN stack
      /\ Top = stack[k] /\ Top.fall \in BOOLEAN
  BY <1>1, TopType, TopLabels DEF Top
<1>3. PICK lvl, x : Books(blocks, lvl, x, Repeating) /\ \E now \in Nat : Open(x, now)
  BY <1>2 DEF Ledger
<1>4. PICK now \in Nat : Open(x, now)
  BY <1>3
<1>5. /\ instrs \in Seq(Event) /\ live \in BOOLEAN /\ currentLabel \in Label
      /\ blocks \in Seq(Block)
  BY <1>2 DEF TypeInv, TypeOK
<1>6. /\ 1 \in 1..Len(t) /\ 2 \in 1..Len(t) /\ 3 \in 1..Len(t) /\ Len(t) \in 1..Len(t)
      /\ Merge(Top) = t[Len(t)] /\ DOMAIN t = 1..Len(t) /\ Len(t) \in Nat
  BY <1>1, <1>2 DEF Merge
<1>7. /\ t[1] \in Label /\ t[2] \in Label /\ t[3] \in Label /\ Merge(Top) \in Label
      /\ t[1] \notin Started /\ t[2] \notin Started /\ t[3] \notin Started
      /\ Merge(Top) \notin Started
  <2>1. \A i \in 1..Len(t) : t[i] \in Range(t) /\ t[i] \in Label
    BY <1>2, InRange
  <2>2. \A i \in 1..Len(t) : t[i] \notin Started
    BY <1>1, <2>1, TodoUnstarted
  <2> HIDE DEF t
  <2> QED
    BY <1>6, <2>1, <2>2
<1>8. t[1] # t[2] /\ t[1] # t[3]
  <2>1. DistinctTodo(stack)
    BY UniqueParts DEF Unique
  <2>2. \A i, j \in DOMAIN t : t[i] = t[j] => i = j
    BY <1>2, <2>1 DEF DistinctTodo
  <2> HIDE DEF t
  <2> QED
    BY <1>6, <2>2
<1>9. b \in Block /\ c \in Block
  <2>1. b \in Block
    BY <1>5, <1>7, Seq1, BlockType DEF Finished, Terms
  <2>2. DispatchTerm(wild) \in Terms /\ DispatchTo(wild, t[2], t[3]) \in Seq(Label)
    BY <1>7, DispatchType
  <2>3. c \in Block
    BY <1>2, <1>7, <2>2, EmptyIn, BlockType
  <2> QED
    BY <2>1, <2>3
<1>10. /\ b.label = currentLabel /\ b.code = instrs /\ b.term = "jump" /\ b.to = <<Merge(Top)>>
       /\ c.label = t[1] /\ c.code = <<>> /\ c.term = DispatchTerm(wild)
       /\ c.to = DispatchTo(wild, t[2], t[3])
  BY DEF BB, Finished
<1>11. f.kind = "arm"
  BY <1>1, <1>2 DEF Frame
<1> HIDE DEF b, c, f
<1>12. Exits(b, now) /\ Exits(c, now)
  BY <1>10 DEF Exits, DispatchTerm, DispatchTo
<1>13. \A l \in Range(b.to) : l \notin Started
  BY <1>7, <1>10, Range1
<1>14. \A l \in Range(c.to) : l \notin Started \cup {c.label}
  BY <1>7, <1>8, <1>10, DispatchRange
<1>15. c.label \notin Started
  BY <1>7, <1>10
<1> DEFINE s == Append(Append(blocks, b), c)
           v == Append(Append(lvl, now), now)
<1>16. Books(s, v, now, Repeating)
  BY <1>2, <1>3, <1>4, <1>9, <1>10, <1>12, <1>13, <1>14, <1>15, FinishTwo
<1>17. blocks' = s
  BY <1>1, <1>5
<1>18. Repeating' \subseteq Repeating /\ BottomKept
  <2>1. /\ f.kind \notin FlushKinds /\ stack[k].kind \notin FlushKinds
        /\ f.kind \notin Repeats
    BY <1>1, <1>2, <1>11 DEF FlushKinds, Repeats, LoopKinds
  <2> HIDE DEF k
  <2> QED
    BY <1>1, <1>2, <2>1, ChangeSome DEF k
<1>19. (Repeating' \ Repeating) \cap LabelsOf(blocks') = {} /\ Books(blocks', v, now, Repeating)
  BY <1>16, <1>17, <1>18
<1> HIDE DEF s, v, t, k
<1> QED
  BY <1>1, <1>2, <1>4, <1>18, <1>19, Reopen

(* The function is handed over with nothing queued.                         *)
LEMMA FinishLedger ==
  ASSUME TypeInv, Control, Unique, Ledger, ~done, done', fn' = fn, NEW lvl, NEW x,
         Books(blocks, lvl, x, Repeating), Open(x, 0), Switch("return", <<>>, NoLabel)
  PROVE  Ledger'
<1> DEFINE b == Finished("return", <<>>)
<1>1. b \in Block
  BY EmptyIn, BlockType DEF Finished, TypeInv, TypeOK, Terms
<1>2. /\ b.label = currentLabel /\ b.code = instrs /\ b.to = <<>> /\ b.term = "return"
      /\ blocks' = Append(blocks, b)
  BY DEF Switch, Finished, BB
<1>3. Exits(b, 0) /\ Takes(b.code, x, 0)
  BY <1>2 DEF Exits, Open
<1> HIDE DEF b
<1>4. \A t \in Range(b.to) : t \notin Started \/ (~Bare /\ t \in Repeating)
  BY <1>2, Range0
<1>5. Books(Append(blocks, b), Append(lvl, 0), 0, Repeating)
  BY <1>1, <1>2, <1>3, <1>4, Finish
<1>6. Books(blocks', Append(lvl, 0), 0, {})
  BY <1>2, <1>5 DEF Books
<1>7. fn' \in FnKinds
  BY DEF Ledger
<1> QED
  BY <1>6, <1>7 DEF Ledger

(* The Lowerer's queue begins to be flushed at the end of the function.     *)
LEMMA EndFnLedger ==
  TypeInv /\ Control /\ Unique /\ Ledger /\ EndFn => Ledger'
<1> SUFFICES ASSUME TypeInv, Control, Unique, Ledger, EndFn PROVE Ledger'
  OBVIOUS
<1>1. ~done /\ stack = <<>> /\ nextDefer' = nextDefer
  BY DEF EndFn
<1>2. PICK lvl, x : Books(blocks, lvl, x, Repeating) /\ \E now \in Nat : Open(x, now)
  BY <1>1 DEF Ledger
<1>3. PICK now \in Nat : Open(x, now)
  BY <1>2
<1>4. deferred = Countup(now) /\ Takes(instrs, x, now)
  BY <1>1, <1>3 DEF Open, Owed, Flushing
<1>5. CASE deferred = <<>>
  <2>1. Switch("return", <<>>, NoLabel) /\ done' = TRUE /\ fn' = fn
    BY <1>5 DEF EndFn, FinishFn
  <2>2. now = 0
    BY <1>4, <1>5, CountLess
  <2> QED
    BY <1>1, <1>2, <1>3, <2>1, <2>2, FinishLedger
<1>6. CASE deferred # <<>>
  <2> DEFINE f == [NewFrame("flush_exit", <<>>, NoLabel, FALSE)
                     EXCEPT !.rest = Reverse(Front(deferred))]
  <2>1. /\ instrs' = Append(instrs, Ev("run", deferred[Len(deferred)]))
        /\ Push(f) /\ deferred' = <<>> /\ done' = done /\ fn' = fn /\ blocks' = blocks
    BY <1>6 DEF EndFn, BeginFlush, Emit
  <2>2. now # 0 /\ now - 1 \in Nat
    BY <1>4, <1>6, CountNothing
  <2>3. /\ deferred[Len(deferred)] = now - 1
        /\ Reverse(Front(deferred)) = Countdown(now - 1)
    BY <1>4, <2>2, CountLess, CountBack
  <2>4. f.kind = "flush_exit" /\ f.rest = Countdown(now - 1)
    BY <2>3 DEF NewFrame
  <2> HIDE DEF f
  <2>5. stack' = <<f>> /\ stack' # <<>> /\ stack'[1] = f /\ DOMAIN stack' = {1}
    BY <1>1, <2>1 DEF Push
  <2>6. Takes(instrs', x, now - 1)
    <3>1. instrs \in Seq(Event)
      BY DEF TypeInv, TypeOK
    <3> QED
      BY <1>4, <2>1, <2>2, <2>3, <3>1, RunMoves, TakesAppend
  <2>7. Flushing' /\ NoReturn' /\ Bare' /\ Repeating' = {} /\ Repeating = {}
    BY <1>1, <2>4, <2>5 DEF Flushing, NoReturn, Bare, Repeating, Repeats, LoopKinds
  <2>8. Open(x, now - 1)'
    BY <2>1, <2>4, <2>5, <2>6, <2>7 DEF Open, Owed
  <2> QED
    BY <1>1, <1>2, <2>1, <2>2, <2>7, <2>8 DEF Ledger
<1> QED
  BY <1>5, <1>6

LEMMA EndFlushExitLedger ==
  TypeInv /\ Control /\ Unique /\ Ledger /\ EndFlushExit => Ledger'
<1> SUFFICES ASSUME TypeInv, Control, Unique, Ledger, EndFlushExit PROVE Ledger'
  OBVIOUS
<1>1. /\ stack # <<>> /\ Top.kind = "flush_exit" /\ Top.rest = <<>>
      /\ Switch("return", <<>>, NoLabel) /\ done' = TRUE /\ fn' = fn
  BY DEF EndFlushExit, TopIs, FinishFn
<1>2. ~done /\ Top \in Frame /\ Len(stack) \in DOMAIN stack
  BY <1>1, TopType
<1>3. PICK lvl, x : Books(blocks, lvl, x, Repeating) /\ \E now \in Nat : Open(x, now)
  BY <1>2 DEF Ledger
<1>4. PICK now \in Nat : Open(x, now)
  BY <1>3
<1>5. Len(stack) = 1 /\ Top = stack[1]
  BY <1>1, <1>2 DEF Top, TypeInv, Shape, StackOK
<1>6. Top.rest = Countdown(now)
  BY <1>1, <1>4, <1>5 DEF Open, Owed, Flushing
<1>7. now = 0
  BY <1>1, <1>6, CountLess
<1> QED
  BY <1>1, <1>2, <1>3, <1>4, <1>7, FinishLedger

LEMMA BooksNothing == \E v : Books(<<>>, v, 0, {})
<1> DEFINE v == <<0>>
<1>1. v \in Seq(Nat) /\ Len(v) = 1 /\ v[1] = 0 /\ Len(<<>>) = 0 /\ DOMAIN <<>> = {}
  OBVIOUS
<1>2. <<>> \in Seq(Block)
  BY EmptyIn
<1> HIDE DEF v
<1>3. Books(<<>>, v, 0, {})
  BY <1>1, <1>2 DEF Books, Fits
<1> QED
  BY <1>3

LEMMA LedgerInit == Init => Ledger
<1> SUFFICES ASSUME Init PROVE Ledger
  OBVIOUS
<1>1. /\ blocks = <<>> /\ ~done /\ instrs = <<>> /\ stack = <<>> /\ deferred = <<>>
      /\ nextDefer = 0 /\ fn \in FnKinds
  BY DEF Init
<1>2. Repeating = {} /\ NoReturn /\ Takes(instrs, 0, 0) /\ Owed(0)
  BY <1>1, TakesNothing, CountNothing DEF Repeating, NoReturn, Owed, Flushing
<1>3. Open(0, 0)
  BY <1>1, <1>2 DEF Open
<1> QED
  BY <1>1, <1>2, <1>3, BooksNothing DEF Ledger

LEMMA ResetFnLedger == ResetFn => Ledger'
<1> SUFFICES ASSUME ResetFn PROVE Ledger'
  OBVIOUS
<1>1. /\ blocks' = <<>> /\ ~done' /\ instrs' = <<>> /\ stack' = <<>> /\ deferred' = <<>>
      /\ nextDefer' = 0 /\ fn' \in FnKinds
  BY DEF ResetFn
<1>2. Repeating' = {} /\ NoReturn' /\ Takes(instrs', 0, 0) /\ Owed(0)'
  BY <1>1, TakesNothing, CountNothing DEF Repeating, NoReturn, Owed, Flushing
<1>3. Open(0, 0)'
  BY <1>1, <1>2 DEF Open
<1> QED
  BY <1>1, <1>2, <1>3, BooksNothing DEF Ledger

LEMMA LedgerSame == Ledger /\ UNCHANGED vars => Ledger'
<1> SUFFICES ASSUME Ledger, UNCHANGED vars PROVE Ledger'
  OBVIOUS
<1>1. /\ fn' = fn /\ done' = done /\ nextDefer' = nextDefer /\ instrs' = instrs
      /\ blocks' = blocks /\ deferred' = deferred /\ stack' = stack
  BY DEF vars
<1>2. Repeating' = Repeating /\ NoReturn' = NoReturn /\ Bare' = Bare /\ Flushing' = Flushing
  BY <1>1 DEF Repeating, Merge, NoReturn, Bare, Flushing
<1>3. ASSUME NEW x, NEW now, Open(x, now) PROVE Open(x, now)'
  BY <1>1, <1>2, <1>3 DEF Open, Owed
<1> QED
  BY <1>1, <1>2, <1>3 DEF Ledger

LEMMA LedgerStep ==
  ASSUME Plain, TypeInv, Control, Unique, Loops, Ledger, [Next]_vars
  PROVE  Ledger'
<1>1. CASE UNCHANGED vars
  BY <1>1, LedgerSame
<1>2. CASE Stmt
  <2>1. ~LowerReturn
    BY DEF LowerReturn, CanOpen, Plain
  <2>2. ~EndFlushReturn
    <3>1. ASSUME EndFlushReturn PROVE FALSE
      <4>1. stack # <<>> /\ Top.kind = "flush_return"
        BY <3>1 DEF EndFlushReturn, TopIs
      <4>2. Len(stack) \in DOMAIN stack /\ ~done
        BY <4>1, TopType
      <4>3. NoReturn
        BY <4>2 DEF Ledger, Open
      <4> QED
        BY <4>1, <4>2, <4>3 DEF NoReturn, Top
    <3> QED
      BY <3>1
  <2> QED
    BY <1>2, <2>1, <2>2, LowerDeferLedger, FlushNextLedger, LowerBreakLedger,
       LowerContinueLedger, OpenForLedger, OpenWhileLedger, CloseWhileCondLedger,
       OpenLoopLedger, CloseLoopLedger DEF Stmt
<1>3. CASE Expr
  <2>1. ~OrReturn /\ ~EmptyMatch
    BY DEF OrReturn, OrOp, EmptyMatch, CanOpen, Plain
  <2>2. ASSUME OrPanic PROVE Ledger'
    <3>1. OrOp("or_panic", "unreachable", <<>>) /\ <<>> \in Seq(Label)
      BY <2>2, EmptyIn DEF OrPanic
    <3> QED
      BY <3>1, OrOpLedger
  <2>3. ASSUME OrZero PROVE Ledger'
    <3>1. OrOp("or_zero", "jump", <<nextBlock + 2>>) /\ <<nextBlock + 2>> \in Seq(Label)
      BY <2>3, ThreeFresh, Seq1 DEF OrZero
    <3> QED
      BY <3>1, OrOpLedger
  <2>4. ASSUME NEW n \in 1..MaxArms, NEW wild \in BOOLEAN, OpenMatch(n, wild) PROVE Ledger'
    BY <2>4, OpenMatchLedger
  <2>5. ASSUME NEW wild \in BOOLEAN, NextArm(wild) PROVE Ledger'
    BY <2>5, NextArmLedger
  <2> QED
    BY <1>3, <2>1, <2>2, <2>3, <2>4, <2>5, OpenOrElseLedger, OpenIfLedger, CloseThenLedger,
       CloseExprLedger DEF Expr
<1>4. CASE Fn
  <2>1. ~EndMain
    BY DEF EndMain, Ledger, Plain
  <2> QED
    BY <1>4, <2>1, EndFnLedger, EndFlushExitLedger, ResetFnLedger DEF Fn
<1> QED
  BY <1>1, <1>2, <1>3, <1>4 DEF Next

-----------------------------------------------------------------------------
(* The call.                                                                *)

LEMMA CutOut ==
  ASSUME NEW q, NEW k
  PROVE  RemoveAt(q, k) = SubSeq(q, 1, k - 1) \o SubSeq(q, k + 1, Len(q))
  BY DEF RemoveAt

LEMMA RemoveTop ==
  ASSUME NEW m \in Nat
  PROVE  RemoveFirst(Countup(m + 1), m) = Countup(m)
<1> DEFINE s == Countup(m + 1)
<1>1. s \in Seq(Nat) /\ Len(s) = m + 1 /\ \A j \in 1..(m + 1) : s[j] = j - 1
  BY DEF Countup
<1>2. 1..Len(s) = 1..(m + 1) /\ m + 1 \in 1..(m + 1) /\ s[m + 1] = m
  BY <1>1
<1>3. {i \in 1..Len(s) : s[i] = m} = {m + 1}
  BY <1>1
<1> HIDE DEF s
<1>4. SelectInSeq(s, LAMBDA v : v = m) = m + 1
  <2>1. \E i \in {m + 1} : \A j \in {m + 1} : i <= j
    OBVIOUS
  <2>2. Min({m + 1}) = m + 1
    BY <2>1 DEF Min
  <2> QED
    BY <1>3, <2>2 DEF SelectInSeq
<1>5. RemoveFirst(s, m) = RemoveAt(s, m + 1)
  BY <1>2, <1>4 DEF RemoveFirst
<1>6. PICK k : k = m + 1
  OBVIOUS
<1>7. RemoveAt(s, k) = SubSeq(s, 1, k - 1) \o SubSeq(s, k + 1, Len(s))
  BY CutOut
<1>8. RemoveAt(s, k) = Countup(m)
  <2>1. SubSeq(s, 1, k - 1) \in Seq(Nat) /\ Len(SubSeq(s, 1, k - 1)) = m
        /\ \A j \in 1..m : SubSeq(s, 1, k - 1)[j] = j - 1
    BY <1>1, <1>6
  <2>2. SubSeq(s, k + 1, Len(s)) = <<>>
    BY <1>1, <1>6
  <2>3. Countup(m) \in Seq(Nat) /\ Len(Countup(m)) = m /\ \A j \in 1..m : Countup(m)[j] = j - 1
    BY DEF Countup
  <2>4. SubSeq(s, 1, k - 1) = Countup(m)
    BY <2>1, <2>3, SameSeq
  <2>5. \A t \in Seq(Nat) : t \o <<>> = t
    OBVIOUS
  <2> QED
    BY <1>7, <2>2, <2>3, <2>4, <2>5
<1> QED
  BY <1>5, <1>6, <1>8 DEF s

(* What holds of the Lowerer all along. *)
Lowering == TypeInv /\ Control /\ Unique /\ Loops /\ Ledger

LEMMA LoweringInit == Init => Lowering
  BY TypeInit, ControlInit, UniqueInit, LoopsInit, LedgerInit DEF Lowering

LEMMA LoweringStep == ASSUME Plain, Lowering, [Next]_vars PROVE Lowering'
<1>1. "empty_match" \notin Constructs
  BY DEF Plain
<1> QED
  BY <1>1, TypeStep, ControlStep, UniqueStep, LoopsStep, LedgerStep DEF Lowering

(* Control is in a block with label l, p of its events done, and q is what  *)
(* they have left queued.                                                   *)
In(s, lvl, h, d, l, p, q) ==
    /\ h \in DOMAIN s /\ s[h].label = l
    /\ Trace(s[h].code, d) /\ d[0] = lvl[h] /\ d[Len(s[h].code)] = lvl[h + 1]
    /\ p \in 0..Len(s[h].code) /\ q = Countup(d[p])

Calling ==
    /\ ~Lowered => at = Entry /\ pos = 0 /\ pending = <<>> /\ ~aborted
    /\ Lowered /\ at # NoLabel =>
          /\ ~aborted
          /\ \E lvl, x : /\ Books(blocks, lvl, x, {})
                         /\ \E h, d : In(blocks, lvl, h, d, at, pos, pending)

LEMMA EnterBlock ==
  ASSUME NEW s, NEW lvl, NEW x, Books(s, lvl, x, {}), NEW h \in DOMAIN s
  PROVE  \E g, d : In(s, lvl, g, d, s[h].label, 0, Countup(lvl[h]))
<1>1. Takes(s[h].code, lvl[h], lvl[h + 1])
  BY DEF Books, Fits
<1>2. PICK d : Trace(s[h].code, d) /\ d[0] = lvl[h] /\ d[Len(s[h].code)] = lvl[h + 1]
  BY <1>1 DEF Takes
<1>3. s[h] \in Block
  BY DEF Books
<1>4. 0 \in 0..Len(s[h].code)
  BY <1>3 DEF Block
<1> QED
  BY <1>2, <1>4 DEF In

(* Labels are unique, so the block control is in is the one it is in.       *)
LEMMA HereIs ==
  ASSUME Lowering, NEW h \in DOMAIN blocks, blocks[h].label = at
  PROVE  Here = blocks[h]
<1>1. \A i, j \in DOMAIN blocks : blocks[i].label = blocks[j].label => i = j
  BY UniqueParts DEF Lowering, Unique, DistinctBlocks, IsInjective
<1>2. \A i \in DOMAIN blocks : blocks[i].label = at => i = h
  BY <1>1
<1>3. (CHOOSE i \in DOMAIN blocks : blocks[i].label = at) = h
  BY <1>2, Zenon
<1> QED
  BY <1>3 DEF Here

LEMMA LoweredSame == UNCHANGED vars => Lowered' = Lowered /\ blocks' = blocks
  BY DEF vars, Lowered

(* A jump to a target of the block control has run through.                 *)
LEMMA GoToCalling ==
  ASSUME Lowering, Lowered, NEW lvl, NEW x, Books(blocks, lvl, x, {}), NEW h, NEW d,
         In(blocks, lvl, h, d, at, pos, pending), pos = Len(blocks[h].code), ~aborted,
         NEW l \in Range(blocks[h].to), GoTo(l)
  PROVE  Calling'
<1>1. done /\ h \in DOMAIN blocks
  BY DEF Lowered, In
<1>2. PICK k \in DOMAIN blocks : blocks[k].label = l
  BY <1>1, ControlCloses DEF Lowering, Closed, BlockLabels
<1>3. lvl[k] = lvl[h + 1]
  BY <1>1, <1>2 DEF Books, Fits, Has
<1>4. pending = Countup(lvl[k])
  BY <1>3 DEF In
<1>5. \E g, e : In(blocks, lvl, g, e, l, 0, pending)
  BY <1>2, <1>4, EnterBlock
<1>6. at' = l /\ pos' = 0 /\ pending' = pending /\ aborted' = aborted /\ UNCHANGED vars
  BY DEF GoTo
<1>7. Lowered' /\ blocks' = blocks
  BY <1>6, LoweredSame
<1> QED
  BY <1>5, <1>6, <1>7 DEF Calling

(* One event of the block control is in.                                    *)
LEMMA EventCalling ==
  ASSUME Lowered, NEW lvl, NEW x, Books(blocks, lvl, x, {}), NEW h, NEW d,
         In(blocks, lvl, h, d, at, pos, pending), pos < Len(blocks[h].code), ~aborted,
         pending' = Countup(d[pos + 1]), pos' = pos + 1, UNCHANGED <<vars, at, aborted>>
  PROVE  Calling'
<1>1. blocks[h] \in Block
  BY DEF In, Books
<1>2. pos + 1 \in 0..Len(blocks[h].code)
  BY <1>1 DEF In, Block
<1>3. PICK k : k = pos + 1
  OBVIOUS
<1>4. In(blocks, lvl, h, d, at, k, pending')
  BY <1>2, <1>3 DEF In
<1>5. Lowered' /\ blocks' = blocks
  BY LoweredSame
<1>6. at' = at /\ pos' = k /\ aborted' = aborted
  BY <1>3
<1> QED
  BY <1>4, <1>5, <1>6 DEF Calling

LEMMA CountedDown ==
  ASSUME NEW m \in Nat
  PROVE  /\ Countup(m + 1) # <<>>
         /\ RemoveFirst(Countup(m + 1), m) = Countup(m)
         /\ Front(Countup(m + 1)) = Countup(m)
<1>1. PICK k \in Nat : k = m + 1
  OBVIOUS
<1>2. k # 0 /\ k - 1 = m
  BY <1>1
<1>3. Countup(k) # <<>> /\ Front(Countup(k)) = Countup(m)
  BY <1>2, CountLess
<1> QED
  BY <1>1, <1>3, RemoveTop

(* A step of the call is one of the promise, or changes nothing it is about. *)
LEMMA ExecStep ==
  ASSUME Lowering, Calling, Exec
  PROVE  Calling' /\ [Promise!Next]_<<pending, Returned>>
<1>1. Lowered /\ at # NoLabel /\ UNCHANGED vars
  BY DEF Exec, ExecDefer, ExecDeferred, ExecCounter, ExecJump, ExecBranch, ExecFor, ExecReturn,
         ExecUnreachable, AtEvent, AtTerm, Running, GoTo
<1>2. ~Returned /\ ~aborted /\ Lowered' /\ blocks' = blocks
  BY <1>1, LoweredSame DEF Calling, Returned
<1>3. PICK lvl, x : Books(blocks, lvl, x, {}) /\ \E h, d : In(blocks, lvl, h, d, at, pos, pending)
  BY <1>1 DEF Calling
<1>4. PICK h, d : In(blocks, lvl, h, d, at, pos, pending)
  BY <1>3
<1>5. h \in DOMAIN blocks /\ Here = blocks[h]
  BY <1>4, HereIs DEF In
<1>6. /\ blocks[h].code \in Seq(Event) /\ blocks[h].to \in Seq(Label)
      /\ Exits(blocks[h], lvl[h + 1])
  <2>1. blocks[h] \in Block
    BY <1>3, <1>5 DEF Books
  <2> QED
    BY <1>3, <1>5, <2>1 DEF Books, Fits, Block
<1>7. ASSUME AtEvent
      PROVE  /\ pos < Len(blocks[h].code) /\ d[pos] \in Nat /\ d[pos + 1] \in Nat
             /\ Moves(NextEvent, d[pos], d[pos + 1])
  <2>1. pos \in Nat /\ pos < Len(blocks[h].code) /\ NextEvent = blocks[h].code[pos + 1]
    BY <1>4, <1>5, <1>6, <1>7 DEF AtEvent, NextEvent, In
  <2>2. PICK k : k = pos + 1
    OBVIOUS
  <2>3. k \in 1..Len(blocks[h].code) /\ k \in 0..Len(blocks[h].code)
        /\ pos \in 0..Len(blocks[h].code) /\ k - 1 = pos
    BY <1>6, <2>1, <2>2
  <2>4. Moves(blocks[h].code[k], d[k - 1], d[k]) /\ d[k] \in Nat /\ d[pos] \in Nat
    BY <1>4, <2>3 DEF In, Trace
  <2> QED
    BY <2>1, <2>2, <2>3, <2>4
<1>8. pending = Countup(d[pos])
  BY <1>4 DEF In
<1>9. CASE ExecDefer
  <2>1. /\ AtEvent /\ NextEvent.op = "defer" /\ pending' = Append(pending, NextEvent.arg)
        /\ pos' = pos + 1 /\ at' = at /\ aborted' = aborted
    BY <1>9 DEF ExecDefer
  <2>2. NextEvent.arg = d[pos] /\ d[pos + 1] = d[pos] + 1 /\ d[pos] < MaxDefers /\ d[pos] \in Nat
    BY <1>7, <2>1 DEF Moves
  <2>3. pending' = Countup(d[pos + 1])
    BY <1>8, <2>1, <2>2, CountMore
  <2>4. Calling'
    BY <1>1, <1>2, <1>3, <1>4, <1>7, <2>1, <2>3, EventCalling
  <2>5. Returned' = Returned
    BY <2>1 DEF Returned
  <2>6. d[pos] \in 0..(MaxDefers - 1) /\ Promise!Defer(d[pos])
    BY <1>2, <2>1, <2>2, <2>5, BoundsAssumption DEF Promise!Defer
  <2> QED
    BY <2>4, <2>6 DEF Promise!Next
<1>10. CASE ExecDeferred
  <2>1. /\ AtEvent /\ NextEvent.op = "run" /\ pending' = RemoveFirst(pending, NextEvent.arg)
        /\ pos' = pos + 1 /\ at' = at /\ aborted' = aborted
    BY <1>10 DEF ExecDeferred
  <2>2. NextEvent.arg = d[pos + 1] /\ d[pos] = d[pos + 1] + 1 /\ d[pos + 1] \in Nat
    BY <1>7, <2>1 DEF Moves
  <2>3. /\ pending # <<>> /\ pending' = Countup(d[pos + 1])
        /\ Front(pending) = Countup(d[pos + 1])
    BY <1>8, <2>1, <2>2, CountedDown
  <2>4. Calling'
    BY <1>1, <1>2, <1>3, <1>4, <1>7, <2>1, <2>3, EventCalling
  <2>5. Returned' = Returned
    BY <2>1 DEF Returned
  <2>6. Promise!Front(pending) = Front(pending)
    BY DEF Promise!Front, Front
  <2>7. Promise!RunLast
    BY <1>2, <2>3, <2>5, <2>6 DEF Promise!RunLast
  <2> QED
    BY <2>4, <2>7 DEF Promise!Next
<1>11. CASE ExecCounter
  <2>1. /\ AtEvent /\ NextEvent.op \in {"init", "inc"} /\ pending' = pending
        /\ pos' = pos + 1 /\ at' = at /\ aborted' = aborted
    BY <1>11 DEF ExecCounter
  <2>2. d[pos + 1] = d[pos]
    BY <1>7, <2>1 DEF Moves
  <2>3. Calling'
    BY <1>1, <1>2, <1>3, <1>4, <1>7, <1>8, <2>1, <2>2, EventCalling
  <2>4. Returned' = Returned
    BY <2>1 DEF Returned
  <2> QED
    BY <2>1, <2>3, <2>4
<1>12. CASE ExecJump \/ ExecBranch \/ ExecFor
  <2>1. PICK l \in Range(blocks[h].to) : GoTo(l)
    <3>1. CASE ExecJump
      <4>1. Len(blocks[h].to) = 1 /\ GoTo(blocks[h].to[1])
        BY <1>5, <1>6, <3>1 DEF ExecJump, AtTerm, Exits
      <4> QED
        BY <1>6, <4>1, InRange
    <3>2. CASE ExecBranch \/ ExecFor
      <4>1. Len(blocks[h].to) = 2 /\ \E i \in 1..2 : GoTo(blocks[h].to[i])
        BY <1>5, <1>6, <3>2 DEF ExecBranch, ExecFor, AtTerm, Exits
      <4> QED
        BY <1>6, <4>1, InRange
    <3> QED
      BY <1>12, <3>1, <3>2
  <2>2. pos = Len(blocks[h].code)
    BY <1>5, <1>12 DEF ExecJump, ExecBranch, ExecFor, AtTerm
  <2>3. Calling'
    BY <1>1, <1>2, <1>3, <1>4, <2>1, <2>2, GoToCalling
  <2>4. l \in Label /\ l # NoLabel
    BY <1>6, <2>1 DEF Range, Label, Entry, NoLabel
  <2>5. pending' = pending /\ Returned' = Returned
    BY <1>1, <2>1, <2>4 DEF GoTo, Returned
  <2> QED
    BY <2>3, <2>5
<1>13. CASE ExecReturn
  <2>1. /\ pos = Len(blocks[h].code) /\ blocks[h].term = "return" /\ pending' = pending
        /\ at' = NoLabel /\ aborted' = aborted
    BY <1>5, <1>13 DEF ExecReturn, AtTerm
  <2>2. d[pos] = 0
    BY <1>4, <1>6, <2>1 DEF In, Exits
  <2>3. pending = <<>>
    BY <1>8, <2>2, CountNothing
  <2>4. Returned' = TRUE
    BY <1>2, <2>1 DEF Returned
  <2>5. Promise!Return
    BY <1>2, <2>1, <2>3, <2>4 DEF Promise!Return
  <2> QED
    BY <1>2, <2>1, <2>5 DEF Promise!Next, Calling
<1>14. CASE ExecUnreachable
  <2>1. pending' = pending /\ at' = NoLabel /\ aborted' = TRUE
    BY <1>14 DEF ExecUnreachable
  <2>2. Returned' = Returned
    BY <1>1, <2>1 DEF Returned
  <2> QED
    BY <1>2, <2>1, <2>2 DEF Calling
<1> QED
  BY <1>9, <1>10, <1>11, <1>12, <1>13, <1>14 DEF Exec

(* Nothing is lowered once the last function has been handed over.          *)
LEMMA LoweredStuck == ASSUME TypeInv, Lowered PROVE ~Next
<1>1. done /\ stack = <<>> /\ (fn = "__main" \/ fnCount = MaxFns)
  BY DEF TypeInv, Shape, Lowered
<1>2. \A c, n : ~CanOpen(c, n)
  BY <1>1 DEF CanOpen
<1>3. \A kinds : ~TopIs(kinds)
  BY <1>1 DEF TopIs
<1>4. ~Stmt
  BY <1>1, <1>2, <1>3 DEF Stmt, LowerDefer, LowerReturn, FlushNext, EndFlushReturn, LowerBreak,
     LowerContinue, OpenFor, OpenWhile, CloseWhileCond, OpenLoop, CloseLoop
<1>5. ~Expr
  BY <1>1, <1>2, <1>3 DEF Expr, OrReturn, OrPanic, OrZero, OrOp, OpenOrElse, OpenIf, CloseThen,
     OpenMatch, NextArm, CloseExpr, EmptyMatch
<1>6. ~Fn
  <2>1. ~ResetFn
    BY <1>1, BoundsAssumption DEF ResetFn
  <2> QED
    BY <1>1, <1>3, <2>1 DEF Fn, EndFn, EndFlushExit, EndMain
<1> QED
  BY <1>4, <1>5, <1>6 DEF Next

(* While the Lowerer works the call has not begun; when it is done, control *)
(* is at the entry block and nothing is queued.                             *)
LEMMA LowerStep ==
  ASSUME Plain, Lowering, Calling, Lowering', [Next]_vars, UNCHANGED runVars
  PROVE  Calling' /\ UNCHANGED <<pending, Returned>>
<1>1. /\ at' = at /\ pos' = pos /\ pending' = pending /\ aborted' = aborted
      /\ UNCHANGED <<pending, Returned>>
  BY DEF runVars, Returned
<1>2. CASE Lowered
  <2>1. ~Next
    BY <1>2, LoweredStuck DEF Lowering
  <2>2. UNCHANGED vars
    BY <2>1
  <2>3. Lowered' /\ blocks' = blocks
    BY <1>2, <2>2, LoweredSame
  <2> QED
    BY <1>1, <1>2, <2>3 DEF Calling
<1>3. CASE ~Lowered /\ ~Lowered'
  BY <1>1, <1>3 DEF Calling
<1>4. CASE ~Lowered /\ Lowered'
  <2>1. at' = Entry /\ pos' = 0 /\ pending' = Countup(0) /\ ~aborted'
    BY <1>1, <1>4, CountNothing DEF Calling
  <2>2. PICK lvl, x : Books(blocks', lvl, x, {})
    BY <1>4 DEF Lowering, Ledger, Lowered
  <2>3. blocks' # <<>> /\ blocks'[1].label = Entry
    BY <1>4 DEF Lowering, Control, EntryFirst, Lowered
  <2>4. 1 \in DOMAIN blocks' /\ lvl[1] = 0
    BY <2>2, <2>3 DEF Books
  <2>5. PICK s : s = blocks'
    OBVIOUS
  <2>6. \E g, d : In(s, lvl, g, d, s[1].label, 0, Countup(lvl[1]))
    BY <2>2, <2>4, <2>5, EnterBlock
  <2>7. \E g, d : In(blocks', lvl, g, d, at', pos', pending')
    BY <2>1, <2>3, <2>4, <2>5, <2>6
  <2> QED
    BY <1>1, <1>4, <2>1, <2>2, <2>7 DEF Calling
<1> QED
  BY <1>2, <1>3, <1>4

(* Every call keeps the promise of defer, where Plain says a defer is       *)
(* lowered the way its promise assumes.                                     *)
THEOREM DeferKept == ASSUME Plain PROVE RunSpec => KeepsDeferPromise
<1>1. RunInit => Lowering /\ Calling /\ Promise!Init
  <2> SUFFICES ASSUME RunInit PROVE Lowering /\ Calling /\ Promise!Init
    OBVIOUS
  <2>1. Lowering
    BY LoweringInit DEF RunInit
  <2>2. ~Lowered
    BY DEF RunInit, Init, Lowered
  <2> QED
    BY <2>1, <2>2 DEF RunInit, Calling, Promise!Init, Returned, Entry, NoLabel
<1>2. Lowering /\ Calling /\ [RunNext]_allVars
      => Lowering' /\ Calling' /\ [Promise!Next]_<<pending, Returned>>
  <2> SUFFICES ASSUME Lowering, Calling, [RunNext]_allVars
               PROVE  Lowering' /\ Calling' /\ [Promise!Next]_<<pending, Returned>>
    OBVIOUS
  <2>1. [Next]_vars
    BY DEF RunNext, allVars, Exec, ExecDefer, ExecDeferred, ExecCounter, ExecJump, ExecBranch,
           ExecFor, ExecReturn, ExecUnreachable, GoTo
  <2>2. Lowering'
    BY <2>1, LoweringStep
  <2>3. CASE Exec
    BY <2>2, <2>3, ExecStep
  <2>4. CASE UNCHANGED runVars
    BY <2>1, <2>2, <2>4, LowerStep
  <2> QED
    BY <2>2, <2>3, <2>4 DEF RunNext, allVars
<1> QED
  BY <1>1, <1>2, PTL DEF RunSpec, KeepsDeferPromise, Promise!Spec
=============================================================================
