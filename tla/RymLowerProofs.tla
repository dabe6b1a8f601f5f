--------------------------- MODULE RymLowerProofs ---------------------------
(****************************************************************************)
(* Proofs about RymLower, for every program and every bound: the state is   *)
(* well typed, no two blocks share a label, and loop_stack holds the loops  *)
(* that are open.  What the proofs about the control-flow graph, its        *)
(* execution (RymRunProofs) and its values (RymValuesProofs) rest on.       *)
(****************************************************************************)
EXTENDS RymLower, WellFoundedInduction, TLAPS

-----------------------------------------------------------------------------
(* Sequences, blocks and frames.                                            *)

(* The short sequences the actions build are typed by their elements. *)
LEMMA EmptyIn == \A S : <<>> \in Seq(S)
  OBVIOUS

LEMMA Seq1 == ASSUME NEW S, NEW x \in S PROVE <<x>> \in Seq(S)
  OBVIOUS

LEMMA Seq2 == ASSUME NEW S, NEW x \in S, NEW y \in S PROVE <<x, y>> \in Seq(S)
  OBVIOUS

(* Appending one, two or three elements keeps a sequence typed. *)
LEMMA Cat1 == ASSUME NEW S, NEW s \in Seq(S), NEW x \in S
              PROVE  Append(s, x) \in Seq(S)
  OBVIOUS

LEMMA Cat2 == ASSUME NEW S, NEW s \in Seq(S), NEW x \in S, NEW y \in S
              PROVE  s \o <<x, y>> \in Seq(S)
  OBVIOUS

LEMMA Cat3 == ASSUME NEW S, NEW s \in Seq(S), NEW x \in S, NEW y \in S, NEW z \in S
              PROVE  s \o <<x, y, z>> \in Seq(S)
  OBVIOUS

LEMMA LastIn == ASSUME NEW S, NEW s \in Seq(S), s # <<>>
                PROVE  s[Len(s)] \in S /\ Len(s) \in DOMAIN s
  OBVIOUS

LEMMA TailType == ASSUME NEW S, NEW s \in Seq(S), s # <<>>
                  PROVE  Tail(s) \in Seq(S) /\ Len(Tail(s)) = Len(s) - 1
  OBVIOUS

LEMMA NonEmpty == ASSUME NEW s, Len(s) # 0 PROVE s # <<>>
  OBVIOUS

LEMMA TailTail ==
  ASSUME NEW S, NEW s \in Seq(S), Len(s) >= 3
  PROVE  Tail(Tail(s)) \in Seq(S) /\ Len(Tail(Tail(s))) = Len(s) - 2
<1>1. Len(s) \in Nat /\ s # <<>>
  OBVIOUS
<1>2. Tail(s) \in Seq(S) /\ Len(Tail(s)) = Len(s) - 1
  BY <1>1, TailType
<1>3. ASSUME NEW t, Len(t) = Len(s) - 1 PROVE t # <<>>
  BY <1>1, <1>3, NonEmpty
<1>4. Tail(s) # <<>>
  BY <1>2, <1>3, Zenon
<1> QED
  BY <1>2, <1>4, TailType

(* Every number handed out by fresh_label is a label. *)
LEMMA FreshLabel == ASSUME TypeOK, NEW k \in Nat PROVE nextBlock + k \in Label
  BY DEF TypeOK, Label

LEMMA BlockType ==
  ASSUME NEW l \in Label, NEW code \in Seq(Event), NEW term \in Terms,
         NEW to \in Seq(Label), NEW lv \in BOOLEAN
  PROVE  BB(l, code, term, to, lv) \in Block
  BY DEF BB, Block

LEMMA FrameType ==
  ASSUME NEW kind \in FrameKinds, NEW todo \in Seq(Label),
         NEW head \in Label \cup {NoLabel}, NEW exit \in BOOLEAN, live \in BOOLEAN
  PROVE  /\ NewFrame(kind, todo, head, exit) \in Frame
         /\ NewFrame(kind, todo, head, exit).kind = kind
         /\ NewFrame(kind, todo, head, exit).todo = todo
         /\ NewFrame(kind, todo, head, exit).head = head
<1>1. <<>> \in Seq(Nat)
  BY EmptyIn
<1> QED
  BY <1>1 DEF NewFrame, Frame

(* finish_block and start_block keep the builder's state typed. *)
LEMMA SwitchType ==
  ASSUME TypeOK, ~done, NEW term \in Terms, NEW to \in Seq(Label), NEW l,
         Switch(term, to, l)
  PROVE  blocks' \in Seq(Block) /\ instrs' \in Seq(Event) /\ currentLabel' = l
<1>1. Finished(term, to) \in Block
  BY BlockType DEF Finished, TypeOK
<1> QED
  BY <1>1, Cat1, EmptyIn DEF Switch, TypeOK

(* The three ways an action changes the stack. *)
LEMMA PushType ==
  ASSUME TypeInv, NEW f \in Frame, FrameOK(f), Push(f),
         f.kind = "flush_exit" => stack = <<>>
  PROVE  stack' \in Seq(Frame) /\ StackOK'
<1>1. stack \in Seq(Frame) /\ StackOK
  BY DEF TypeInv, TypeOK, Shape
<1> QED
  BY <1>1 DEF Push, StackOK

LEMMA PopType ==
  ASSUME TypeInv, stack # <<>>, Pop
  PROVE  stack' \in Seq(Frame) /\ StackOK'
<1>1. stack \in Seq(Frame) /\ StackOK
  BY DEF TypeInv, TypeOK, Shape
<1> QED
  BY <1>1 DEF Pop, StackOK

LEMMA ReplaceType ==
  ASSUME TypeInv, NEW k \in DOMAIN stack, NEW f \in Frame, FrameOK(f),
         f.kind = "flush_exit" => f.kind = stack[k].kind,
         stack' = [stack EXCEPT ![k] = f]
  PROVE  stack' \in Seq(Frame) /\ StackOK'
<1>1. stack \in Seq(Frame) /\ StackOK
  BY DEF TypeInv, TypeOK, Shape
<1> QED
  BY <1>1 DEF StackOK

LEMMA TopType ==
  ASSUME TypeInv, stack # <<>>
  PROVE  /\ Len(stack) \in DOMAIN stack
         /\ Top \in Frame /\ FrameOK(Top)
         /\ ~done
<1>1. stack \in Seq(Frame) /\ StackOK
  BY DEF TypeInv, TypeOK, Shape
<1> QED
  BY <1>1 DEF Top, TypeInv, Shape, StackOK

-----------------------------------------------------------------------------
(* The type invariant, action by action.                                    *)

LEMMA TypeInit == Init => TypeInv
<1> SUFFICES ASSUME Init PROVE TypeInv
  OBVIOUS
<1>1. fn \in {"fn", "__main"}
  BY FnKindsAssumption DEF Init
<1>2. /\ instrs \in Seq(Event) /\ blocks \in Seq(Block) /\ deferred \in Seq(Nat)
      /\ loopStack \in Seq(LoopLabels) /\ stack \in Seq(Frame)
  BY EmptyIn DEF Init
<1>3. currentLabel \in Label /\ done = FALSE
  BY DEF Init, Label
<1>4. TypeOK
  BY <1>1, <1>2, <1>3 DEF Init, TypeOK
<1>5. Shape
  BY DEF Init, Shape, StackOK
<1> QED
  BY <1>4, <1>5 DEF TypeInv

(* begin of a flush, shared by return and by the end of a function. *)
LEMMA BeginFlushType ==
  ASSUME TypeInv, ~done, deferred # <<>>,
         NEW kind \in FlushKinds, BeginFlush(kind),
         kind = "flush_exit" => stack = <<>>
  PROVE  /\ instrs' \in Seq(Event) /\ deferred' \in Seq(Nat)
         /\ stack' \in Seq(Frame) /\ StackOK'
<1> DEFINE f == NewFrame(kind, <<>>, NoLabel, FALSE)
           g == [f EXCEPT !.rest = Reverse(Front(deferred))]
<1>1. deferred \in Seq(Nat) /\ instrs \in Seq(Event) /\ live \in BOOLEAN
  BY DEF TypeInv, TypeOK
<1>2. Ev("run", deferred[Len(deferred)]) \in Event
  BY <1>1 DEF Ev, Event
<1>3. instrs' \in Seq(Event)
  BY <1>1, <1>2, Cat1 DEF BeginFlush, Emit
<1>4. Front(deferred) \in Seq(Nat)
  BY <1>1 DEF Front
<1>5. Reverse(Front(deferred)) \in Seq(Nat)
  BY <1>4 DEF Reverse
<1>6. kind \in FrameKinds /\ <<>> \in Seq(Label)
  BY EmptyIn DEF FrameKinds, FlushKinds
<1>7. f \in Frame /\ f.kind = kind /\ f.todo = <<>>
  <2>1. NoLabel \in Label \cup {NoLabel} /\ FALSE \in BOOLEAN
    OBVIOUS
  <2>2. f \in Frame
    BY <1>1, <1>6, <2>1, FrameType, Zenon
  <2> QED
    BY <2>2 DEF NewFrame
<1>8. g \in Frame /\ g.kind = kind /\ g.todo = <<>>
  BY <1>5, <1>7 DEF Frame
<1>9. FrameOK(g)
  BY <1>8 DEF FrameOK, LoopKinds, FlushKinds
<1>10. Push(g)
  BY DEF BeginFlush
<1> HIDE DEF g
<1> QED
  BY <1>3, <1>8, <1>9, <1>10, PushType, EmptyIn DEF BeginFlush

LEMMA FinishReturnType ==
  ASSUME TypeInv, ~done, FinishReturn
  PROVE  /\ blocks' \in Seq(Block) /\ instrs' \in Seq(Event)
         /\ currentLabel' \in Label /\ nextBlock' \in Nat /\ live' \in BOOLEAN
<1>1. nextBlock + 0 \in Label /\ nextBlock \in Nat
  BY FreshLabel DEF TypeInv, TypeOK
<1>2. "return" \in Terms /\ <<>> \in Seq(Label)
  BY EmptyIn DEF Terms
<1>3. Switch("return", <<>>, nextBlock) /\ nextBlock' = nextBlock + 1 /\ live' = FALSE
  BY DEF FinishReturn
<1>4. blocks' \in Seq(Block) /\ instrs' \in Seq(Event) /\ currentLabel' = nextBlock
  BY <1>2, <1>3, SwitchType, Zenon DEF TypeInv
<1>5. live' \in BOOLEAN
  BY <1>3, Zenon
<1> QED
  BY <1>1, <1>3, <1>4, <1>5

LEMMA LowerDeferType == TypeInv /\ LowerDefer => TypeInv'
  BY DEF LowerDefer, TypeInv, TypeOK, Shape, StackOK, Unchanged_fn, Emit, Ev, Event

LEMMA LowerReturnType == TypeInv /\ LowerReturn => TypeInv'
<1> SUFFICES ASSUME TypeInv, LowerReturn PROVE TypeInv'
  OBVIOUS
<1>1. ~done /\ done' = done
  BY DEF LowerReturn, CanOpen, Unchanged_fn
<1>2. CASE deferred = <<>>
  BY <1>1, <1>2, FinishReturnType
     DEF LowerReturn, Unchanged_fn, TypeInv, TypeOK, Shape, StackOK
<1>3. CASE deferred # <<>>
  BY <1>1, <1>3, BeginFlushType DEF LowerReturn, Unchanged_fn, FlushKinds, TypeInv, TypeOK, Shape
<1> QED
  BY <1>2, <1>3

LEMMA FlushNextType == TypeInv /\ FlushNext => TypeInv'
<1> SUFFICES ASSUME TypeInv, FlushNext PROVE TypeInv'
  OBVIOUS
<1> DEFINE f == [Top EXCEPT !.rest = Tail(@)]
<1>1. Top \in Frame /\ FrameOK(Top) /\ Len(stack) \in DOMAIN stack /\ ~done
  BY TopType DEF FlushNext, TopIs
<1>2. Top.rest \in Seq(Nat) /\ Top.rest # <<>>
  BY <1>1 DEF Frame, FlushNext
<1>3. Tail(Top.rest) \in Seq(Nat)
  BY <1>2, TailType
<1>7. f \in Frame
  BY <1>1, <1>3 DEF Frame
<1>8. FrameOK(f) /\ f.kind = stack[Len(stack)].kind
  BY <1>1 DEF Frame, FrameOK, Top
<1>4. stack' = [stack EXCEPT ![Len(stack)] = f]
  BY DEF FlushNext, ReplaceTop
<1>5. Ev("run", Head(Top.rest)) \in Event
  BY <1>2 DEF Ev, Event
<1>6. instrs' \in Seq(Event)
  BY <1>5, Cat1 DEF FlushNext, Emit, TypeInv, TypeOK
<1> HIDE DEF f
<1> QED
  BY <1>1, <1>4, <1>6, <1>7, <1>8, ReplaceType
     DEF FlushNext, Unchanged_fn, TypeInv, TypeOK, Shape

LEMMA EndFlushReturnType == TypeInv /\ EndFlushReturn => TypeInv'
<1> SUFFICES ASSUME TypeInv, EndFlushReturn PROVE TypeInv'
  OBVIOUS
<1>1. ~done /\ stack # <<>> /\ Pop /\ FinishReturn
  BY TopType DEF EndFlushReturn, TopIs
<1> QED
  BY <1>1, PopType, FinishReturnType
     DEF EndFlushReturn, Unchanged_fn, TypeInv, TypeOK, Shape

LEMMA JumpOutType ==
  ASSUME TypeInv, ~done, NEW label \in Label, JumpOut(label)
  PROVE  /\ blocks' \in Seq(Block) /\ instrs' \in Seq(Event)
         /\ currentLabel' \in Label /\ nextBlock' \in Nat /\ live' \in BOOLEAN
<1>1. nextBlock + 0 \in Label /\ nextBlock \in Nat
  BY FreshLabel DEF TypeInv, TypeOK
<1>2. "jump" \in Terms /\ <<label>> \in Seq(Label)
  BY Seq1 DEF Terms
<1>3. /\ Switch("jump", <<label>>, nextBlock)
      /\ nextBlock' = nextBlock + 1 /\ live' = FALSE
  BY DEF JumpOut
<1>4. blocks' \in Seq(Block) /\ instrs' \in Seq(Event) /\ currentLabel' = nextBlock
  BY <1>2, <1>3, SwitchType, Zenon DEF TypeInv
<1>5. live' \in BOOLEAN
  BY <1>3, Zenon
<1> QED
  BY <1>1, <1>3, <1>4, <1>5

LEMMA LowerBreakType == TypeInv /\ LowerBreak => TypeInv'
<1> SUFFICES ASSUME TypeInv, LowerBreak PROVE TypeInv'
  OBVIOUS
<1>1. ~done /\ loopStack[Len(loopStack)].brk \in Label
  <2>1. loopStack \in Seq(LoopLabels) /\ loopStack # <<>>
    BY DEF LowerBreak, TypeInv, TypeOK
  <2>2. loopStack[Len(loopStack)] \in LoopLabels
    BY <2>1, LastIn
  <2> QED
    BY <2>2 DEF LoopLabels, LowerBreak, CanOpen
<1>2. PICK i \in DOMAIN stack : stack' = [stack EXCEPT ![i].exit = @ \/ live]
  BY DEF LowerBreak
<1> DEFINE f == [stack[i] EXCEPT !.exit = @ \/ live]
<1>3. stack[i] \in Frame /\ FrameOK(stack[i])
  BY DEF TypeInv, TypeOK, Shape, StackOK
<1>4. f \in Frame /\ FrameOK(f) /\ f.kind = stack[i].kind
  BY <1>3 DEF Frame, FrameOK, TypeInv, TypeOK
<1>5. stack' = [stack EXCEPT ![i] = f]
  BY <1>2
<1> HIDE DEF f
<1>6. stack' \in Seq(Frame) /\ StackOK'
  BY <1>4, <1>5, ReplaceType
<1> QED
  BY <1>1, <1>6, JumpOutType
     DEF LowerBreak, JumpOut, Unchanged_fn, TypeInv, TypeOK, Shape

LEMMA LowerContinueType == TypeInv /\ LowerContinue => TypeInv'
<1> SUFFICES ASSUME TypeInv, LowerContinue PROVE TypeInv'
  OBVIOUS
<1>1. ~done /\ loopStack[Len(loopStack)].cont \in Label
  <2>1. loopStack \in Seq(LoopLabels) /\ loopStack # <<>>
    BY DEF LowerContinue, TypeInv, TypeOK
  <2>2. loopStack[Len(loopStack)] \in LoopLabels
    BY <2>1, LastIn
  <2> QED
    BY <2>2 DEF LoopLabels, LowerContinue, CanOpen
<1> QED
  BY <1>1, JumpOutType
     DEF LowerContinue, JumpOut, Unchanged_fn, TypeInv, TypeOK, Shape, StackOK

(* The labels a construct of three allocates. *)
LEMMA ThreeFresh ==
  ASSUME TypeInv
  PROVE  /\ nextBlock \in Label /\ nextBlock + 1 \in Label /\ nextBlock + 2 \in Label
         /\ nextBlock \in Nat /\ nextBlock + 1 \in Nat
         /\ nextBlock + 2 \in Nat /\ nextBlock + 3 \in Nat
  BY DEF TypeInv, TypeOK, Label

LEMMA OpenForType == TypeInv /\ OpenFor => TypeInv'
<1> SUFFICES ASSUME TypeInv, OpenFor PROVE TypeInv'
  OBVIOUS
<1> DEFINE b1 == BB(currentLabel, Append(instrs, Ev("init", nextBlock)), "jump",
                    <<nextBlock>>, live)
           b2 == BB(nextBlock, <<>>, "lt", <<nextBlock + 1, nextBlock + 2>>, live)
           f == NewFrame("for", <<nextBlock + 2>>, nextBlock, live)
           e == [brk |-> nextBlock + 2, cont |-> nextBlock]
<1>1. ~done /\ live \in BOOLEAN /\ instrs \in Seq(Event) /\ currentLabel \in Label
  BY DEF OpenFor, EnterLoop, CanOpen, TypeInv, TypeOK
<1>2. Append(instrs, Ev("init", nextBlock)) \in Seq(Event)
  BY <1>1, ThreeFresh, Cat1 DEF Ev, Event
<1>3. b1 \in Block
  BY <1>1, <1>2, ThreeFresh, Seq1, BlockType DEF Terms
<1>4. b2 \in Block
  BY <1>1, ThreeFresh, Seq2, EmptyIn, BlockType DEF Terms
<1>5. f \in Frame /\ f.kind = "for" /\ f.todo = <<nextBlock + 2>> /\ f.head = nextBlock
  <2>1. "for" \in FrameKinds /\ nextBlock \in Label \cup {NoLabel}
        /\ <<nextBlock + 2>> \in Seq(Label)
    BY ThreeFresh, Seq1 DEF FrameKinds
  <2>2. f \in Frame
    BY <1>1, <2>1, FrameType, Zenon
  <2> QED
    BY <2>2 DEF NewFrame
<1>6. FrameOK(f)
  BY <1>5, ThreeFresh DEF FrameOK, LoopKinds, FlushKinds
<1>7. e \in LoopLabels
  BY ThreeFresh DEF LoopLabels
<1>8. blocks' = blocks \o <<b1, b2>> /\ loopStack' = Append(loopStack, e) /\ Push(f)
  BY DEF OpenFor, EnterLoop
<1>9. /\ currentLabel' = nextBlock + 1 /\ instrs' = <<>> /\ nextBlock' = nextBlock + 3
      /\ UNCHANGED <<nextDefer, deferred, live, fn, fnCount, done>>
  BY DEF OpenFor, Unchanged_fn
<1> HIDE DEF b1, b2, f, e
<1>10. blocks' \in Seq(Block)
  BY <1>3, <1>4, <1>8, Cat2 DEF TypeInv, TypeOK
<1>11. loopStack' \in Seq(LoopLabels)
  BY <1>7, <1>8, Cat1 DEF TypeInv, TypeOK
<1>12. stack' \in Seq(Frame) /\ StackOK'
  BY <1>5, <1>6, <1>8, PushType
<1> QED
  BY <1>1, <1>9, <1>10, <1>11, <1>12, ThreeFresh, EmptyIn DEF TypeInv, TypeOK, Shape

LEMMA OpenWhileType == TypeInv /\ OpenWhile => TypeInv'
<1> SUFFICES ASSUME TypeInv, OpenWhile PROVE TypeInv'
  OBVIOUS
<1> DEFINE f == NewFrame("cond", <<nextBlock + 1, nextBlock + 2>>, nextBlock, FALSE)
<1>1. ~done /\ live \in BOOLEAN
  BY DEF OpenWhile, CanOpen, TypeInv, TypeOK
<1>2. /\ f \in Frame /\ f.kind = "cond" /\ f.head = nextBlock
      /\ f.todo = <<nextBlock + 1, nextBlock + 2>>
  <2>1. "cond" \in FrameKinds /\ nextBlock \in Label \cup {NoLabel} /\ FALSE \in BOOLEAN
        /\ <<nextBlock + 1, nextBlock + 2>> \in Seq(Label)
    BY ThreeFresh, Seq2 DEF FrameKinds
  <2>2. f \in Frame
    BY <1>1, <2>1, FrameType, Zenon
  <2> QED
    BY <2>2 DEF NewFrame
<1>3. FrameOK(f)
  BY <1>2, ThreeFresh DEF FrameOK, LoopKinds, FlushKinds
<1>4. Push(f) /\ Switch("jump", <<nextBlock>>, nextBlock)
  BY DEF OpenWhile
<1>5. /\ nextBlock' = nextBlock + 3
      /\ UNCHANGED <<nextDefer, deferred, loopStack, live, fn, fnCount, done>>
  BY DEF OpenWhile, Unchanged_fn
<1> HIDE DEF f
<1>6. "jump" \in Terms /\ <<nextBlock>> \in Seq(Label)
  BY ThreeFresh, Seq1 DEF Terms
<1>7. blocks' \in Seq(Block) /\ instrs' \in Seq(Event) /\ currentLabel' = nextBlock
  BY <1>1, <1>4, <1>6, SwitchType, Zenon DEF TypeInv
<1>8. stack' \in Seq(Frame) /\ StackOK'
  BY <1>2, <1>3, <1>4, PushType
<1> QED
  BY <1>1, <1>5, <1>7, <1>8, ThreeFresh DEF TypeInv, TypeOK, Shape

LEMMA OpenLoopType == TypeInv /\ OpenLoop => TypeInv'
<1> SUFFICES ASSUME TypeInv, OpenLoop PROVE TypeInv'
  OBVIOUS
<1> DEFINE f == NewFrame("loop", <<nextBlock + 1>>, nextBlock, FALSE)
           e == [brk |-> nextBlock + 1, cont |-> nextBlock]
<1>1. ~done /\ live \in BOOLEAN
  BY DEF OpenLoop, CanOpen, TypeInv, TypeOK
<1>2. f \in Frame /\ f.kind = "loop" /\ f.head = nextBlock /\ f.todo = <<nextBlock + 1>>
  <2>1. "loop" \in FrameKinds /\ nextBlock \in Label \cup {NoLabel} /\ FALSE \in BOOLEAN
        /\ <<nextBlock + 1>> \in Seq(Label)
    BY ThreeFresh, Seq1 DEF FrameKinds
  <2>2. f \in Frame
    BY <1>1, <2>1, FrameType, Zenon
  <2> QED
    BY <2>2 DEF NewFrame
<1>3. FrameOK(f)
  BY <1>2, ThreeFresh DEF FrameOK, LoopKinds, FlushKinds
<1>4. /\ Push(f) /\ Switch("jump", <<nextBlock>>, nextBlock)
      /\ loopStack' = Append(loopStack, e)
  BY DEF OpenLoop, EnterLoop
<1>5. /\ nextBlock' = nextBlock + 2
      /\ UNCHANGED <<nextDefer, deferred, live, fn, fnCount, done>>
  BY DEF OpenLoop, Unchanged_fn
<1>6. "jump" \in Terms /\ <<nextBlock>> \in Seq(Label) /\ e \in LoopLabels
  BY ThreeFresh, Seq1 DEF Terms, LoopLabels
<1> HIDE DEF f, e
<1>7. blocks' \in Seq(Block) /\ instrs' \in Seq(Event) /\ currentLabel' = nextBlock
  BY <1>1, <1>4, <1>6, SwitchType, Zenon DEF TypeInv
<1>8. stack' \in Seq(Frame) /\ StackOK'
  BY <1>2, <1>3, <1>4, PushType
<1>9. loopStack' \in Seq(LoopLabels)
  BY <1>4, <1>6, Cat1 DEF TypeInv, TypeOK
<1> QED
  BY <1>1, <1>5, <1>7, <1>8, <1>9, ThreeFresh DEF TypeInv, TypeOK, Shape

LEMMA OpenIfType == TypeInv /\ OpenIf => TypeInv'
<1> SUFFICES ASSUME TypeInv, OpenIf PROVE TypeInv'
  OBVIOUS
<1> DEFINE f == NewFrame("then", <<nextBlock + 1, nextBlock + 2>>, NoLabel, FALSE)
<1>1. ~done /\ live \in BOOLEAN
  BY DEF OpenIf, CanOpen, TypeInv, TypeOK
<1>2. f \in Frame /\ f.kind = "then" /\ f.todo = <<nextBlock + 1, nextBlock + 2>>
  <2>1. "then" \in FrameKinds /\ NoLabel \in Label \cup {NoLabel} /\ FALSE \in BOOLEAN
        /\ <<nextBlock + 1, nextBlock + 2>> \in Seq(Label)
    BY ThreeFresh, Seq2 DEF FrameKinds
  <2>2. "then" \in FrameKinds /\ NoLabel \in Label \cup {NoLabel} /\ FALSE \in BOOLEAN
    BY <2>1
  <2>3. <<nextBlock + 1, nextBlock + 2>> \in Seq(Label)
    BY <2>1
  <2>4. live \in BOOLEAN
    BY <1>1
  <2> QED
    BY <2>2, <2>3, <2>4, EmptyIn DEF NewFrame, Frame
<1>3. FrameOK(f)
  BY <1>2, ThreeFresh DEF FrameOK, LoopKinds, FlushKinds
<1>4. Push(f) /\ Switch("branch", <<nextBlock, nextBlock + 1>>, nextBlock)
  BY DEF OpenIf
<1>5. /\ nextBlock' = nextBlock + 3
      /\ UNCHANGED <<nextDefer, deferred, loopStack, live, fn, fnCount, done>>
  BY DEF OpenIf, Unchanged_fn
<1> HIDE DEF f
<1>6. "branch" \in Terms /\ <<nextBlock, nextBlock + 1>> \in Seq(Label)
  BY ThreeFresh, Seq2 DEF Terms
<1>7. blocks' \in Seq(Block) /\ instrs' \in Seq(Event) /\ currentLabel' = nextBlock
  BY <1>1, <1>4, <1>6, SwitchType, Zenon DEF TypeInv
<1>8. stack' \in Seq(Frame) /\ StackOK'
  BY <1>2, <1>3, <1>4, PushType
<1> QED
  BY <1>1, <1>5, <1>7, <1>8, ThreeFresh DEF TypeInv, TypeOK, Shape

(* A frame's labels, and the label its construct continues at. *)
LEMMA TopLabels ==
  ASSUME TypeInv, stack # <<>>
  PROVE  /\ Top.todo \in Seq(Label)
         /\ Top.todo # <<>> => /\ Merge(Top) \in Label /\ Top.todo[1] \in Label
                              /\ Tail(Top.todo) \in Seq(Label)
                              /\ Len(Tail(Top.todo)) = Len(Top.todo) - 1
         /\ Top.fall \in BOOLEAN /\ Top.exit \in BOOLEAN
         /\ Len(Top.todo) # 0 => Top.todo # <<>>
<1>1. Top \in Frame
  BY TopType
<1>2. Top.todo \in Seq(Label) /\ Top.fall \in BOOLEAN /\ Top.exit \in BOOLEAN
  BY <1>1 DEF Frame
<1>3. ASSUME Top.todo # <<>>
      PROVE  /\ Merge(Top) \in Label /\ Top.todo[1] \in Label
             /\ Tail(Top.todo) \in Seq(Label) /\ Len(Tail(Top.todo)) = Len(Top.todo) - 1
  BY <1>2, <1>3, LastIn, TailType DEF Merge
<1> QED
  BY <1>2, <1>3

LEMMA CloseWhileCondType == TypeInv /\ CloseWhileCond => TypeInv'
<1> SUFFICES ASSUME TypeInv, CloseWhileCond PROVE TypeInv'
  OBVIOUS
<1> DEFINE f == [Top EXCEPT !.kind = "while", !.todo = Tail(@), !.exit = live]
           e == [brk |-> Merge(Top), cont |-> Top.head]
<1>1. /\ stack # <<>> /\ Top \in Frame /\ FrameOK(Top) /\ Top.kind = "cond" /\ ~done
      /\ Len(stack) \in DOMAIN stack
  BY TopType DEF CloseWhileCond, TopIs
<1>2. Len(Top.todo) = 2 /\ Top.head \in Label
  BY <1>1 DEF FrameOK
<1>3. /\ Top.todo \in Seq(Label) /\ Merge(Top) \in Label /\ Top.todo[1] \in Label
      /\ Tail(Top.todo) \in Seq(Label) /\ Len(Tail(Top.todo)) = 1
  BY <1>1, <1>2, TopLabels
<1>4. live \in BOOLEAN /\ "while" \in FrameKinds /\ "branch" \in Terms
  BY DEF TypeInv, TypeOK, FrameKinds, Terms
<1>5. f \in Frame /\ f.kind = "while" /\ f.todo = Tail(Top.todo) /\ f.head = Top.head
  BY <1>1, <1>3, <1>4 DEF Frame
<1>6. FrameOK(f)
  BY <1>2, <1>3, <1>5 DEF FrameOK, LoopKinds, FlushKinds
<1>7. e \in LoopLabels
  BY <1>2, <1>3 DEF LoopLabels
<1>8. /\ stack' = [stack EXCEPT ![Len(stack)] = f] /\ loopStack' = Append(loopStack, e)
      /\ Switch("branch", Top.todo, Top.todo[1])
      /\ UNCHANGED <<nextBlock, nextDefer, deferred, live, fn, fnCount, done>>
  BY DEF CloseWhileCond, EnterLoop, Unchanged_fn, ReplaceTop
<1> HIDE DEF f, e
<1>9. stack' \in Seq(Frame) /\ StackOK'
  BY <1>1, <1>5, <1>6, <1>8, ReplaceType
<1>10. blocks' \in Seq(Block) /\ instrs' \in Seq(Event) /\ currentLabel' = Top.todo[1]
  BY <1>1, <1>3, <1>4, <1>8, SwitchType, Zenon DEF TypeInv
<1>11. loopStack' \in Seq(LoopLabels)
  BY <1>7, <1>8, Cat1 DEF TypeInv, TypeOK
<1> QED
  BY <1>1, <1>3, <1>8, <1>9, <1>10, <1>11 DEF TypeInv, TypeOK, Shape

LEMMA CloseLoopType == TypeInv /\ CloseLoop => TypeInv'
<1> SUFFICES ASSUME TypeInv, CloseLoop PROVE TypeInv'
  OBVIOUS
<1> DEFINE step == CounterStep(Top)
           b == BB(currentLabel, instrs \o step, "jump", <<Top.head>>, live)
<1>1. stack # <<>> /\ Top \in Frame /\ FrameOK(Top) /\ Top.kind \in LoopKinds /\ ~done
  BY TopType DEF CloseLoop, TopIs
<1>2. Len(Top.todo) = 1 /\ Top.head \in Label
  BY <1>1 DEF FrameOK
<1>3. Merge(Top) \in Label /\ Top.exit \in BOOLEAN
  BY <1>1, <1>2, TopLabels
<1>4. /\ live \in BOOLEAN /\ instrs \in Seq(Event) /\ currentLabel \in Label
      /\ blocks \in Seq(Block) /\ "jump" \in Terms
  BY <1>1 DEF TypeInv, TypeOK, Terms
<1>5. Ev("inc", Top.head) \in Event
  BY <1>2 DEF Ev, Event, Label, Entry
<1>6. step \in Seq(Event)
  BY <1>5, Seq1, EmptyIn DEF CounterStep
<1>7. instrs \o step \in Seq(Event)
  BY <1>4, <1>6
<1>8. b \in Block
  BY <1>2, <1>4, <1>7, Seq1, BlockType
<1>9. /\ blocks' = Append(blocks, b) /\ currentLabel' = Merge(Top) /\ instrs' = <<>>
      /\ loopStack' = SubSeq(loopStack, 1, Len(loopStack) - 1) /\ Pop
      /\ live' = Top.exit
      /\ UNCHANGED <<nextBlock, nextDefer, deferred, fn, fnCount, done>>
  BY DEF CloseLoop, LeaveLoop, Unchanged_fn
<1> HIDE DEF b
<1>10. blocks' \in Seq(Block)
  BY <1>4, <1>8, <1>9, Cat1
<1>11. loopStack' \in Seq(LoopLabels)
  <2>1. loopStack \in Seq(LoopLabels)
    BY DEF TypeInv, TypeOK
  <2> QED
    BY <1>9, <2>1
<1>12. stack' \in Seq(Frame) /\ StackOK'
  BY <1>1, <1>9, PopType
<1> QED
  BY <1>1, <1>3, <1>9, <1>10, <1>11, <1>12, EmptyIn DEF TypeInv, TypeOK, Shape

LEMMA OrOpType ==
  ASSUME TypeInv, NEW c, NEW errTerm \in Terms, NEW errTo \in Seq(Label),
         OrOp(c, errTerm, errTo)
  PROVE  TypeInv'
<1> DEFINE b1 == Finished("branch", <<nextBlock, nextBlock + 1>>)
           b2 == BB(nextBlock, <<>>, "jump", <<nextBlock + 2>>, live)
           b3 == BB(nextBlock + 1, <<>>, errTerm, errTo, live)
<1>1. ~done /\ live \in BOOLEAN /\ instrs \in Seq(Event) /\ currentLabel \in Label
  BY DEF OrOp, CanOpen, TypeInv, TypeOK
<1>2. /\ "branch" \in Terms /\ "jump" \in Terms /\ <<>> \in Seq(Event)
      /\ <<nextBlock, nextBlock + 1>> \in Seq(Label) /\ <<nextBlock + 2>> \in Seq(Label)
  BY ThreeFresh, Seq1, Seq2, EmptyIn DEF Terms
<1>3. b1 \in Block
  BY <1>1, <1>2, BlockType DEF Finished
<1>4. b2 \in Block
  BY <1>1, <1>2, ThreeFresh, BlockType
<1>5. b3 \in Block
  BY <1>1, <1>2, ThreeFresh, BlockType
<1>6. /\ blocks' = blocks \o <<b1, b2, b3>> /\ currentLabel' = nextBlock + 2
      /\ instrs' = <<>> /\ nextBlock' = nextBlock + 3
      /\ UNCHANGED <<nextDefer, deferred, loopStack, stack, live, fn, fnCount, done>>
  BY DEF OrOp, Unchanged_fn
<1> HIDE DEF b1, b2, b3
<1>7. blocks' \in Seq(Block)
  BY <1>3, <1>4, <1>5, <1>6, Cat3 DEF TypeInv, TypeOK
<1> QED
  BY <1>1, <1>6, <1>7, ThreeFresh, EmptyIn DEF TypeInv, TypeOK, Shape, StackOK

LEMMA OpenOrElseType == TypeInv /\ OpenOrElse => TypeInv'
<1> SUFFICES ASSUME TypeInv, OpenOrElse PROVE TypeInv'
  OBVIOUS
<1> DEFINE b1 == Finished("branch", <<nextBlock, nextBlock + 1>>)
           b2 == BB(nextBlock, <<>>, "jump", <<nextBlock + 2>>, live)
           f == NewFrame("default", <<nextBlock + 2>>, NoLabel, live)
<1>1. ~done /\ live \in BOOLEAN /\ instrs \in Seq(Event) /\ currentLabel \in Label
  BY DEF OpenOrElse, CanOpen, TypeInv, TypeOK
<1>2. /\ "branch" \in Terms /\ "jump" \in Terms /\ <<>> \in Seq(Event)
      /\ <<nextBlock, nextBlock + 1>> \in Seq(Label) /\ <<nextBlock + 2>> \in Seq(Label)
  BY ThreeFresh, Seq1, Seq2, EmptyIn DEF Terms
<1>3. b1 \in Block
  BY <1>1, <1>2, BlockType DEF Finished
<1>4. b2 \in Block
  BY <1>1, <1>2, ThreeFresh, BlockType
<1>5. f \in Frame /\ f.kind = "default" /\ f.todo = <<nextBlock + 2>>
  <2>1. "default" \in FrameKinds /\ NoLabel \in Label \cup {NoLabel}
    BY DEF FrameKinds
  <2>2. f \in Frame
    BY <1>1, <1>2, <2>1, FrameType, Zenon
  <2> QED
    BY <2>2 DEF NewFrame
<1>6. FrameOK(f)
  BY <1>5 DEF FrameOK, LoopKinds, FlushKinds
<1>7. /\ blocks' = blocks \o <<b1, b2>> /\ currentLabel' = nextBlock + 1 /\ Push(f)
      /\ instrs' = <<>> /\ nextBlock' = nextBlock + 3
      /\ UNCHANGED <<nextDefer, deferred, loopStack, live, fn, fnCount, done>>
  BY DEF OpenOrElse, Unchanged_fn
<1> HIDE DEF b1, b2, f
<1>8. blocks' \in Seq(Block)
  BY <1>3, <1>4, <1>7, Cat2 DEF TypeInv, TypeOK
<1>9. stack' \in Seq(Frame) /\ StackOK'
  BY <1>5, <1>6, <1>7, PushType
<1> QED
  BY <1>1, <1>7, <1>8, <1>9, ThreeFresh, EmptyIn DEF TypeInv, TypeOK, Shape

LEMMA CloseThenType == TypeInv /\ CloseThen => TypeInv'
<1> SUFFICES ASSUME TypeInv, CloseThen PROVE TypeInv'
  OBVIOUS
<1> DEFINE f == [Top EXCEPT !.kind = "else", !.todo = Tail(@), !.exit = live]
<1>1. /\ stack # <<>> /\ Top \in Frame /\ FrameOK(Top) /\ Top.kind = "then" /\ ~done
      /\ Len(stack) \in DOMAIN stack
  BY TopType DEF CloseThen, TopIs
<1>2. Len(Top.todo) = 2
  BY <1>1 DEF FrameOK
<1>3. /\ Merge(Top) \in Label /\ Top.todo[1] \in Label /\ Top.fall \in BOOLEAN
      /\ Tail(Top.todo) \in Seq(Label) /\ Len(Tail(Top.todo)) = 1
  BY <1>1, <1>2, TopLabels
<1>4. live \in BOOLEAN /\ "else" \in FrameKinds /\ "jump" \in Terms
      /\ <<Merge(Top)>> \in Seq(Label)
  BY <1>3, Seq1 DEF TypeInv, TypeOK, FrameKinds, Terms
<1>5. f \in Frame /\ f.kind = "else" /\ f.todo = Tail(Top.todo)
  BY <1>1, <1>3, <1>4 DEF Frame
<1>6. FrameOK(f)
  BY <1>3, <1>5 DEF FrameOK, LoopKinds, FlushKinds
<1>7. /\ stack' = [stack EXCEPT ![Len(stack)] = f] /\ live' = Top.fall
      /\ Switch("jump", <<Merge(Top)>>, Top.todo[1])
      /\ UNCHANGED <<nextBlock, nextDefer, deferred, loopStack, fn, fnCount, done>>
  BY DEF CloseThen, Unchanged_fn, ReplaceTop
<1> HIDE DEF f
<1>8. stack' \in Seq(Frame) /\ StackOK'
  BY <1>1, <1>5, <1>6, <1>7, ReplaceType
<1>9. blocks' \in Seq(Block) /\ instrs' \in Seq(Event) /\ currentLabel' = Top.todo[1]
  BY <1>1, <1>4, <1>7, SwitchType, Zenon DEF TypeInv
<1> QED
  BY <1>1, <1>3, <1>7, <1>8, <1>9 DEF TypeInv, TypeOK, Shape

(* The labels of a match: merge first, then n bodies, then n - 1 dispatch   *)
(* blocks, all of them fresh.                                               *)
LEMMA MatchTodoType ==
  ASSUME TypeInv, NEW n \in 1..MaxArms
  PROVE  /\ MatchTodo(n) \in Seq(Label) /\ Len(MatchTodo(n)) = 2 * n - 1
         /\ Len(MatchTodo(n)) % 2 = 1
         /\ MatchTodo(n)[1] \in Label
<1>1. n \in Nat /\ n >= 1 /\ nextBlock \in Nat
  BY BoundsAssumption DEF TypeInv, TypeOK
<1>2. ASSUME NEW j \in 1..(2 * n - 1) PROVE MatchTodo(n)[j] \in Label
  BY <1>1, <1>2 DEF MatchTodo, Label
<1>3. Len(MatchTodo(n)) = 2 * n - 1 /\ DOMAIN MatchTodo(n) = 1..(2 * n - 1)
  BY <1>1 DEF MatchTodo
<1>4. MatchTodo(n) \in Seq(Label)
  BY <1>1, <1>2, <1>3 DEF MatchTodo
<1> QED
  BY <1>1, <1>2, <1>3, <1>4

LEMMA DispatchType ==
  ASSUME NEW wild \in BOOLEAN, NEW body \in Label, NEW next \in Label
  PROVE  DispatchTerm(wild) \in Terms /\ DispatchTo(wild, body, next) \in Seq(Label)
<1>1. DispatchTerm(wild) \in Terms
  BY DEF DispatchTerm, Terms
<1>2. DispatchTo(wild, body, next) \in Seq(Label)
  BY Seq1, Seq2 DEF DispatchTo
<1> QED
  BY <1>1, <1>2

LEMMA OpenMatchType ==
  ASSUME TypeInv, NEW n \in 1..MaxArms, NEW wild \in BOOLEAN, OpenMatch(n, wild)
  PROVE  TypeInv'
<1> DEFINE g == NewFrame("arm", MatchTodo(n), NoLabel, FALSE)
           f == [g EXCEPT !.fall = live /\ ~wild]
           term == DispatchTerm(wild)
           to == DispatchTo(wild, nextBlock + 1, MatchTodo(n)[1])
<1>1. ~done /\ live \in BOOLEAN /\ n \in Nat /\ (live /\ ~wild) \in BOOLEAN
  BY BoundsAssumption DEF OpenMatch, CanOpen, TypeInv, TypeOK
<1>2. g \in Frame /\ g.kind = "arm" /\ g.todo = MatchTodo(n)
  <2>1. "arm" \in FrameKinds /\ NoLabel \in Label \cup {NoLabel} /\ FALSE \in BOOLEAN
    BY DEF FrameKinds
  <2>2. g \in Frame
    BY <1>1, <2>1, MatchTodoType, FrameType, Zenon
  <2> QED
    BY <2>2 DEF NewFrame
<1> HIDE DEF g
<1>3. f \in Frame /\ f.kind = "arm" /\ f.todo = MatchTodo(n)
  BY <1>1, <1>2 DEF Frame
<1>4. FrameOK(f)
  BY <1>3, MatchTodoType DEF FrameOK, LoopKinds, FlushKinds
<1>5. /\ Push(f) /\ Switch(term, to, nextBlock + 1) /\ nextBlock' = nextBlock + 2 * n
      /\ UNCHANGED <<nextDefer, deferred, loopStack, live, fn, fnCount, done>>
  BY DEF OpenMatch, Unchanged_fn, g
<1>6. term \in Terms /\ to \in Seq(Label)
  BY ThreeFresh, MatchTodoType, DispatchType
<1> HIDE DEF f, term, to
<1>7. blocks' \in Seq(Block) /\ instrs' \in Seq(Event) /\ currentLabel' = nextBlock + 1
  BY <1>1, <1>5, <1>6, SwitchType, Zenon DEF TypeInv
<1>8. stack' \in Seq(Frame) /\ StackOK'
  BY <1>3, <1>4, <1>5, PushType
<1>9. nextBlock' \in Nat
  BY <1>1, <1>5, ThreeFresh
<1> QED
  BY <1>1, <1>5, <1>7, <1>8, <1>9, ThreeFresh DEF TypeInv, TypeOK, Shape

LEMMA NextArmType ==
  ASSUME TypeInv, NEW wild \in BOOLEAN, NextArm(wild)
  PROVE  TypeInv'
<1> DEFINE f == [Top EXCEPT !.todo = Tail(Tail(@)), !.exit = @ \/ live,
                            !.fall = @ /\ ~wild]
           term == DispatchTerm(wild)
           to == DispatchTo(wild, Top.todo[2], Top.todo[3])
           b1 == Finished("jump", <<Merge(Top)>>)
           b2 == BB(Top.todo[1], <<>>, term, to, Top.fall)
<1>1. /\ stack # <<>> /\ Top \in Frame /\ FrameOK(Top) /\ Top.kind = "arm" /\ ~done
      /\ Len(stack) \in DOMAIN stack /\ Len(Top.todo) >= 3
  BY TopType DEF NextArm, TopIs
<1>2. Len(Top.todo) % 2 = 1 /\ Top.todo \in Seq(Label)
  BY <1>1 DEF FrameOK, Frame
<1>3. /\ Merge(Top) \in Label /\ Top.todo[1] \in Label /\ Top.todo[2] \in Label
      /\ Top.todo[3] \in Label
  BY <1>1, <1>2 DEF Merge
<1>4. Tail(Tail(Top.todo)) \in Seq(Label) /\ Len(Tail(Tail(Top.todo))) = Len(Top.todo) - 2
  BY <1>1, <1>2, TailTail
<1>5. Len(Tail(Tail(Top.todo))) % 2 = 1
  <2>1. Len(Top.todo) \in Nat
    BY <1>2
  <2>2. \A k \in Nat : k >= 3 /\ k % 2 = 1 => (k - 2) % 2 = 1
    OBVIOUS
  <2> QED
    BY <1>1, <1>2, <1>4, <2>1, <2>2
<1>6. /\ live \in BOOLEAN /\ Top.fall \in BOOLEAN /\ Top.exit \in BOOLEAN
      /\ instrs \in Seq(Event) /\ currentLabel \in Label
  BY <1>1, TopLabels DEF TypeInv, TypeOK
<1>7. f \in Frame /\ f.kind = "arm" /\ f.todo = Tail(Tail(Top.todo))
  BY <1>1, <1>4, <1>6 DEF Frame
<1>8. FrameOK(f)
  BY <1>5, <1>7 DEF FrameOK, LoopKinds, FlushKinds
<1>9. term \in Terms /\ to \in Seq(Label)
  BY <1>3, DispatchType
<1>10. /\ ReplaceTop(f) /\ live' = Top.fall /\ blocks' = blocks \o <<b1, b2>>
       /\ currentLabel' = Top.todo[2] /\ instrs' = <<>>
       /\ UNCHANGED <<nextBlock, nextDefer, deferred, loopStack, fn, fnCount, done>>
  BY DEF NextArm, Unchanged_fn
<1> HIDE DEF f, term, to
<1>11. b1 \in Block
  <2>1. "jump" \in Terms /\ <<Merge(Top)>> \in Seq(Label)
    BY <1>3, Seq1 DEF Terms
  <2> QED
    BY <1>6, <2>1, BlockType DEF Finished
<1>12. b2 \in Block
  BY <1>3, <1>6, <1>9, EmptyIn, BlockType
<1> HIDE DEF b1, b2
<1>13. blocks' \in Seq(Block)
  BY <1>10, <1>11, <1>12, Cat2 DEF TypeInv, TypeOK
<1>14. stack' \in Seq(Frame) /\ StackOK'
  BY <1>1, <1>7, <1>8, <1>10, ReplaceType DEF ReplaceTop
<1> QED
  BY <1>1, <1>3, <1>6, <1>10, <1>13, <1>14, EmptyIn DEF TypeInv, TypeOK, Shape

LEMMA CloseExprType == TypeInv /\ CloseExpr => TypeInv'
<1> SUFFICES ASSUME TypeInv, CloseExpr PROVE TypeInv'
  OBVIOUS
<1>1. stack # <<>> /\ ~done /\ Len(Top.todo) = 1
  BY TopType DEF CloseExpr, TopIs
<1>2. Merge(Top) \in Label /\ Top.exit \in BOOLEAN /\ Top.fall \in BOOLEAN
  BY <1>1, TopLabels
<1>3. "jump" \in Terms /\ <<Merge(Top)>> \in Seq(Label)
  BY <1>2, Seq1 DEF Terms
<1>4. /\ Switch("jump", <<Merge(Top)>>, Merge(Top)) /\ Pop
      /\ live' = (Top.exit \/ live \/ (Top.kind = "arm" /\ Top.fall))
      /\ UNCHANGED <<nextBlock, nextDefer, deferred, loopStack, fn, fnCount, done>>
  BY DEF CloseExpr, Unchanged_fn
<1>5. blocks' \in Seq(Block) /\ instrs' \in Seq(Event) /\ currentLabel' = Merge(Top)
  BY <1>1, <1>3, <1>4, SwitchType, Zenon DEF TypeInv
<1>6. stack' \in Seq(Frame) /\ StackOK'
  BY <1>1, <1>4, PopType
<1>7. live' \in BOOLEAN
  BY <1>4, Zenon
<1> QED
  BY <1>1, <1>2, <1>4, <1>5, <1>6, <1>7 DEF TypeInv, TypeOK, Shape

LEMMA EmptyMatchType == TypeInv /\ EmptyMatch => TypeInv'
  BY ThreeFresh DEF EmptyMatch, CanOpen, Unchanged_fn, TypeInv, TypeOK, Shape, StackOK

LEMMA FinishFnType ==
  ASSUME TypeInv, ~done, FinishFn
  PROVE  /\ blocks' \in Seq(Block) /\ instrs' \in Seq(Event)
         /\ currentLabel' = NoLabel /\ done' = TRUE
         /\ UNCHANGED <<fn, fnCount, nextBlock, live>>
<1>1. "return" \in Terms /\ <<>> \in Seq(Label)
  BY EmptyIn DEF Terms
<1>2. /\ Switch("return", <<>>, NoLabel) /\ done' = TRUE
      /\ UNCHANGED <<fn, fnCount, nextBlock, live>>
  BY DEF FinishFn
<1>3. blocks' \in Seq(Block) /\ instrs' \in Seq(Event) /\ currentLabel' = NoLabel
  BY <1>1, <1>2, SwitchType, Zenon DEF TypeInv
<1> QED
  BY <1>2, <1>3

LEMMA EndFnType == TypeInv /\ EndFn => TypeInv'
<1> SUFFICES ASSUME TypeInv, EndFn PROVE TypeInv'
  OBVIOUS
<1>1. ~done /\ stack = <<>> /\ UNCHANGED <<nextDefer, loopStack>>
  BY DEF EndFn
<1>2. CASE deferred = <<>>
  BY <1>1, <1>2, FinishFnType DEF EndFn, TypeInv, TypeOK, Shape, StackOK
<1>3. CASE deferred # <<>>
  BY <1>1, <1>3, BeginFlushType DEF EndFn, FlushKinds, TypeInv, TypeOK, Shape
<1> QED
  BY <1>2, <1>3

LEMMA EndFlushExitType == TypeInv /\ EndFlushExit => TypeInv'
<1> SUFFICES ASSUME TypeInv, EndFlushExit PROVE TypeInv'
  OBVIOUS
<1>1. /\ stack # <<>> /\ ~done /\ Top.kind = "flush_exit" /\ FinishFn /\ Pop
      /\ UNCHANGED <<nextDefer, deferred, loopStack>>
  BY TopType DEF EndFlushExit, TopIs
<1>2. Len(stack) = 1
  BY <1>1, TopType DEF TypeInv, Shape, StackOK, Top
<1>3. stack' \in Seq(Frame) /\ StackOK' /\ stack' = <<>>
  <2>1. stack \in Seq(Frame)
    BY DEF TypeInv, TypeOK
  <2> QED
    BY <1>1, <1>2, <2>1, PopType DEF Pop
<1> QED
  BY <1>1, <1>3, FinishFnType DEF TypeInv, TypeOK, Shape

LEMMA EndMainType == TypeInv /\ EndMain => TypeInv'
<1> SUFFICES ASSUME TypeInv, EndMain PROVE TypeInv'
  OBVIOUS
<1> QED
  BY FinishFnType DEF EndMain, TypeInv, TypeOK, Shape, StackOK

LEMMA ResetFnType == TypeInv /\ ResetFn => TypeInv'
<1> SUFFICES ASSUME TypeInv, ResetFn PROVE TypeInv'
  OBVIOUS
<1>1. fn' \in {"fn", "__main"} /\ fnCount' \in Nat
  BY FnKindsAssumption DEF ResetFn, TypeInv, TypeOK
<1>2. /\ instrs' \in Seq(Event) /\ blocks' \in Seq(Block) /\ deferred' \in Seq(Nat)
      /\ loopStack' \in Seq(LoopLabels) /\ stack' \in Seq(Frame)
  BY EmptyIn DEF ResetFn
<1>3. currentLabel' \in Label /\ done' = FALSE
  BY DEF ResetFn, Label
<1>4. TypeOK'
  BY <1>1, <1>2, <1>3 DEF ResetFn, TypeOK
<1>5. Shape'
  BY DEF ResetFn, Shape, StackOK
<1> QED
  BY <1>4, <1>5 DEF TypeInv

LEMMA TypeStep == TypeInv /\ [Next]_vars => TypeInv'
<1> SUFFICES ASSUME TypeInv, [Next]_vars PROVE TypeInv'
  OBVIOUS
<1>1. CASE Stmt
  BY <1>1, LowerDeferType, LowerReturnType, FlushNextType, EndFlushReturnType,
     LowerBreakType, LowerContinueType, OpenForType, OpenWhileType,
     CloseWhileCondType, OpenLoopType, CloseLoopType DEF Stmt
<1>2. CASE Expr
  <2>1. CASE OrReturn \/ OrPanic \/ OrZero
    <3>1. /\ "return" \in Terms /\ "unreachable" \in Terms /\ "jump" \in Terms
          /\ <<>> \in Seq(Label) /\ <<nextBlock + 2>> \in Seq(Label)
      BY ThreeFresh, Seq1, EmptyIn DEF Terms
    <3> QED
      BY <2>1, <3>1, OrOpType DEF OrReturn, OrPanic, OrZero
  <2>2. CASE OpenOrElse \/ OpenIf \/ CloseThen \/ CloseExpr \/ EmptyMatch
    BY <2>2, OpenOrElseType, OpenIfType, CloseThenType, CloseExprType, EmptyMatchType
  <2>3. ASSUME NEW n \in 1..MaxArms, NEW wild \in BOOLEAN, OpenMatch(n, wild)
        PROVE  TypeInv'
    BY <2>3, OpenMatchType
  <2>4. ASSUME NEW wild \in BOOLEAN, NextArm(wild) PROVE TypeInv'
    BY <2>4, NextArmType
  <2> QED
    BY <1>2, <2>1, <2>2, <2>3, <2>4 DEF Expr
<1>3. CASE Fn
  BY <1>3, EndFnType, EndFlushExitType, EndMainType, ResetFnType DEF Fn
<1>4. CASE UNCHANGED vars
  BY <1>4 DEF vars, TypeInv, TypeOK, Shape, StackOK
<1> QED
  BY <1>1, <1>2, <1>3, <1>4 DEF Next

(* Every state of the lowering is well typed, and a function is handed over *)
(* only when every construct it opened has been closed.                     *)
THEOREM TypeCorrect == Spec => []TypeInv
  BY TypeInit, TypeStep, PTL DEF Spec

-----------------------------------------------------------------------------
(* The labels of short sequences.                                           *)

LEMMA Range0 == Range(<<>>) = {}
  BY DEF Range

LEMMA Range1 == ASSUME NEW x PROVE Range(<<x>>) = {x}
  BY DEF Range

LEMMA Range2 == ASSUME NEW x, NEW y PROVE Range(<<x, y>>) = {x, y}
<1>1. DOMAIN <<x, y>> = {1, 2}
  OBVIOUS
<1> QED
  BY <1>1 DEF Range

(* Taking the first label of a list leaves the others in its tail. *)
LEMMA RangeTail ==
  ASSUME NEW S, NEW s \in Seq(S), s # <<>>
  PROVE  Range(s) = {s[1]} \cup Range(Tail(s))
<1>1. /\ Len(s) \in Nat /\ Len(s) >= 1 /\ DOMAIN s = 1..Len(s)
      /\ DOMAIN Tail(s) = 1..(Len(s) - 1)
      /\ \A i \in 1..(Len(s) - 1) : Tail(s)[i] = s[i + 1]
  OBVIOUS
<1>2. ASSUME NEW x \in Range(s) PROVE x \in {s[1]} \cup Range(Tail(s))
  <2>1. PICK i \in 1..Len(s) : x = s[i]
    BY <1>1 DEF Range
  <2>2. CASE i = 1
    BY <2>1, <2>2
  <2>3. CASE i # 1
    <3>1. i - 1 \in 1..(Len(s) - 1) /\ Tail(s)[i - 1] = x
      BY <1>1, <2>1, <2>3
    <3> QED
      BY <1>1, <3>1 DEF Range
  <2> QED
    BY <2>2, <2>3
<1>3. ASSUME NEW x \in {s[1]} \cup Range(Tail(s)) PROVE x \in Range(s)
  <2>1. CASE x = s[1]
    BY <1>1, <2>1 DEF Range
  <2>2. CASE x \in Range(Tail(s))
    <3>1. PICK i \in 1..(Len(s) - 1) : x = Tail(s)[i]
      BY <1>1, <2>2 DEF Range
    <3>2. i + 1 \in 1..Len(s) /\ x = s[i + 1]
      BY <1>1, <3>1
    <3> QED
      BY <1>1, <3>2 DEF Range
  <2> QED
    BY <1>3, <2>1, <2>2
<1> QED
  BY <1>2, <1>3

LEMMA RangeTailTail ==
  ASSUME NEW S, NEW s \in Seq(S), Len(s) >= 3
  PROVE  Range(s) = {s[1], s[2]} \cup Range(Tail(Tail(s)))
<1>1. Len(s) \in Nat /\ s # <<>> /\ DOMAIN s = 1..Len(s)
  OBVIOUS
<1>2. /\ Tail(s) \in Seq(S) /\ Len(Tail(s)) = Len(s) - 1 /\ Tail(s)[1] = s[2]
  BY <1>1
<1>3. ASSUME NEW t, Len(t) = Len(s) - 1 PROVE t # <<>>
  BY <1>1, <1>3, NonEmpty
<1>4. Tail(s) # <<>>
  BY <1>2, <1>3, Zenon
<1>5. Range(s) = {s[1]} \cup Range(Tail(s))
  BY <1>1, RangeTail, Zenon
<1>6. Range(Tail(s)) = {Tail(s)[1]} \cup Range(Tail(Tail(s)))
  BY <1>2, <1>4, RangeTail, Zenon
<1> QED
  BY <1>2, <1>5, <1>6

-----------------------------------------------------------------------------
(* What finishing blocks does to the labels and the jumps.                  *)

LabelsOf(s) == {s[i].label : i \in DOMAIN s}

TargetsOf(s) == UNION {Range(s[i].to) : i \in DOMAIN s}

LEMMA AppendOf ==
  ASSUME NEW S, NEW s \in Seq(S), NEW b
  PROVE  /\ LabelsOf(Append(s, b)) = LabelsOf(s) \cup {b.label}
         /\ TargetsOf(Append(s, b)) = TargetsOf(s) \cup Range(b.to)
         /\ Append(s, b) \in Seq(S \cup {b})
<1> DEFINE t == Append(s, b)
<1>1. /\ DOMAIN t = 1..(Len(s) + 1) /\ DOMAIN s = 1..Len(s) /\ Len(s) \in Nat
      /\ \A i \in 1..Len(s) : t[i] = s[i]
      /\ t[Len(s) + 1] = b
      /\ t \in Seq(S \cup {b})
  OBVIOUS
<1> HIDE DEF t
<1>2. 1..(Len(s) + 1) = 1..Len(s) \cup {Len(s) + 1}
  BY <1>1
<1>3. LabelsOf(t) = LabelsOf(s) \cup {b.label}
  BY <1>1, <1>2 DEF LabelsOf
<1>4. TargetsOf(t) = TargetsOf(s) \cup Range(b.to)
  BY <1>1, <1>2 DEF TargetsOf
<1> QED
  BY <1>1, <1>3, <1>4 DEF t

LEMMA BlocksOf == /\ BlockLabels = LabelsOf(blocks) /\ JumpTargets = TargetsOf(blocks)
                  /\ BlockLabels' = LabelsOf(blocks') /\ JumpTargets' = TargetsOf(blocks')
  BY DEF BlockLabels, JumpTargets, LabelsOf, TargetsOf

(* What opening, closing and continuing a construct does to the labels that *)
(* are still pending.                                                       *)
LEMMA PendingPush ==
  ASSUME TypeOK, NEW f, Push(f)
  PROVE  /\ Pending' = Pending \cup Range(f.todo)
         /\ BackTargets' = BackTargets \cup ({f.head} \ {NoLabel})
<1>1. stack \in Seq(Frame)
  BY DEF TypeOK
<1>2. /\ DOMAIN stack' = 1..(Len(stack) + 1) /\ DOMAIN stack = 1..Len(stack)
      /\ Len(stack) \in Nat
      /\ \A i \in 1..Len(stack) : stack'[i] = stack[i]
      /\ stack'[Len(stack) + 1] = f
  BY <1>1 DEF Push
<1>3. 1..(Len(stack) + 1) = 1..Len(stack) \cup {Len(stack) + 1}
  BY <1>2
<1>4. Pending' = Pending \cup Range(f.todo)
  BY <1>2, <1>3 DEF Pending
<1>5. BackTargets' = BackTargets \cup ({f.head} \ {NoLabel})
  BY <1>2, <1>3 DEF BackTargets
<1> QED
  BY <1>4, <1>5

LEMMA PendingPop ==
  ASSUME TypeOK, stack # <<>>, Pop
  PROVE  /\ Pending = Pending' \cup Range(Top.todo)
         /\ BackTargets' \subseteq BackTargets
<1>1. stack \in Seq(Frame)
  BY DEF TypeOK
<1>2. /\ DOMAIN stack' = 1..(Len(stack) - 1) /\ DOMAIN stack = 1..Len(stack)
      /\ Len(stack) \in Nat /\ Len(stack) >= 1
      /\ \A i \in 1..(Len(stack) - 1) : stack'[i] = stack[i]
  BY <1>1 DEF Pop
<1>3. 1..Len(stack) = 1..(Len(stack) - 1) \cup {Len(stack)}
  BY <1>2
<1>4. Pending = Pending' \cup Range(Top.todo)
  BY <1>2, <1>3 DEF Pending, Top
<1>5. BackTargets' \subseteq BackTargets
  BY <1>2, <1>3 DEF BackTargets
<1> QED
  BY <1>4, <1>5

(* The labels given out so far. *)
Numbered == {Entry} \cup 0..(nextBlock - 1)

(* Closing a construct that has one label left. *)
LEMMA LastLabel ==
  ASSUME NEW S, NEW s \in Seq(S), Len(s) = 1
  PROVE  Range(s) = {s[Len(s)]}
<1>1. DOMAIN s = {1}
  OBVIOUS
<1> QED
  BY <1>1 DEF Range

LEMMA NoStack == stack = <<>> => Pending = {} /\ BackTargets = {}
  BY DEF Pending, BackTargets

LEMMA DispatchRange ==
  ASSUME NEW wild, NEW body, NEW next
  PROVE  Range(DispatchTo(wild, body, next)) \subseteq {body, next}
  BY Range1, Range2 DEF DispatchTo

-----------------------------------------------------------------------------
(* A label is used once it is that of a block, finished or current, or      *)
(* pending; fresh_label only hands out numbers above all of them.           *)

DistinctBlocks(s) == IsInjective([i \in DOMAIN s |-> s[i].label])

DistinctTodo(st) ==
    \A i, j \in DOMAIN st :
       \A k \in DOMAIN st[i].todo, l \in DOMAIN st[j].todo :
          st[i].todo[k] = st[j].todo[l] => i = j /\ k = l

Unique == UniqueLabels /\ Started \cup Pending \subseteq Numbered /\ Entry \notin Pending

(* The four parts of UniqueLabels, for the state before and after.          *)
LEMMA UniqueParts ==
  UniqueLabels <=> /\ DistinctBlocks(blocks) /\ (~done => currentLabel \notin BlockLabels)
                   /\ Started \cap Pending = {} /\ DistinctTodo(stack)
  BY DEF UniqueLabels, DistinctBlocks, DistinctTodo

LEMMA UniquePartsNext ==
  UniqueLabels' <=> /\ DistinctBlocks(blocks') /\ (~done' => currentLabel' \notin BlockLabels')
                    /\ Started' \cap Pending' = {} /\ DistinctTodo(stack')
  BY DEF UniqueLabels, DistinctBlocks, DistinctTodo

LEMMA LabelsAppend ==
  ASSUME NEW S, NEW s \in Seq(S), NEW b
  PROVE  LabelsOf(Append(s, b)) = LabelsOf(s) \cup {b.label}
  BY AppendOf

LEMMA TypeAppend ==
  ASSUME NEW S, NEW s \in Seq(S), NEW b
  PROVE  Append(s, b) \in Seq(S \cup {b})
  OBVIOUS

LEMMA DistinctAppend ==
  ASSUME NEW S, NEW s \in Seq(S), NEW b, DistinctBlocks(s), b.label \notin LabelsOf(s)
  PROVE  DistinctBlocks(Append(s, b))
<1> DEFINE t == Append(s, b)
<1>1. /\ DOMAIN t = 1..(Len(s) + 1) /\ DOMAIN s = 1..Len(s) /\ Len(s) \in Nat
      /\ \A i \in 1..Len(s) : t[i] = s[i]
      /\ t[Len(s) + 1] = b
  OBVIOUS
<1> HIDE DEF t
<1>2. \A i, j \in DOMAIN s : s[i].label = s[j].label => i = j
  BY DEF DistinctBlocks, IsInjective
<1>3. \A i \in DOMAIN s : s[i].label # b.label
  BY DEF LabelsOf
<1>4. \A i, j \in DOMAIN t : t[i].label = t[j].label => i = j
  BY <1>1, <1>2, <1>3
<1> QED
  BY <1>4 DEF DistinctBlocks, IsInjective, t

(* One, two or three blocks with labels of their own join the list.         *)
LEMMA Join1 ==
  ASSUME TypeInv, ~done, UniqueLabels, NEW b, b.label = currentLabel,
         blocks' = Append(blocks, b)
  PROVE  DistinctBlocks(blocks') /\ BlockLabels' = BlockLabels \cup {currentLabel}
<1>1. blocks \in Seq(Block)
  BY DEF TypeInv, TypeOK
<1>2. DistinctBlocks(blocks) /\ currentLabel \notin LabelsOf(blocks)
  BY UniqueParts, BlocksOf
<1>3. DistinctBlocks(Append(blocks, b))
  BY <1>1, <1>2, DistinctAppend, Zenon
<1>4. LabelsOf(Append(blocks, b)) = LabelsOf(blocks) \cup {b.label}
  BY <1>1, AppendOf, Zenon
<1> QED
  BY <1>3, <1>4, BlocksOf

LEMMA Join2 ==
  ASSUME TypeInv, ~done, UniqueLabels, NEW b, NEW c, b.label = currentLabel,
         blocks' = blocks \o <<b, c>>, c.label \notin Started
  PROVE  /\ DistinctBlocks(blocks')
         /\ BlockLabels' = BlockLabels \cup {currentLabel, c.label}
<1> DEFINE s == Append(blocks, b)
<1>1. blocks \in Seq(Block)
  BY DEF TypeInv, TypeOK
<1>2. DistinctBlocks(blocks) /\ currentLabel \notin LabelsOf(blocks)
  BY UniqueParts, BlocksOf
<1>3. /\ DistinctBlocks(s) /\ LabelsOf(s) = LabelsOf(blocks) \cup {currentLabel}
      /\ s \in Seq(Block \cup {b})
  BY <1>1, <1>2, DistinctAppend, AppendOf
<1>4. blocks' = Append(s, c)
  BY <1>1
<1>5. c.label \notin LabelsOf(s)
  BY <1>3, BlocksOf DEF Started
<1> HIDE DEF s
<1>6. DistinctBlocks(Append(s, c))
  BY <1>3, <1>5, DistinctAppend, Zenon
<1>7. LabelsOf(Append(s, c)) = LabelsOf(s) \cup {c.label}
  BY <1>3, LabelsAppend, Zenon
<1> QED
  BY <1>3, <1>4, <1>6, <1>7, BlocksOf

LEMMA Join3 ==
  ASSUME TypeInv, ~done, UniqueLabels, NEW b, NEW c, NEW d, b.label = currentLabel,
         blocks' = blocks \o <<b, c, d>>, c.label \notin Started,
         d.label \notin Started, c.label # d.label
  PROVE  /\ DistinctBlocks(blocks')
         /\ BlockLabels' = BlockLabels \cup {currentLabel, c.label, d.label}
<1> DEFINE s == Append(blocks, b)
           t == Append(s, c)
<1>1. blocks \in Seq(Block)
  BY DEF TypeInv, TypeOK
<1>2. DistinctBlocks(blocks) /\ currentLabel \notin LabelsOf(blocks)
  BY UniqueParts, BlocksOf
<1>3. /\ DistinctBlocks(s) /\ LabelsOf(s) = LabelsOf(blocks) \cup {currentLabel}
      /\ s \in Seq(Block \cup {b})
  BY <1>1, <1>2, DistinctAppend, AppendOf
<1>4. blocks' = Append(t, d)
  BY <1>1
<1>5. c.label \notin LabelsOf(s) /\ d.label \notin LabelsOf(s)
  BY <1>3, BlocksOf DEF Started
<1> HIDE DEF s
<1>6. DistinctBlocks(t)
  BY <1>3, <1>5, DistinctAppend, Zenon
<1>t. LabelsOf(t) = LabelsOf(s) \cup {c.label} /\ t \in Seq((Block \cup {b}) \cup {c})
  BY <1>3, LabelsAppend, TypeAppend, Zenon
<1>7. d.label \notin LabelsOf(t)
  BY <1>5, <1>t
<1> HIDE DEF t
<1>8. DistinctBlocks(Append(t, d))
  BY <1>6, <1>7, <1>t, DistinctAppend, Zenon
<1>9. LabelsOf(Append(t, d)) = LabelsOf(t) \cup {d.label}
  BY <1>t, LabelsAppend, Zenon
<1> QED
  BY <1>3, <1>4, <1>t, <1>8, <1>9, BlocksOf

-----------------------------------------------------------------------------
(* The three ways an action changes the stack.                              *)

LEMMA PushDistinct ==
  ASSUME TypeInv, UniqueLabels, NEW f, Push(f), IsInjective(f.todo),
         Range(f.todo) \cap Pending = {}
  PROVE  DistinctTodo(stack')
<1>1. /\ DOMAIN stack' = 1..(Len(stack) + 1) /\ DOMAIN stack = 1..Len(stack)
      /\ Len(stack) \in Nat
      /\ \A i \in 1..Len(stack) : stack'[i] = stack[i]
      /\ stack'[Len(stack) + 1] = f
  BY DEF Push, TypeInv, TypeOK
<1>2. \A i \in DOMAIN stack : \A k \in DOMAIN stack[i].todo, l \in DOMAIN f.todo :
         stack[i].todo[k] # f.todo[l]
  BY DEF Pending, Range
<1>3. \A k, l \in DOMAIN f.todo : f.todo[k] = f.todo[l] => k = l
  BY DEF IsInjective
<1>4. DistinctTodo(stack)
  BY UniqueParts
<1> SUFFICES ASSUME NEW i \in DOMAIN stack', NEW j \in DOMAIN stack',
                    NEW k \in DOMAIN stack'[i].todo, NEW l \in DOMAIN stack'[j].todo,
                    stack'[i].todo[k] = stack'[j].todo[l]
             PROVE  i = j /\ k = l
  BY DEF DistinctTodo
<1>5. CASE i \in DOMAIN stack /\ j \in DOMAIN stack
  BY <1>1, <1>4, <1>5 DEF DistinctTodo
<1>6. CASE i \notin DOMAIN stack /\ j \notin DOMAIN stack
  BY <1>1, <1>3, <1>6
<1>7. CASE i \in DOMAIN stack /\ j \notin DOMAIN stack
  BY <1>1, <1>2, <1>7
<1>8. CASE i \notin DOMAIN stack /\ j \in DOMAIN stack
  BY <1>1, <1>2, <1>8
<1> QED
  BY <1>5, <1>6, <1>7, <1>8

(* Closing the construct on top: its labels are those of no other. *)
LEMMA PopDistinct ==
  ASSUME TypeInv, UniqueLabels, stack # <<>>, Pop
  PROVE  /\ DistinctTodo(stack') /\ Pending' \subseteq Pending
         /\ Range(Top.todo) \cap Pending' = {} /\ Range(Top.todo) \subseteq Pending
<1>1. /\ DOMAIN stack' = 1..(Len(stack) - 1) /\ DOMAIN stack = 1..Len(stack)
      /\ Len(stack) \in Nat /\ Len(stack) >= 1
      /\ \A i \in 1..(Len(stack) - 1) : stack'[i] = stack[i]
  BY DEF Pop, TypeInv, TypeOK
<1>2. DistinctTodo(stack)
  BY UniqueParts
<1>3. DistinctTodo(stack')
  BY <1>1, <1>2 DEF DistinctTodo
<1>4. Pending' \subseteq Pending
  BY <1>1 DEF Pending
<1>5. Range(Top.todo) \subseteq Pending
  BY <1>1 DEF Pending, Top
<1>6. Range(Top.todo) \cap Pending' = {}
  <2> SUFFICES ASSUME NEW x \in Range(Top.todo), x \in Pending' PROVE FALSE
    OBVIOUS
  <2>1. PICK i \in DOMAIN stack' : x \in Range(stack'[i].todo)
    BY DEF Pending
  <2>2. PICK k \in DOMAIN stack[i].todo : x = stack[i].todo[k]
    BY <1>1, <2>1 DEF Range
  <2>3. PICK l \in DOMAIN stack[Len(stack)].todo : x = stack[Len(stack)].todo[l]
    BY DEF Top, Range
  <2>4. i \in DOMAIN stack /\ Len(stack) \in DOMAIN stack /\ i # Len(stack)
    BY <1>1
  <2> QED
    BY <1>2, <2>2, <2>3, <2>4 DEF DistinctTodo
<1> QED
  BY <1>3, <1>4, <1>5, <1>6

(* Starting the first d labels of the construct at k. *)
LEMMA TakeDistinct ==
  ASSUME TypeInv, UniqueLabels, NEW k \in DOMAIN stack, NEW f, NEW d \in Nat,
         stack' = [stack EXCEPT ![k] = f],
         f.todo \in Seq(Label), Len(f.todo) = Len(stack[k].todo) - d,
         \A i \in 1..Len(f.todo) : f.todo[i] = stack[k].todo[i + d]
  PROVE  /\ DistinctTodo(stack') /\ Pending' \subseteq Pending
         /\ \A i \in DOMAIN stack[k].todo : i <= d => stack[k].todo[i] \notin Pending'
         /\ \A i \in DOMAIN stack[k].todo : stack[k].todo[i] \in Pending
<1>1. /\ DOMAIN stack' = DOMAIN stack /\ stack'[k] = f /\ stack[k] \in Frame
      /\ \A i \in DOMAIN stack : i # k => stack'[i] = stack[i]
  BY DEF TypeInv, TypeOK
<1>2. stack[k].todo \in Seq(Label)
  BY <1>1 DEF Frame
<1>3. DistinctTodo(stack)
  BY UniqueParts
(* Where the label at i, j of the new stack was in the old one. *)
<1> DEFINE old(i, j) == IF i = k THEN j + d ELSE j
<1>4. \A i \in DOMAIN stack' : \A j \in DOMAIN stack'[i].todo :
         /\ old(i, j) \in DOMAIN stack[i].todo
         /\ stack'[i].todo[j] = stack[i].todo[old(i, j)]
  <2> TAKE i \in DOMAIN stack'
  <2>1. CASE i = k
    <3>1. /\ DOMAIN f.todo = 1..Len(f.todo) /\ DOMAIN stack[k].todo = 1..Len(stack[k].todo)
          /\ Len(stack[k].todo) \in Nat
      BY <1>2
    <3>2. stack'[i] = f /\ stack[i] = stack[k]
      BY <1>1, <2>1
    <3>3. \A j \in 1..Len(f.todo) : j + d \in 1..Len(stack[k].todo)
      BY <3>1
    <3> QED
      BY <2>1, <3>1, <3>2, <3>3
  <2>2. CASE i # k
    BY <1>1, <2>2
  <2> QED
    BY <2>1, <2>2
<1>5. DistinctTodo(stack')
  <2> SUFFICES ASSUME NEW i \in DOMAIN stack', NEW j \in DOMAIN stack',
                      NEW m \in DOMAIN stack'[i].todo, NEW l \in DOMAIN stack'[j].todo,
                      stack'[i].todo[m] = stack'[j].todo[l]
               PROVE  i = j /\ m = l
    BY DEF DistinctTodo
  <2>1. i = j /\ old(i, m) = old(j, l)
    BY <1>1, <1>3, <1>4 DEF DistinctTodo
  <2>2. CASE i = k
    <3>1. m \in Nat /\ l \in Nat
      BY <1>1, <2>1, <2>2
    <3> QED
      BY <2>1, <2>2, <3>1
  <2>3. CASE i # k
    BY <2>1, <2>3
  <2> QED
    BY <2>2, <2>3
<1>6. Pending' \subseteq Pending
  <2> SUFFICES ASSUME NEW x \in Pending' PROVE x \in Pending
    OBVIOUS
  <2>0. PICK i \in DOMAIN stack' : x \in Range(stack'[i].todo)
    BY DEF Pending
  <2>1. PICK j \in DOMAIN stack'[i].todo : x = stack'[i].todo[j]
    BY <2>0 DEF Range
  <2>2. i \in DOMAIN stack /\ x \in Range(stack[i].todo)
    BY <1>1, <1>4, <2>1 DEF Range
  <2> QED
    BY <2>2 DEF Pending
<1>7. ASSUME NEW i \in DOMAIN stack[k].todo, i <= d PROVE stack[k].todo[i] \notin Pending'
  <2> SUFFICES ASSUME stack[k].todo[i] \in Pending' PROVE FALSE
    OBVIOUS
  <2>0. PICK j \in DOMAIN stack' : stack[k].todo[i] \in Range(stack'[j].todo)
    BY DEF Pending
  <2>1. PICK m \in DOMAIN stack'[j].todo : stack[k].todo[i] = stack'[j].todo[m]
    BY <2>0 DEF Range
  <2>2. j = k /\ i = old(j, m)
    BY <1>1, <1>3, <1>4, <2>1 DEF DistinctTodo
  <2>3. m \in Nat /\ m >= 1 /\ i \in Nat
    BY <1>1, <1>2, <2>1, <2>2
  <2> QED
    BY <1>7, <2>2, <2>3
<1>8. \A i \in DOMAIN stack[k].todo : stack[k].todo[i] \in Pending
  BY DEF Pending, Range
<1> QED
  BY <1>5, <1>6, <1>7, <1>8

-----------------------------------------------------------------------------
(* What a step has to show.                                                 *)

LEMMA Bounds0 == TypeInv => nextBlock \in Nat /\ Entry = -1
  BY DEF TypeInv, TypeOK, Entry

LEMMA FreshUnused ==
  ASSUME TypeInv, Unique
  PROVE  \A l \in Int : l >= nextBlock => l \notin Started /\ l \notin Pending
<1>1. nextBlock \in Nat /\ Entry = -1
  BY Bounds0
<1>2. \A l \in Int : l >= nextBlock => l \notin Numbered
  BY <1>1 DEF Numbered
<1> QED
  BY <1>2 DEF Unique

(* The labels X of further finished blocks, the current one and the pending *)
(* ones were pending before or are new, and do not meet.                    *)
LEMMA UniqueAdvance ==
  ASSUME TypeInv, Unique, ~done, ~done', NEW X,
         DistinctBlocks(blocks'), DistinctTodo(stack'),
         BlockLabels' \subseteq BlockLabels \cup {currentLabel} \cup X,
         X \cup {currentLabel'} \cup Pending' \subseteq Pending \cup nextBlock..(nextBlock' - 1),
         X \cap Pending' = {}, currentLabel' \notin X \cup Pending',
         nextBlock' \in Nat, nextBlock' >= nextBlock
  PROVE  Unique'
<1>1. Started = BlockLabels \cup {currentLabel} /\ Started' = BlockLabels' \cup {currentLabel'}
  BY DEF Started
<1>2. /\ nextBlock \in Nat /\ Entry = -1 /\ Started \cap Pending = {}
      /\ Started \cup Pending \subseteq Numbered
  BY Bounds0, UniqueParts DEF Unique
<1>3. \A x \in X \cup {currentLabel'} \cup Pending' : x \notin Started
  BY <1>2, FreshUnused
<1>4. currentLabel' \notin BlockLabels' /\ Started' \cap Pending' = {}
  BY <1>1, <1>3
<1>5. UniqueLabels'
  BY <1>4, UniquePartsNext
<1>6. Numbered \cup nextBlock..(nextBlock' - 1) \subseteq Numbered'
  <2>1. Numbered' = {Entry} \cup 0..(nextBlock' - 1)
    BY DEF Numbered
  <2>2. \A a, c \in Nat : c >= a => 0..(a - 1) \cup a..(c - 1) \subseteq 0..(c - 1)
    OBVIOUS
  <2>3. 0..(nextBlock - 1) \cup nextBlock..(nextBlock' - 1) \subseteq 0..(nextBlock' - 1)
    BY <1>2, <2>2
  <2> QED
    BY <2>1, <2>3 DEF Numbered
<1>7. Started' \cup Pending' \subseteq Numbered'
  BY <1>1, <1>2, <1>6
<1>8. Entry \notin Pending'
  <2>1. Entry \notin Pending
    BY DEF Unique
  <2>2. \A a, c \in Nat : -1 \notin a..(c - 1)
    OBVIOUS
  <2>3. Entry \notin nextBlock..(nextBlock' - 1)
    BY <1>2, <2>2
  <2> QED
    BY <2>1, <2>3
<1> QED
  BY <1>5, <1>7, <1>8 DEF Unique

(* A step that finishes the current block and starts another one. *)
LEMMA SwitchUnique ==
  ASSUME TypeInv, Unique, ~done, ~done', NEW term, NEW to, NEW l, Switch(term, to, l),
         DistinctTodo(stack'),
         {l} \cup Pending' \subseteq Pending \cup nextBlock..(nextBlock' - 1),
         l \notin Pending', nextBlock' \in Nat, nextBlock' >= nextBlock
  PROVE  Unique'
<1> DEFINE b == Finished(term, to)
<1>1. b.label = currentLabel /\ blocks' = Append(blocks, b) /\ currentLabel' = l
  BY DEF Switch, Finished, BB
<1> HIDE DEF b
<1>2. DistinctBlocks(blocks') /\ BlockLabels' = BlockLabels \cup {currentLabel}
  BY <1>1, Join1 DEF Unique
<1>3. /\ BlockLabels' \subseteq BlockLabels \cup {currentLabel} \cup {}
      /\ {} \cup {currentLabel'} \cup Pending' \subseteq Pending \cup nextBlock..(nextBlock' - 1)
      /\ {} \cap Pending' = {} /\ currentLabel' \notin {} \cup Pending'
  BY <1>1, <1>2
<1> QED
  BY <1>2, <1>3, UniqueAdvance, Zenon

(* A step that starts no label. *)
LEMMA SameUnique ==
  ASSUME Unique, UNCHANGED <<blocks, currentLabel, done, nextBlock>>,
         DistinctTodo(stack'), Pending' \subseteq Pending
  PROVE  Unique'
<1>1. Started' = Started /\ BlockLabels' = BlockLabels /\ Numbered' = Numbered
  BY DEF Started, BlockLabels, Numbered
<1>2. DistinctBlocks(blocks) /\ (~done => currentLabel \notin BlockLabels)
      /\ Started \cap Pending = {} /\ Started \cup Pending \subseteq Numbered
      /\ Entry \notin Pending
  BY UniqueParts DEF Unique
<1>3. UniqueLabels'
  BY <1>1, <1>2, UniquePartsNext
<1> QED
  BY <1>1, <1>2, <1>3 DEF Unique

LEMMA SameTodo ==
  ASSUME UNCHANGED stack, Unique PROVE DistinctTodo(stack') /\ Pending' = Pending
<1>1. DistinctTodo(stack)
  BY UniqueParts DEF Unique
<1> QED
  BY <1>1 DEF DistinctTodo, Pending

(* Going on in a dead block. *)
LEMMA DeadUnique ==
  ASSUME TypeInv, Unique, ~done, ~done', NEW term, NEW to, Switch(term, to, nextBlock),
         nextBlock' = nextBlock + 1, DistinctTodo(stack'), Pending' \subseteq Pending
  PROVE  Unique'
<1>1. nextBlock \in Nat
  BY Bounds0
<1>2. nextBlock \notin Pending
  BY <1>1, FreshUnused
<1> QED
  BY <1>1, <1>2, SwitchUnique

(* The labels a construct opens with are new, so no two of them are those   *)
(* of other constructs.                                                     *)
LEMMA PushUnique ==
  ASSUME TypeInv, Unique, NEW f, Push(f), IsInjective(f.todo), NEW n \in Nat,
         Range(f.todo) \subseteq nextBlock..(nextBlock + n)
  PROVE  DistinctTodo(stack') /\ Pending' = Pending \cup Range(f.todo)
<1>1. \A x \in Range(f.todo) : x \in Int /\ x >= nextBlock
  BY Bounds0
<1>2. Range(f.todo) \cap Pending = {}
  BY <1>1, FreshUnused
<1> QED
  BY <1>2, PushDistinct, PendingPush DEF Unique, TypeInv

LEMMA Injective0 == IsInjective(<<>>)
  BY DEF IsInjective

LEMMA Injective1 == ASSUME NEW x PROVE IsInjective(<<x>>)
  BY DEF IsInjective

LEMMA Injective2 == ASSUME NEW x, NEW y, x # y PROVE IsInjective(<<x, y>>)
<1>1. DOMAIN <<x, y>> = {1, 2}
  OBVIOUS
<1> QED
  BY <1>1 DEF IsInjective

-----------------------------------------------------------------------------
(* One lemma per action.                                                    *)

LEMMA LowerDeferUnique == TypeInv /\ Unique /\ LowerDefer => Unique'
  BY SameUnique, SameTodo DEF LowerDefer, Unchanged_fn

LEMMA BeginFlushUnique ==
  ASSUME TypeInv, Unique, NEW kind, BeginFlush(kind),
         UNCHANGED <<blocks, currentLabel, done, nextBlock>>
  PROVE  Unique'
<1> DEFINE f == [NewFrame(kind, <<>>, NoLabel, FALSE) EXCEPT !.rest = Reverse(Front(deferred))]
<1>1. f.todo = <<>> /\ Push(f)
  BY DEF BeginFlush, NewFrame
<1> HIDE DEF f
<1>2. Range(f.todo) = {} /\ IsInjective(f.todo)
  BY <1>1, Range0, Injective0
<1>3. DistinctTodo(stack') /\ Pending' = Pending
  BY <1>1, <1>2, PushUnique
<1> QED
  BY <1>3, SameUnique

LEMMA FlushNextUnique == TypeInv /\ Unique /\ FlushNext => Unique'
<1> SUFFICES ASSUME TypeInv, Unique, FlushNext PROVE Unique'
  OBVIOUS
<1> DEFINE f == [Top EXCEPT !.rest = Tail(@)]
<1>1. /\ UNCHANGED <<blocks, currentLabel, done, nextBlock>>
      /\ stack' = [stack EXCEPT ![Len(stack)] = f] /\ stack # <<>>
  BY DEF FlushNext, Unchanged_fn, ReplaceTop, TopIs
<1>2. /\ Len(stack) \in DOMAIN stack /\ Top \in Frame /\ Top = stack[Len(stack)]
      /\ Top.todo \in Seq(Label)
  BY <1>1, TopType, TopLabels DEF Top
<1>3. f.todo = Top.todo
  BY <1>2 DEF Frame
<1> HIDE DEF f
<1>4. /\ Len(f.todo) = Len(stack[Len(stack)].todo) - 0 /\ f.todo \in Seq(Label)
      /\ \A i \in 1..Len(f.todo) : f.todo[i] = stack[Len(stack)].todo[i + 0]
  BY <1>2, <1>3
<1>5. DistinctTodo(stack') /\ Pending' \subseteq Pending
  BY <1>1, <1>2, <1>4, TakeDistinct DEF Unique
<1> QED
  BY <1>1, <1>5, SameUnique

LEMMA LowerReturnUnique == TypeInv /\ Unique /\ LowerReturn => Unique'
<1> SUFFICES ASSUME TypeInv, Unique, LowerReturn PROVE Unique'
  OBVIOUS
<1>1. ~done /\ UNCHANGED done
  BY DEF LowerReturn, CanOpen, Unchanged_fn
<1>2. CASE deferred = <<>>
  <2>1. Switch("return", <<>>, nextBlock) /\ UNCHANGED stack /\ nextBlock' = nextBlock + 1
    BY <1>2 DEF LowerReturn, FinishReturn
  <2> QED
    BY <1>1, <2>1, DeadUnique, SameTodo
<1>3. CASE deferred # <<>>
  <2>1. BeginFlush("flush_return") /\ UNCHANGED <<blocks, currentLabel, nextBlock>>
    BY <1>3 DEF LowerReturn
  <2> QED
    BY <1>1, <2>1, BeginFlushUnique
<1> QED
  BY <1>2, <1>3

LEMMA EndFlushReturnUnique == TypeInv /\ Unique /\ EndFlushReturn => Unique'
<1> SUFFICES ASSUME TypeInv, Unique, EndFlushReturn PROVE Unique'
  OBVIOUS
<1>1. /\ stack # <<>> /\ Pop /\ Switch("return", <<>>, nextBlock) /\ UNCHANGED done
      /\ nextBlock' = nextBlock + 1
  BY DEF EndFlushReturn, TopIs, FinishReturn, Unchanged_fn
<1>2. ~done
  BY <1>1, TopType
<1>3. DistinctTodo(stack') /\ Pending' \subseteq Pending
  BY <1>1, PopDistinct DEF Unique
<1> QED
  BY <1>1, <1>2, <1>3, DeadUnique

LEMMA LowerBreakUnique == TypeInv /\ Unique /\ LowerBreak => Unique'
<1> SUFFICES ASSUME TypeInv, Unique, LowerBreak PROVE Unique'
  OBVIOUS
<1> DEFINE l == loopStack[Len(loopStack)].brk
<1>1. /\ ~done /\ Switch("jump", <<l>>, nextBlock) /\ UNCHANGED done
      /\ nextBlock' = nextBlock + 1
  BY DEF LowerBreak, JumpOut, CanOpen, Unchanged_fn
<1> HIDE DEF l
<1>2. PICK i \in DOMAIN stack : stack' = [stack EXCEPT ![i].exit = @ \/ live]
  BY DEF LowerBreak
<1> DEFINE f == [stack[i] EXCEPT !.exit = @ \/ live]
<1>3. stack[i] \in Frame
  BY DEF TypeInv, TypeOK
<1>4. f.todo = stack[i].todo /\ stack' = [stack EXCEPT ![i] = f] /\ f.todo \in Seq(Label)
  BY <1>2, <1>3 DEF Frame
<1> HIDE DEF f
<1>5. /\ Len(f.todo) = Len(stack[i].todo) - 0
      /\ \A j \in 1..Len(f.todo) : f.todo[j] = stack[i].todo[j + 0]
  BY <1>4
<1>6. DistinctTodo(stack') /\ Pending' \subseteq Pending
  BY <1>4, <1>5, TakeDistinct DEF Unique
<1> QED
  BY <1>1, <1>6, DeadUnique

LEMMA LowerContinueUnique == TypeInv /\ Unique /\ LowerContinue => Unique'
<1> SUFFICES ASSUME TypeInv, Unique, LowerContinue PROVE Unique'
  OBVIOUS
<1> DEFINE l == loopStack[Len(loopStack)].cont
<1>1. /\ ~done /\ Switch("jump", <<l>>, nextBlock) /\ UNCHANGED <<done, stack>>
      /\ nextBlock' = nextBlock + 1
  BY DEF LowerContinue, JumpOut, CanOpen, Unchanged_fn
<1> HIDE DEF l
<1> QED
  BY <1>1, DeadUnique, SameTodo

LEMMA OpenForUnique == TypeInv /\ Unique /\ OpenFor => Unique'
<1> SUFFICES ASSUME TypeInv, Unique, OpenFor PROVE Unique'
  OBVIOUS
<1> DEFINE b == BB(currentLabel, Append(instrs, Ev("init", nextBlock)), "jump",
                   <<nextBlock>>, live)
           c == BB(nextBlock, <<>>, "lt", <<nextBlock + 1, nextBlock + 2>>, live)
           f == NewFrame("for", <<nextBlock + 2>>, nextBlock, live)
<1>1. /\ blocks' = blocks \o <<b, c>> /\ currentLabel' = nextBlock + 1
      /\ nextBlock' = nextBlock + 3 /\ Push(f) /\ ~done /\ UNCHANGED done
  BY DEF OpenFor, CanOpen, Unchanged_fn
<1>2. b.label = currentLabel /\ c.label = nextBlock /\ f.todo = <<nextBlock + 2>>
  BY DEF BB, NewFrame
<1> HIDE DEF b, c, f
<1>3. nextBlock \in Nat
  BY Bounds0
<1>4. Range(f.todo) = {nextBlock + 2} /\ IsInjective(f.todo)
  BY <1>2, Range1, Injective1
<1>5. DistinctTodo(stack') /\ Pending' = Pending \cup {nextBlock + 2}
  BY <1>1, <1>3, <1>4, PushUnique
<1>6. \A k \in {0, 1, 2} : nextBlock + k \notin Started /\ nextBlock + k \notin Pending
  BY <1>3, FreshUnused
<1>g. nextBlock \notin Started /\ UniqueLabels
  BY <1>3, FreshUnused DEF Unique
<1>7. DistinctBlocks(blocks') /\ BlockLabels' = BlockLabels \cup {currentLabel, nextBlock}
  BY <1>1, <1>2, <1>g, Join2, Zenon
<1> DEFINE X == {nextBlock}
<1>8. /\ BlockLabels' \subseteq BlockLabels \cup {currentLabel} \cup X
      /\ X \cup {currentLabel'} \cup Pending' \subseteq Pending \cup nextBlock..(nextBlock' - 1)
      /\ X \cap Pending' = {} /\ currentLabel' \notin X \cup Pending'
      /\ nextBlock' \in Nat /\ nextBlock' >= nextBlock
  BY <1>1, <1>3, <1>5, <1>6, <1>7
<1> HIDE DEF X
<1> QED
  BY <1>1, <1>5, <1>7, <1>8, UniqueAdvance

(* Opening a construct that starts its first label and keeps two, or one.   *)
LEMMA OpenUnique ==
  ASSUME TypeInv, Unique, ~done, ~done', NEW term, NEW to, NEW f, NEW n \in {1, 2},
         Switch(term, to, nextBlock), Push(f), nextBlock' = nextBlock + n + 1,
         f.todo = IF n = 1 THEN <<nextBlock + 1>> ELSE <<nextBlock + 1, nextBlock + 2>>
  PROVE  Unique'
<1>1. nextBlock \in Nat
  BY Bounds0
<1>2. CASE n = 1
  <2>1. Range(f.todo) = {nextBlock + 1} /\ IsInjective(f.todo)
    BY <1>2, Range1, Injective1
  <2>2. DistinctTodo(stack') /\ Pending' = Pending \cup {nextBlock + 1}
    BY <1>1, <2>1, PushUnique
  <2>3. nextBlock \notin Pending
    BY <1>1, FreshUnused
  <2> QED
    BY <1>1, <1>2, <2>2, <2>3, SwitchUnique
<1>3. CASE n = 2
  <2>1. Range(f.todo) = {nextBlock + 1, nextBlock + 2} /\ IsInjective(f.todo)
    BY <1>1, <1>3, Range2, Injective2
  <2>2. DistinctTodo(stack') /\ Pending' = Pending \cup {nextBlock + 1, nextBlock + 2}
    BY <1>1, <2>1, PushUnique
  <2>3. nextBlock \notin Pending
    BY <1>1, FreshUnused
  <2> QED
    BY <1>1, <1>3, <2>2, <2>3, SwitchUnique
<1> QED
  BY <1>2, <1>3

LEMMA OpenWhileUnique == TypeInv /\ Unique /\ OpenWhile => Unique'
<1> SUFFICES ASSUME TypeInv, Unique, OpenWhile PROVE Unique'
  OBVIOUS
<1> DEFINE f == NewFrame("cond", <<nextBlock + 1, nextBlock + 2>>, nextBlock, FALSE)
<1>1. /\ Switch("jump", <<nextBlock>>, nextBlock) /\ Push(f) /\ nextBlock' = nextBlock + 3
      /\ ~done /\ UNCHANGED done
  BY DEF OpenWhile, CanOpen, Unchanged_fn
<1>2. f.todo = <<nextBlock + 1, nextBlock + 2>>
  BY DEF NewFrame
<1> HIDE DEF f
<1>3. nextBlock' = nextBlock + 2 + 1
  BY <1>1, Bounds0
<1> QED
  BY <1>1, <1>2, <1>3, OpenUnique

LEMMA OpenLoopUnique == TypeInv /\ Unique /\ OpenLoop => Unique'
<1> SUFFICES ASSUME TypeInv, Unique, OpenLoop PROVE Unique'
  OBVIOUS
<1> DEFINE f == NewFrame("loop", <<nextBlock + 1>>, nextBlock, FALSE)
<1>1. /\ Switch("jump", <<nextBlock>>, nextBlock) /\ Push(f) /\ nextBlock' = nextBlock + 2
      /\ ~done /\ UNCHANGED done
  BY DEF OpenLoop, CanOpen, Unchanged_fn
<1>2. f.todo = <<nextBlock + 1>>
  BY DEF NewFrame
<1> HIDE DEF f
<1>3. nextBlock' = nextBlock + 1 + 1
  BY <1>1, Bounds0
<1> QED
  BY <1>1, <1>2, <1>3, OpenUnique

LEMMA OpenIfUnique == TypeInv /\ Unique /\ OpenIf => Unique'
<1> SUFFICES ASSUME TypeInv, Unique, OpenIf PROVE Unique'
  OBVIOUS
<1> DEFINE f == NewFrame("then", <<nextBlock + 1, nextBlock + 2>>, NoLabel, FALSE)
<1>1. /\ Switch("branch", <<nextBlock, nextBlock + 1>>, nextBlock) /\ Push(f)
      /\ nextBlock' = nextBlock + 3 /\ ~done /\ UNCHANGED done
  BY DEF OpenIf, CanOpen, Unchanged_fn
<1>2. f.todo = <<nextBlock + 1, nextBlock + 2>>
  BY DEF NewFrame
<1> HIDE DEF f
<1>3. nextBlock' = nextBlock + 2 + 1
  BY <1>1, Bounds0
<1> QED
  BY <1>1, <1>2, <1>3, OpenUnique

(* The condition of a while and the then branch start the next label of     *)
(* their frame.                                                             *)
LEMMA NextLabelUnique ==
  ASSUME TypeInv, Unique, stack # <<>>, Len(Top.todo) = 2, ~done', NEW term, NEW to, NEW f,
         Switch(term, to, Top.todo[1]), stack' = [stack EXCEPT ![Len(stack)] = f],
         f.todo = Tail(Top.todo), UNCHANGED nextBlock
  PROVE  Unique'
<1>1. /\ ~done /\ Len(stack) \in DOMAIN stack /\ Top = stack[Len(stack)]
      /\ Top.todo \in Seq(Label) /\ nextBlock \in Nat /\ UniqueLabels
  BY TopType, TopLabels, Bounds0 DEF Top, Unique
<1> DEFINE k == Len(stack)
<1>2. /\ f.todo \in Seq(Label) /\ Len(f.todo) = Len(stack[k].todo) - 1
      /\ \A i \in 1..Len(f.todo) : f.todo[i] = stack[k].todo[i + 1]
      /\ 1 \in DOMAIN stack[k].todo
  BY <1>1
<1>k. k \in DOMAIN stack /\ stack' = [stack EXCEPT ![k] = f] /\ Top = stack[k]
  BY <1>1
<1> HIDE DEF k
<1>3. /\ DistinctTodo(stack') /\ Pending' \subseteq Pending
      /\ \A i \in DOMAIN stack[k].todo : i <= 1 => stack[k].todo[i] \notin Pending'
      /\ \A i \in DOMAIN stack[k].todo : stack[k].todo[i] \in Pending
  BY <1>1, <1>2, <1>k, TakeDistinct
<1>4. Top.todo[1] \notin Pending' /\ Top.todo[1] \in Pending
  BY <1>2, <1>3, <1>k
<1>5. {Top.todo[1]} \cup Pending' \subseteq Pending \cup nextBlock..(nextBlock' - 1)
  BY <1>3, <1>4
<1>6. nextBlock' \in Nat /\ nextBlock' >= nextBlock
  BY <1>1
<1> DEFINE l == Top.todo[1]
<1> HIDE DEF l
<1> QED
  BY <1>1, <1>3, <1>4, <1>5, <1>6, SwitchUnique DEF l

LEMMA CloseWhileCondUnique == TypeInv /\ Unique /\ CloseWhileCond => Unique'
<1> SUFFICES ASSUME TypeInv, Unique, CloseWhileCond PROVE Unique'
  OBVIOUS
<1> DEFINE f == [Top EXCEPT !.kind = "while", !.todo = Tail(@), !.exit = live]
<1>1. /\ stack # <<>> /\ Top.kind = "cond" /\ Switch("branch", Top.todo, Top.todo[1])
      /\ stack' = [stack EXCEPT ![Len(stack)] = f] /\ UNCHANGED <<done, nextBlock>>
  BY DEF CloseWhileCond, TopIs, ReplaceTop, Unchanged_fn
<1>2. ~done /\ Top \in Frame /\ Len(Top.todo) = 2
  BY <1>1, TopType DEF FrameOK
<1>3. f.todo = Tail(Top.todo)
  BY <1>2 DEF Frame
<1> HIDE DEF f
<1> QED
  BY <1>1, <1>2, <1>3, NextLabelUnique

LEMMA CloseThenUnique == TypeInv /\ Unique /\ CloseThen => Unique'
<1> SUFFICES ASSUME TypeInv, Unique, CloseThen PROVE Unique'
  OBVIOUS
<1> DEFINE f == [Top EXCEPT !.kind = "else", !.todo = Tail(@), !.exit = live]
<1>1. /\ stack # <<>> /\ Top.kind = "then" /\ Switch("jump", <<Merge(Top)>>, Top.todo[1])
      /\ stack' = [stack EXCEPT ![Len(stack)] = f] /\ UNCHANGED <<done, nextBlock>>
  BY DEF CloseThen, TopIs, ReplaceTop, Unchanged_fn
<1>2. ~done /\ Top \in Frame /\ Len(Top.todo) = 2
  BY <1>1, TopType DEF FrameOK
<1>3. f.todo = Tail(Top.todo)
  BY <1>2 DEF Frame
<1> HIDE DEF f
<1> QED
  BY <1>1, <1>2, <1>3, NextLabelUnique

LEMMA CloseLoopUnique == TypeInv /\ Unique /\ CloseLoop => Unique'
<1> SUFFICES ASSUME TypeInv, Unique, CloseLoop PROVE Unique'
  OBVIOUS
<1> DEFINE b == BB(currentLabel, instrs \o CounterStep(Top), "jump", <<Top.head>>, live)
<1>1. /\ stack # <<>> /\ Top.kind \in LoopKinds /\ blocks' = Append(blocks, b)
      /\ currentLabel' = Merge(Top) /\ Pop /\ UNCHANGED <<done, nextBlock>>
  BY DEF CloseLoop, TopIs, Unchanged_fn
<1>2. b.label = currentLabel
  BY DEF BB
<1> HIDE DEF b
<1>3. ~done /\ Len(Top.todo) = 1 /\ Top.todo \in Seq(Label) /\ nextBlock \in Nat
  BY <1>1, TopType, TopLabels, Bounds0 DEF FrameOK
<1>4. Range(Top.todo) = {currentLabel'}
  BY <1>1, <1>3, LastLabel DEF Merge
<1>u. UniqueLabels
  BY DEF Unique
<1>p. /\ DistinctTodo(stack') /\ Pending' \subseteq Pending
      /\ Range(Top.todo) \cap Pending' = {} /\ Range(Top.todo) \subseteq Pending
  BY <1>1, <1>u, PopDistinct, Zenon
<1>5. currentLabel' \notin Pending' /\ currentLabel' \in Pending
  BY <1>4, <1>p
<1>6. DistinctBlocks(blocks') /\ BlockLabels' = BlockLabels \cup {currentLabel}
  BY <1>1, <1>2, <1>3, <1>u, Join1, Zenon
<1> DEFINE X == {}
<1>7. /\ BlockLabels' \subseteq BlockLabels \cup {currentLabel} \cup X
      /\ X \cup {currentLabel'} \cup Pending' \subseteq Pending \cup nextBlock..(nextBlock' - 1)
      /\ X \cap Pending' = {} /\ currentLabel' \notin X \cup Pending'
      /\ nextBlock' \in Nat /\ nextBlock' >= nextBlock
  BY <1>1, <1>3, <1>5, <1>p, <1>6
<1>8. ~done'
  BY <1>1, <1>3
<1> HIDE DEF X
<1> QED
  BY <1>3, <1>p, <1>6, <1>7, <1>8, UniqueAdvance, Zenon

LEMMA OrOpUnique ==
  ASSUME TypeInv, Unique, NEW op, NEW errTerm, NEW errTo, OrOp(op, errTerm, errTo)
  PROVE  Unique'
<1> DEFINE b == Finished("branch", <<nextBlock, nextBlock + 1>>)
           c == BB(nextBlock, <<>>, "jump", <<nextBlock + 2>>, live)
           d == BB(nextBlock + 1, <<>>, errTerm, errTo, live)
<1>1. /\ blocks' = blocks \o <<b, c, d>> /\ currentLabel' = nextBlock + 2
      /\ nextBlock' = nextBlock + 3 /\ ~done /\ ~done' /\ UNCHANGED stack
  BY DEF OrOp, CanOpen, Unchanged_fn
<1>2. b.label = currentLabel /\ c.label = nextBlock /\ d.label = nextBlock + 1
  BY DEF BB, Finished
<1> HIDE DEF b, c, d
<1>3. nextBlock \in Nat /\ UniqueLabels
  BY Bounds0 DEF Unique
<1>4. \A k \in {0, 1, 2} : nextBlock + k \notin Started /\ nextBlock + k \notin Pending
  BY <1>3, FreshUnused
<1>5. c.label \notin Started /\ d.label \notin Started /\ c.label # d.label
  BY <1>2, <1>3, <1>4
<1>6. /\ DistinctBlocks(blocks')
      /\ BlockLabels' = BlockLabels \cup {currentLabel, c.label, d.label}
  BY <1>1, <1>2, <1>3, <1>5, Join3, Zenon
<1>7. DistinctTodo(stack') /\ Pending' = Pending
  BY <1>1, SameTodo
<1> DEFINE X == {nextBlock, nextBlock + 1}
<1>8. BlockLabels' \subseteq BlockLabels \cup {currentLabel} \cup X
  BY <1>2, <1>6
<1>9. /\ X \cup {currentLabel'} \cup Pending' \subseteq Pending \cup nextBlock..(nextBlock' - 1)
      /\ X \cap Pending' = {} /\ currentLabel' \notin X \cup Pending'
      /\ nextBlock' \in Nat /\ nextBlock' >= nextBlock
  BY <1>1, <1>3, <1>4, <1>7
<1> HIDE DEF X
<1> QED
  BY <1>1, <1>6, <1>7, <1>8, <1>9, UniqueAdvance, Zenon

LEMMA OpenOrElseUnique == TypeInv /\ Unique /\ OpenOrElse => Unique'
<1> SUFFICES ASSUME TypeInv, Unique, OpenOrElse PROVE Unique'
  OBVIOUS
<1> DEFINE b == Finished("branch", <<nextBlock, nextBlock + 1>>)
           c == BB(nextBlock, <<>>, "jump", <<nextBlock + 2>>, live)
           f == NewFrame("default", <<nextBlock + 2>>, NoLabel, live)
<1>1. /\ blocks' = blocks \o <<b, c>> /\ currentLabel' = nextBlock + 1
      /\ nextBlock' = nextBlock + 3 /\ Push(f) /\ ~done /\ ~done'
  BY DEF OpenOrElse, CanOpen, Unchanged_fn
<1>2. b.label = currentLabel /\ c.label = nextBlock /\ f.todo = <<nextBlock + 2>>
  BY DEF BB, Finished, NewFrame
<1> HIDE DEF b, c, f
<1>3. nextBlock \in Nat /\ UniqueLabels
  BY Bounds0 DEF Unique
<1>4. Range(f.todo) = {nextBlock + 2} /\ IsInjective(f.todo)
  BY <1>2, Range1, Injective1
<1>r. 2 \in Nat /\ Range(f.todo) \subseteq nextBlock..(nextBlock + 2)
  BY <1>3, <1>4
<1>p. DistinctTodo(stack') /\ Pending' = Pending \cup Range(f.todo)
  BY <1>1, <1>4, <1>r, PushUnique, Zenon
<1>5. Pending' = Pending \cup {nextBlock + 2}
  BY <1>4, <1>p
<1>6. \A k \in {0, 1, 2} : nextBlock + k \notin Started /\ nextBlock + k \notin Pending
  BY <1>3, FreshUnused
<1>g. c.label \notin Started
  BY <1>2, <1>3, FreshUnused
<1>7. DistinctBlocks(blocks') /\ BlockLabels' = BlockLabels \cup {currentLabel, c.label}
  BY <1>1, <1>2, <1>3, <1>g, Join2, Zenon
<1> DEFINE X == {nextBlock}
<1>8. /\ BlockLabels' \subseteq BlockLabels \cup {currentLabel} \cup X
      /\ X \cup {currentLabel'} \cup Pending' \subseteq Pending \cup nextBlock..(nextBlock' - 1)
      /\ X \cap Pending' = {} /\ currentLabel' \notin X \cup Pending'
      /\ nextBlock' \in Nat /\ nextBlock' >= nextBlock
  BY <1>1, <1>2, <1>3, <1>5, <1>6, <1>7
<1> HIDE DEF X
<1> QED
  BY <1>1, <1>p, <1>7, <1>8, UniqueAdvance, Zenon

(* The order in which a match starts its labels is one-to-one, and merge    *)
(* and the first body are not among the others.                             *)
LEMMA MatchTodoDistinct ==
  ASSUME TypeInv, NEW n \in Nat, n >= 1
  PROVE  /\ IsInjective(MatchTodo(n))
         /\ Range(MatchTodo(n)) \subseteq nextBlock..(nextBlock + (2 * n - 1))
         /\ nextBlock + 1 \notin Range(MatchTodo(n))
<1> DEFINE t == MatchTodo(n)
           D == 1..(2 * n - 1)
<1>1. nextBlock \in Nat
  BY Bounds0
<1>2. DOMAIN t = D
  BY DEF MatchTodo
<1>3. \A j \in D :
         \/ j = 2 * n - 1 /\ t[j] = nextBlock
         \/ /\ j # 2 * n - 1 /\ j % 2 = 1 /\ t[j] = nextBlock + n + (j + 1) \div 2
         \/ /\ j # 2 * n - 1 /\ j % 2 # 1 /\ t[j] = nextBlock + 1 + j \div 2
  BY DEF MatchTodo
<1> HIDE DEF t
(* The label at an odd or an even place, counted from nextBlock. *)
<1>4. \A j \in D : \E h \in Nat :
         \/ j = 2 * n - 1 /\ t[j] = nextBlock
         \/ /\ j = 2 * h - 1 /\ h >= 1 /\ h < n /\ t[j] = nextBlock + n + h
         \/ /\ j = 2 * h /\ h >= 1 /\ h < n /\ t[j] = nextBlock + 1 + h
  <2> TAKE j \in D
  <2>1. CASE j = 2 * n - 1
    BY <1>3, <2>1
  <2>2. CASE j # 2 * n - 1 /\ j % 2 = 1
    <3>1. (j + 1) \div 2 \in Nat /\ j = 2 * ((j + 1) \div 2) - 1
      BY <2>2
    <3> QED
      BY <1>3, <2>2, <3>1
  <2>3. CASE j # 2 * n - 1 /\ j % 2 # 1
    <3>1. j \div 2 \in Nat /\ j = 2 * (j \div 2)
      BY <2>3
    <3> QED
      BY <1>3, <2>3, <3>1
  <2> QED
    BY <2>1, <2>2, <2>3
<1>5. \A i, j \in D : t[i] = t[j] => i = j
  BY <1>1, <1>4
<1>6. \A j \in D : t[j] \in nextBlock..(nextBlock + (2 * n - 1)) /\ t[j] # nextBlock + 1
  BY <1>1, <1>4
<1> QED
  BY <1>2, <1>5, <1>6 DEF IsInjective, Range, t

LEMMA OpenMatchUnique ==
  ASSUME TypeInv, Unique, NEW n \in 1..MaxArms, NEW wild \in BOOLEAN, OpenMatch(n, wild)
  PROVE  Unique'
<1> DEFINE todo == MatchTodo(n)
           to == DispatchTo(wild, nextBlock + 1, todo[1])
           l == nextBlock + 1
           f == [NewFrame("arm", todo, NoLabel, FALSE) EXCEPT !.fall = live /\ ~wild]
<1>1. /\ Switch(DispatchTerm(wild), to, l) /\ Push(f) /\ nextBlock' = nextBlock + 2 * n
      /\ ~done /\ ~done'
  BY DEF OpenMatch, CanOpen, Unchanged_fn
<1>2. f.todo = todo
  BY DEF NewFrame
<1>3. n \in Nat /\ n >= 1 /\ nextBlock \in Nat
  BY BoundsAssumption, Bounds0
<1>4. /\ IsInjective(todo) /\ l \notin Range(todo)
      /\ Range(todo) \subseteq nextBlock..(nextBlock + (2 * n - 1))
  BY <1>3, MatchTodoDistinct
<1> HIDE DEF f, todo, to
<1> DEFINE m == 2 * n - 1
<1>m. m \in Nat
  BY <1>3
<1>5. IsInjective(f.todo) /\ Range(f.todo) \subseteq nextBlock..(nextBlock + m)
  BY <1>2, <1>4
<1> HIDE DEF m
<1>6. DistinctTodo(stack') /\ Pending' = Pending \cup Range(f.todo)
  BY <1>1, <1>5, <1>m, PushUnique, Zenon
<1>7. l \notin Pending
  BY <1>3, FreshUnused
<1>8. /\ {l} \cup Pending' \subseteq Pending \cup nextBlock..(nextBlock' - 1)
      /\ l \notin Pending' /\ nextBlock' \in Nat /\ nextBlock' >= nextBlock
  BY <1>1, <1>2, <1>3, <1>4, <1>6, <1>7
<1> HIDE DEF l
<1> QED
  BY <1>1, <1>6, <1>8, SwitchUnique, Zenon

LEMMA TailElement ==
  ASSUME NEW S, NEW s \in Seq(S), s # <<>>
  PROVE  \A i \in 1..Len(s) - 1 : Tail(s)[i] = s[i + 1]
  OBVIOUS

LEMMA TailTailElements ==
  ASSUME NEW S, NEW s \in Seq(S), Len(s) >= 3
  PROVE  \A i \in 1..Len(Tail(Tail(s))) : Tail(Tail(s))[i] = s[i + 2]
<1>1. Len(s) \in Nat /\ s # <<>>
  OBVIOUS
<1> DEFINE t == Tail(s)
<1>2. t \in Seq(S) /\ Len(t) = Len(s) - 1
  BY <1>1, TailType
<1>3. \A i \in 1..Len(s) - 1 : t[i] = s[i + 1]
  BY <1>1, TailElement
<1>4. Len(Tail(t)) = Len(s) - 2
  BY TailTail
<1> HIDE DEF t
<1>5. t # <<>>
  BY <1>1, <1>2, NonEmpty
<1>6. \A i \in 1..Len(t) - 1 : Tail(t)[i] = t[i + 1]
  BY <1>2, <1>5, TailElement
<1>7. \A i \in 1..Len(s) - 2 : /\ i \in 1..Len(t) - 1 /\ i + 1 \in 1..Len(s) - 1
                               /\ (i + 1) + 1 = i + 2
  BY <1>1, <1>2, SMT
<1>8. \A i \in 1..Len(Tail(t)) : Tail(t)[i] = s[i + 2]
  BY <1>3, <1>4, <1>6, <1>7
<1> QED
  BY <1>8 DEF t

LEMMA NextArmUnique ==
  ASSUME TypeInv, Unique, NEW wild \in BOOLEAN, NextArm(wild)
  PROVE  Unique'
<1> DEFINE t == Top.todo
           b == Finished("jump", <<Merge(Top)>>)
           c == BB(t[1], <<>>, DispatchTerm(wild), DispatchTo(wild, t[2], t[3]), Top.fall)
           f == [Top EXCEPT !.todo = Tail(Tail(@)), !.exit = @ \/ live, !.fall = @ /\ ~wild]
           k == Len(stack)
<1>1. /\ stack # <<>> /\ blocks' = blocks \o <<b, c>> /\ currentLabel' = t[2]
      /\ stack' = [stack EXCEPT ![k] = f] /\ UNCHANGED <<done, nextBlock>>
      /\ Len(t) >= 3
  BY DEF NextArm, TopIs, ReplaceTop, Unchanged_fn
<1>2. /\ ~done /\ Top \in Frame /\ t \in Seq(Label) /\ k \in DOMAIN stack
      /\ Top = stack[k] /\ nextBlock \in Nat /\ UniqueLabels
  BY <1>1, TopType, TopLabels, Bounds0 DEF Top, Unique
<1>3. f.todo = Tail(Tail(t))
  BY <1>2 DEF Frame
<1>4. b.label = currentLabel /\ c.label = t[1]
  BY DEF BB, Finished
<1> HIDE DEF f, b, c
<1>t. t = stack[k].todo
  BY <1>2
<1> HIDE DEF k, t
<1>i. 1 \in DOMAIN t /\ 2 \in DOMAIN t
  BY <1>1, <1>2
<1>l. Tail(Tail(t)) \in Seq(Label) /\ Len(Tail(Tail(t))) = Len(t) - 2
  BY <1>1, <1>2, TailTail
<1>f. \A i \in 1..Len(Tail(Tail(t))) : Tail(Tail(t))[i] = t[i + 2]
  BY <1>1, <1>2, TailTailElements
<1>5. /\ f.todo \in Seq(Label) /\ Len(f.todo) = Len(stack[k].todo) - 2
      /\ \A i \in 1..Len(f.todo) : f.todo[i] = stack[k].todo[i + 2]
      /\ 1 \in DOMAIN stack[k].todo /\ 2 \in DOMAIN stack[k].todo
  BY <1>3, <1>t, <1>i, <1>l, <1>f
<1>6. /\ DistinctTodo(stack') /\ Pending' \subseteq Pending
      /\ \A i \in DOMAIN stack[k].todo : i <= 2 => stack[k].todo[i] \notin Pending'
      /\ \A i \in DOMAIN stack[k].todo : stack[k].todo[i] \in Pending
  BY <1>1, <1>2, <1>5, TakeDistinct
<1>7. /\ t[1] \notin Pending' /\ t[1] \in Pending /\ t[2] \notin Pending' /\ t[2] \in Pending
  BY <1>5, <1>6, <1>t
<1>8. t[1] # t[2]
  <2>1. DistinctTodo(stack)
    BY <1>2, UniqueParts
  <2>2. stack[k].todo[1] = stack[k].todo[2] => 1 = 2
    BY <1>2, <1>5, <2>1 DEF DistinctTodo
  <2> QED
    BY <1>t, <2>2
<1>9. c.label \notin Started
  BY <1>2, <1>4, <1>7, UniqueParts
<1>10. DistinctBlocks(blocks') /\ BlockLabels' = BlockLabels \cup {currentLabel, c.label}
  BY <1>1, <1>2, <1>4, <1>9, Join2, Zenon
<1> DEFINE X == {t[1]}
<1>11. /\ BlockLabels' \subseteq BlockLabels \cup {currentLabel} \cup X
       /\ X \cup {currentLabel'} \cup Pending' \subseteq Pending \cup nextBlock..(nextBlock' - 1)
       /\ X \cap Pending' = {} /\ currentLabel' \notin X \cup Pending'
       /\ nextBlock' \in Nat /\ nextBlock' >= nextBlock
  BY <1>1, <1>2, <1>4, <1>6, <1>7, <1>8, <1>10
<1>12. ~done'
  BY <1>1, <1>2
<1> HIDE DEF X
<1> QED
  BY <1>2, <1>6, <1>10, <1>11, <1>12, UniqueAdvance, Zenon

LEMMA CloseExprUnique == TypeInv /\ Unique /\ CloseExpr => Unique'
<1> SUFFICES ASSUME TypeInv, Unique, CloseExpr PROVE Unique'
  OBVIOUS
<1> DEFINE l == Merge(Top)
<1>1. /\ stack # <<>> /\ Len(Top.todo) = 1 /\ Pop /\ UNCHANGED <<done, nextBlock>>
      /\ Switch("jump", <<l>>, l)
  BY DEF CloseExpr, TopIs, Unchanged_fn
<1>2. ~done /\ ~done' /\ Top.todo \in Seq(Label) /\ nextBlock \in Nat /\ UniqueLabels
  BY <1>1, TopType, TopLabels, Bounds0 DEF Unique
<1>3. Range(Top.todo) = {l}
  BY <1>1, <1>2, LastLabel DEF Merge
<1> HIDE DEF l
<1>4. /\ DistinctTodo(stack') /\ Pending' \subseteq Pending
      /\ Range(Top.todo) \cap Pending' = {} /\ Range(Top.todo) \subseteq Pending
  BY <1>1, <1>2, PopDistinct, Zenon
<1>5. /\ {l} \cup Pending' \subseteq Pending \cup nextBlock..(nextBlock' - 1)
      /\ l \notin Pending' /\ nextBlock' \in Nat /\ nextBlock' >= nextBlock
  BY <1>1, <1>2, <1>3, <1>4
<1> QED
  BY <1>1, <1>2, <1>4, <1>5, SwitchUnique, Zenon

(* The current block loses its label, but no label is used twice. *)
LEMMA EmptyMatchUnique == TypeInv /\ Unique /\ EmptyMatch => Unique'
<1> SUFFICES ASSUME TypeInv, Unique, EmptyMatch PROVE Unique'
  OBVIOUS
<1>1. /\ UNCHANGED <<blocks, stack, done>> /\ ~done /\ ~done'
      /\ currentLabel' = nextBlock /\ nextBlock' = nextBlock + 1
  BY DEF EmptyMatch, CanOpen, Unchanged_fn
<1>2. nextBlock \in Nat /\ nextBlock \notin Pending
  BY Bounds0, FreshUnused
<1>3. DistinctTodo(stack') /\ Pending' = Pending
  BY <1>1, SameTodo
<1>4. DistinctBlocks(blocks)
  BY UniqueParts DEF Unique
<1>5. DistinctBlocks(blocks') /\ BlockLabels' = BlockLabels
  BY <1>1, <1>4 DEF DistinctBlocks, BlockLabels
<1> DEFINE X == {}
<1>6. /\ BlockLabels' \subseteq BlockLabels \cup {currentLabel} \cup X
      /\ X \cup {currentLabel'} \cup Pending' \subseteq Pending \cup nextBlock..(nextBlock' - 1)
      /\ X \cap Pending' = {} /\ currentLabel' \notin X \cup Pending'
      /\ nextBlock' \in Nat /\ nextBlock' >= nextBlock
  BY <1>1, <1>2, <1>3, <1>5
<1> HIDE DEF X
<1> QED
  BY <1>1, <1>3, <1>5, <1>6, UniqueAdvance, Zenon

LEMMA FinishFnUnique ==
  ASSUME TypeInv, Unique, ~done, FinishFn, Pending = {}, stack' = <<>>
  PROVE  Unique'
<1> DEFINE b == Finished("return", <<>>)
<1>1. b.label = currentLabel /\ blocks' = Append(blocks, b) /\ done' /\ UNCHANGED nextBlock
  BY DEF FinishFn, Switch, Finished, BB
<1> HIDE DEF b
<1>2. UniqueLabels
  BY DEF Unique
<1>3. DistinctBlocks(blocks') /\ BlockLabels' = BlockLabels \cup {currentLabel}
  BY <1>1, <1>2, Join1, Zenon
<1>4. Started' = Started /\ Numbered' = Numbered
  BY <1>1, <1>3 DEF Started, Numbered
<1>5. Pending' = {} /\ DistinctTodo(stack')
  BY DEF Pending, DistinctTodo
<1>6. UniqueLabels'
  BY <1>1, <1>3, <1>5, UniquePartsNext
<1> QED
  BY <1>4, <1>5, <1>6 DEF Unique

LEMMA EndFnUnique == TypeInv /\ Unique /\ EndFn => Unique'
<1> SUFFICES ASSUME TypeInv, Unique, EndFn PROVE Unique'
  OBVIOUS
<1>1. ~done /\ stack = <<>>
  BY DEF EndFn
<1>2. CASE deferred = <<>>
  <2>1. FinishFn /\ UNCHANGED stack
    BY <1>2 DEF EndFn
  <2> QED
    BY <1>1, <2>1, FinishFnUnique, NoStack
<1>3. CASE deferred # <<>>
  <2>1. BeginFlush("flush_exit") /\ UNCHANGED <<blocks, currentLabel, done, nextBlock>>
    BY <1>3 DEF EndFn
  <2> QED
    BY <2>1, BeginFlushUnique
<1> QED
  BY <1>2, <1>3

LEMMA EndFlushExitUnique == TypeInv /\ Unique /\ EndFlushExit => Unique'
<1> SUFFICES ASSUME TypeInv, Unique, EndFlushExit PROVE Unique'
  OBVIOUS
<1>1. stack # <<>> /\ Top.kind = "flush_exit" /\ Pop /\ FinishFn
  BY DEF EndFlushExit, TopIs
<1>2. ~done /\ Top.todo = <<>>
  BY <1>1, TopType DEF FrameOK, FlushKinds
<1>3. stack' = <<>>
  <2>1. Len(stack) = 1 /\ stack \in Seq(Frame)
    BY <1>1, TopType DEF TypeInv, TypeOK, Shape, StackOK, Top
  <2> QED
    BY <1>1, <2>1 DEF Pop
<1>4. Pending' = {}
  BY <1>3 DEF Pending
<1>5. Pending = {}
  BY <1>1, <1>2, <1>4, PendingPop, Range0 DEF TypeInv
<1> QED
  BY <1>1, <1>2, <1>3, <1>5, FinishFnUnique

LEMMA EndMainUnique == TypeInv /\ Unique /\ EndMain => Unique'
  BY FinishFnUnique, NoStack DEF EndMain

LEMMA UniqueInit == Init => Unique
<1> SUFFICES ASSUME Init PROVE Unique
  OBVIOUS
<1>1. blocks = <<>> /\ stack = <<>> /\ currentLabel = Entry
  BY DEF Init
<1>2. BlockLabels = {} /\ Pending = {} /\ DistinctTodo(stack) /\ DistinctBlocks(blocks)
  BY <1>1 DEF BlockLabels, Pending, DistinctTodo, DistinctBlocks, IsInjective
<1>3. Started \subseteq {Entry}
  BY <1>1, <1>2 DEF Started
<1> QED
  BY <1>1, <1>2, <1>3, UniqueParts DEF Unique, Numbered

LEMMA ResetFnUnique == ResetFn => Unique'
<1> SUFFICES ASSUME ResetFn PROVE Unique'
  OBVIOUS
<1>1. blocks' = <<>> /\ stack' = <<>> /\ currentLabel' = Entry
  BY DEF ResetFn
<1>2. BlockLabels' = {} /\ Pending' = {} /\ DistinctTodo(stack') /\ DistinctBlocks(blocks')
  BY <1>1 DEF BlockLabels, Pending, DistinctTodo, DistinctBlocks, IsInjective
<1>3. Started' \subseteq {Entry}
  BY <1>1, <1>2 DEF Started
<1> QED
  BY <1>1, <1>2, <1>3, UniquePartsNext DEF Unique, Numbered

-----------------------------------------------------------------------------
LEMMA UniqueStep == TypeInv /\ Unique /\ [Next]_vars => Unique'
<1> SUFFICES ASSUME TypeInv, Unique, [Next]_vars PROVE Unique'
  OBVIOUS
<1>1. CASE Stmt
  BY <1>1, LowerDeferUnique, LowerReturnUnique, FlushNextUnique, EndFlushReturnUnique,
     LowerBreakUnique, LowerContinueUnique, OpenForUnique, OpenWhileUnique,
     CloseWhileCondUnique, OpenLoopUnique, CloseLoopUnique DEF Stmt
<1>2. CASE Expr
  <2>1. ASSUME OrReturn \/ OrPanic \/ OrZero PROVE Unique'
    BY <2>1, OrOpUnique DEF OrReturn, OrPanic, OrZero
  <2>2. ASSUME NEW n \in 1..MaxArms, NEW wild \in BOOLEAN, OpenMatch(n, wild) PROVE Unique'
    BY <2>2, OpenMatchUnique
  <2>3. ASSUME NEW wild \in BOOLEAN, NextArm(wild) PROVE Unique'
    BY <2>3, NextArmUnique
  <2> QED
    BY <1>2, <2>1, <2>2, <2>3, OpenOrElseUnique, OpenIfUnique, CloseThenUnique,
       CloseExprUnique, EmptyMatchUnique DEF Expr
<1>3. CASE Fn
  BY <1>3, EndFnUnique, EndFlushExitUnique, EndMainUnique, ResetFnUnique DEF Fn
<1>4. CASE UNCHANGED vars
  <2>1. UNCHANGED <<blocks, currentLabel, done, nextBlock, stack>>
    BY <1>4 DEF vars
  <2> QED
    BY <2>1, SameTodo, SameUnique
<1> QED
  BY <1>1, <1>2, <1>3, <1>4 DEF Next

(* No label is given to two blocks, whether finished, current or still      *)
(* pending in an open construct: in every program, for every bound.         *)
THEOREM LabelsUnique == Spec => []UniqueLabels
<1>1. Init => TypeInv /\ Unique
  BY TypeInit, UniqueInit
<1>2. TypeInv /\ Unique /\ [Next]_vars => TypeInv' /\ Unique'
  BY TypeStep, UniqueStep
<1>3. Unique => UniqueLabels
  BY DEF Unique
<1> QED
  BY <1>1, <1>2, <1>3, PTL DEF Spec

-----------------------------------------------------------------------------
(* A loop is only opened in the body of the function itself, so it, or its  *)
(* condition, is the bottom frame; loop_stack is then that loop's entry.    *)

Repeats == LoopKinds \cup {"cond"}

LoopOf(f) == [brk |-> Merge(f), cont |-> f.head]

Loops ==
    /\ \A i \in DOMAIN stack : stack[i].kind \in Repeats => i = 1
    /\ loopStack = IF stack # <<>> /\ stack[1].kind \in LoopKinds THEN <<LoopOf(stack[1])>>
                   ELSE <<>>

LEMMA LoopsInit == Init => Loops
  BY DEF Init, Loops

LEMMA StackBounds ==
  ASSUME TypeInv
  PROVE  /\ Len(stack) \in Nat /\ DOMAIN stack = 1..Len(stack)
         /\ stack # <<>> <=> Len(stack) >= 1
  BY DEF TypeInv, TypeOK

(* The frame of something else than a loop joins the stack.                 *)
LEMMA LoopsPush ==
  ASSUME TypeInv, Loops, NEW f, Push(f), f.kind \notin Repeats, UNCHANGED loopStack
  PROVE  Loops'
<1>0. stack \in Seq(Frame)
  BY DEF TypeInv, TypeOK
<1>e. stack' # <<>> /\ (stack = <<>> => Len(stack) = 0)
  BY <1>0 DEF Push
<1>1. /\ DOMAIN stack' = 1..(Len(stack) + 1) /\ DOMAIN stack = 1..Len(stack)
      /\ Len(stack) \in Nat
      /\ \A i \in 1..Len(stack) : stack'[i] = stack[i]
      /\ stack'[Len(stack) + 1] = f
  BY <1>0 DEF Push
<1>2. \A i \in DOMAIN stack' : stack'[i].kind \in Repeats => i = 1
  BY <1>1 DEF Loops
<1>3. CASE stack = <<>>
  BY <1>e, <1>1, <1>2, <1>3 DEF Loops, Repeats
<1>4. CASE stack # <<>>
  <2>1. 1 \in 1..Len(stack)
    BY <1>4, StackBounds
  <2> QED
    BY <1>e, <1>1, <1>2, <1>4, <2>1 DEF Loops, LoopOf, Merge
<1> QED
  BY <1>3, <1>4

(* A frame is closed that is not a loop's.                                  *)
LEMMA LoopsPop ==
  ASSUME TypeInv, Loops, stack # <<>>, Top.kind \notin Repeats, Pop, UNCHANGED loopStack
  PROVE  Loops'
<1>0. stack \in Seq(Frame)
  BY DEF TypeInv, TypeOK
<1>1. /\ DOMAIN stack' = 1..(Len(stack) - 1) /\ DOMAIN stack = 1..Len(stack)
      /\ Len(stack) \in Nat /\ Len(stack) >= 1
      /\ \A i \in 1..(Len(stack) - 1) : stack'[i] = stack[i]
  BY <1>0 DEF Pop
<1>e. Len(stack) = 1 => stack' = <<>>
  BY <1>0 DEF Pop
<1>2. \A i \in DOMAIN stack' : stack'[i].kind \in Repeats => i = 1
  BY <1>1 DEF Loops
<1>3. CASE Len(stack) = 1
  <2>1. stack[1].kind \notin Repeats
    BY <1>3 DEF Top
  <2>2. loopStack = <<>>
    BY <2>1 DEF Loops, Repeats
  <2> QED
    BY <1>e, <1>3, <2>2 DEF Loops
<1>4. CASE Len(stack) > 1
  <2>1. stack'[1] = stack[1] /\ stack' # <<>>
    BY <1>1, <1>4
  <2> QED
    BY <1>2, <2>1 DEF Loops, LoopOf, Merge
<1> QED
  BY <1>1, <1>3, <1>4

(* A frame goes on: one that is no loop's as another such, a loop's with    *)
(* the labels it has.                                                       *)
LEMMA LoopsReplace ==
  ASSUME TypeInv, Loops, NEW k \in DOMAIN stack, NEW f,
         stack' = [stack EXCEPT ![k] = f], UNCHANGED loopStack,
         \/ stack[k].kind \notin Repeats /\ f.kind \notin Repeats
         \/ f.kind = stack[k].kind /\ f.todo = stack[k].todo /\ f.head = stack[k].head
  PROVE  Loops'
<1>1. /\ DOMAIN stack' = DOMAIN stack /\ stack'[k] = f
      /\ \A i \in DOMAIN stack : i # k => stack'[i] = stack[i]
      /\ stack # <<>> /\ stack' # <<>> /\ 1 \in DOMAIN stack
  BY DEF TypeInv, TypeOK
<1>2. \A i \in DOMAIN stack' : stack'[i].kind \in Repeats => i = 1
  BY <1>1 DEF Loops
<1>3. stack'[1].kind \in LoopKinds <=> stack[1].kind \in LoopKinds
  BY <1>1 DEF Repeats
<1>4. stack[1].kind \in LoopKinds => LoopOf(stack'[1]) = LoopOf(stack[1])
  BY <1>1 DEF Repeats, LoopOf, Merge
<1> QED
  BY <1>1, <1>2, <1>3, <1>4 DEF Loops

LEMMA LoopsSame ==
  ASSUME Loops, UNCHANGED <<stack, loopStack>>
  PROVE  Loops'
  BY DEF Loops, LoopOf, Merge

(* The first frame is put on the stack.                                     *)
LEMMA LoopsFirst ==
  ASSUME stack = <<>>, NEW f, Push(f),
         loopStack' = IF f.kind \in LoopKinds THEN <<LoopOf(f)>> ELSE <<>>
  PROVE  Loops'
<1>1. stack' = <<f>>
  BY DEF Push
<1>2. DOMAIN stack' = {1} /\ stack'[1] = f /\ stack' # <<>>
  BY <1>1
<1> QED
  BY <1>2 DEF Loops, LoopOf, Merge

(* When a loop, or its condition, is on top it is alone.                    *)
LEMMA LoopAlone ==
  ASSUME TypeInv, Loops, stack # <<>>, Top.kind \in Repeats
  PROVE  Len(stack) = 1 /\ Top = stack[1]
  BY TopType DEF Loops, Top

(* The first loop. *)
LEMMA EnterFirst ==
  ASSUME loopStack = <<>>, NEW brk, NEW cont, EnterLoop(brk, cont)
  PROVE  loopStack' = <<[brk |-> brk, cont |-> cont]>>
  BY DEF EnterLoop

LEMMA MergeOne == ASSUME NEW f, NEW l, f.todo = <<l>> PROVE Merge(f) = l
  BY DEF Merge

LEMMA FlushLoops ==
  ASSUME TypeInv, Loops, NEW kind \in FlushKinds, BeginFlush(kind), UNCHANGED loopStack
  PROVE  Loops'
<1> DEFINE f == [NewFrame(kind, <<>>, NoLabel, FALSE) EXCEPT !.rest = Reverse(Front(deferred))]
<1>1. Push(f)
  BY DEF BeginFlush
<1>2. f.kind = kind
  BY DEF NewFrame
<1>3. kind \notin Repeats
  BY DEF Repeats, LoopKinds, FlushKinds
<1> HIDE DEF f
<1> QED
  BY <1>1, <1>2, <1>3, LoopsPush

LEMMA LoopsStmt ==
  ASSUME TypeInv, Loops, Stmt
  PROVE  Loops'
<1>1. CASE LowerDefer
  BY <1>1, LoopsSame DEF LowerDefer
<1>2. CASE LowerReturn
  <2>1. CASE deferred = <<>>
    BY <1>2, <2>1, LoopsSame DEF LowerReturn
  <2>2. CASE deferred # <<>>
    <3>1. BeginFlush("flush_return") /\ UNCHANGED loopStack
      BY <1>2, <2>2 DEF LowerReturn
    <3> QED
      BY <3>1, FlushLoops DEF FlushKinds
  <2> QED
    BY <2>1, <2>2
<1>3. CASE FlushNext
  <2> DEFINE f == [Top EXCEPT !.rest = Tail(@)]
  <2>1. stack # <<>> /\ stack' = [stack EXCEPT ![Len(stack)] = f] /\ UNCHANGED loopStack
    BY <1>3 DEF FlushNext, TopIs, ReplaceTop
  <2>2. f.kind = Top.kind /\ f.todo = Top.todo /\ f.head = Top.head /\ Len(stack) \in DOMAIN stack
    BY <2>1, TopType DEF Frame
  <2> HIDE DEF f
  <2> QED
    BY <2>1, <2>2, LoopsReplace DEF Top
<1>4. CASE EndFlushReturn
  <2>1. stack # <<>> /\ Top.kind \notin Repeats /\ Pop /\ UNCHANGED loopStack
    BY <1>4 DEF EndFlushReturn, TopIs, Repeats, LoopKinds
  <2> QED
    BY <2>1, LoopsPop
<1>5. CASE LowerBreak
  <2>1. PICK i \in DOMAIN stack : stack' = [stack EXCEPT ![i].exit = @ \/ live]
    BY <1>5 DEF LowerBreak
  <2> DEFINE f == [stack[i] EXCEPT !.exit = @ \/ live]
  <2>2. stack' = [stack EXCEPT ![i] = f] /\ UNCHANGED loopStack
    BY <1>5, <2>1 DEF LowerBreak, JumpOut
  <2>3. stack[i] \in Frame
    BY DEF TypeInv, TypeOK
  <2>4. f.kind = stack[i].kind /\ f.todo = stack[i].todo /\ f.head = stack[i].head
    BY <2>3 DEF Frame
  <2> HIDE DEF f
  <2> QED
    BY <2>2, <2>4, LoopsReplace
<1>6. CASE LowerContinue
  BY <1>6, LoopsSame DEF LowerContinue, JumpOut
<1>7. CASE OpenFor
  <2> DEFINE f == NewFrame("for", <<nextBlock + 2>>, nextBlock, live)
  <2>1. stack = <<>> /\ Push(f) /\ EnterLoop(nextBlock + 2, nextBlock)
    BY <1>7 DEF OpenFor, AtLoopStmt
  <2>2. f.kind = "for" /\ f.todo = <<nextBlock + 2>> /\ f.head = nextBlock
    BY DEF NewFrame
  <2> HIDE DEF f
  <2>3. loopStack = <<>>
    BY <2>1 DEF Loops
  <2>4. loopStack' = <<LoopOf(f)>>
    BY <2>1, <2>2, <2>3, EnterFirst, MergeOne DEF LoopOf
  <2> QED
    BY <2>1, <2>2, <2>4, LoopsFirst DEF LoopKinds
<1>8. CASE OpenWhile
  <2> DEFINE f == NewFrame("cond", <<nextBlock + 1, nextBlock + 2>>, nextBlock, FALSE)
  <2>1. stack = <<>> /\ Push(f) /\ UNCHANGED loopStack
    BY <1>8 DEF OpenWhile, AtLoopStmt
  <2>2. f.kind = "cond"
    BY DEF NewFrame
  <2>3. loopStack = <<>>
    BY <2>1 DEF Loops
  <2> HIDE DEF f
  <2> QED
    BY <2>1, <2>2, <2>3, LoopsFirst DEF LoopKinds
<1>9. CASE CloseWhileCond
  <2> DEFINE f == [Top EXCEPT !.kind = "while", !.todo = Tail(@), !.exit = live]
  <2>1. /\ stack # <<>> /\ Top.kind = "cond" /\ EnterLoop(Merge(Top), Top.head)
        /\ stack' = [stack EXCEPT ![Len(stack)] = f]
    BY <1>9 DEF CloseWhileCond, TopIs, ReplaceTop
  <2>2. Top \in Frame /\ FrameOK(Top) /\ Len(stack) = 1 /\ Top = stack[1]
    BY <2>1, TopType, LoopAlone DEF Repeats
  <2>3. f.kind = "while" /\ f.todo = Tail(Top.todo) /\ f.head = Top.head
    BY <2>2 DEF Frame
  <2>4. Top.todo \in Seq(Label) /\ Len(Top.todo) = 2
    BY <2>1, <2>2 DEF Frame, FrameOK
  <2>5. Merge(f) = Merge(Top)
    BY <2>3, <2>4 DEF Merge
  <2>6. loopStack = <<>>
    BY <2>1, <2>2 DEF Loops, LoopKinds
  <2>7. loopStack' = <<LoopOf(f)>>
    BY <2>1, <2>3, <2>5, <2>6 DEF EnterLoop, LoopOf
  <2> HIDE DEF f
  <2>8. DOMAIN stack = {1}
    BY <2>2, StackBounds
  <2>9. DOMAIN stack' = {1} /\ stack'[1] = f /\ stack' # <<>>
    BY <2>1, <2>2, <2>8
  <2> QED
    BY <2>3, <2>7, <2>9 DEF Loops, LoopKinds, LoopOf, Merge
<1>10. CASE OpenLoop
  <2> DEFINE f == NewFrame("loop", <<nextBlock + 1>>, nextBlock, FALSE)
  <2>1. stack = <<>> /\ Push(f) /\ EnterLoop(nextBlock + 1, nextBlock)
    BY <1>10 DEF OpenLoop, AtLoopStmt
  <2>2. f.kind = "loop" /\ f.todo = <<nextBlock + 1>> /\ f.head = nextBlock
    BY DEF NewFrame
  <2> HIDE DEF f
  <2>3. loopStack = <<>>
    BY <2>1 DEF Loops
  <2>4. loopStack' = <<LoopOf(f)>>
    BY <2>1, <2>2, <2>3, EnterFirst, MergeOne DEF LoopOf
  <2> QED
    BY <2>1, <2>2, <2>4, LoopsFirst DEF LoopKinds
<1>11. CASE CloseLoop
  <2>1. stack # <<>> /\ Top.kind \in LoopKinds /\ LeaveLoop /\ Pop
    BY <1>11 DEF CloseLoop, TopIs
  <2>2. Len(stack) = 1 /\ Top = stack[1]
    BY <2>1, LoopAlone DEF Repeats
  <2>3. stack' = <<>>
    BY <2>1, <2>2 DEF Pop, TypeInv, TypeOK
  <2>4. loopStack = <<LoopOf(stack[1])>>
    BY <2>1, <2>2 DEF Loops
  <2>5. loopStack' = <<>>
    BY <2>1, <2>4 DEF LeaveLoop
  <2> QED
    BY <2>3, <2>5 DEF Loops
<1> QED
  BY <1>1, <1>2, <1>3, <1>4, <1>5, <1>6, <1>7, <1>8, <1>9, <1>10, <1>11 DEF Stmt

LEMMA LoopsExpr ==
  ASSUME TypeInv, Loops, Expr
  PROVE  Loops'
<1>1. CASE OrReturn \/ OrPanic \/ OrZero \/ EmptyMatch
  BY <1>1, LoopsSame DEF OrReturn, OrPanic, OrZero, OrOp, EmptyMatch
<1>2. CASE OpenOrElse
  <2> DEFINE f == NewFrame("default", <<nextBlock + 2>>, NoLabel, live)
  <2>1. Push(f) /\ UNCHANGED loopStack
    BY <1>2 DEF OpenOrElse
  <2>2. f.kind = "default"
    BY DEF NewFrame
  <2> HIDE DEF f
  <2> QED
    BY <2>1, <2>2, LoopsPush DEF Repeats, LoopKinds
<1>3. CASE OpenIf
  <2> DEFINE f == NewFrame("then", <<nextBlock + 1, nextBlock + 2>>, NoLabel, FALSE)
  <2>1. Push(f) /\ UNCHANGED loopStack
    BY <1>3 DEF OpenIf
  <2>2. f.kind = "then"
    BY DEF NewFrame
  <2> HIDE DEF f
  <2> QED
    BY <2>1, <2>2, LoopsPush DEF Repeats, LoopKinds
<1>4. CASE CloseThen
  <2> DEFINE f == [Top EXCEPT !.kind = "else", !.todo = Tail(@), !.exit = live]
  <2>1. /\ stack # <<>> /\ Top.kind = "then" /\ UNCHANGED loopStack
        /\ stack' = [stack EXCEPT ![Len(stack)] = f]
    BY <1>4 DEF CloseThen, TopIs, ReplaceTop
  <2>2. f.kind = "else" /\ Len(stack) \in DOMAIN stack
    BY <2>1, TopType DEF Frame
  <2> HIDE DEF f
  <2> QED
    BY <2>1, <2>2, LoopsReplace DEF Top, Repeats, LoopKinds
<1>5. ASSUME NEW n \in 1..MaxArms, NEW wild \in BOOLEAN, OpenMatch(n, wild)
      PROVE  Loops'
  <2> DEFINE f == [NewFrame("arm", MatchTodo(n), NoLabel, FALSE) EXCEPT !.fall = live /\ ~wild]
  <2>1. Push(f) /\ UNCHANGED loopStack
    BY <1>5 DEF OpenMatch
  <2>2. f.kind = "arm"
    BY DEF NewFrame
  <2> HIDE DEF f
  <2> QED
    BY <2>1, <2>2, LoopsPush DEF Repeats, LoopKinds
<1>6. ASSUME NEW wild \in BOOLEAN, NextArm(wild)
      PROVE  Loops'
  <2> DEFINE f == [Top EXCEPT !.todo = Tail(Tail(@)), !.exit = @ \/ live, !.fall = @ /\ ~wild]
  <2>1. /\ stack # <<>> /\ Top.kind = "arm" /\ UNCHANGED loopStack
        /\ stack' = [stack EXCEPT ![Len(stack)] = f]
    BY <1>6 DEF NextArm, TopIs, ReplaceTop
  <2>2. f.kind = "arm" /\ Len(stack) \in DOMAIN stack
    BY <2>1, TopType DEF Frame
  <2> HIDE DEF f
  <2> QED
    BY <2>1, <2>2, LoopsReplace DEF Top, Repeats, LoopKinds
<1>7. CASE CloseExpr
  <2>1. stack # <<>> /\ Top.kind \notin Repeats /\ Pop /\ UNCHANGED loopStack
    BY <1>7 DEF CloseExpr, TopIs, Repeats, LoopKinds
  <2> QED
    BY <2>1, LoopsPop
<1> QED
  BY <1>1, <1>2, <1>3, <1>4, <1>5, <1>6, <1>7 DEF Expr

LEMMA LoopsFn ==
  ASSUME TypeInv, Loops, Fn
  PROVE  Loops'
<1>1. CASE EndFn
  <2>1. CASE deferred = <<>>
    BY <1>1, <2>1, LoopsSame DEF EndFn
  <2>2. CASE deferred # <<>>
    <3>1. BeginFlush("flush_exit") /\ UNCHANGED loopStack
      BY <1>1, <2>2 DEF EndFn
    <3> QED
      BY <3>1, FlushLoops DEF FlushKinds
  <2> QED
    BY <2>1, <2>2
<1>2. CASE EndFlushExit
  <2>1. stack # <<>> /\ Top.kind \notin Repeats /\ Pop /\ UNCHANGED loopStack
    BY <1>2 DEF EndFlushExit, TopIs, Repeats, LoopKinds
  <2> QED
    BY <2>1, LoopsPop
<1>3. CASE EndMain
  BY <1>3, LoopsSame DEF EndMain
<1>4. CASE ResetFn
  BY <1>4 DEF ResetFn, Loops
<1> QED
  BY <1>1, <1>2, <1>3, <1>4 DEF Fn

LEMMA LoopsStep == TypeInv /\ Loops /\ [Next]_vars => Loops'
<1> SUFFICES ASSUME TypeInv, Loops, [Next]_vars PROVE Loops'
  OBVIOUS
<1>1. CASE UNCHANGED vars
  BY <1>1, LoopsSame DEF vars
<1> QED
  BY <1>1, LoopsStmt, LoopsExpr, LoopsFn DEF Next

LEMMA LoopsMatch ==
  ASSUME TypeInv, Loops
  PROVE  LoopStackMatches
<1>1. CASE stack # <<>> /\ stack[1].kind \in LoopKinds
  <2> DEFINE at == [i \in {1} |-> 1]
  <2>1. loopStack = <<LoopOf(stack[1])>> /\ 1 \in DOMAIN stack
    BY <1>1, StackBounds DEF Loops
  <2>2. LoopFrames = {1}
    BY <1>1, <2>1 DEF LoopFrames, Loops, Repeats
  <2>3. DOMAIN loopStack = {1} /\ loopStack[1] = LoopOf(stack[1])
    BY <2>1
  <2>4. at \in [DOMAIN loopStack -> LoopFrames] /\ Range(at) = LoopFrames /\ at[1] = 1
    BY <2>2, <2>3 DEF Range
  <2>5. /\ \A i, j \in DOMAIN loopStack : i < j => at[i] < at[j]
        /\ \A i \in DOMAIN loopStack :
              loopStack[i] = [brk |-> Merge(stack[at[i]]), cont |-> stack[at[i]].head]
    BY <2>3, <2>4 DEF LoopOf
  <2> HIDE DEF at
  <2> QED
    BY <2>4, <2>5 DEF LoopStackMatches
<1>2. CASE ~(stack # <<>> /\ stack[1].kind \in LoopKinds)
  <2> DEFINE at == [i \in {} |-> 1]
  <2>1. DOMAIN loopStack = {}
    BY <1>2 DEF Loops
  <2>2. LoopFrames = {}
    BY <1>2, StackBounds DEF LoopFrames, Loops, Repeats
  <2>3. at \in [DOMAIN loopStack -> LoopFrames] /\ Range(at) = LoopFrames
    BY <2>1, <2>2 DEF Range
  <2> HIDE DEF at
  <2> QED
    BY <2>1, <2>3 DEF LoopStackMatches
<1> QED
  BY <1>1, <1>2

(* A break or a continue leaves or repeats the loop it is written in:       *)
(* loop_stack holds the labels of exactly the loops whose body is open,     *)
(* innermost last.                                                          *)
THEOREM LoopStackRight == Spec => []LoopStackMatches
<1>1. Init => TypeInv /\ Loops
  BY TypeInit, LoopsInit
<1>2. TypeInv /\ Loops /\ [Next]_vars => TypeInv' /\ Loops'
  BY TypeStep, LoopsStep
<1>3. TypeInv /\ Loops => LoopStackMatches
  BY LoopsMatch
<1> QED
  BY <1>1, <1>2, <1>3, PTL DEF Spec

-----------------------------------------------------------------------------
(* Recursive functions on an interval.                                      *)

(* A set of natural numbers has a least member. *)
LEMMA Least ==
  ASSUME NEW T, T \subseteq Nat, T # {}
  PROVE  \E x \in T : \A y \in T : x <= y
<1>1. IsWellFoundedOn(OpToRel(<, Nat), Nat)
  BY NatLessThanWellFounded
<1> DEFINE R == OpToRel(<, Nat)
<1>2. \A x, y \in Nat : <<x, y>> \in R <=> x < y
  BY DEF OpToRel
<1>3. IsWellFoundedOn(R, Nat)
  BY <1>1
<1> HIDE DEF R
<1>4. PICK x \in T : \A y \in T : ~(<<y, x>> \in R)
  BY <1>3, WFMin
<1>5. \A y \in T : y \in Nat /\ x \in Nat /\ ~(y < x)
  BY <1>2, <1>4
<1>6. \A y \in T : x <= y
  BY <1>5
<1> QED
  BY <1>6

(* Along an interval. *)
LEMMA Walk ==
  ASSUME NEW n \in Nat, NEW S, 0 \in S, \A i \in 1..n : i - 1 \in S => i \in S
  PROVE  \A i \in 0..n : i \in S
<1> SUFFICES ASSUME NEW m \in 0..n, m \notin S
             PROVE  FALSE
  OBVIOUS
<1> DEFINE T == (0..n) \ S
<1>1. T \subseteq Nat /\ T # {}
  OBVIOUS
<1>2. PICK x \in T : \A y \in T : x <= y
  <2> HIDE DEF T
  <2> QED
    BY <1>1, Least
<1>3. x \in 1..n /\ x - 1 \in 0..n /\ ~(x <= x - 1)
  BY <1>2
<1>4. x - 1 \in S
  BY <1>2, <1>3
<1> QED
  BY <1>2, <1>3, <1>4

(* A step that stays in X can be repeated. *)
Iterated(f, step, c, n, X) ==
    f \in [0..n -> X] /\ f[0] = c /\ \A i \in 1..n : f[i] = step[f[i - 1]]

LEMMA Iterate ==
  ASSUME NEW n \in Nat, NEW X, NEW c \in X, NEW step \in [X -> X]
  PROVE  \E f : Iterated(f, step, c, n, X)
<1> DEFINE Good(m, f) == f[0] = c /\ \A i \in 1..m : f[i] = step[f[i - 1]]
<1> DEFINE S == {m \in 0..n : \E f \in [0..m -> X] : Good(m, f)}
<1>1. 0 \in S
  <2> DEFINE g == [i \in 0..0 |-> c]
  <2>1. g \in [0..0 -> X] /\ g[0] = c
    OBVIOUS
  <2>2. 0 \in 0..n
    OBVIOUS
  <2> HIDE DEF g
  <2>3. Good(0, g)
    BY <2>1
  <2> HIDE DEF Good
  <2> QED
    BY <2>1, <2>2, <2>3
<1>2. ASSUME NEW i \in 1..n, i - 1 \in S PROVE i \in S
  <2>1. PICK f \in [0..(i - 1) -> X] : Good(i - 1, f)
    BY <1>2
  <2>2. i - 1 \in 0..(i - 1)
    OBVIOUS
  <2>3. f[i - 1] \in X
    BY <2>2
  <2>4. step[f[i - 1]] \in X
    BY <2>3
  <2> DEFINE g == [j \in 0..i |-> IF j = i THEN step[f[i - 1]] ELSE f[j]]
  <2>5. ASSUME NEW j \in 0..i PROVE g[j] \in X
    <3>1. CASE j = i
      BY <2>4, <3>1
    <3>2. CASE j # i
      <4>1. j \in 0..(i - 1)
        BY <3>2
      <4> QED
        BY <3>2, <4>1
    <3> QED
      BY <3>1, <3>2
  <2>6. g \in [0..i -> X]
    BY <2>5
  <2>7. g[0] = c
    <3>1. 0 # i /\ 0 \in 0..i
      OBVIOUS
    <3> QED
      BY <2>1, <3>1
  <2>8. ASSUME NEW j \in 1..i PROVE g[j] = step[g[j - 1]]
    <3>1. CASE j = i
      <4>1. i - 1 # i /\ i - 1 \in 0..i /\ i \in 0..i
        OBVIOUS
      <4>2. g[j] = step[f[i - 1]] /\ g[j - 1] = f[i - 1]
        BY <3>1, <4>1
      <4> QED
        BY <3>1, <4>2
    <3>2. CASE j # i
      <4>1. j \in 1..(i - 1) /\ j \in 0..i /\ j - 1 \in 0..i /\ j - 1 # i
        BY <3>2
      <4>2. g[j] = f[j] /\ g[j - 1] = f[j - 1]
        BY <3>2, <4>1
      <4>3. f[j] = step[f[j - 1]]
        BY <2>1, <4>1
      <4> QED
        BY <4>2, <4>3
    <3> QED
      BY <3>1, <3>2
  <2>9. Good(i, g)
    BY <2>7, <2>8
  <2> HIDE DEF g, Good
  <2> QED
    BY <2>6, <2>9
<1> HIDE DEF S
<1>3. \A i \in 0..n : i \in S
  BY <1>1, <1>2, Walk
<1>4. n \in S
  BY <1>3
<1> QED
  BY <1>4 DEF S, Iterated

=============================================================================
