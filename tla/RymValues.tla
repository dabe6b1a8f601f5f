------------------------------ MODULE RymValues ------------------------------
(****************************************************************************)
(* The value half of rym-ir's Lowerer (rym-ir/src/lower.rs): which numbered *)
(* name each instruction writes and which it reads, on top of the blocks of *)
(* RymLower.  An action here is the action there together with what the     *)
(* same lines of the code do with names.                                    *)
(*                                                                          *)
(* An instruction is the name it writes and the names it reads; which       *)
(* operation it is, and the variables of the program, are left out.  The    *)
(* operands of a terminator are read by an instruction at the end of its    *)
(* block.  An expression is a leaf (a literal or a variable), an operation  *)
(* on two operands, or one of RymLower's constructs.                        *)
(****************************************************************************)
EXTENDS RymLower

CONSTANTS
    MaxNames,        \* bound: nothing is opened once next_id passed this
    MaxHeld,         \* bound: left operands that wait for the right one
    PartialMatches   \* may the last arm of a match be a pattern that can fail?

ASSUME ValuesAssumption ==
    MaxNames \in Nat /\ MaxHeld \in Nat /\ PartialMatches \in BOOLEAN

VARIABLES
    nextId,    \* next_id: number of the next fresh name
    val,       \* what lower_expr returned last, NoName between statements
    held,      \* left operands in local variables of open lower_expr calls
    keep,      \* for each frame of stack, the names in its local variables
    emitted,   \* instrs: the instructions of the current block
    code       \* for each of blocks, its instructions

nameVars == <<nextId, val, held, keep, emitted, code>>
valueVars == <<vars, nameVars>>

NoName == -1
Name == Nat

Instr == [dest : Name \cup {NoName}, args : Seq(Name)]
Write(dest, args) == [dest |-> dest, args |-> args]
Use(args) == Write(NoName, args)

-----------------------------------------------------------------------------
(* The operand a construct is applied to: the value just computed, or a     *)
(* leaf, which gets a name of its own.  Later(i) are the fresh names after  *)
(* it.                                                                      *)

IsLeaf == val = NoName
Opd == IF IsLeaf THEN nextId ELSE val
OpdCode == IF IsLeaf THEN <<Write(nextId, <<>>)>> ELSE <<>>
Later(i) == nextId + (IF IsLeaf THEN 1 ELSE 0) + i

(* fresh_name, n times after the operand. *)
Took(n) == nextId' = Later(n)
HasRoom == nextId <= MaxNames

(* Left operands held by the activation on top. *)
HeldHere == held # <<>> /\ held[Len(held)].depth = Len(stack)
Complete == ~HeldHere

(* Between two statements. *)
Idle == Complete /\ val = NoName

(* The blocks finished by a step get the instructions emitted before it and *)
(* theirs; the block started has start.                                     *)
Blocks(bodies, start) ==
    /\ code' = code \o <<emitted \o bodies[1]>> \o Tail(bodies)
    /\ emitted' = start

Keep(names) == keep' = Append(keep, names)
Kept == keep[Len(keep)]

(* Fault: the names of a closed frame stay. *)
DropNothing == keep' = keep

Drop == keep' = SubSeq(keep, 1, Len(keep) - 1)

Becomes(v) == val' = v

-----------------------------------------------------------------------------
(* Expressions (lower_expr).                                                *)

(* The left operand of an operation: its name waits for the right one.      *)
HoldLeft ==
    /\ ~done /\ Len(held) < MaxHeld /\ HasRoom
    /\ held' = Append(held, [name |-> Opd, depth |-> Len(stack)])
    /\ emitted' = emitted \o OpdCode
    /\ Took(0) /\ Becomes(NoName)
    /\ UNCHANGED <<vars, keep, code>>

(* The operation, once both operands have been lowered. *)
Operate ==
    /\ ~done /\ HeldHere
    /\ emitted' = emitted \o OpdCode
                     \o <<Write(Later(0), <<held[Len(held)].name, Opd>>)>>
    /\ held' = Front(held)
    /\ Took(1) /\ Becomes(Later(0))
    /\ UNCHANGED <<vars, keep, code>>

(* Fault: the zero of the err block is not stored in the result. *)
ErrZeroElsewhere(dest) == <<Write(dest + 1, <<>>)>>

(* or_zero's error block stores a zero in the result. *)
ErrZero(dest) == <<Write(dest, <<>>)>>

(* e.or_return and the like: names tag, ok_dest, zero, is_ok. *)
Unwrap == OpdCode \o << Write(Later(0), <<Opd>>), Write(Later(2), <<>>),
                        Write(Later(3), <<Later(0), Later(2)>>), Use(<<Later(3)>>) >>
GetPayload == <<Write(Later(1), <<Opd>>)>>

ValueOrOp(err) ==
    /\ HasRoom
    /\ Blocks(<<Unwrap, GetPayload, err>>, <<>>)
    /\ Took(4) /\ Becomes(Later(1))
    /\ UNCHANGED <<held, keep>>

ValueOrReturn == OrReturn /\ ValueOrOp(<<Use(<<Opd>>)>>)
ValueOrPanic == OrPanic /\ ValueOrOp(<<>>)
ValueOrZero == OrZero /\ ValueOrOp(ErrZero(Later(1)))

(* Its frame keeps ok_dest. *)
ValueOpenOrElse ==
    /\ OpenOrElse /\ HasRoom
    /\ Blocks(<<Unwrap, GetPayload>>, <<>>)
    /\ Keep(<<Later(1)>>)
    /\ Took(4) /\ Becomes(NoName)
    /\ UNCHANGED held

(* The value of a branch is stored in the result of its construct: of a     *)
(* block without one, or a branch that is not there, that of a Nop.         *)
StoreResult(dest) == OpdCode \o <<Write(dest, <<Opd>>)>>

(* Fault: only the else branch stores its value. *)
StoreThenNowhere(dest) == OpdCode

StoreThen(dest) == StoreResult(dest)

(* Frames then and else keep result_dest. *)
ValueOpenIf ==
    /\ OpenIf /\ HasRoom
    /\ Blocks(<<OpdCode \o <<Use(<<Opd>>)>>>>, <<>>)
    /\ Keep(<<Later(0)>>)
    /\ Took(1) /\ Becomes(NoName)
    /\ UNCHANGED held

ValueCloseThen ==
    /\ CloseThen /\ Complete
    /\ Blocks(<<StoreThen(Kept[1])>>, <<>>)
    /\ Took(0) /\ Becomes(NoName)
    /\ UNCHANGED <<held, keep>>

(* A pattern: what its test emits, names expected or lit_val and is_match,  *)
(* and how the arm's body begins, for a variant with the payload.           *)
Patterns == {"wild", "variant", "lit"}

Test(pat, n, subj, tag) ==
    IF pat = "wild" THEN <<>>
    ELSE <<Write(n, <<>>), Write(n + 1, IF pat = "lit" THEN <<subj, n>> ELSE <<tag, n>>),
           Use(<<n + 1>>)>>

(* Fault: the payload overwrites the subject. *)
ArmStartInPlace(pat, n, subj) == IF pat = "variant" THEN <<Write(subj, <<subj>>)>> ELSE <<>>

ArmStart(pat, n, subj) == IF pat = "variant" THEN <<Write(n + 2, <<subj>>)>> ELSE <<>>
ArmNames(pat) == IF pat = "wild" THEN 0 ELSE IF pat = "lit" THEN 2 ELSE 3

LastArmOK(pat, last) == last /\ pat # "wild" => PartialMatches

(* Its frame keeps result_dest, tag_val and subj. *)
ValueOpenMatch(n, pat) ==
    /\ OpenMatch(n, pat = "wild") /\ LastArmOK(pat, n = 1)
    /\ HasRoom
    /\ Blocks(<<OpdCode \o <<Write(Later(1), <<Opd>>)>> \o Test(pat, Later(2), Opd, Later(1))>>,
              ArmStart(pat, Later(2), Opd))
    /\ Keep(<<Later(0), Later(1), Opd>>)
    /\ Took(2 + ArmNames(pat)) /\ Becomes(NoName)
    /\ UNCHANGED held

ValueNextArm(pat) ==
    /\ NextArm(pat = "wild") /\ LastArmOK(pat, Len(Top.todo) = 3)
    /\ Complete
    /\ Blocks(<<StoreResult(Kept[1]), Test(pat, Later(0), Kept[3], Kept[2])>>,
              ArmStart(pat, Later(0), Kept[3]))
    /\ Took(ArmNames(pat)) /\ Becomes(NoName)
    /\ UNCHANGED <<held, keep>>

(* The end of an else branch, of a default and of the last arm. *)
ValueCloseExpr ==
    /\ CloseExpr /\ Complete
    /\ Blocks(<<StoreResult(Kept[1])>>, <<>>)
    /\ Drop
    /\ Took(0) /\ Becomes(Kept[1])
    /\ UNCHANGED held

(* A match without arms takes a tag and stores nothing. *)
ValueEmptyMatch ==
    /\ EmptyMatch /\ HasRoom
    /\ emitted' = emitted \o OpdCode \o <<Write(Later(1), <<Opd>>)>>
    /\ Took(2) /\ Becomes(Later(0))
    /\ UNCHANGED <<held, keep, code>>

-----------------------------------------------------------------------------
(* Statements (lower_stmt).                                                 *)

(* let, var and assignments: the value is loaded into the variable or       *)
(* stored.  (An expression statement is one whose value nothing reads.)     *)
StoreValue ==
    /\ ~done /\ AtStmt /\ ~InFlush /\ Complete /\ val # NoName
    /\ emitted' = Append(emitted, Use(<<val>>))
    /\ Becomes(NoName)
    /\ UNCHANGED <<vars, nextId, held, keep, code>>

ValueDefer ==
    /\ LowerDefer /\ Idle
    /\ UNCHANGED nameVars

(* What a return gives back: nothing, or its value, which is computed       *)
(* before the flush and read after it.                                      *)
Returned == IF IsLeaf THEN <<>> ELSE <<val>>
ReadBack(names) == IF names = <<>> THEN <<>> ELSE <<Use(names)>>

ReturnBlock(names) ==
    /\ Blocks(<<ReadBack(names)>>, <<>>)
    /\ Becomes(NoName)
    /\ UNCHANGED <<nextId, held>>

BeginValueFlush ==
    /\ Keep(Returned)
    /\ Becomes(NoName)
    /\ UNCHANGED <<nextId, held, emitted, code>>

ValueReturn ==
    /\ LowerReturn /\ Complete
    /\ IF deferred = <<>> THEN ReturnBlock(Returned) /\ UNCHANGED keep ELSE BeginValueFlush

ValueFlushNext ==
    /\ FlushNext /\ Complete
    /\ Becomes(NoName)
    /\ UNCHANGED <<nextId, held, keep, emitted, code>>

ValueEndFlushReturn == EndFlushReturn /\ Complete /\ ReturnBlock(Kept) /\ Drop

JumpBlock == Blocks(<<<<>>>>, <<>>) /\ UNCHANGED <<nextId, val, held, keep>>

ValueBreak == LowerBreak /\ Idle /\ JumpBlock
ValueContinue == LowerContinue /\ Idle /\ JumpBlock

(* for i in start..end, start being the operand held: names i_var, end_var, *)
(* i_cur, end_cur, in_bounds.                                               *)
ForRange ==
    /\ HeldHere
    /\ held' = Front(held)
    /\ Blocks(<< OpdCode \o << Write(Later(0), <<held[Len(held)].name>>),
                               Write(Later(1), <<Opd>>) >>,
                 << Write(Later(2), <<Later(0)>>), Write(Later(3), <<Later(1)>>),
                    Write(Later(4), <<Later(2), Later(3)>>), Use(<<Later(4)>>) >> >>,
              <<Use(<<Later(2)>>)>>)
    /\ Keep(<<Later(0), Later(2)>>)
    /\ Took(5)

(* for x in slice: names i_var, zero, len_val, i_cur, len_cur, in_bounds,   *)
(* data_ptr, elem.                                                          *)
ForSlice ==
    /\ Complete
    /\ UNCHANGED held
    /\ Blocks(<< OpdCode \o << Write(Later(1), <<>>), Write(Later(0), <<Later(1)>>),
                               Write(Later(2), <<Opd>>) >>,
                 << Write(Later(3), <<Later(0)>>), Write(Later(4), <<Later(2)>>),
                    Write(Later(5), <<Later(3), Later(4)>>), Use(<<Later(5)>>) >> >>,
              << Write(Later(6), <<Opd>>), Write(Later(7), <<Later(6), Later(3)>>),
                 Use(<<Later(7)>>) >>)
    /\ Keep(<<Later(0), Later(3)>>)
    /\ Took(8)

(* Its frame keeps i_var and i_cur. *)
ValueOpenFor ==
    /\ OpenFor /\ HasRoom
    /\ ForRange \/ ForSlice
    /\ Becomes(NoName)

ValueOpenWhile ==
    /\ OpenWhile /\ Idle
    /\ Blocks(<<<<>>>>, <<>>)
    /\ Keep(<<>>)
    /\ UNCHANGED <<nextId, val, held>>

ValueCloseWhileCond ==
    /\ CloseWhileCond /\ Complete
    /\ Blocks(<<OpdCode \o <<Use(<<Opd>>)>>>>, <<>>)
    /\ Took(0) /\ Becomes(NoName)
    /\ UNCHANGED <<held, keep>>

ValueOpenLoop ==
    /\ OpenLoop /\ Idle
    /\ Blocks(<<<<>>>>, <<>>)
    /\ Keep(<<>>)
    /\ UNCHANGED <<nextId, val, held>>

(* A for loop: names one and i_next; i_next is stored in i_var. *)
Step == IF Top.kind # "for" THEN <<>>
        ELSE << Write(nextId, <<>>), Write(nextId + 1, <<Kept[2], nextId>>),
                Write(Kept[1], <<nextId + 1>>) >>

ValueCloseLoop ==
    /\ CloseLoop /\ Idle
    /\ Blocks(<<Step>>, <<>>)
    /\ nextId' = nextId + (IF Top.kind = "for" THEN 2 ELSE 0)
    /\ Drop
    /\ UNCHANGED <<val, held>>

-----------------------------------------------------------------------------
(* Functions (lower_fn, lower_file).                                        *)

(* The value of the last expression is the implicit return's. *)
ValueEndFn ==
    /\ EndFn /\ Complete
    /\ IF deferred = <<>> THEN ReturnBlock(Returned) /\ UNCHANGED keep ELSE BeginValueFlush

ValueEndFlushExit == EndFlushExit /\ Complete /\ ReturnBlock(Kept) /\ Drop

ValueEndMain == EndMain /\ Idle /\ JumpBlock

ValueResetFn ==
    /\ ResetFn
    /\ nextId' = 0 /\ val' = NoName /\ held' = <<>> /\ keep' = <<>>
    /\ emitted' = <<>> /\ code' = <<>>

-----------------------------------------------------------------------------
ValueInit ==
    /\ Init
    /\ nextId = 0 /\ val = NoName /\ held = <<>> /\ keep = <<>>
    /\ emitted = <<>> /\ code = <<>>

ValueStmt ==
    \/ StoreValue \/ ValueDefer \/ ValueReturn \/ ValueFlushNext \/ ValueEndFlushReturn
    \/ ValueBreak \/ ValueContinue
    \/ ValueOpenFor \/ ValueOpenWhile \/ ValueCloseWhileCond \/ ValueOpenLoop
    \/ ValueCloseLoop

ValueExpr ==
    \/ HoldLeft \/ Operate
    \/ ValueOrReturn \/ ValueOrPanic \/ ValueOrZero \/ ValueOpenOrElse
    \/ ValueOpenIf \/ ValueCloseThen
    \/ \E n \in 1..MaxArms, pat \in Patterns : ValueOpenMatch(n, pat)
    \/ \E pat \in Patterns : ValueNextArm(pat)
    \/ ValueCloseExpr \/ ValueEmptyMatch

ValueFn == ValueEndFn \/ ValueEndFlushExit \/ ValueEndMain \/ ValueResetFn

ValueNext == ValueStmt \/ ValueExpr \/ ValueFn

ValueSpec == ValueInit /\ [][ValueNext]_valueVars

-----------------------------------------------------------------------------
(* Properties.                                                              *)

ValueTypeOK ==
    /\ nextId \in Nat
    /\ val \in Name \cup {NoName}
    /\ held \in Seq([name : Name, depth : Nat])
    /\ keep \in Seq(Seq(Name))
    /\ emitted \in Seq(Instr)
    /\ code \in Seq(Seq(Instr))

(* The types, one list of names for each open activation and one of         *)
(* instructions for each finished block.                                    *)
ValueTypeInv == ValueTypeOK /\ Len(keep) = Len(stack) /\ Len(code) = Len(blocks)

Writes(i) == {code[i][k].dest : k \in DOMAIN code[i]} \ {NoName}

(* The names block i reads before it writes them. *)
ReadsFirst(i) ==
    UNION {Range(code[i][k].args) \ {code[i][j].dest : j \in 1..(k - 1)} :
              k \in DOMAIN code[i]}

(* The labels that can be arrived at without a write to t on the way. *)
WithoutWrite(t) ==
    LET from(L) == {j \in DOMAIN blocks : blocks[j].label \in L /\ t \notin Writes(j)}
        reach[n \in 0..Len(blocks)] ==
          IF n = 0 THEN {Entry}
          ELSE LET L == reach[n - 1]
               IN  L \cup UNION {Range(blocks[j].to) : j \in from(L)}
    IN  reach[Len(blocks)]

(* Whatever path control takes, a name has been written when an instruction *)
(* or terminator reads it: the result of every construct is stored by each  *)
(* of its branches, and no block reads what only another branch has         *)
(* computed.  (The backends would go on with a zero or with what a register *)
(* happens to hold.)                                                        *)
OperandsDefined ==
    done => \A i \in DOMAIN blocks :
               \A t \in ReadsFirst(i) : blocks[i].label \notin WithoutWrite(t)

(* Blocks that can follow block i without a jump back. *)
After(i) ==
    LET next(I) == {k \in DOMAIN blocks : \E j \in I :
                       k > j /\ blocks[k].label \in Range(blocks[j].to)}
        reach[n \in 0..Len(blocks)] ==
          IF n = 0 THEN next({i}) ELSE LET I == reach[n - 1] IN I \cup next(I)
    IN  reach[Len(blocks)]

(* The step of a for loop writes its counter a second time. *)
IsStep(i, t) ==
    /\ blocks[i].code # <<>> /\ blocks[i].code[Len(blocks[i].code)].op = "inc"
    /\ code[i][Len(code[i])].dest = t

(* "SSA three-address" (README.md): but for the counter of a for loop, no   *)
(* path writes a name twice unless it jumps back in between.  So a value    *)
(* that waits for another operand, for a branch or for the end of a flush   *)
(* is still the one that was computed.                                      *)
WrittenOnce ==
    done => \A i \in DOMAIN blocks :
               /\ \A j, k \in DOMAIN code[i] :
                     code[i][j].dest = code[i][k].dest /\ j # k => code[i][j].dest = NoName
               /\ \A k \in After(i) :
                     \A t \in Writes(i) \cap Writes(k) : IsStep(k, t)
=============================================================================
