----------------------------- MODULE RymSelect ------------------------------
(****************************************************************************)
(* Instruction selection of the LA64 backend (rym-codegen/src/la64.rs) for  *)
(* integers and truth values, next to the expressions the C backend (c.rs)  *)
(* emits for the same operation of the IR: what the machine computes is     *)
(* compared with what C says.                                               *)
(*                                                                          *)
(* Words are two's complement.  Literals are cut into the immediate fields  *)
(* of the instructions, so the spans of these are parameters: 12, 20, 20    *)
(* and 12 bits on the machine.                                              *)
(****************************************************************************)
EXTENDS Integers, Sequences

CONSTANTS
    LowSpan,    \* 2^12: the immediates of addi.d, ori and the like
    MidSpan,    \* 2^20: that of lu12i.w, which loads the bits above
    HighSpan,   \* 2^20: that of lu32i.d, for the upper half
    TopSpan,    \* 2^12: what is left of a word (lu52i.d would load it)
    Width,      \* 64: bits of a word
    Junk        \* what the destination may hold before

Span == LowSpan * MidSpan * HighSpan * TopSpan
HalfWord == LowSpan * MidSpan
Words == (-(Span \div 2)) .. ((Span \div 2) - 1)

ASSUME SpansAssumption ==
    /\ \A span \in {LowSpan, MidSpan, HighSpan, TopSpan} : span \in Nat /\ span > 1 /\ span % 2 = 0
    /\ Width \in Nat /\ Span = 2^Width
    /\ Junk \subseteq Words

VARIABLES
    instr,   \* the operation of the IR, and its operands
    code,    \* what has been emitted for it and not been executed
    d        \* the destination register

selectVars == <<instr, code, d>>

-----------------------------------------------------------------------------
(* Words.                                                                   *)

SignExtended(x, span) == IF x < span \div 2 THEN x ELSE x - span
Word(x) == SignExtended(x % Span, Span)
Unsigned(x) == x % Span
Truth(holds) == IF holds THEN 1 ELSE 0

Positions == 0..(Width - 1)
Bits(x) == [i \in Positions |-> (Unsigned(x) \div 2^i) % 2]
OfBits(bits) ==
    LET below[i \in 0..Width] == IF i = 0 THEN 0 ELSE below[i - 1] + bits[i - 1] * 2^(i - 1)
    IN  Word(below[Width])
BitAnd(x, y) == OfBits([i \in Positions |-> Bits(x)[i] * Bits(y)[i]])
BitXor(x, y) == OfBits([i \in Positions |-> (Bits(x)[i] + Bits(y)[i]) % 2])
BitOr(x, y) == x + y - BitAnd(x, y)

Abs(x) == IF x < 0 THEN -x ELSE x
Quotient(x, y) ==
    IF (x < 0) = (y < 0) THEN Abs(x) \div Abs(y) ELSE -(Abs(x) \div Abs(y))
Remainder(x, y) == x - y * Quotient(x, y)

-----------------------------------------------------------------------------
(* The machine.  Every instruction writes d; x and y are the registers it   *)
(* reads.  Division by zero may leave anything, here zero.                  *)

R(ins, x, y) == [ins |-> ins, x |-> x, y |-> y, imm |-> 0]
I(ins, x, imm) == [ins |-> ins, x |-> x, y |-> "zero", imm |-> imm]

(* lu12i.w and ori: ori only ever follows the former, which clears the bits *)
(* that ori sets.  lu32i.d keeps the lower half.                            *)
Loaded(ins, x, imm) ==
    CASE ins = "addi.d" -> Word(x + imm)
      [] ins = "lu12i.w" -> SignExtended(imm, MidSpan) * LowSpan
      [] ins = "ori" -> x - (x % LowSpan) + imm
      [] ins = "lu32i.d" -> (x % HalfWord) + SignExtended(imm, HighSpan) * HalfWord

Computed(ins, x, y, imm) ==
    CASE ins = "add.d" -> Word(x + y)
      [] ins = "sub.d" -> Word(x - y)
      [] ins = "mul.d" -> Word(x * y)
      [] ins = "div.d" -> IF y = 0 THEN 0 ELSE Word(Quotient(x, y))
      [] ins = "mod.d" -> IF y = 0 THEN 0 ELSE Word(Remainder(x, y))
      [] ins = "slt" -> Truth(x < y)
      [] ins = "sltu" -> Truth(Unsigned(x) < Unsigned(y))
      [] ins = "sltui" -> Truth(Unsigned(x) < imm)
      [] ins = "xori" -> BitXor(x, imm)
      [] ins = "and" -> BitAnd(x, y)
      [] ins = "or" -> BitOr(x, y)
      [] ins = "xor" -> BitXor(x, y)
      [] ins = "nor" -> Word(-BitOr(x, y) - 1)
      [] ins = "sll.d" -> Word(x * 2^(y % Width))
      [] ins = "srl.d" -> Word(Unsigned(x) \div 2^(y % Width))

Loads == {"addi.d", "lu12i.w", "ori", "lu32i.d"}

Reg(name) ==
    CASE name = "d" -> d
      [] name = "zero" -> 0
      [] name = "a" -> instr.a
      [] name = "b" -> instr.b

Execute ==
    /\ code # <<>>
    /\ LET i == Head(code) IN
       d' = IF i.ins \in Loads THEN Loaded(i.ins, Reg(i.x), i.imm)
            ELSE Computed(i.ins, Reg(i.x), Reg(i.y), i.imm)
    /\ code' = Tail(code)
    /\ UNCHANGED instr

-----------------------------------------------------------------------------
(* emit_instr.                                                              *)

Idle == instr.op = "none"

Emit(op, a, b, sequence) ==
    /\ instr' = [op |-> op, a |-> a, b |-> b]
    /\ code' = sequence
    /\ UNCHANGED d

(* emit_load_imm: >> is an arithmetic shift, a division that rounds down.   *)
Small == (-(LowSpan \div 2)) .. ((LowSpan \div 2) - 1)
Medium == (0..(MidSpan - 1)) \ Small

Low(v) == v % LowSpan
Mid(v) == (v \div LowSpan) % MidSpan
High(v) == (v \div HalfWord) % HighSpan

LoadSmall(v) ==
    /\ v \in Small
    /\ Emit("ConstInt", v, 0, <<I("addi.d", "zero", v)>>)

LoadMedium(v) ==
    /\ v \in Medium
    /\ Emit("ConstInt", v, 0,
            <<I("lu12i.w", "zero", v \div LowSpan)>>
              \o IF Low(v) # 0 THEN <<I("ori", "d", Low(v))>> ELSE <<>>)

(* Fault: the upper half is loaded for negative values only.                *)
LoadLargeHalf(v) ==
    /\ v \notin Small \cup Medium
    /\ Emit("ConstInt", v, 0,
            <<I("lu12i.w", "zero", Mid(v)), I("ori", "d", Low(v))>>
              \o IF v < 0 THEN <<I("lu32i.d", "d", High(v))>> ELSE <<>>)

LoadLarge(v) ==
    /\ v \notin Small \cup Medium
    /\ Emit("ConstInt", v, 0,
            <<I("lu12i.w", "zero", Mid(v)), I("ori", "d", Low(v))>>
              \o IF v \div HalfWord # 0 THEN <<I("lu32i.d", "d", High(v))>> ELSE <<>>)

Binary == [
    Add |-> <<R("add.d", "a", "b")>>,
    Sub |-> <<R("sub.d", "a", "b")>>,
    Mul |-> <<R("mul.d", "a", "b")>>,
    Div |-> <<R("div.d", "a", "b")>>,
    Rem |-> <<R("mod.d", "a", "b")>>,
    And |-> <<R("and", "a", "b")>>,
    Or |-> <<R("or", "a", "b")>>,
    BitAnd |-> <<R("and", "a", "b")>>,
    BitOr |-> <<R("or", "a", "b")>>,
    BitXor |-> <<R("xor", "a", "b")>>,
    Shl |-> <<R("sll.d", "a", "b")>>,
    Shr |-> <<R("srl.d", "a", "b")>>]

(* Fault: the test is on the sign of a difference, which may overflow.      *)
ComparisonBySign == [
    CmpEq |-> <<R("sub.d", "a", "b"), I("sltui", "d", 1)>>,
    CmpNeq |-> <<R("sub.d", "a", "b"), R("sltu", "zero", "d")>>,
    CmpLt |-> <<R("sub.d", "a", "b"), R("slt", "d", "zero")>>,
    CmpLe |-> <<R("slt", "b", "a"), I("xori", "d", 1)>>,
    CmpGt |-> <<R("slt", "b", "a")>>,
    CmpGe |-> <<R("slt", "a", "b"), I("xori", "d", 1)>>]

Comparison == [
    CmpEq |-> <<R("sub.d", "a", "b"), I("sltui", "d", 1)>>,
    CmpNeq |-> <<R("sub.d", "a", "b"), R("sltu", "zero", "d")>>,
    CmpLt |-> <<R("slt", "a", "b")>>,
    CmpLe |-> <<R("slt", "b", "a"), I("xori", "d", 1)>>,
    CmpGt |-> <<R("slt", "b", "a")>>,
    CmpGe |-> <<R("slt", "a", "b"), I("xori", "d", 1)>>]

Unary == [
    Not |-> <<I("sltui", "a", 1)>>,
    Neg |-> <<R("sub.d", "zero", "a")>>,
    BitNot |-> <<R("nor", "a", "zero")>>]

EmitBinary(op, a, b) == Emit(op, a, b, Binary[op])
EmitComparison(op, a, b) == Emit(op, a, b, Comparison[op])
EmitUnary(op, a) == Emit(op, a, 0, Unary[op])

SelectInit ==
    /\ instr = [op |-> "none", a |-> 0, b |-> 0]
    /\ code = <<>>
    /\ d \in Junk

EmitInstr ==
    /\ Idle
    /\ \/ \E v \in Words : LoadSmall(v) \/ LoadMedium(v) \/ LoadLarge(v)
       \/ \E op \in DOMAIN Binary, a, b \in Words : EmitBinary(op, a, b)
       \/ \E op \in DOMAIN Comparison, a, b \in Words : EmitComparison(op, a, b)
       \/ \E op \in DOMAIN Unary, a \in Words : EmitUnary(op, a)

SelectNext == EmitInstr \/ Execute

SelectSpec == SelectInit /\ [][SelectNext]_selectVars

-----------------------------------------------------------------------------
(* The C backend: each operation is one expression over intptr_t (arith!    *)
(* and cmp!).                                                               *)

C(op, x, y) ==
    CASE op = "Add" -> x + y
      [] op = "Sub" -> x - y
      [] op = "Mul" -> x * y
      [] op = "Div" -> Quotient(x, y)
      [] op = "Rem" -> Remainder(x, y)
      [] op = "And" -> Truth(x # 0 /\ y # 0)
      [] op = "Or" -> Truth(x # 0 \/ y # 0)
      [] op = "BitAnd" -> BitAnd(x, y)
      [] op = "BitOr" -> BitOr(x, y)
      [] op = "BitXor" -> BitXor(x, y)
      [] op = "Shl" -> x * 2^y
      [] op = "Shr" -> x \div 2^y
      [] op = "CmpEq" -> Truth(x = y)
      [] op = "CmpNeq" -> Truth(x # y)
      [] op = "CmpLt" -> Truth(x < y)
      [] op = "CmpLe" -> Truth(x <= y)
      [] op = "CmpGt" -> Truth(x > y)
      [] op = "CmpGe" -> Truth(x >= y)
      [] op = "Not" -> Truth(x = 0)
      [] op = "Neg" -> -x
      [] op = "BitNot" -> -x - 1

(* Division by zero, shifts by the width or a negative amount and of        *)
(* negative values to the left, and signed overflow are undefined in C.     *)
DefinedInC(op, x, y) ==
    /\ op \in {"Div", "Rem"} => y # 0 /\ Quotient(x, y) \in Words
    /\ op \in {"Shl", "Shr"} => y \in Positions
    /\ op = "Shl" => x >= 0
    /\ C(op, x, y) \in Words

-----------------------------------------------------------------------------
(* Properties.                                                              *)

Done == code = <<>>

(* The literals that reach the register: a sign is extended from the 32nd   *)
(* bit and, if lu32i.d is used, from the 52nd, but never from another.      *)
Loadable(v) ==
    /\ 2 * v >= -HalfWord * HighSpan /\ 2 * v < HalfWord * HighSpan
    /\ ~(2 * v >= HalfWord /\ v < HalfWord)

(* A literal is loaded with its own value, whichever of the three sequences *)
(* is chosen; and which literals are not is known exactly (emit_load_imm).  *)
LiteralsLoaded == Done /\ instr.op = "ConstInt" => (d = instr.a <=> Loadable(instr.a))

(* Not so: every literal is, as the comment of emit_load_imm says ("Full    *)
(* 64-bit: lu12i + ori + lu32i + lu52i", la64.rs:558).                      *)
FullWord == Done /\ instr.op = "ConstInt" => d = instr.a

(* What the backends leave different: `and` and `or` take every word for a  *)
(* truth value in C and combine bits on LA64; >> of a negative value fills  *)
(* with ones in C and with zeros on LA64.                                   *)
Alike(op, x, y) ==
    /\ op \in {"And", "Or"} => {x, y} \subseteq {0, 1}
    /\ op = "Shr" => x >= 0

(* A program means the same on both targets: for all operands for which C   *)
(* defines a result, overflowing differences in comparisons included, LA64  *)
(* computes that one.                                                       *)
TargetsAgree ==
    Done /\ instr.op \notin {"none", "ConstInt"} =>
       LET op == instr.op  x == instr.a  y == instr.b IN
       DefinedInC(op, x, y) /\ Alike(op, x, y) => d = C(op, x, y)
=============================================================================
