----------------------------- MODULE RymRegAlloc -----------------------------
(****************************************************************************)
(* The register allocator of the LA64 backend (rym-codegen/src/la64.rs) and *)
(* the machine that runs what it emits.  The allocator maps the names of    *)
(* the IR to registers and spill slots while the instructions of a function *)
(* are emitted, once each and in the order of its blocks; the machine then  *)
(* executes them along some path.  map, nextReg and nextSpill belong to the *)
(* first, regs to the second, env is what each name is worth in the IR.     *)
(*                                                                          *)
(* A function is a list of instructions with at most one region, the body   *)
(* of an if or of a loop.  A call leaves none of the temporary and argument *)
(* registers as it was; what a reload reads is junk, as nothing is emitted  *)
(* that stores to a spill slot.                                             *)
(****************************************************************************)
EXTENDS Naturals, Sequences, FiniteSets, Functions

CONSTANTS
    NumTemps,         \* TEMP_REGS.len(); the last of them doubles as scratch
    NumArgs,          \* ARG_REGS.len()
    Temps,            \* the numbered names %0, %1, ..., in order
    Vars,             \* the names let and var introduce
    Params,           \* the parameters, in order
    Ops,              \* the operations that programs use
    Regions,          \* the kinds of region that programs use
    StoresInRegions,  \* may a region assign to a variable?
    UsesAcrossCalls,  \* may a name be used after a call that follows its definition?
    MaxCode,          \* bound: instructions of a function
    MaxTurns          \* bound: times a loop is repeated

AllOps == {"const", "binary", "call", "wrap", "literal"}

ASSUME RegAllocAssumption ==
    /\ NumTemps \in Nat \ {0} /\ NumArgs \in Nat /\ MaxCode \in Nat /\ MaxTurns \in Nat
    /\ Temps \in Seq(Range(Temps)) /\ IsInjective(Temps)
    /\ Params \in Seq(Range(Params)) /\ IsInjective(Params)
    /\ Range(Temps) \cap (Vars \cup Range(Params)) = {}    \* no identifier begins with %
    /\ Ops \subseteq AllOps /\ Regions \subseteq {"if", "loop"}
    /\ StoresInRegions \in BOOLEAN /\ UsesAcrossCalls \in BOOLEAN

Names == Range(Temps) \cup Vars \cup Range(Params)

(* Locations: temporaries, argument registers, and the stack (Loc).         *)
Temp(i) == <<"t", i>>
Arg(i) == <<"a", i>>
Slot(i) == <<"stack", i>>
Regs == {Temp(i) : i \in 1..NumTemps} \cup {Arg(i) : i \in 1..NumArgs}
Scratch == Temp(NumTemps)
Nowhere == <<"nowhere", 0>>
Spilled(loc) == loc[1] = "stack"

(* Values: what the instruction at an index computed on a turn, what a      *)
(* parameter holds, and everything no name is worth.                        *)
Computed(i, turn) == <<i, turn>>
Passed(i) == <<0, i>>
Junk == <<0, 0>>

VARIABLES
    map,        \* RegAlloc.map: where each name is
    nextReg,    \* RegAlloc.next_reg
    nextSpill,  \* RegAlloc.next_spill, in slots
    used,       \* numbered names handed out (fresh_name)
    usable,     \* names an instruction emitted now may read
    region,     \* the region of the function: its state, first and last index
    code,       \* what has been emitted
    pc,         \* index of the next instruction executed; 0 while emitting
    turns, regs, env,
    wrong       \* has an instruction read a value that is not the IR's?

alloc == <<map, nextReg, nextSpill>>
machine == <<pc, turns, regs, env, wrong>>
vars == <<map, nextReg, nextSpill, used, usable, region, code, pc, turns, regs, env, wrong>>

-----------------------------------------------------------------------------
(* RegAlloc.                                                                *)

(* HashMap::insert *)
Insert(name, loc) ==
    [n \in DOMAIN map \cup {name} |-> IF n = name THEN loc ELSE map[n]]

(* Fault: a name defined again gets another place.                          *)
AllocLocAnew(name) ==
    IF nextReg < NumTemps THEN Temp(nextReg + 1) ELSE Slot(nextSpill)

(* Fault: the last register is never handed out.                            *)
AllocLocSpillsEarly(name) ==
    IF name \in DOMAIN map THEN map[name]
    ELSE IF nextReg + 1 < NumTemps THEN Temp(nextReg + 1) ELSE Slot(nextSpill)

(* alloc: a name keeps its place, a new one gets a register while there are *)
(* any, then a slot.                                                        *)
AllocLoc(name) ==
    IF name \in DOMAIN map THEN map[name]
    ELSE IF nextReg < NumTemps THEN Temp(nextReg + 1) ELSE Slot(nextSpill)

(* Fault: next_reg is not advanced.                                         *)
AllocNotCounted(name) ==
    /\ map' = Insert(name, AllocLoc(name))
    /\ nextReg' = nextReg
    /\ nextSpill' = nextSpill

Alloc(name) ==
    LET new == name \notin DOMAIN map IN
    /\ map' = Insert(name, AllocLoc(name))
    /\ nextReg' = IF new /\ nextReg < NumTemps THEN nextReg + 1 ELSE nextReg
    /\ nextSpill' = IF new /\ nextReg = NumTemps THEN nextSpill + 1 ELSE nextSpill

(* get: an unknown name is answered with the scratch register.              *)
Get(m, name) == IF name \in DOMAIN m THEN m[name] ELSE Scratch

(* bind, with the register get returned: a spilled source has been reloaded *)
(* into the scratch register.                                               *)
Bind(name, loc) ==
    /\ map' = Insert(name, IF Spilled(loc) THEN Scratch ELSE loc)
    /\ UNCHANGED <<nextReg, nextSpill>>

-----------------------------------------------------------------------------
(* Emission.  The programs are those the lowering makes: an operation reads *)
(* numbered names and defines a fresh one; a variable is read by a Load and *)
(* written by a Load (let, var) or a Store (an assignment), whose source is *)
(* read by nothing else.                                                    *)

Emitting == pc = 0
InRegion == region.state = "open"
Numbered == usable \cap Range(Temps)
Fresh == {Temps[i] : i \in {used + 1} \cap DOMAIN Temps}
Calls == {"call", "wrap"}

Emit(op, dest, args) ==
    /\ Emitting
    /\ code' = Append(code, [op |-> op, dest |-> dest, args |-> args,
                             to |-> IF dest \in DOMAIN map' THEN map'[dest] ELSE Nowhere,
                             from |-> [i \in DOMAIN args |-> Get(map', args[i])]])

Room == Len(code) < MaxCode

(* A name is defined; one that a region introduces is unknown behind it.    *)
Defines(name, still) ==
    /\ usable' = still \cup {name}
    /\ region' = IF InRegion /\ name \notin usable
                 THEN [region EXCEPT !.inner = @ \cup {name}] ELSE region

(* emit_instr of an operation: the destination is allocated first.          *)
EmitOp(op, args) ==
    \E dest \in Fresh :
        /\ Room
        /\ Alloc(dest)
        /\ Emit(op, dest, args)
        /\ used' = used + 1
        /\ op \in Calls /\ ~UsesAcrossCalls => ~(InRegion /\ region.kind = "loop")
        /\ Defines(dest, IF op \in Calls /\ ~UsesAcrossCalls THEN {} ELSE usable)
        /\ UNCHANGED machine

EmitConst == "const" \in Ops /\ EmitOp("const", <<>>)
EmitBinary == "binary" \in Ops /\ \E a, b \in Numbered : EmitOp("binary", <<a, b>>)
EmitUnary == \E op \in Ops \ {"const", "binary"}, a \in Numbered : EmitOp(op, <<a>>)

(* A variable or a parameter read by an expression.                         *)
EmitLoad ==
    \E dest \in Fresh, v \in usable \ Numbered :
        /\ Room
        /\ Alloc(dest)
        /\ Emit("load", dest, <<v>>)
        /\ used' = used + 1
        /\ Defines(dest, usable)
        /\ UNCHANGED machine

(* let and var, also of a name that is there already.                       *)
EmitLet ==
    \E v \in Vars \cup Range(Params), a \in Numbered :
        /\ Room
        /\ Alloc(v)
        /\ Emit("load", v, <<a>>)
        /\ Defines(v, usable)
        /\ UNCHANGED <<used, machine>>

(* An assignment emits no instruction (but for a reload of its source): the *)
(* variable is from here on where the source is.                            *)
EmitStore ==
    \E v \in usable \ Numbered, a \in Numbered :
        /\ Room
        /\ InRegion => StoresInRegions
        /\ Bind(v, Get(map, a))
        /\ Emit("store", v, <<a>>)
        /\ usable' = usable \ {a}
        /\ UNCHANGED <<used, region, machine>>

(* The region: an if reads its condition, a loop has a block to return to.  *)
OpenRegion(kind, args) ==
    /\ Room /\ region.state = "none"
    /\ UNCHANGED <<alloc, used, usable, machine>>
    /\ Emit(kind, "none", args)
    /\ region' = [state |-> "open", kind |-> kind, first |-> Len(code) + 1, last |-> 0,
                  inner |-> {}]

EmitIf == "if" \in Regions /\ \E a \in Numbered : OpenRegion("if", <<a>>)
EmitLoop == "loop" \in Regions /\ OpenRegion("loop", <<>>)

CloseRegion ==
    /\ InRegion
    /\ UNCHANGED <<alloc, used, machine>>
    /\ Emit("end", "none", <<>>)
    /\ region' = [region EXCEPT !.state = "closed", !.last = Len(code) + 1]
    /\ usable' = usable \ region.inner

(* The end of the function; what follows executes it.                       *)
EmitReturn ==
    /\ ~InRegion
    /\ UNCHANGED <<alloc, used, usable, region, turns, regs, env, wrong>>
    /\ \E args \in {<<>>} \cup {<<a>> : a \in Numbered} : Emit("return", "none", args)
    /\ pc' = 1

EmitNext == EmitConst \/ EmitBinary \/ EmitUnary \/ EmitLoad \/ EmitLet \/ EmitStore
            \/ EmitIf \/ EmitLoop \/ CloseRegion \/ EmitReturn

-----------------------------------------------------------------------------
(* Execution.                                                               *)

Executing == pc \in 1..Len(code)
Now == code[pc]

(* loc_to_reg reloads into the scratch register, for the destination first  *)
(* and then for the operands up to the k-th.                                *)
Reloads(k) == Spilled(Now.to) \/ \E i \in 1..k : Spilled(Now.from[i])

(* Calls and literals use up an operand before the next one is reloaded,    *)
(* everything else has all of them in registers first (get2).               *)
ReloadsSeen(i) == Reloads(IF Now.op \in {"call", "literal"} THEN i ELSE Len(Now.args))

(* A value made by MakeVariant, WrapOk and WrapErr is read after malloc.    *)
Got(i) ==
    LET loc == Now.from[i] IN
    IF Spilled(loc) \/ Now.op = "wrap" \/ (loc = Scratch /\ ReloadsSeen(i)) THEN Junk
    ELSE regs[loc]

Right == \A i \in DOMAIN Now.args : Got(i) = env[Now.args[i]]

Reloaded == IF Reloads(Len(Now.args)) THEN [regs EXCEPT ![Scratch] = Junk] ELSE regs

Machine(nextPc, newRegs, newEnv) ==
    /\ Executing
    /\ pc' = nextPc
    /\ regs' = newRegs
    /\ env' = newEnv
    /\ wrong' = (wrong \/ ~Right)
    /\ UNCHANGED <<alloc, used, usable, region, code>>

(* The destination register gets what the machine computes, the name what   *)
(* the IR does; a spilled destination is not stored to its slot.            *)
Writes(before, got, worth) ==
    LET reg == IF Spilled(Now.to) THEN Scratch ELSE Now.to
    IN  Machine(pc + 1, [before EXCEPT ![reg] = got], [env EXCEPT ![Now.dest] = worth])

ExecOp ==
    /\ Executing /\ Now.op \in AllOps
    /\ LET value == Computed(pc, turns)
           before == IF Now.op \in Calls THEN [r \in Regs |-> Junk] ELSE Reloaded
       IN  Writes(before, IF Right THEN value ELSE Junk, value)
    /\ UNCHANGED turns

ExecLoad ==
    /\ Executing /\ Now.op = "load"
    /\ Writes(Reloaded, Got(1), env[Now.args[1]])
    /\ UNCHANGED turns

ExecStore ==
    /\ Executing /\ Now.op = "store"
    /\ Machine(pc + 1, Reloaded, [env EXCEPT ![Now.dest] = env[Now.args[1]]])
    /\ UNCHANGED turns

(* The branch of an if is taken or not.                                     *)
ExecIf ==
    /\ Executing /\ Now.op = "if"
    /\ \E next \in {pc + 1, region.last} : Machine(next, Reloaded, env)
    /\ UNCHANGED turns

ExecLoop ==
    /\ Executing /\ Now.op = "loop"
    /\ Machine(pc + 1, regs, env)
    /\ UNCHANGED turns

(* The end of a region; a loop may jump back to its start.                  *)
ExecEnd ==
    /\ Executing /\ Now.op = "end"
    /\ Machine(pc + 1, regs, env)
    /\ UNCHANGED turns

ExecBack ==
    /\ Executing /\ Now.op = "end" /\ region.kind = "loop" /\ turns < MaxTurns
    /\ turns' = turns + 1
    /\ Machine(region.first, regs, env)

ExecReturn ==
    /\ Executing /\ Now.op = "return"
    /\ Machine(pc + 1, Reloaded, env)
    /\ UNCHANGED turns

ExecNext == ExecOp \/ ExecLoad \/ ExecStore \/ ExecIf \/ ExecLoop \/ ExecEnd \/ ExecBack
            \/ ExecReturn

-----------------------------------------------------------------------------
(* emit_func: the parameters are bound to the argument registers they come  *)
(* in, as far as there are any.                                             *)
Bound == {i \in DOMAIN Params : i <= NumArgs}
ParamIndex(name) == CHOOSE i \in DOMAIN Params : Params[i] = name

Init ==
    /\ map = [p \in {Params[i] : i \in Bound} |-> Arg(ParamIndex(p))]
    /\ nextReg = 0 /\ nextSpill = 0 /\ used = 0
    /\ usable = Range(Params)
    /\ region = [state |-> "none", kind |-> "none", first |-> 0, last |-> 0, inner |-> {}]
    /\ code = <<>>
    /\ pc = 0 /\ turns = 0
    /\ regs = [r \in Regs |-> IF \E i \in Bound : r = Arg(i) THEN Passed(r[2]) ELSE Junk]
    /\ env = [n \in Names |-> IF n \in Range(Params) THEN Passed(ParamIndex(n)) ELSE Junk]
    /\ wrong = FALSE

Next == EmitNext \/ ExecNext

Spec == Init /\ [][Next]_vars

-----------------------------------------------------------------------------
(* Properties.                                                              *)

Locs == Regs \cup {Slot(i) : i \in 0..Cardinality(Names)}
Values == {Computed(i, t) : i \in 0..MaxCode, t \in 0..(MaxTurns + Len(Params))}

(* The types of allocator and machine: no location but the registers of the *)
(* two tables and slots that alloc has counted is ever handed out.          *)
RegAllocTypeOK ==
    /\ map \in [DOMAIN map -> Regs \cup {Slot(i) : i \in 0..(nextSpill - 1)}]
    /\ DOMAIN map \subseteq Names
    /\ nextReg \in 0..NumTemps /\ nextSpill \in Nat /\ used \in 0..Len(Temps)
    /\ usable \subseteq DOMAIN map
    /\ pc \in 0..(Len(code) + 1) /\ turns \in 0..MaxTurns
    /\ regs \in [Regs -> Values] /\ env \in [Names -> Values]
    /\ wrong \in BOOLEAN

(* Two names that may still be read never share a register (alloc, bind).   *)
NoSharing == \A a, b \in usable : a # b => map[a] # map[b]

(* Every operand an instruction reads is the value the IR says: whatever    *)
(* path is taken, however often, the registers chosen when the instruction  *)
(* was emitted hold the names it mentions (get, get2, bind).                *)
OperandsRight == ~wrong
=============================================================================
