# A verification development for the Rym compiler

These TLA+ modules model the Rym compiler, `src/compiler/crates`. Each one models one part of the
compiler as a state machine whose actions are the operations of the code; TLC checks it on small
instances (`*.cfg`), and for the parts that everything else rests on TLAPS proves the main
properties for instances of every size (`*Proofs.tla`). `PROJECT.json` lists the components, the
runs, the lines each definition stands for, the hazards of the code, the disagreements found and
the theorems.

    tlc -workers 2 -config LowerControl.cfg MCRymLower     # check one run
    tlapm RymLowerProofs.tla                               # check one module's proofs

## 1. The system

`rymc` compiles a `.rym` file and the files it imports. It is one sequential program; nothing runs
concurrently, nothing is persisted, and the only outside world is the file system and the tools
`cc`, `as` and `ld`. What is hard about it is of another kind: a recursive descent over a tree that
keeps mutable state on the side (label counters, queues, stacks, maps) which has to be right at
every point of every nesting, and decisions taken in the order of *compilation* that must hold in
the order of *execution*.

| component | source | state it keeps | operations |
|---|---|---|---|
| driver | `rymc/src/main.rs` | the phase it is in and the files on disk | `main`, `compile_c`, `compile_la64`, `find_runtime`, `run_cmd` |
| import resolution | `rymc/src/main.rs:134-194` | `visited`, the definition zones being spliced, one index per recursion | `resolve_imports`, `resolve_imports_inner` |
| lexer | `rym-lexer` | position in the source | `tokenize`, `next_token`, one method per class of token |
| parser | `rym-parser` | position, zone, `control_depth`, `no_struct_lit` | one method per grammar rule |
| syntax tree | `rym-ast` | data only | |
| ownership checker | `rym-sema/src/{ty_check,scope,ownership}.rs` | scope frames with a mode and a moved mark per binding, errors | `check_fn`, `check_stmt`, `infer_expr`, `check_pipe`, `define`, `lookup`, `mark_moved`, `push`, `pop` |
| type checker | `rym-sema/src/ty_check.rs` | symbol tables, read only while walking | `resolve_ty`, `ty_compatible`, type rules of `infer_expr` |
| lowering, control flow | `rym-ir/src/lower.rs` | `next_block`, current block and label, finished blocks, `deferred`, `loop_stack` | `lower_fn`, `lower_stmt`, `lower_expr`, `finish_block`, `start_block`, `flush_deferred`, `reset_fn` |
| lowering, values | `rym-ir/src/lower.rs` | `next_id`, `slice_vars`, `fn_ptr_vars`, `enum_layouts` | the value half of `lower_expr` |
| C back end | `rym-codegen/src/c.rs` | output text; the emitted runtime has a bump allocator | `emit_module`, `emit_func`, `emit_op`, `emit_term` |
| LA64 back end | `rym-codegen/src/la64.rs` | `RegAlloc`: name to register or slot, next register, next slot | `emit_func`, `emit_instr`, `emit_terminator`, `alloc`, `get`, `get2`, `bind` |

How they interact: the driver hands one value from phase to phase. `resolve_imports` calls lexer and
parser for each imported file and splices the parsed definitions into the importer's zone, so the
order in which it merges is the order in which the checker walks and in which the lowering collects
enum layouts. The lowering's blocks are the only interface to the back ends, which give each block a
label of its own and turn every terminator into gotos or branches; a label that is missing or there
twice is an assembler or C error in code the user never sees, or a jump to the wrong place.

What makes each component correct:

* **imports**: each reachable file is merged once, dependencies first, cycles end, and a `safe` file
  gets no code of a `base` file.
* **ownership**: an accepted file never uses a binding after its value was moved; scopes balance.
* **lowering**: the blocks of a function are a closed graph with unique labels, each with one
  terminator, in which exactly what the source reaches is reachable; `break` and `continue` leave
  and repeat their own loop; deferred expressions run last first whenever the function is left.
* **lowering, values**: whatever path control takes, what an instruction reads has been written before and
  not overwritten since; what is decided by name is what the scopes of the source mean.
* **back ends**: each operand an instruction reads is the value the IR says; the C function declares what it uses.
* **lexer**: each token is the longest that can start there, and no line end is lost.
* **driver**: success means that the program is there; a rejected program leaves the disk alone; no file
  but the run's own products is touched.
* **parser**: what it accepts obeys the zones and the nesting rule; every flag is back in place.

The hard behaviours, one by one with their lines, are the `hazards` of `PROJECT.json`.

## 2. Modules

| module | models | state and actions |
|---|---|---|
| `RymLower` | control-flow half of `Lowerer` | The variables are the fields of the struct. `stack` is the Rust call stack: for each open activation of `lower_stmt`/`lower_expr` the labels in its local variables that it has not started yet. The program is not given, it is *chosen*: wherever the grammar allows a construct, the action that starts lowering it is enabled, and the `Close...`/`Next...` actions are what the code does after a recursive call returns. |
| `RymRun` | one call of the lowered function | extends `RymLower`: blocks are executed with every branch on a value free and a `for` decided by its counter |
| `DeferPromise` | abstract: what `defer` promises of a call | a queue of expressions, run last first, empty on return |
| `RymValues` | value half of `Lowerer` | extends `RymLower`; an action is the action there together with what the same lines do with numbered names. `keep` holds, for each open activation, the names in its local variables (the result of a branch, the subject of a match, the counter of a loop), `held` the left operands that wait. An instruction is the name it writes and the names it reads. |
| `RymNames` | what the lowering and the C back end decide by name | `enum_layouts`, `slice_vars`, `fn_ptr_vars`, and the variables of the C function, next to the scopes of the source. The file is chosen item by item and use by use; `choice` records what was lowered and what is meant. |
| `RymLexer` | `Lexer` | one action per class of token; the file is a sequence of characters |
| `RymDriver` | `main` of `rymc` | extends `RymLexer`; one action per phase, tool call, write and removal, over the files on disk. `cc`, `as` and `ld` are external: given the right input they work or fail, and a failure may leave a wreck. |
| `RymSema` | ownership half of `TyChecker`, `Scope`, `check_pipe` | The checker's frames and errors, and next to them what the source means by its own scoping, kept independently of the checker: `env` (which binding a name is), `path` (which values were given away on the way here) and `misused` (in what ways one of those was used again). The file is chosen a statement at a time. |
| `RymImports` | `resolve_imports` | `stack` is the recursion, one zone and one index per activation; import graph, rings and unreadable files are chosen in `Init` |
| `RymParser` | `Parser` | `stack` is the Rust call stack, as what the open methods still have to do; one definition per method and loop says how the next token decides, `Call` and `Expect` carry it out, and each assignment to a field of `Parser` is an action. A token is chosen when the parser first looks at it, so files have any length. |
| `RymRegAlloc` | LA64 register allocator and a machine | an emission phase (one action per instruction class) followed by an execution phase (one action per instruction) over the registers |
| `RymSelect` | LA64 instruction selection for integers and truth values, next to the expressions of the C back end | one operation of the IR is chosen with its operands, one action per class emits the instructions, `Execute` runs them on one register; `C` is what the C expression means |
| `MCRym...` | | constants of the runs and the stuttering step of a finished run |
| `RymLowerProofs`, `RymRunProofs` | | theorems about `RymLower`: the Lowerer's state, labels and loops in the first, the graph of a finished function and its execution in the second |
| `RymValuesProofs`, `RymParserProofs`, `RymSemaProofs`, `RymRegAllocProofs` | | the theorems about the module each is named after, and their proofs |
| `RymMainProofs`, `RymBackendProofs` | | those about `RymDriver` and `RymImports` (both `main.rs`), and about `RymNames` and `RymSelect` |

`RymRun` composes the lowering with the execution of its result and is related to `DeferPromise` by
`INSTANCE DeferPromise WITH ...` (`pending` to `pending`, `returned` to "control has left and not by
`or_panic`"). `RymLower` opens loops only where no other construct is open; that this is what the parser
lets through is `LoopsAreFlat` of `RymParser`. `RymValues` composes control and values of the lowering, `RymDriver`
the driver and the lexer (of the other phases it keeps the outcome, their own modules say how it comes about). The other modules are independent: what one component
hands to the next is data that the next module chooses freely from a superset.

Operators whose comment begins with *Fault* are the faults the properties are tried on: each property of each
passing run is violated when the operator replaces the one it is a variant of.

What is abstracted: names, types, values and messages. In `RymLower` an instruction list keeps only
`defer` statements, deferred expressions and the counter of a `for`; in `RymValues` which
operation an instruction is; in `RymNames` every value but the binding it was stored for; in `RymSema` an expression is the
names it uses and how; in `RymParser` the tree is left out, tokens the parser treats alike are one, and
the binary operators of all levels of precedence are read by one loop over operands; in `RymRegAlloc` a value is "what that instruction computed on that turn"; in `RymSelect` values are integers
and the registers those of one operation, which `RymRegAlloc` chooses.

## 3. Runs

| run | question | instance | result |
|---|---|---|---|
| `LowerControl` | with one function at a time, are the blocks a closed, uniquely labelled graph in which exactly the live code is reachable? | all loops, jumps, branches, matches of up to 3 arms, error operators; 9 labels, 3 deep | holds |
| `LowerDefer` | does the Lowerer's state survive, from one function to the next too, do labels stay unique and `loop_stack` match the open loops, with deferred expressions that branch and jump, an empty `match`, two functions, the implicit `__main`? | all loops and jumps; 2 functions, 2 defers, 6 labels, 4 deep | holds |
| `Values` | is every name written before it is read, on every path, and never overwritten while it waits? | all constructs, empty matches, deferred expressions, two functions, the implicit `__main`; 6 labels, 3 deep, 2 arms, one operand held, names opened up to number 6 | holds |
| `Names` | does deciding by name decide what the source means? | two variable names, one of them also a function's, two bindings of every kind of type, an enum, a function besides the one lowered | holds |
| `Driver` | are tokens longest, is no newline lost, does success deliver, is nothing else touched? | every file of up to 4 of 13 characters with the default command line; every command line (three inputs, five outputs, targets, dumps) on three files | holds |
| `RunCalls` | do the lowered blocks keep the promise of `defer`, and does a call whose only loops are `for` loops return? | no `return`, `or_return`, `continue`, `while` or `loop`; 2 defers, 2 elements, 7 labels | holds (refinement, liveness) |
| `SemaMoves` | is an accepted file free of uses after a move, but for the ways the checker does not follow? | a name that shadows itself and is also a payload, one that is also an enum's, functions with a `move` and a `read` parameter; three statements, 2 deep | holds |
| `Imports` | does resolution end, and with the right merge? | every graph of three files of one or two items, every assignment of rings, every set of unreadable files | holds |
| `RegAlloc` | is every operand right on every path? | 4 registers for 4 names, a parameter, an `if` or a loop run twice, 5 instructions | holds |
| `Parser` | are the parser's flags right through every nesting, do loops stay flat and zones in order, does it always go on consuming? | files of any length over 46 kinds of tokens, up to 3 brackets open | holds |
| `RunForContinue` | does a call with `for` and `continue` return? | 2 elements | violated |
| `Select` | does a register hold the literal, and does LA64 compute what C means? | words of 8 bits cut into fields of 2, 3, 2 and 1; every literal, every operation on every pair of words | holds, with the exceptions the properties name |

**Bounds and why they are enough.** The lowering treats a construct by its kind and by what is open
around it, never by how many came before: its only counters are `next_block` and the length of
stacks and queues. Three levels of nesting put every construct inside every other one, before and
after a third; nine labels admit three constructs, so that one can also stand behind a nested pair.
Four characters are the longest operator and what follows it, a comment with its line
end, a number with its dot and digits on both sides, and a string with an escape; two bindings of one name are a
shadowing. Two functions are enough to see a leak through `reset_fn`, two defers to see an order, three arms to
see the first, a middle and the last dispatch block. Three files are the smallest graph with a
diamond, and with a cycle that does not go through the root; two items let an import stand before or
after a definition or another import. `RymParser` bounds only how many brackets are open, and its run leaves out tokens that are like others
to the parser and those that only multiply its states (`..`, `as`, `asm!`, the generic types); in three, a loop, a branch and an arm stand inside
each other or inside an argument, and a condition inside a condition. In `RymSema` the errors of interest
are about two bindings of one name, a variable and another, a parameter or a payload; three statements are a binding, a move
and a use, with two blocks around any of them, and every way in `Ways` occurs in an accepted file of the run. In
`RymRegAlloc` an instance has exactly as many registers as numbered names and variables together, so
that the register file is filled to the last.
`emit_load_imm` looks only at which field the bits of a literal are in and at its sign, and each of its sequences, ranges and signs
occurs in a word of 8 bits (the theorem is about 64); shifts by the width and beyond occur because operands are words.

**What the passing runs leave out on purpose**, since the code does not do it right and the finding
or the hazard says so: `RunCalls` has no `return` in a branch (it would drain the queue for both), no `or_return` (it
leaves without a flush, `lower.rs:606`), no defer inside a branch (queued for the whole function) and
no defer in `__main` (never flushed, `lower.rs:91`). `LowerControl` has no empty match, whose
current block gets no terminator: `TargetsResolved`, `Closed`, `OneTerminatorPerLabel` and `ReachableIffLive` fail with it;
`LowerDefer` has it. `Values` has a
wildcard as the last arm of every match; with `PartialMatches = TRUE` the result of the match is read
unwritten (`lower.rs:805`), and in code that control does not reach nothing is opened. In `Names` each property names the
constructs it does not hold with (`quirks`): a name bound twice in a function, for `.len` only one bound again with another
kind of type, a parameter assigned or bound again (declared twice in C), a slice or function pointer that no annotation or
literal shows, an array that an annotation shows (`[N]T`, a finding), an enum used before its
declaration, a variable named like a function, a pipe through a variable. In `SemaMoves` nothing is left out:
`AcceptedNeverUsesMoved` speaks of the uses where the checker follows names and moves, and `Ways` names the others, which
occur in the run in accepted files:

| way | a value given away is used again |
|---|---|
| `argument` | in an argument of a known function, which is never inferred (`ty_check.rs:283-301`) |
| `callee` | as `x` in `x(...)` or `x.m(...)`: only the name of the function is looked at (`ty_check.rs:264-309`) |
| `target` | as `x` in `x.f = e`, `x[i] = e` or `*x = e`: only a bare name is looked at (`ty_check.rs:182-190`) |
| `enum_name` | by a name that is also an enum's, which is taken for that before the mark is looked at (`ty_check.rs:244-246`) |
| `hidden` | by a name that stands for the payload of an earlier arm, which is still in the frame (`ty_check.rs:516-534`) |
| `unmarked` | after a move that is not marked: to a `move` parameter without the word (`ty_check.rs:291`), in a pipe (`571`), by an unknown function (`305`) or of a hidden name |
| `turn` | by the next turn of a loop, whose body is checked once (`ty_check.rs:192-223`) |
| `deferred` | by a deferred expression at the end of the function, checked where it is written (`ty_check.rs:180`) |

`RegAlloc` has no spill, no value used across a call and no assignment in a region;
the constants `NumTemps`, `UsesAcrossCalls` and `StoresInRegions` bring each of them back, and TLC
then finds a wrong operand within a few instructions. `LiteralsLoaded` says exactly which literals are loaded
(`Loadable`); `TargetsAgree` leaves out what C does not define and, in `Alike`, `and` and `or` on words other than 0 and 1
and `>>` of a negative word.

**Fairness.** `RunCalls` and `RunForContinue` assume weak fairness of the next step of lowering and
execution, `Imports` of the next step of resolution, `Parser` of the next step of the parser: the compiler and the
compiled program are
sequential, block on nothing and are never descheduled for good. No fairness is assumed between the
two outcomes of a branch. `CallReturns` is meaningful because every construct is closed eventually:
the bounds on labels keep the lowered function finite.

## 4. Proofs

`RymLowerProofs` proves `TypeCorrect`: `Spec => []TypeInv` for every choice of constructs, bounds and
kinds of functions. `TypeInv` is inductive as it stands because its second half, `Shape`, says how many labels
each open activation still holds; without it `CloseExpr` might read a label of an exhausted frame
and `TypeOK` alone would not be preserved. One lemma per action.

On that invariant rest two more theorems there, `LabelsUnique` and `LoopStackRight`, and the first four of `RymRunProofs`.

* `LabelsUnique`: `Spec => []UniqueLabels`, for every choice of constructs, empty matches
  included. The invariant adds that whatever is started or pending is numbered below `next_block`, so that a fresh label is new.
  What an action does to the finished blocks, the current label and the pending labels comes in a handful of
  shapes (a block appended, a frame pushed, popped or shortened, labels moved from pending to started), each with
  a lemma on distinctness; the lemma of an action only has to name its shape.
* `Resolved` (`[]TargetsResolved`, this and the rest but `LoopStackRight` in `RymRunProofs`) and `FinishedIsClosed` (`[]Closed`), under one
  assumption, that no `match` is empty (`"empty_match" \notin Constructs`): `Closed` must speak of a
  finished function, so the invariant has to follow jumps made long before their target exists. The inductive
  invariant is `Control == TargetsResolved /\ EntryFirst /\ Numbered \subseteq Known`: every label a finished block, an entry of
  `loop_stack` or a back edge mentions is started or pending in an open activation. Each action is
  brought to the same form by lemmas on what it adds to the set of block labels, jump targets and
  pending labels (`Grow1`, `Grow2`, `Grow3`, `PendingPush`, ...), and one lemma, `Advance`, concludes. At
  the end no activation is open and `Known` is the set of block labels, which is `Closed`.
* `LabelsAllFinished` (`[]OneTerminatorPerLabel`), again without empty matches: the converse, that every number given
  out is started or pending, is the last part of `Control`; when the function is finished nothing is pending, so every
  number has its one block.
* `LoopStackRight` (`[]LoopStackMatches`): the frames of loops and of their conditions stand only at the bottom of the
  recursion, and `loop_stack` is that loop's entry or empty. It rests on loops not being nested, which the parser provides (`LoopsCorrect`).
* `ReachableAreLive` (`[]ReachableIffLive`), without empty matches: the graph a run can walk and the source's own reachability, which
  the model tracks in `live`, `fall` and `exit`, are the same. The invariant is `Lively`. Its middle part is an equation: what is alive (the live
  blocks, the current label if it is live, and the labels open activations will start live) is the entry and
  what live blocks jump to. Left to right it is not enough: a cycle of blocks that jump to each other would satisfy it, so `Founded`
  asks for a jump from an *earlier* block. `Heads` says that a loop reached at all has its head alive, which `continue` and the end of
  the body jump to. At the end `ReachableLabels`, a function on `0..Len(blocks)`, is followed in both
  directions, with `LabelsUnique` to tell from a label which block it is.

`RymRunProofs` then proves `DeferKept`: `RunSpec => KeepsDeferPromise`, the refinement of `DeferPromise`, step by step, for functions of
every size, on every path and through every loop, whether the call returns, ends in `or_panic` or runs on. Its hypothesis
`Plain` leaves out the constructs with which the code breaks the promise (a defer in a branch, `return`, `or_return`, `__main`; see "left
out on purpose" above) and the empty match. What the lowering does in one order and the call in another is tied together by books (`Books`): to every block a number,
how many expressions are queued when it is entered, *whatever the way to it*; what its events make of that number is what every
one of its targets expects, and it is zero at a `return`. While the function is being lowered (`Ledger`) the Lowerer's own queue is the one that control
will have at the current point, a loop that may be entered again expects the number it was opened with (`Repeating`), and the flush has left
to do what the books owe (`Owed`). When the function is finished the books are balanced, and the call (`Calling`) only has to follow
them: in the block control is in, what the events so far have left queued is what is `pending`, so the expression that runs next is the last one queued, and at the `return` none is left.

`RymMainProofs` proves of imports, for every set of files and every import graph (only that shapes are
finite sequences is assumed), `ImportsTypeCorrect`, `AlwaysOpened` and `SafeStaysSafe`. The invariant `IInv` says
of every activation that its index is in its zone or just behind, that below the index there are only definitions,
that if its file is safe all its definitions come from safe files, and of every two neighbours that the outer one waits at
the import the inner one was started for, which passed the ring test. `Merge` is the interesting
step: it needs the whole invariant of both to show that the splice hits the import and brings
nothing unsafe.

`EverythingMerged` (`[]MergesAll`) and `ImportsAreFirst` (`[]ImportsComeFirst`) are about the whole history of a resolution. Every
step is brought to one of two shapes: items move to where `Goes` says and keep their order (`Carried`), or a file is opened on top
of the stack (`Opens`). On them rest `MInv` (every import of a started file is resolved or still stands where it will be found,
every definition of a started file is somewhere, and nothing is there twice) and, for acyclic imports, which is the case
`ImportsComeFirst` speaks of, `CInv`: what an activation has not passed belongs to its own file, the files on the stack
are imported by those below, a resolved import is not open, and a definition behind an import either waits for it
or is behind everything it brought in. That the definitions reachable from the root are the ones of the closure needs no induction, as
`Closed` is the smallest set of files closed under imports.

`RymParserProofs` proves `ParserTypesCorrect`, `DepthCorrect` (`[]DepthIsNesting`), `LoopsCorrect` (`[]LoopsAreFlat`), `SuppressionCorrect`
(`[]SuppressedOnlyInHeaders`) and `ZonesCorrect` (`[]ZonesInOrder`), for every sequence of tokens and every depth of nesting. The stack of what the open
methods still have to do is arbitrary data, so the invariant `PInv` says which symbol may stand on which (`Chain`), that
`control_depth` together with the increments still on the stack equals the decrements still on the stack (`Balanced`), that what a header
saved to restore is 0 and where it stands (`Saved`, `InHeader`), and that at most one loop is under way (`Flatness`). The dozens of
productions are brought to a few shapes of call, each with a lemma; then there is one lemma per action.

`RymRegAllocProofs` proves `AllocatorTypes`, `NothingShared` (`[]NoSharing` as long as nothing has been spilled) and `OperandsAreRight`
(`[]OperandsRight`, likewise) for every number of registers and every program. The invariant has three layers: the types; as long as
nothing is spilled, the places of what is alive are distinct; and for each emitted instruction an annotation of what every place holds
there, which the execution then follows. What the allocator silently relies on is a hypothesis: of all three that the
parameters fit in the argument registers, of the last two that nothing has been spilled so far, of the last that no value is
wrapped for the heap, nothing is assigned inside a branch or a loop, and nothing is used across a call. Each is needed: with any one of
them dropped TLC finds a program that reads a wrong register.

`RymSemaProofs` proves `SemaTypesCorrect`, `ScopesAreBalanced` and `AcceptedIsSafe` (`[]AcceptedNeverUsesMoved`), for files of any
length, any depth of blocks, any reuse of names and any expressions, without hypotheses. The recursions of the model are functions on
`0..n`; what holds along such a run is shown by a least counterexample, from `WFMin`. The types and the shape of the scopes
(`TInv`) are inductive by themselves, as inferring an expression only adds errors and marks (`Grows`). For the other
two the checker's frames are tied to the meaning the model keeps next to them. `Linked`: a frame has what the source binds there, or a leftover payload in its
place. `Separate`: no two places have one binding. `Marked`: what the checker saw go is marked. An expression, argument by
argument, keeps these as long as it is accepted (`Sound`), so a use of what is gone is of a marked binding, which is an error, or is not
followed. `SInv` says the same of a state between statements, for every path (`Gones`): that on which the checker is and those taken up again at the end
of an open block. That it has one set of marks where the source has one per path makes it strict, never lax. What the theorem
leaves to the checker's user are the eight ways of the table above, each of which TLC reaches.

`RymBackendProofs` proves `VariablesAreRight` and `FunctionsCompile` for any names, functions and nesting. One invariant, `NInv`,
ties the tables of the lowering and the variables of the C function to the bindings in scope; an action either decides
nothing, opens a scope, binds a name or looks one up, and each of these has its lemma. It also proves
`LiteralsAreLoaded` for the fields of LA64 (`LA64`, a hypothesis, as the run uses narrower ones): the invariant says, for each length of
sequence, what the register holds behind each instruction.

`RymMainProofs` proves of the driver, for every set of files, keywords and command lines, what becomes of the disk and of the text of the file.
`SuccessIsDelivery`, `OnlyProductsTouched` and `AcceptedBeforeWritten` rest on `DInv`: which phases have accepted the program and which
options lead to a phase, and what the files hold there. `TokensAreLongest` (`[]LongestMatch`) and `NoTextIsLost` (`[]NothingLost`) hold for
files of any length; a character the model does not name is treated as one of its classes. The loops of the lexer are functions on `0..Len(src)`; what one turn keeps holds
at the end (`Repeats`, by the least counterexample). So each loop is replaced by what it stops at: for a string, that from its
opening quote on every quote and line end stands behind an odd number of backslashes and the end behind an even one. Each class of lexeme
becomes a condition on the characters between two positions, the first character tells the class, and a longer
lexeme would contradict what the scan stopped at. That holds of the dot in `1..5` (`1.` is no lexeme, and neither is what follows), of
`<<=` (of which `<<` is a prefix that is an operator too) and of `asm!`, the one lexeme of which the token before it is
another class. Assumed is only that keywords and the macro word are words. `LInv` is not inductive for the driver alone,
which takes the tokens from the lexer and later drops the text: `DLInv` says when.

`RymValuesProofs` proves of `RymValues` that the names of the open constructs are typed (`ValuesTyped`) and that no path
writes a name twice before it jumps back (`NamesWrittenOnce`), for every program and without hypotheses, and that no path
reads a name before it is written (`OperandsAreDefined`), if every match is exhaustive (`PartialMatches = FALSE`). Reachability over
the blocks is not inductive; what is, block by block, is for the second of these `WInv`:
* `Tidy`: of two finished blocks that write the same name, the second is the step of a `for` loop (which writes the counter
  again), or the first jumps to none of the blocks that lie between them or to the second (`Parts`). As every path that
  does not jump back goes through ever later blocks, that cuts it off (`AfterAhead`).
* `Pure`: the instructions not yet in a block write names no block has written.
* `Apart`: each open `if`, `match` and `for` owns the name of its result or counter, and a block that
  has stored a result jumps to where it is read and nowhere else (`Owns`). So the branches of one construct may
  all write its result.
* `Spared`: the instructions not yet in a block write no such name; a branch ends with the store and in the same step.

That a jump of an earlier branch cannot land in a later one needs that labels are given out once: `Unique` of
`RymLowerProofs`. The proof has one lemma per action (`IfWritten`, `ArmWritten`, ...) over what the action adds to the blocks
(`IfAdds`, ...), and each rests on what one, two or three added blocks preserve (`Write1`, `Write2`, `Write3`).

For the third the invariant is `Good`: each name has a set of labels at which it has surely been written (`Covers`). The set need not be
the largest; it must be one that the blocks respect (`Flow`: a jump to a label of it comes from a label of it or from a block that writes the name), that has the label of every block
which reads the name before writing it, and that goes on to hold wherever a waiting operand, the counter of a loop or the subject
of a match will still be read (`Needed`, `Lasts`). The result of an open branch or match is the difficulty: it is written on several paths, and read
where they meet. While the construct is open its set is empty, and `Delivers` says that a block that jumps to where the construct
continues has stored the result; when the construct is closed the set is made from those blocks (`Stored`), and what was covered before stays so.
An inexhaustive match is excluded since its last dispatch block jumps there without a store.

**Only model-checked**: liveness (`CallReturns`, `Resolves`, `KeepsReading`), which is beyond the prover; `TargetsAgree`, whose bitwise operations are defined by recursion over the bits, in a form
the prover does not read.

## 5. Findings

The first has a run of its own; the others are reached with a change to a configuration that is named.

* `continue` in a `for` loop skips the increment: the loop never ends (`RunForContinue`).
* A `return` in one branch drains the queue of deferred expressions at compile time, so the other
  branch leaves without running them. Seen with `Constructs = {"if", "return", "defer"}` in `RunCalls.cfg` and the
  invariant `ReturnRunsDeferred`.
* A value that was moved can be used again without an error in eight ways, against "further uses are a compile error" (`scope.rs:140`): in an
  argument of a known function, as the receiver or callee of a call (`x.m()`), as the target `x.f = 1`, by a name that
  is an enum's as well, and so on (the table in section 3, with lines). Seen with the invariant `errors = {} => misused = {}` in `SemaMoves.cfg`.
* `.len` of a variable annotated `[N]T` is taken with `StrLen`, of a value that is a pair of pointer and length: the annotation is not
  that of a slice and hides the literal (`lower.rs:171-180`, `553`), and `ArrayLit` makes the pair (`c.rs:425-441`). The checker accepts it
  (`ty_check.rs:321-347`, `636`). Seen with `fixed_array` left out of `VariablesRight`.
* The result of a match none of whose arms matches is read unwritten (`lower.rs:805`). Seen with `PartialMatches = TRUE` in `Values.cfg`.
* A file visited before is skipped before its ring is compared (`main.rs:156`, against the comment in line 134). Seen with the
  invariant `RingIsolation` in `Imports.cfg`. What does hold is proved:
  nothing of a base file reaches a *safe root*.
* On LA64 an assignment stores nothing, it renames; inside an `if` or a loop the variable is then read
  from the wrong register. Seen with `StoresInRegions = TRUE` in `RegAlloc.cfg`. A `for` loop's own counter is assigned this way.

* `emit_load_imm` never emits the `lu52i.d` its comment promises ("Full 64-bit: lu12i + ori + lu32i + lu52i",
  `la64.rs:558`), and `lu12i.w` extends the sign of bit 31: `0x80000000` to `0xFFFFFFFF` are loaded as negative numbers and
  literals beyond 52 bits wrong. Seen with the invariant `FullWord` in `Select.cfg`; proved by `LiteralsAreLoaded`.
* The same program means different things on the two targets: `and` and `or` combine bits on LA64 and take every word
  but 0 for true in C, and `>>` of a negative word fills with zeros on LA64 (`srl.d`) and with ones in C. Seen with
  `Alike` left out of `TargetsAgree`.

`RymParser` also models, without a run of their own, where the parser departs from its comments: nested
`if` and `match` pass although the flatness rule names them (`parser.rs:15`), the body of a loop is taken for a
struct literal behind an `if` in its condition (`parser.rs:783`), a struct literal or a label broken over
lines is not recognised (`parser.rs:883`, `1116`), an `if` takes the `else` of the next match arm, and `(` or `[`
continues the line before.

`RymNames` models, each as a member of `quirks`, what else the C output gets wrong: two bindings of a name share one
variable, an assigned parameter is declared twice (`c.rs:154`), an enum used before its declaration is a variable. The values of tags are
not modelled; that of a pattern is guessed if its enum is not known (`lower.rs:823`).
`RymSelect` takes it that the assembler accepts the 20 bits of an immediate as an unsigned number.
`RymDriver` shows that an output name ending in `.c` (or `.s`, `.o`) is built and then removed, and that an input
without an extension is overwritten by the program.

## 6. Plan

1. The tags of variants and patterns, with the layouts of imported enums.
2. The LA64 frame (the `$sp` that literals move, slots that overlap the saved registers) and the bump allocator of the C
   runtime, composed with `RymSelect` and `RymRegAlloc`.

Not modelled, and why: the type checker and the syntax tree are pure functions and data without state
of their own; the text the back ends print is output, and of the choice of machine instructions only integers are modelled; of the values the
lowering computes, struct and array literals, fields, indexing and `asm!` are left out, as they are straight-line
code around the operands that are modelled.
