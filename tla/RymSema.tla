------------------------------ MODULE RymSema ------------------------------
(****************************************************************************)
(* The ownership half of rym-sema: TyChecker walks a file once, keeps a     *)
(* stack of scopes and collects errors (ty_check.rs, scope.rs,              *)
(* ownership.rs).  The file is chosen a statement at a time.  Types are not *)
(* modelled; an expression is reduced to the names it uses and how.         *)
(*                                                                          *)
(* env, path and misused say what the source means by its own scoping       *)
(* rules, whatever the checker recorded: which binding a name denotes,      *)
(* which bindings have given their value away, and in what ways one of      *)
(* those was used again.                                                    *)
(****************************************************************************)
EXTENDS Integers, SequencesExt

CONSTANTS
    Names,      \* names that let, var, for and parameters bind
    Payloads,   \* names that the pattern of a match arm binds
    Enums,      \* names that are also those of enums
    Sigs,       \* fns: parameter modes of each function of the file
    Params,     \* the parameter lists to choose from: sequences of [name, mode]
    Exprs,      \* the expressions to choose from, see IsExpr
    Blocks,     \* the blocks to choose from, a subset of BlockKinds
    MaxStmts,   \* bound: statements and blocks of the file
    MaxFns,     \* bound: function bodies
    MaxDepth    \* bound: nested blocks

Modes == {"read", "mut", "move", "inferred"}
NoName == "none"
BlockKinds == {"fn", "loop", "then", "else"}

(* args are the identifiers an expression uses, each with the mode written  *)
(* at it and whether it is an argument by itself (whole) or inside of one,  *)
(* as in x.f.  fn is the function called, NoName for a plain use, and base  *)
(* the variable it is called through, x in x(...) and x.m(...); pipe is the *)
(* left side of a |>.  The last two are NoName where there is none.         *)
Arg == [name : Names \cup Payloads, mode : Modes, whole : BOOLEAN]
IsExpr(e) == /\ DOMAIN e = {"fn", "base", "pipe", "args"}
             /\ e.args \in Seq(Arg)
             /\ {e.base, e.pipe} \subseteq Names \cup Payloads \cup {NoName}

ASSUME SigsAssumption == \A f \in DOMAIN Sigs : Sigs[f] \in Seq(Modes)
ASSUME ParamsAssumption == \A ps \in Params : ps \in Seq([name : Names, mode : Modes])
ASSUME ExprsAssumption == \A e \in Exprs : IsExpr(e)
ASSUME BlocksAssumption == Blocks \subseteq BlockKinds
ASSUME BoundsAssumption ==
    MaxStmts \in Nat /\ MaxFns \in Nat /\ MaxDepth \in Nat

VARIABLES
    zone,      \* "def" or "alg": the zone being checked
    open,      \* the blocks being checked: [kind, outer, before]
    frames,    \* scope.frames: a map from names to bindings per open scope
    errors,    \* the kinds of SemaError found
    last,      \* the expression of the return that ended the body so far, if one did
    fnCount, stmts,
    env,       \* auxiliary: the bindings in scope, per open scope
    nextId,    \* auxiliary: number of the next binding
    leftover,  \* auxiliary: the payloads that frames keeps after their arm
    path,      \* auxiliary: the bindings given away so far, see NoPath
    misused    \* auxiliary: in what ways some path uses a binding given away, see Ways

checker == <<frames, errors>>
meaning == <<env, nextId, leftover, path, misused>>
vars == <<zone, open, frames, errors, last, fnCount, stmts,
          env, nextId, leftover, path, misused>>

-----------------------------------------------------------------------------
(* Scope (scope.rs).                                                        *)

NoBindings == [n \in {} |-> n]

(* Fault: every binding may be assigned to. *)
BindingAlwaysMutable(mode, id) == [id |-> id, mode |-> mode, mutable |-> TRUE, moved |-> FALSE]

(* id is auxiliary: the binding this one is in env.                         *)
Binding(mode, id) == [id |-> id, mode |-> mode, mutable |-> mode = "mut", moved |-> FALSE]

Holders(fs, n) == {i \in DOMAIN fs : n \in DOMAIN fs[i]}
Bound(fs, n) == Holders(fs, n) # {}

(* lookup and lookup_mut search from the innermost frame out. *)
FrameOf(fs, n) == CHOOSE i \in Holders(fs, n) : \A j \in Holders(fs, n) : j <= i
Lookup(fs, n) == fs[FrameOf(fs, n)][n]

Define(fs, n, b) == [fs EXCEPT ![Len(fs)] = [k \in {n} \cup DOMAIN @ |-> IF k = n THEN b ELSE @[k]]]

(* Fault: only a binding of the innermost scope is marked. *)
MarkMovedInnermost(fs, n) ==
    IF n \in DOMAIN fs[Len(fs)] THEN [fs EXCEPT ![Len(fs)][n].moved = TRUE] ELSE fs

MarkMoved(fs, n) ==
    IF Bound(fs, n) THEN [fs EXCEPT ![FrameOf(fs, n)][n].moved = TRUE] ELSE fs

-----------------------------------------------------------------------------
(* Inference of an expression: c is the checker's state, [frames, errors].  *)

Fail(c, error, bad) == IF bad THEN [c EXCEPT !.errors = @ \cup {error}] ELSE c

IsMoved(c, n) == Bound(c.frames, n) /\ Lookup(c.frames, n).moved

(* infer_expr of an identifier: one that names an enum is taken for that,   *)
(* whatever it is bound to.                                                 *)
InferIdent(c, n) ==
    IF n \in Enums THEN c
    ELSE Fail(Fail(c, "Undefined", ~Bound(c.frames, n)), "UseAfterMove", IsMoved(c, n))

InferArgs(c, args) ==
    LET after[i \in 0..Len(args)] ==
            IF i = 0 THEN c ELSE InferIdent(after[i - 1], args[i].name)
    IN  after[Len(args)]

(* check_move, the errors of which exclude each other, and mark_moved. *)
MoveOut(c, n) ==
    LET readOnly == /\ Bound(c.frames, n) /\ ~IsMoved(c, n)
                    /\ Lookup(c.frames, n).mode = "read"
        checked  == Fail(Fail(c, "UseAfterMove", IsMoved(c, n)),
                         "MoveOfReadBinding", readOnly)
    IN  [checked EXCEPT !.frames = MarkMoved(@, n)]

(* An argument of a known function: it is compared with the parameter's     *)
(* mode, and moved if it says so and is an identifier, but never inferred.  *)
CheckArg(c, arg, mode) ==
    LET compared == Fail(c, "OwnershipModeMismatch",
                         arg.mode # "inferred" /\ arg.mode # mode)
    IN  IF arg.mode = "move" /\ arg.whole THEN MoveOut(compared, arg.name) ELSE compared

(* Nothing looks at the base of a call. *)
InferCall(c, e) ==
    LET sig == Sigs[e.fn]
        n == IF Len(sig) < Len(e.args) THEN Len(sig) ELSE Len(e.args)
        after[i \in 0..n] ==
            IF i = 0 THEN Fail(c, "ArgCountMismatch", Len(e.args) # Len(sig))
            ELSE CheckArg(after[i - 1], e.args[i], sig[i])
    IN  after[n]

(* check_pipe looks at the mode of the first argument written, then the     *)
(* left side and the arguments are inferred.                                *)
PipeConflict(c, e) ==
    /\ Bound(c.frames, e.pipe) /\ Lookup(c.frames, e.pipe).mode = "move"
    /\ e.args = <<>> \/ e.args[1].mode # "move"

(* The arguments expected beside the left side: saturating_sub(1). *)
WrongPipeArity(e) ==
    e.fn \in DOMAIN Sigs /\ Len(e.args) # (IF Sigs[e.fn] = <<>> THEN 0 ELSE Len(Sigs[e.fn]) - 1)

InferPipe(c, e) ==
    LET checked == Fail(c, "PipeOwnershipConflict", PipeConflict(c, e))
        left == InferIdent(checked, e.pipe)
    IN  InferArgs(Fail(left, "ArgCountMismatch", WrongPipeArity(e)), e.args)

Infer(c, e) ==
    IF e.pipe # NoName THEN InferPipe(c, e)
    ELSE IF e.fn \in DOMAIN Sigs THEN InferCall(c, e)
    ELSE InferArgs(c, e.args)

Now == [frames |-> frames, errors |-> errors]
Becomes(c) == frames' = c.frames /\ errors' = c.errors

-----------------------------------------------------------------------------
(* What the expression means.  The view v is that of the checker and of the *)
(* source, [frames, env, leftover]; m is [path, misused].                   *)

(* A value is given away by a move the checker marks (gone) or by another   *)
(* one (lost); due is what the deferred expressions of the function use.    *)
NoPath == [gone |-> {}, lost |-> {}, due |-> {}]
Either(p, q) == [gone |-> p.gone \cup q.gone, lost |-> p.lost \cup q.lost,
                 due |-> p.due \cup q.due]
Given(p) == p.gone \cup p.lost

Denotes(scopes, n) == IF Bound(scopes, n) THEN {Lookup(scopes, n)} ELSE {}
Found(fs, n) == IF Bound(fs, n) THEN {Lookup(fs, n).id} ELSE {}

(* A payload of an earlier arm stands before the binding meant.             *)
Hidden(v, n) == Found(v.frames, n) \cap v.leftover # {}

(* Where a name is used: an identifier that is inferred or whose move is    *)
(* checked, or a place that the checker does not look at.                   *)
Visited == {"inferred", "moved"}
Unvisited == {"argument", "callee", "target"}

(* The ways of using a value that was given away: where the checker follows *)
(* names and moves, and where it does not.  "unmarked" is the use of what   *)
(* is lost, "turn" a second move by the next turn of a loop, "deferred" a   *)
(* use at the end of the function.                                          *)
Ways == Unvisited \cup {"followed", "hidden", "enum_name", "unmarked", "turn", "deferred"}

Way(v, n, at) ==
    CASE at \in Unvisited -> at
      [] at \in Visited /\ Hidden(v, n) -> "hidden"
      [] at = "inferred" /\ ~Hidden(v, n) /\ n \in Enums -> "enum_name"
      [] OTHER -> "followed"

Noted(m, way, holds) == IF holds THEN [m EXCEPT !.misused = @ \cup {way}] ELSE m

Use(v, m, n, at) ==
    LET ids == Denotes(v.env, n) IN
    Noted(Noted(m, Way(v, n, at), ids \cap m.path.gone # {}),
          "unmarked", ids \cap m.path.lost # {})

Give(v, m, n, at) ==
    LET used == Use(v, m, n, at)
        ids == Denotes(v.env, n)
    IN  IF at = "moved" /\ ~Hidden(v, n) THEN [used EXCEPT !.path.gone = @ \cup ids]
        ELSE [used EXCEPT !.path.lost = @ \cup ids]

(* The mode of the i-th parameter of what e calls; the left side of a pipe  *)
(* is the first argument.                                                   *)
ParamMode(e, i) ==
    IF e.fn \in DOMAIN Sigs /\ i \in DOMAIN Sigs[e.fn] THEN Sigs[e.fn][i] ELSE "inferred"
ArgMode(e, i) == ParamMode(e, IF e.pipe = NoName THEN i ELSE i + 1)

ArgAt(e, i) ==
    CASE e.pipe # NoName \/ e.fn \notin DOMAIN Sigs -> "inferred"
      [] e.pipe = NoName /\ e.fn \in DOMAIN Sigs ->
            IF e.args[i].mode = "move" /\ e.args[i].whole /\ i <= Len(Sigs[e.fn])
            THEN "moved" ELSE "argument"

MeanArg(v, m, e, i) ==
    IF "move" \in {e.args[i].mode, ArgMode(e, i)}
    THEN Give(v, m, e.args[i].name, ArgAt(e, i))
    ELSE Use(v, m, e.args[i].name, ArgAt(e, i))

MeanLeft(v, m, e) ==
    CASE e.pipe = NoName -> m
      [] e.pipe # NoName /\ ParamMode(e, 1) = "move" -> Give(v, m, e.pipe, "inferred")
      [] OTHER -> Use(v, m, e.pipe, "inferred")

MeanBase(v, m, e) == IF e.base = NoName THEN m ELSE Use(v, m, e.base, "callee")

Mean(v, m, e) ==
    LET after[i \in 0..Len(e.args)] ==
            IF i = 0 THEN MeanBase(v, MeanLeft(v, m, e), e)
            ELSE MeanArg(v, after[i - 1], e, i)
    IN  after[Len(e.args)]

(* A deferred expression uses its bindings again when the function ends.    *)
UsedBy(e) == {e.pipe, e.base} \cup {e.args[i].name : i \in DOMAIN e.args}
Defer(m, e) ==
    [m EXCEPT !.path.due = @ \cup (UNION {Denotes(env, n) : n \in UsedBy(e)} \ Given(m.path))]
Ending(m) == Noted(m, "deferred", m.path.due \cap Given(m.path) # {})

View == [frames |-> frames, env |-> env, leftover |-> leftover]
Meaning == [path |-> path, misused |-> misused]
Means(m) == path' = m.path /\ misused' = m.misused

-----------------------------------------------------------------------------
(* Statements (check_stmt).                                                 *)

InBody == zone = "alg" \/ open # <<>>

AtStmt ==
    /\ InBody /\ stmts < MaxStmts
    /\ stmts' = stmts + 1
    /\ UNCHANGED <<zone, fnCount>>

(* let and var: the initialiser is inferred before the name is bound. *)
Bind(n, mode, e) ==
    /\ AtStmt
    /\ LET c == Infer(Now, e) IN
          Becomes([c EXCEPT !.frames = Define(@, n, Binding(mode, nextId))])
    /\ Means(Mean(View, Meaning, e))
    /\ env' = Define(env, n, nextId)
    /\ nextId' = nextId + 1
    /\ last' = {}
    /\ UNCHANGED <<open, leftover>>

Let(n, e) == Bind(n, "read", e)
Var(n, e) == Bind(n, "mut", e)

(* n = e: check_mutate, then the value; a moved binding stays marked. *)
Restore(m, n) ==
    LET ids == Denotes(env, n) IN
    [m EXCEPT !.path = [gone |-> @.gone \ ids, lost |-> @.lost \ ids, due |-> @.due]]

Assign(n, e) ==
    /\ AtStmt
    /\ Becomes(Infer(Fail(Now, "MutateImmutable",
                          Bound(frames, n) /\ ~Lookup(frames, n).mutable), e))
    /\ Means(Restore(Mean(View, Meaning, e), n))
    /\ last' = {}
    /\ UNCHANGED <<open, env, nextId, leftover>>

(* n.f = e, n[i] = e and *n = e: only the value is looked at. *)
AssignTo(n, e) ==
    /\ AtStmt
    /\ Becomes(Infer(Now, e))
    /\ Means(Use(View, Mean(View, Meaning, e), n, "target"))
    /\ last' = {}
    /\ UNCHANGED <<open, env, nextId, leftover>>

(* An expression, defer e and return e. *)
Evaluate(e, how) ==
    /\ AtStmt
    /\ Becomes(Infer(Now, e))
    /\ LET m == Mean(View, Meaning, e) IN
          \/ how = "expr" /\ Means(m)
          \/ how = "defer" /\ Means(Defer(m, e))
          \/ how = "return" /\ Means(Ending(m))
    /\ last' = IF how = "return" THEN {e} ELSE {}
    /\ UNCHANGED <<open, env, nextId, leftover>>

(* match e { V(n) => body }: the payload is defined in the scope around the *)
(* match; it means something in the arm only.                               *)
Match(e, n, body) ==
    /\ AtStmt
    /\ LET c == Infer(Now, e)
           arm == [c EXCEPT !.frames = Define(@, n, Binding("read", nextId))]
           v == [View EXCEPT !.frames = arm.frames, !.env = Append(@, [k \in {n} |-> nextId])]
       IN  /\ Becomes(Infer(arm, body))
           /\ Means(Mean(v, Mean(View, Meaning, e), body))
    /\ nextId' = nextId + 1
    /\ leftover' = leftover \cup {nextId}
    /\ last' = {}
    /\ UNCHANGED <<open, env>>

-----------------------------------------------------------------------------
(* Scopes.                                                                  *)

(* scope.push; the names bound on entry have modes and ids, before is the   *)
(* path to where the block, or each turn of it, begins.                     *)
Enter(kind, modes, ids, fs, before) ==
    /\ frames' = Append(fs, [n \in DOMAIN ids |-> Binding(modes[n], ids[n])])
    /\ env' = Append(env, ids)
    /\ open' = Append(open, [kind |-> kind, outer |-> nextId, before |-> before])

(* Fault: the scope of a closed block stays on the stack. *)
LeaveKeepsScope == frames' = frames /\ env' = Front(env) /\ open' = Front(open)

(* scope.pop *)
Leave ==
    /\ frames' = Front(frames)
    /\ env' = Front(env)
    /\ open' = Front(open)

TopIs(kind) == open # <<>> /\ Last(open).kind = kind
CanOpen(kind) == kind \in Blocks /\ Len(open) < MaxDepth

(* check_fn: the parameters are bound, a later one of the same name over an *)
(* earlier one.                                                             *)
ParamOf(ps, n) == CHOOSE i \in DOMAIN ps :
                     ps[i].name = n /\ \A j \in DOMAIN ps : ps[j].name = n => j <= i

OpenFn(ps) ==
    /\ zone = "def" /\ open = <<>> /\ fnCount < MaxFns
    /\ LET names == {ps[i].name : i \in DOMAIN ps} IN
          Enter("fn", [n \in names |-> ps[ParamOf(ps, n)].mode],
                [n \in names |-> nextId + ParamOf(ps, n)], frames, path)
    /\ fnCount' = fnCount + 1
    /\ nextId' = nextId + Len(ps) + 1
    /\ path' = [path EXCEPT !.due = {}]
    /\ last' = {}
    /\ UNCHANGED <<zone, errors, stmts, leftover, misused>>

(* The end of check_fn: a return that comes last is inferred a second time. *)
CloseFn ==
    /\ TopIs("fn")
    /\ LET c == IF last = {} THEN Now ELSE Infer(Now, CHOOSE e \in last : TRUE) IN
          /\ errors' = c.errors
          /\ frames' = Front(c.frames)
    /\ env' = Front(env)
    /\ open' = <<>>
    /\ Means(Ending(Meaning))
    /\ last' = {}
    /\ UNCHANGED <<zone, fnCount, stmts, nextId, leftover>>

(* for binds its variable in the body's scope and infers what it ranges     *)
(* over once; while, which infers its condition on every turn, and loop     *)
(* bind nothing.                                                            *)
OpenLoop(bound, e) ==
    /\ AtStmt /\ CanOpen("loop")
    /\ LET c == Infer(Now, e) IN
          /\ Means(Mean(View, Meaning, e))
          /\ errors' = c.errors
          /\ Enter("loop", [n \in bound |-> "read"], [n \in bound |-> nextId],
                   c.frames, IF bound = {} THEN path ELSE path')
    /\ nextId' = nextId + 1
    /\ last' = {}
    /\ UNCHANGED leftover

(* The body is checked once.  When it runs a second time it moves again     *)
(* what it moved of the bindings made before it.                            *)
MovedAgain == {id \in Given(path) \ Given(Last(open).before) : id < Last(open).outer}

CloseLoop ==
    /\ TopIs("loop")
    /\ Leave
    /\ Means(Noted(Meaning, "turn", MovedAgain # {}))
    /\ last' = {}
    /\ UNCHANGED <<zone, errors, fnCount, stmts, nextId, leftover>>

(* if e { ... } else { ... }: each branch is a block of its own. *)
OpenThen(e) ==
    /\ AtStmt /\ CanOpen("then")
    /\ LET c == Infer(Now, e) IN
          /\ Means(Mean(View, Meaning, e))
          /\ errors' = c.errors
          /\ Enter("then", NoBindings, NoBindings, c.frames, path')
    /\ nextId' = nextId + 1
    /\ last' = {}
    /\ UNCHANGED leftover

(* The else branch starts from what was moved before the then branch. *)
OpenElse ==
    /\ TopIs("then") /\ "else" \in Blocks
    /\ frames' = Append(Front(frames), NoBindings)
    /\ env' = Append(Front(env), NoBindings)
    /\ open' = Append(Front(open), [Last(open) EXCEPT !.kind = "else", !.before = path])
    /\ path' = Last(open).before
    /\ UNCHANGED <<zone, errors, last, fnCount, stmts, nextId, leftover, misused>>

(* After the if, what either branch moved may be gone. *)
CloseIf ==
    /\ TopIs("then") \/ TopIs("else")
    /\ Leave
    /\ path' = Either(path, Last(open).before)
    /\ last' = {}
    /\ UNCHANGED <<zone, errors, fnCount, stmts, nextId, leftover, misused>>

(* All functions are checked, then the algorithm zone (check, pass 3). *)
EndDefs ==
    /\ zone = "def" /\ open = <<>>
    /\ zone' = "alg"
    /\ UNCHANGED <<open, checker, last, fnCount, stmts, meaning>>

-----------------------------------------------------------------------------
Init ==
    /\ zone = "def"
    /\ open = <<>>
    /\ frames = <<NoBindings>>
    /\ errors = {}
    /\ last = {}
    /\ fnCount = 0
    /\ stmts = 0
    /\ env = <<NoBindings>>
    /\ nextId = 1
    /\ leftover = {}
    /\ path = NoPath
    /\ misused = {}

Stmt ==
    \/ \E n \in Names, e \in Exprs :
          Let(n, e) \/ Var(n, e) \/ Assign(n, e) \/ AssignTo(n, e)
    \/ \E e \in Exprs, how \in {"expr", "defer", "return"} : Evaluate(e, how)
    \/ \E e, body \in Exprs, n \in Payloads : Match(e, n, body)

Scoping ==
    \/ \E ps \in Params : OpenFn(ps)
    \/ \E e \in Exprs, n \in Names, for \in BOOLEAN :
          OpenLoop(IF for THEN {n} ELSE {}, e)
    \/ \E e \in Exprs : OpenThen(e)
    \/ CloseFn \/ CloseLoop \/ OpenElse \/ CloseIf \/ EndDefs

Next == Stmt \/ Scoping

Spec == Init /\ [][Next]_vars

-----------------------------------------------------------------------------
(* Properties.                                                              *)

BindingType == {b \in [id : Int, mode : Modes, mutable : BOOLEAN, moved : BOOLEAN] :
                  b.mutable <=> b.mode = "mut"}
IsFrame(f) == DOMAIN f \subseteq Names \cup Payloads /\ \A n \in DOMAIN f : f[n] \in BindingType

(* The types of the checker's state; in every frame the bindings that may be *)
(* assigned to are those declared mut (var, a mut parameter).               *)
SemaTypeOK ==
    /\ zone \in {"def", "alg"}
    /\ \A i \in DOMAIN open : open[i].kind \in BlockKinds
    /\ \A i \in DOMAIN frames : IsFrame(frames[i])
    /\ errors \subseteq {"Undefined", "UseAfterMove", "MoveOfReadBinding", "MutateImmutable",
                         "OwnershipModeMismatch", "ArgCountMismatch", "PipeOwnershipConflict"}
    /\ last \subseteq Exprs
    /\ misused \subseteq Ways

(* One frame per open block above the global one, and functions leave the   *)
(* global one as they found it: the algorithm zone, checked last, sees no   *)
(* name of theirs and no function sees one of another's.  In the frame of a *)
(* block the checker has what the source binds there, unless a payload that *)
(* was left over took its place.                                            *)
ScopesBalanced ==
    /\ Len(frames) = Len(open) + 1
    /\ zone = "def" => frames[1] = NoBindings
    /\ Len(env) = Len(frames)
    /\ \A i \in DOMAIN env : \A n \in DOMAIN env[i] :
          n \in DOMAIN frames[i] /\ frames[i][n].id \in {env[i][n]} \cup leftover

(* A file the checker accepts never uses a binding after its value was      *)
(* moved away, where the checker follows names and moves: mark_moved        *)
(* promises that "further uses are a compile error" (scope.rs).  It does    *)
(* not follow them where Ways has another word.                             *)
AcceptedNeverUsesMoved == errors = {} => "followed" \notin misused
=============================================================================
