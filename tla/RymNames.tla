------------------------------ MODULE RymNames ------------------------------
(****************************************************************************)
(* How names get their meaning between the type checker and the C compiler. *)
(* The source language has scopes, and the checker knows every enum and     *)
(* function of the file before it looks at a body.  The Lowerer             *)
(* (rym-ir/src/lower.rs) decides by name alone: from tables it fills while  *)
(* it walks the items (enum_layouts) and the body (slice_vars, fn_ptr_vars).*)
(* The C backend (rym-codegen/src/c.rs) gives each name of a function one   *)
(* variable, declared at the top.                                           *)
(*                                                                          *)
(* A file that the checker accepts is chosen item by item and use by use;   *)
(* what is lowered is compared with what is meant.  Values count only as    *)
(* the binding they were stored for.                                        *)
(****************************************************************************)
EXTENDS Integers, SequencesExt, FiniteSetsExt

CONSTANTS
    Names,         \* the names of variables
    Fns,           \* the functions of the file, some named like variables
    Enums,         \* the enums declared in the file
    MaxFns,        \* bound: functions of the file
    MaxBindings,   \* bound: parameters and variables of a function
    MaxDepth       \* bound: scopes open at the same time

ASSUME BoundsAssumption == MaxFns \in Nat /\ MaxBindings \in Nat /\ MaxDepth \in Nat

(* A string stands for every type without a kind of its own.  The value of  *)
(* a slice []T and of an array [N]T is the same pair, <<pointer, length>>   *)
(* (Op::ArrayLit).                                                          *)
Kinds == {"str", "slice", "array", "fn"}
Pairs == {"slice", "array"}

(* How the kind of a binding is known: from an annotation, from an array    *)
(* literal on the right, or only to the type checker.                       *)
Hows == {"typed", "literal", "inferred"}

Quirks == {"shadow", "retyped", "rebound_param", "mut_param", "untyped", "fixed_array",
           "late_enum", "fn_name", "pipe_var"}

Unbound == 0

VARIABLES
    (* The Lowerer. *)
    enum_layouts,   \* the enums walked over so far (of their tags nothing is kept here)
    slice_vars,
    fn_ptr_vars,
    choice,         \* the last decision taken by name: what was lowered, what is meant
    (* The C function. *)
    params,         \* the names in its signature
    named,          \* the variables declared at its top (collect_named_vars)
    mentioned,      \* the variables it loads
    called,         \* the names it calls directly
    slots,          \* the binding whose value each variable holds
    (* The source. *)
    fn,             \* where the walk is: "items", "params", "body" or "main"
    fnCount,        \* functions so far
    bindings,       \* the parameters and variables of the function
    scopes,         \* open scopes: the binding each name has in them
    quirks          \* what this function does that the C output gets wrong

tables == <<enum_layouts, slice_vars, fn_ptr_vars>>
output == <<params, named, mentioned, called, slots>>
source == <<fn, fnCount, bindings, scopes, quirks>>
vars == <<tables, choice, output, source>>

None == [what |-> "none"]
Undecided == choice' = None
Decided(what, lowered, meant) == choice' = [what |-> what, lowered |-> lowered, meant |-> meant]

NoScope == [n \in Names |-> Unbound]

InBody == fn \in {"body", "main"}

-----------------------------------------------------------------------------
(* What a name means in the source: its innermost binding.                  *)

Visible(n) == n \in Names /\ \E i \in DOMAIN scopes : scopes[i][n] # Unbound
Meaning(n) ==
    scopes[Max({i \in DOMAIN scopes : scopes[i][n] # Unbound})][n]
KindOf(n) == bindings[Meaning(n)].kind
IsKind(n, kinds) == Visible(n) /\ KindOf(n) \in kinds

Noted(set) == quirks' = quirks \cup set
Quirk(q, holds) == IF holds THEN {q} ELSE {}

-----------------------------------------------------------------------------
(* Items (lower_file, lower_item).                                          *)

LowerEnum(e) ==
    /\ fn = "items" /\ e \notin enum_layouts
    /\ enum_layouts' = enum_layouts \cup {e}
    /\ Undecided
    /\ UNCHANGED <<slice_vars, fn_ptr_vars, output, source>>

(* Fault: slice_vars survives from one function to the next. *)
ResetFnKeepsSlices ==
    /\ slice_vars' = slice_vars
    /\ fn_ptr_vars' = {}
    /\ UNCHANGED enum_layouts

(* reset_fn *)
ResetFn ==
    /\ slice_vars' = {}
    /\ fn_ptr_vars' = {}
    /\ UNCHANGED enum_layouts

Open(to) ==
    /\ fn = "items"
    /\ ResetFn
    /\ Undecided
    /\ params' = {} /\ named' = {} /\ mentioned' = {} /\ called' = {}
    /\ slots' = NoScope
    /\ fn' = to
    /\ fnCount' = fnCount + 1
    /\ bindings' = <<>>
    /\ scopes' = <<NoScope>>
    /\ quirks' = {}

OpenFn == fnCount < MaxFns /\ Open("params")

(* The algorithm zone comes last; it has no parameters. *)
OpenMain == fnCount = MaxFns /\ Open("main")

(* n gets a binding in the innermost of the scopes frames. *)
Bound(n, kind, mutable, frames) ==
    /\ Len(bindings) < MaxBindings
    /\ bindings' = Append(bindings, [name |-> n, kind |-> kind, mutable |-> mutable])
    /\ scopes' = [frames EXCEPT ![Len(frames)] = [@ EXCEPT ![n] = Len(bindings) + 1]]
    /\ slots' = [slots EXCEPT ![n] = Len(bindings) + 1]

(* A parameter: always annotated.  The argument is in it from the start.    *)
(* (A parameter that is not mut is a mut one that is never assigned.)       *)
Param(n, kind) ==
    /\ fn = "params" /\ n \notin params
    /\ slice_vars' = slice_vars \cup Quirk(n, kind = "slice")
    /\ fn_ptr_vars' = fn_ptr_vars \cup Quirk(n, kind = "fn")
    /\ params' = params \cup {n}
    /\ Bound(n, kind, TRUE, scopes)
    /\ Noted(Quirk("fn_name", n \in Fns) \cup Quirk("fixed_array", kind = "array"))
    /\ Undecided
    /\ UNCHANGED <<enum_layouts, named, mentioned, called, fn, fnCount>>

Body ==
    /\ fn = "params" /\ fn' = "body"
    /\ Undecided
    /\ UNCHANGED <<tables, output, fnCount, bindings, scopes, quirks>>

(* The end of a function or of the algorithm zone.  What the C function is  *)
(* made of stays to be looked at.                                           *)
Close ==
    /\ InBody /\ Len(scopes) = 1
    /\ fn' = IF fn = "main" THEN "end" ELSE "items"
    /\ Undecided
    /\ UNCHANGED <<tables, output, fnCount, bindings, scopes, quirks>>

-----------------------------------------------------------------------------
(* Statements (lower_stmt).                                                 *)

Rebinding(n, kind) ==
    Quirk("shadow", \E i \in DOMAIN bindings : bindings[i].name = n)
      \cup Quirk("retyped",
                 \E i \in DOMAIN bindings : bindings[i].name = n /\ bindings[i].kind # kind)
      \cup Quirk("rebound_param", n \in params)
      \cup Quirk("fn_name", n \in Fns)

(* var, and let, which is a var that is never assigned.                     *)
Let(n, kind, how) ==
    /\ InBody
    /\ how = "literal" => kind = "array"
    /\ slice_vars' = slice_vars
                       \cup Quirk(n, how = "literal" \/ (how = "typed" /\ kind = "slice"))
    /\ fn_ptr_vars' = fn_ptr_vars \cup Quirk(n, how = "typed" /\ kind = "fn")
    /\ named' = named \cup {n}
    /\ Bound(n, kind, TRUE, scopes)
    /\ Noted(Rebinding(n, kind)
               \cup Quirk("untyped", how = "inferred" /\ kind # "str")
               \cup Quirk("fixed_array", how = "typed" /\ kind = "array"))
    /\ Undecided
    /\ UNCHANGED <<enum_layouts, params, mentioned, called, fn, fnCount>>

(* n = e: accepted for var and for mut parameters. *)
Assign(n) ==
    /\ InBody /\ Visible(n) /\ bindings[Meaning(n)].mutable
    /\ named' = named \cup {n}
    /\ slots' = [slots EXCEPT ![n] = Meaning(n)]
    /\ Noted(Quirk("mut_param", n \in params))
    /\ Undecided
    /\ UNCHANGED <<tables, params, mentioned, called, fn, fnCount, bindings, scopes>>

(* { ... } of a block, branch or loop. *)
OpenBlock ==
    /\ InBody /\ Len(scopes) < MaxDepth
    /\ scopes' = Append(scopes, NoScope)
    /\ Undecided
    /\ UNCHANGED <<tables, output, fn, fnCount, bindings, quirks>>

CloseBlock ==
    /\ InBody /\ Len(scopes) > 1
    /\ scopes' = SubSeq(scopes, 1, Len(scopes) - 1)
    /\ Undecided
    /\ UNCHANGED <<tables, output, fn, fnCount, bindings, quirks>>

(* Fault: collect_named_vars does not see these variables. *)
OpenScopeWithUndeclared(n, kind) ==
    /\ InBody /\ Len(scopes) < MaxDepth
    /\ named' = named
    /\ Bound(n, kind, FALSE, Append(scopes, NoScope))
    /\ Noted(Rebinding(n, kind) \cup Quirk("untyped", kind # "str"))
    /\ Undecided
    /\ UNCHANGED <<tables, params, mentioned, called, fn, fnCount>>

(* A scope with a variable that no annotation describes: the element of a   *)
(* for loop, or the payload that goes to the variable of a pattern (to      *)
(* __payload, a name like any other, if it has none).                       *)
OpenScopeWith(n, kind) ==
    /\ InBody /\ Len(scopes) < MaxDepth
    /\ named' = named \cup {n}
    /\ Bound(n, kind, FALSE, Append(scopes, NoScope))
    /\ Noted(Rebinding(n, kind) \cup Quirk("untyped", kind # "str"))
    /\ Undecided
    /\ UNCHANGED <<tables, params, mentioned, called, fn, fnCount>>

-----------------------------------------------------------------------------
(* Expressions (lower_expr).                                                *)

Mentions(n) ==
    /\ mentioned' = mentioned \cup {n}
    /\ UNCHANGED <<tables, params, named, called, slots>>

(* A variable is read: the C variable of its name is. *)
Read(n) ==
    /\ InBody /\ Visible(n)
    /\ Decided("read", slots[n], Meaning(n))
    /\ Mentions(n)
    /\ UNCHANGED source

(* n.len, which the checker lets pass on any base without fields: SliceLen, *)
(* the second word of a pair, for the names in slice_vars, and StrLen for   *)
(* the others.                                                              *)
LengthMeans(n) == IF KindOf(n) \in Pairs THEN "SliceLen" ELSE "StrLen"

Length(n) ==
    /\ InBody /\ IsKind(n, Kinds \ {"fn"})
    /\ Decided("len", IF n \in slice_vars THEN "SliceLen" ELSE "StrLen", LengthMeans(n))
    /\ Mentions(n)
    /\ UNCHANGED source

(* A call by name, of a function or through a variable.                     *)
CallMeans(n) == IF IsKind(n, {"fn"}) THEN "indirect" ELSE "direct"

CallDirect(n) ==
    /\ Decided("call", "direct", CallMeans(n))
    /\ called' = called \cup {n}
    /\ UNCHANGED <<tables, params, named, mentioned, slots>>

CanCall(n) == InBody /\ (IsKind(n, {"fn"}) \/ n \in Fns)

Call(n) ==
    /\ CanCall(n)
    /\ IF n \in fn_ptr_vars
       THEN Decided("call", "indirect", CallMeans(n)) /\ Mentions(n)
       ELSE CallDirect(n)
    /\ UNCHANGED source

(* e |> n and e |> n(...) are always direct. *)
Pipe(n) ==
    /\ CanCall(n)
    /\ CallDirect(n)
    /\ Noted(Quirk("pipe_var", IsKind(n, {"fn"})))
    /\ UNCHANGED <<fn, fnCount, bindings, scopes>>

(* E.V and E.V(x).  An enum that is not yet known is taken for a variable   *)
(* and its variant for a field of it or, with arguments, a method (whose    *)
(* call is left out: the variable is enough to stop the C compiler).        *)
Variant(e) ==
    /\ InBody /\ e \in Enums
    /\ mentioned' = mentioned \cup Quirk(e, e \notin enum_layouts)
    /\ Noted(Quirk("late_enum", e \notin enum_layouts))
    /\ Undecided
    /\ UNCHANGED <<tables, params, named, called, slots,
                   fn, fnCount, bindings, scopes>>

-----------------------------------------------------------------------------
Init ==
    /\ enum_layouts = {} /\ slice_vars = {} /\ fn_ptr_vars = {} /\ choice = None
    /\ params = {} /\ named = {} /\ mentioned = {} /\ called = {} /\ slots = NoScope
    /\ fn = "items" /\ fnCount = 0 /\ bindings = <<>> /\ scopes = <<NoScope>> /\ quirks = {}

Items == (\E e \in Enums : LowerEnum(e)) \/ OpenFn \/ OpenMain \/ Body \/ Close

Stmts ==
    \/ \E n \in Names, kind \in Kinds :
          Param(n, kind) \/ (\E how \in Hows : Let(n, kind, how))
          \/ OpenScopeWith(n, kind)
    \/ \E n \in Names : Assign(n)
    \/ OpenBlock \/ CloseBlock

Exprs ==
    \/ \E n \in Names : Read(n) \/ Length(n)
    \/ \E n \in Names \cup Fns : Call(n) \/ Pipe(n)
    \/ \E e \in Enums : Variant(e)

Next == Items \/ Stmts \/ Exprs

Spec == Init /\ [][Next]_vars

-----------------------------------------------------------------------------
(* Properties.                                                              *)

(* The last decision was the right one, if it was one of those.  What a     *)
(* function must not do is in quirks; without that, a property has to hold. *)
Right(whats) == choice.what \in whats => choice.lowered = choice.meant
Without(set) == quirks \cap set = {}

(* A use of a variable gets what the scopes of the source say: a read, the  *)
(* value of its binding; .len, the operation for the value it has; a call,  *)
(* the variable or the function.  But scopes are lost in one flat name      *)
(* space, a pair or function pointer that is not annotated is not known as  *)
(* one, nor is an array that is, and a pipe never calls through a variable. *)
VariablesRight ==
    /\ Without({"shadow"}) => Right({"read"})
    /\ Without({"retyped", "untyped", "fixed_array"}) => Right({"len"})
    /\ Without({"untyped", "fn_name", "pipe_var"}) => Right({"call"})

(* The C function declares each variable it loads, once, and calls by name  *)
(* only functions ("can be compiled with any standard C compiler", c.rs).   *)
(* But a parameter that is assigned or bound again is declared again.       *)
CompilesAsC ==
    fn \in {"items", "end"} /\ Without(Quirks \ {"shadow", "retyped", "fixed_array"}) =>
       /\ mentioned \subseteq params \cup named
       /\ params \cap named = {}
       /\ called \subseteq Fns \ (params \cup named)
=============================================================================
