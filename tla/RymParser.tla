----------------------------- MODULE RymParser -----------------------------
(****************************************************************************)
(* rym-parser: the recursive descent over one file (parser.rs).  stack is   *)
(* the Rust call stack, written as what the open methods still have to do:  *)
(* tokens to expect, methods and loops to run, and the assignments to the   *)
(* fields of Parser in between.  The file is not given: a token is chosen   *)
(* when the parser first looks at it.  The tree that is built is left out.  *)
(*                                                                          *)
(* A definition named after a method or loop of the parser is what it does  *)
(* next when t is the next token.  Tokens have the names of TokenKind.      *)
(****************************************************************************)
EXTENDS Integers, SequencesExt

CONSTANTS
    Tokens,       \* the tokens that files are made of
    LineStarts,   \* those that may also stand first on a line
    MaxOpen       \* bound: with so many closing brackets to come the file ends

(* Identifiers the parser knows by name: Ok (and Err), Result, Option,      *)
(* alloc, _ and the phases of compiler extensions.                          *)
Identifiers == {"Ident", "Ok", "Result", "Option", "Alloc", "Underscore", "Phase"}

(* Pipe stands for || && | ^ the comparisons and the shifts too, Plus for   *)
(* / % ++ too, Not for ~, PlusAssign for all compound assignments, Read for   *)
(* move, OrZero for or_nil, Prim for the types with a keyword, Bool for     *)
(* floats, Let for var and the two Chinese keywords.                        *)
Operators == {"Pipe", "Plus", "Minus", "Star", "Amp", "Not", "DotDot"}
Punctuation == {"LParen", "RParen", "LBrace", "RBrace", "LBracket", "RBracket", "Comma",
                "Colon", "Semi", "Dot", "Question", "Arrow", "FatArrow", "Assign",
                "PlusAssign", "At"}
Keywords == {"Base", "Safe", "Import", "Fn", "Type", "Enum", "Let", "Return", "Defer",
             "For", "In", "While", "Loop", "Break", "Continue", "If", "Else", "Match",
             "As", "Mut", "Read", "Void", "AsmBang", "OrReturn", "OrPanic", "OrElse", "OrZero"}
Literals == {"Int", "Bool", "Str", "Prim"}
TokenKinds == Identifiers \cup Operators \cup Punctuation \cup Keywords \cup Literals

ASSUME TokensAssumption == Tokens \subseteq TokenKinds /\ LineStarts \subseteq Tokens
ASSUME MaxOpenAssumption == MaxOpen \in Nat

VARIABLES
    stack,           \* what remains to be done, innermost first
    ahead,           \* the tokens looked at and not consumed: tokens[pos..]
    in_alg,          \* the algorithm zone has begun
    control_depth,
    no_struct_lit,
    saved,           \* saved_depth of the open parse_fn
    brackets,        \* auxiliary: brackets consumed and not closed, innermost first
    outcome          \* "parsing", "accepted" or the kind of ParseError

fields == <<in_alg, control_depth, no_struct_lit, saved>>
vars == <<stack, ahead, fields, brackets, outcome>>

Init ==
    /\ stack = <<"ring", "file">>
    /\ ahead = <<>>
    /\ in_alg = FALSE
    /\ control_depth = 0
    /\ no_struct_lit = FALSE
    /\ saved = <<>>
    /\ brackets = <<>>
    /\ outcome = "parsing"

-----------------------------------------------------------------------------
(* Helpers: eat one of ks and go on with form, run form until t is in ks,   *)
(* choose by the next token.                                                *)
When(t, ks, form) == IF t \in ks THEN form ELSE <<>>
Until(t, ks, form) == IF t \in ks THEN <<>> ELSE form
Choice(t, forms, other) == IF t \in DOMAIN forms THEN forms[t] ELSE other

Modes == {"Read", "Mut"}

-----------------------------------------------------------------------------
(* Items. *)

Ring(t) == When(t, {"Base", "Safe"}, <<t>>)

(* Fault: an extension is accepted in the algorithm zone. *)
FileExtAnywhere(t) ==
    Until(t, {"Eof"}, Choice(t,
        [Import |-> <<"def_zone", "import", "file">>, At   |-> <<"ext", "file">>,
         Fn     |-> <<"def_zone", "fn", "file">>,     Type |-> <<"def_zone", "type", "file">>,
         Enum   |-> <<"def_zone", "enum", "file">>],
        <<"alg_zone", "stmt", "file">>))

File(t) ==
    Until(t, {"Eof"}, Choice(t,
        [Import |-> <<"def_zone", "import", "file">>, At   |-> <<"def_zone", "ext", "file">>,
         Fn     |-> <<"def_zone", "fn", "file">>,     Type |-> <<"def_zone", "type", "file">>,
         Enum   |-> <<"def_zone", "enum", "file">>],
        <<"alg_zone", "stmt", "file">>))

Import == <<"Import", "Str">>

CompilerExt == <<"At", "Phase", "attrs_opt", "fn">>
AttrsOpt(t) == When(t, {"LParen"}, <<"LParen", "attrs", "RParen">>)
Attrs(t) == Until(t, {"RParen"}, <<"Ident", "Assign", "Str", "comma_opt", "attrs">>)

Fn == <<"Fn", "Ident", "LParen", "params", "RParen", "Arrow", "ty",
        "enter_fn", "LBrace", "fn_block", "RBrace", "leave_fn">>

(* parse_param: a mode before the name, or else one after the colon. *)
Params(t) ==
    Until(t, {"RParen"},
        IF t \in Modes THEN <<t, "Ident", "Colon", "ty", "params_more">>
                       ELSE <<"Ident", "Colon", "mode_opt", "ty", "params_more">>)
ParamsMore(t) == When(t, {"Comma"}, <<"Comma", "params">>)

TypeDef == <<"Type", "Ident", "LBrace", "type_fields", "RBrace">>
TypeFields(t) == Until(t, {"RBrace"}, <<"Ident", "Colon", "ty", "type_fields">>)

EnumDef == <<"Enum", "Ident", "LBrace", "variants", "RBrace">>
Variants(t) == Until(t, {"RBrace"}, <<"Ident", "annotation", "comma_opt", "variants">>)

(* ": T", of a let and of the payload of a variant. *)
Annotation(t) == When(t, {"Colon"}, <<"Colon", "ty">>)
CommaOpt(t) == When(t, {"Comma"}, <<"Comma">>)
ModeOpt(t) == When(t, Modes, <<t>>)

-----------------------------------------------------------------------------
(* Types. *)

Ty(t) == Choice(t,
    [LBracket |-> <<"LBracket", "size_opt", "RBracket", "ty">>,
     Fn       |-> <<"Fn", "LParen", "ty_params", "RParen", "Arrow", "ty">>,
     Star     |-> <<"Star", "mut_opt", "ty">>,
     Prim     |-> <<"Prim">>, Void |-> <<"Void">>,
     Result   |-> <<"Result", "result_args">>,
     Option   |-> <<"Option", "option_arg">>],
    <<"Ident">>)
SizeOpt(t) == When(t, {"Int"}, <<"Int">>)
TyParams(t) == Until(t, {"RParen"}, <<"ty", "ty_params_more">>)
TyParamsMore(t) == When(t, {"Comma"}, <<"Comma", "ty_params">>)
ResultArgs(t) == When(t, {"LParen"}, <<"LParen", "ty", "Comma", "ty", "RParen">>)
MutOpt(t) == When(t, {"Mut"}, <<"Mut">>)
OptionArg(t) == When(t, {"LParen"}, <<"LParen", "ty", "RParen">>)

-----------------------------------------------------------------------------
(* Statements. *)

Return(t) == Until(t, {"Eof", "RBrace"}, <<"expr">>)

For == <<"For", "flat", "Ident", "In", "no_literals", "expr", "literals",
         "deeper", "LBrace", "loop_block", "RBrace", "shallower">>
(* Fault: the depth is given back without having been taken. *)
WhileNeverDeeper == <<"While", "flat", "no_literals", "expr", "literals",
                      "LBrace", "loop_block", "RBrace", "shallower">>

While == <<"While", "flat", "no_literals", "expr", "literals",
           "deeper", "LBrace", "loop_block", "RBrace", "shallower">>

(* Fault: a loop does not look how deep it is. *)
LoopUnchecked == <<"Loop", "deeper", "LBrace", "loop_block", "RBrace", "shallower">>

Loop == <<"Loop", "flat", "deeper", "LBrace", "loop_block", "RBrace", "shallower">>

Stmt(t) == Choice(t,
    [Let    |-> <<"Let", "Ident", "annotation", "Assign", "expr">>,
     Return |-> <<"Return", "return">>,
     Defer  |-> <<"Defer", "expr">>,
     For    |-> For, While |-> While, Loop |-> Loop,
     Break  |-> <<"Break">>, Continue |-> <<"Continue">>],
    <<"expr", "assignment">>)
Assignment(t) == When(t, {"Assign", "PlusAssign"}, <<t, "expr">>)

(* parse_block; self tells the bodies of functions, loops and ifs apart. *)
Block(self, t) == Until(t, {"RBrace", "Eof"}, <<"stmt", self>>)

-----------------------------------------------------------------------------
(* Expressions.  The levels of precedence between .. and the unary          *)
(* operators read the same tokens as one loop over operands, in which + -   *)
(* * & count only on the line of their left operand.                        *)

Expr == <<"operands", "range">>
RangeEnd(t) == When(t, {"DotDot"}, <<"DotDot", "operands">>)
Operands == <<"unary", "binary">>
Binary(t, onNewLine) ==
    When(t, {"Pipe"} \cup (IF onNewLine THEN {} ELSE {"Plus", "Minus", "Star", "Amp"}),
         <<t, "unary", "binary">>)
Unary(t) == IF t \in {"Not", "Minus", "Star", "Amp"} THEN <<t, "unary">>
                                                    ELSE <<"primary", "postfix">>
Postfix(t) == Choice(t,
    [Dot      |-> <<"Dot", "member", "postfix">>,
     LBracket |-> <<"LBracket", "expr", "RBracket", "postfix">>,
     LParen   |-> <<"LParen", "args", "RParen", "postfix">>,
     As       |-> <<"As", "ty", "postfix">>],
    <<>>)
Member(t) == Choice(t,
    [Alloc    |-> <<"Alloc", "LParen", "ty", "Comma", "expr", "RParen">>,
     OrReturn |-> <<"OrReturn", "question_opt">>,
     OrPanic  |-> <<"OrPanic", "LParen", "Str", "RParen">>,
     OrElse   |-> <<"OrElse", "LParen", "expr", "RParen">>,
     OrZero   |-> <<"OrZero">>],
    <<"Ident">>)
QuestionOpt(t) == When(t, {"Question"}, <<"Question">>)

(* Fault: the depth is not given back. *)
IfStaysDeep == <<"If", "no_literals", "expr", "literals", "deeper",
                    "LBrace", "then_block", "RBrace", "else">>

If == <<"If", "no_literals", "expr", "literals", "deeper",
        "LBrace", "then_block", "RBrace", "else", "shallower">>

Else(t) == When(t, {"Else"}, <<"Else", "LBrace", "else_block", "RBrace">>)

(* Fault: struct literals stay suppressed behind the subject of a match. *)
MatchSuppressing == <<"Match", "no_literals", "expr", "deeper",
                      "LBrace", "arms", "RBrace", "shallower">>

Match == <<"Match", "no_literals", "expr", "literals", "deeper",
           "LBrace", "arms", "RBrace", "shallower">>
Arms(t) == Until(t, {"RBrace"}, <<"pattern", "FatArrow", "expr", "comma_opt", "arms">>)
Pattern(t) == Choice(t,
    [Else |-> <<"Else">>, Int |-> <<"Int">>, Str |-> <<"Str">>, Underscore |-> <<"Underscore">>],
    <<"Ident", "variant">>)
Variant(t) == When(t, {"Dot"}, <<"Dot", "Ident", "binding">>)
Binding(t) == When(t, {"LParen"}, <<"LParen", "Ident", "RParen">>)

Primary(t) == Choice(t,
    [Int      |-> <<t>>, Bool |-> <<t>>, Str |-> <<t>>,
     Ok       |-> <<"Ok", "LParen", "expr", "RParen">>,
     AsmBang  |-> <<"AsmBang", "LParen", "Str", "asm_args", "RParen">>,
     LBracket |-> <<"LBracket", "elems", "RBracket">>,
     Void     |-> <<"Void", "LBrace", "RBrace">>,
     If       |-> If, Match |-> Match,
     LParen   |-> <<"LParen", "expr", "RParen">>],
    <<"Ident", "struct_lit">>)
AsmArgs(t) == When(t, {"Comma"}, <<"Comma", "expr", "asm_args">>)

(* Fault: the semicolon is looked at and not eaten. *)
ElemsPeeking(t) ==
    Until(t, {"RBracket", "Eof"},
          IF t = "Semi" THEN <<"elems">> ELSE <<"expr", "comma_opt", "elems">>)

Elems(t) ==
    Until(t, {"RBracket", "Eof"},
          IF t = "Semi" THEN <<"Semi", "elems">> ELSE <<"expr", "comma_opt", "elems">>)

(* is_struct_lit_opening counts newlines as tokens, peek_is does not: the   *)
(* brace and the two tokens after it have to be on the line of the name.    *)
OnOneLine(n) == n <= Len(ahead) /\ \A i \in 1..n : ~ahead[i].nl
IsStructLitOpening ==
    \/ OnOneLine(2) /\ ahead[2].kind = "RBrace"
    \/ OnOneLine(3) /\ ahead[2].kind \in Identifiers /\ ahead[3].kind = "Assign"
StructLit ==
    IF ~no_struct_lit /\ ahead[1].kind = "LBrace" /\ IsStructLitOpening
    THEN <<"LBrace", "inits", "RBrace">> ELSE <<>>
Inits(t) == Until(t, {"RBrace"}, <<"Ident", "Assign", "expr", "comma_opt", "inits">>)

Args(t) == Until(t, {"RParen"}, <<"mode_opt", "label", "expr", "args_more">>)
ArgsMore(t) == When(t, {"Comma"}, <<"Comma", "args">>)
Label ==
    IF OnOneLine(2) /\ ahead[1].kind \in Identifiers /\ ahead[2].kind = "Colon"
    THEN <<"Ident", "Colon">> ELSE <<>>

-----------------------------------------------------------------------------
(* The parser at work. *)

Blocks == {"fn_block", "loop_block", "then_block", "else_block"}

(* What a method does beside calling others and consuming tokens. *)
Assignments == {"def_zone", "alg_zone", "flat", "deeper", "shallower",
                "no_literals", "literals", "enter_fn", "leave_fn"}

Expansion(r, t) ==
    CASE r = "ring" -> Ring(t)             [] r = "file" -> File(t)
      [] r = "import" -> Import            [] r = "ext" -> CompilerExt
      [] r = "attrs_opt" -> AttrsOpt(t)    [] r = "attrs" -> Attrs(t)
      [] r = "fn" -> Fn                    [] r = "params" -> Params(t)
      [] r = "params_more" -> ParamsMore(t)
      [] r = "type" -> TypeDef             [] r = "type_fields" -> TypeFields(t)
      [] r = "enum" -> EnumDef             [] r = "variants" -> Variants(t)
      [] r = "annotation" -> Annotation(t) [] r = "comma_opt" -> CommaOpt(t)
      [] r = "mode_opt" -> ModeOpt(t)      [] r = "mut_opt" -> MutOpt(t)
      [] r = "ty" -> Ty(t)                 [] r = "size_opt" -> SizeOpt(t)
      [] r = "ty_params" -> TyParams(t)    [] r = "ty_params_more" -> TyParamsMore(t)
      [] r = "result_args" -> ResultArgs(t)
      [] r = "option_arg" -> OptionArg(t)
      [] r = "stmt" -> Stmt(t)             [] r = "return" -> Return(t)
      [] r = "assignment" -> Assignment(t) [] r \in Blocks -> Block(r, t)
      [] r = "expr" -> Expr                [] r = "range" -> RangeEnd(t)
      [] r = "operands" -> Operands        [] r = "binary" -> Binary(t, ahead[1].nl)
      [] r = "unary" -> Unary(t)           [] r = "primary" -> Primary(t)
      [] r = "postfix" -> Postfix(t)       [] r = "member" -> Member(t)
      [] r = "question_opt" -> QuestionOpt(t)
      [] r = "else" -> Else(t)             [] r = "arms" -> Arms(t)
      [] r = "pattern" -> Pattern(t)       [] r = "variant" -> Variant(t)
      [] r = "binding" -> Binding(t)       [] r = "asm_args" -> AsmArgs(t)
      [] r = "elems" -> Elems(t)           [] r = "struct_lit" -> StructLit
      [] r = "inits" -> Inits(t)           [] r = "args" -> Args(t)
      [] r = "args_more" -> ArgsMore(t)    [] r = "label" -> Label

Parsing == outcome = "parsing"
Due(what) == Parsing /\ stack # <<>> /\ Head(stack) = what
Done == stack' = Tail(stack)

(* The first error leaves every open method, through ?, and ends the parse. *)
Fail(error) ==
    /\ outcome' = error
    /\ stack' = <<>> /\ ahead' = <<>> /\ brackets' = <<>>
    /\ UNCHANGED fields

(* peek, and the lookahead of two methods: how many tokens are looked at.   *)
LookedAt ==
    CASE Head(stack) \in Assignments -> 0
      [] Head(stack) = "label" /\ OnOneLine(1) /\ ahead[1].kind \in Identifiers -> 2
      [] Head(stack) = "struct_lit" /\ ~no_struct_lit /\ OnOneLine(1) /\ ahead[1].kind = "LBrace" ->
            IF OnOneLine(2) /\ ahead[2].kind \in Identifiers THEN 3 ELSE 2
      [] OTHER -> 1

AtEnd == ahead # <<>> /\ Last(ahead).kind = "Eof"
NeedsToken == Parsing /\ stack # <<>> /\ Len(ahead) < LookedAt /\ ~AtEnd

OpenBrackets == Cardinality({i \in DOMAIN stack : stack[i] \in {"RParen", "RBracket", "RBrace"}})

(* The next token of the file. *)
Read ==
    /\ NeedsToken
    /\ \E t \in (IF OpenBrackets < MaxOpen THEN Tokens ELSE {}) \cup {"Eof"} :
       \E nl \in (IF t \in LineStarts THEN BOOLEAN ELSE {FALSE}) :
          ahead' = Append(ahead, [kind |-> t, nl |-> nl])
    /\ UNCHANGED <<stack, fields, brackets, outcome>>

Peek == ahead[1].kind

(* A method or a loop of the parser decides what to do next. *)
Call ==
    /\ Parsing /\ stack # <<>> /\ ~NeedsToken
    /\ Head(stack) \notin TokenKinds \cup Assignments
    /\ stack' = Expansion(Head(stack), Peek) \o Tail(stack)
    /\ UNCHANGED <<ahead, fields, brackets, outcome>>

Is(kind, expected) == kind = expected \/ (expected = "Ident" /\ kind \in Identifiers)

Closing == [LParen |-> "RParen", LBracket |-> "RBracket", LBrace |-> "RBrace"]
Bracketed(t) ==
    IF t \in DOMAIN Closing THEN <<Closing[t]>> \o brackets
    ELSE IF brackets # <<>> /\ t = Head(brackets) THEN Tail(brackets)
    ELSE brackets

(* advance, expect, expect_ident, expect_str. *)
Expect ==
    /\ Parsing /\ stack # <<>> /\ ~NeedsToken
    /\ Head(stack) \in TokenKinds
    /\ IF Is(Peek, Head(stack))
       THEN /\ ahead' = Tail(ahead)
            /\ brackets' = Bracketed(Peek)
            /\ Done
            /\ UNCHANGED <<fields, outcome>>
       ELSE Fail("UnexpectedToken")

DefZone ==
    /\ Due("def_zone")
    /\ IF in_alg THEN Fail("DefInAlgZone")
       ELSE Done /\ UNCHANGED <<ahead, fields, brackets, outcome>>

AlgZone ==
    /\ Due("alg_zone") /\ Done
    /\ in_alg' = TRUE
    /\ UNCHANGED <<ahead, control_depth, no_struct_lit, saved, brackets, outcome>>

Flat ==
    /\ Due("flat")
    /\ IF control_depth >= 1 THEN Fail("IllegalNesting")
       ELSE Done /\ UNCHANGED <<ahead, fields, brackets, outcome>>

Deeper ==
    /\ Due("deeper") /\ Done
    /\ control_depth' = control_depth + 1
    /\ UNCHANGED <<ahead, in_alg, no_struct_lit, saved, brackets, outcome>>

Shallower ==
    /\ Due("shallower") /\ Done
    /\ control_depth' = control_depth - 1
    /\ UNCHANGED <<ahead, in_alg, no_struct_lit, saved, brackets, outcome>>

SuppressLiterals ==
    /\ Due("no_literals") /\ Done
    /\ no_struct_lit' = TRUE
    /\ UNCHANGED <<ahead, in_alg, control_depth, saved, brackets, outcome>>

AllowLiterals ==
    /\ Due("literals") /\ Done
    /\ no_struct_lit' = FALSE
    /\ UNCHANGED <<ahead, in_alg, control_depth, saved, brackets, outcome>>

EnterFn ==
    /\ Due("enter_fn") /\ Done
    /\ saved' = <<control_depth>> \o saved
    /\ control_depth' = 0
    /\ UNCHANGED <<ahead, in_alg, no_struct_lit, brackets, outcome>>

LeaveFn ==
    /\ Due("leave_fn") /\ Done
    /\ control_depth' = Head(saved)
    /\ saved' = Tail(saved)
    /\ UNCHANGED <<ahead, in_alg, no_struct_lit, brackets, outcome>>

Accept ==
    /\ Parsing /\ stack = <<>>
    /\ outcome' = "accepted"
    /\ UNCHANGED <<stack, ahead, fields, brackets>>

Next ==
    \/ Read \/ Call \/ Expect \/ Accept
    \/ DefZone \/ AlgZone \/ Flat \/ Deeper \/ Shallower
    \/ SuppressLiterals \/ AllowLiterals \/ EnterFn \/ LeaveFn

Spec == Init /\ [][Next]_vars

(* The parser is sequential and waits for nothing. *)
Fairness == WF_vars(Next)

-----------------------------------------------------------------------------
(* Properties.                                                              *)

(* The methods and loops of the parser. *)
Methods ==
    {"ring", "file", "import", "ext", "attrs_opt", "attrs", "fn", "params", "params_more", "type",
     "type_fields", "enum", "variants", "annotation", "comma_opt", "mode_opt", "mut_opt", "ty",
     "size_opt", "ty_params", "ty_params_more", "result_args", "option_arg", "stmt", "return",
     "assignment", "expr", "range", "operands", "binary", "unary", "primary", "postfix", "member",
     "question_opt", "else", "arms", "pattern", "variant", "binding", "asm_args", "elems",
     "struct_lit", "inits", "args", "args_more", "label"} \cup Blocks

(* Types; the depth never falls below zero, where usize would wrap.         *)
ParserTypeOK ==
    /\ stack \in Seq(TokenKinds \cup Methods \cup Assignments)
    /\ ahead \in Seq([kind : Tokens \cup {"Eof"}, nl : BOOLEAN]) /\ Len(ahead) <= 3
    /\ in_alg \in BOOLEAN /\ no_struct_lit \in BOOLEAN
    /\ control_depth \in Nat
    /\ saved \in Seq(Nat)
    /\ brackets \in Seq({"RParen", "RBracket", "RBrace"})
    /\ outcome \in {"parsing", "accepted", "UnexpectedToken", "DefInAlgZone", "IllegalNesting"}

(* The bodies the parser is inside of: their brace has been consumed and    *)
(* their last statement or arm has not.                                     *)
OpenBodies ==
    {i \in DOMAIN stack : /\ stack[i] \in Blocks \cup {"arms"}
                          /\ i = 1 \/ stack[i - 1] # "LBrace"}
ControlBodies == {i \in OpenBodies : stack[i] # "fn_block"}

(* Wherever a statement or an expression begins, control_depth is the       *)
(* number of bodies of control structures around it in its function,        *)
(* whatever was parsed before it (parse_fn, parse_stmt, parse_if and        *)
(* parse_match keep the field by hand).                                     *)
DepthIsNesting ==
    Due("stmt") \/ Due("expr") => control_depth = Cardinality(ControlBodies)

(* No loop is inside another control structure ("Rym's absolute flatness    *)
(* rule: max depth = 1", which if and match do not obey), however it got    *)
(* there: through arms, conditions, arguments or initialisers.              *)
LoopsAreFlat ==
    \A i \in OpenBodies : stack[i] = "loop_block" => \A j \in ControlBodies : j <= i

(* Struct literals are suppressed only while a condition or a subject is    *)
(* parsed, never in a body, be it one inside the condition of another.  (An *)
(* error leaves the field set, but nothing is parsed after it.)             *)
SuppressedOnlyInHeaders ==
    Parsing /\ no_struct_lit => \E i \in DOMAIN stack :
                                   stack[i] = "literals" /\ \A j \in OpenBodies : i < j

(* No definition follows a statement of the algorithm zone.                 *)
ZonesInOrder ==
    in_alg => \A i \in DOMAIN stack :
       stack[i] \in {"import", "ext", "fn", "type", "enum", "fn_block"} =>
          Head(stack) = "def_zone"

(* The parser never loops without consuming: it asks for the next token     *)
(* again and again until it accepts the file or reports an error.           *)
KeepsReading == []<>(NeedsToken \/ ~Parsing)
=============================================================================
