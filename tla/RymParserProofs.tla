-------------------------- MODULE RymParserProofs ---------------------------
(****************************************************************************)
(* The parser, for every set of tokens and every nesting of brackets.       *)
(****************************************************************************)
EXTENDS RymParser, FunctionTheorems, FiniteSetTheorems, SequenceTheorems, TLAPS

(* The methods and loops that open no body and assign nothing.              *)
PlainMethods ==
    {"ring", "import", "attrs_opt", "attrs", "params", "params_more", "type", "type_fields",
     "enum", "variants", "annotation", "comma_opt", "mode_opt", "mut_opt", "ty", "size_opt",
     "ty_params", "ty_params_more", "result_args", "option_arg", "return", "assignment", "expr",
     "range", "operands", "binary", "unary", "postfix", "member", "question_opt", "pattern",
     "variant", "binding", "asm_args", "elems", "struct_lit", "inits", "args", "args_more", "label"}
Definitions == {"import", "ext", "fn", "type", "enum", "fn_block"}
ControlBlocks == {"loop_block", "then_block", "else_block", "arms"}

(* What may stand anywhere in the stack. *)
Plain == (TokenKinds \cup PlainMethods \cup {"primary"}) \ Definitions
Symbols == Plain \cup Definitions \cup Blocks \cup {"arms", "else", "stmt", "file"} \cup Assignments

(* What stands below s[i]. *)
Below(s, i) ==
    /\ s[i] \in {"loop_block", "else_block", "arms"} =>
          i + 3 <= Len(s) /\ s[i + 1] = "RBrace" /\ s[i + 2] = "shallower"
    /\ s[i] = "then_block" => i + 3 <= Len(s) /\ s[i + 1] = "RBrace" /\ s[i + 2] = "else"
    /\ s[i] = "else" => i + 1 <= Len(s) /\ s[i + 1] = "shallower"
    /\ s[i] = "fn_block" => i + 3 = Len(s) /\ s[i + 1] = "RBrace" /\ s[i + 2] = "leave_fn"
    /\ s[i] = "deeper" =>
          i + 2 <= Len(s) /\ s[i + 1] = "LBrace" /\ s[i + 2] \in {"loop_block", "then_block", "arms"}
    /\ s[i] = "no_literals" => i + 2 <= Len(s) /\ s[i + 1] = "expr" /\ s[i + 2] = "literals"
    /\ s[i] = "enter_fn" => i + 2 <= Len(s) /\ s[i + 1] = "LBrace" /\ s[i + 2] = "fn_block"
    /\ s[i] \in {"leave_fn", "fn", "ext"} => i + 1 = Len(s)
    /\ s[i] = "stmt" => i + 1 <= Len(s) /\ s[i + 1] \in Blocks \cup {"file"}
    /\ s[i] = "alg_zone" => i + 2 = Len(s) /\ s[i + 1] = "stmt"
    /\ s[i] = "file" <=> i = Len(s)

(* What stands above s[i], unless it has been done. *)
Above(s, i) ==
    /\ s[i] = "shallower" =>
          \/ i = 1
          \/ s[i - 1] = "else"
          \/ s[i - 1] = "RBrace" /\ (i = 2 \/ s[i - 2] \in {"loop_block", "else_block", "arms"})
    /\ s[i] = "else" =>
          \/ i = 1
          \/ s[i - 1] = "RBrace" /\ (i = 2 \/ s[i - 2] = "then_block")
    /\ s[i] \in {"loop_block", "then_block", "arms"} =>
          i = 1 \/ (s[i - 1] = "LBrace" => i = 2 \/ s[i - 2] = "deeper")
    /\ s[i] = "else_block" =>
          i = 1 \/ (s[i - 1] = "LBrace" => i = 2 \/ (i = 3 /\ s[1] = "Else"))

(* A loop stands in a function or in the algorithm zone itself, or its      *)
(* depth has not been looked at.                                            *)
Unchecked(s) ==
    \/ Len(s) >= 1 /\ s[1] = "flat"
    \/ Len(s) >= 2 /\ s[2] = "flat" /\ s[1] \in {"For", "While", "Loop"}
LoopBelow(s, i) ==
    /\ s[i] = "flat" => i = 1 \/ (i = 2 /\ s[1] \in {"For", "While", "Loop"})
    /\ s[i] = "loop_block" =>
          \/ s[i + 3] \in {"fn_block", "file"}
          \/ s[i + 3] \in Blocks /\ i > 1 /\ s[i - 1] = "LBrace" /\ Unchecked(s)

Chain(s) == s \in Seq(Symbols) /\ \A i \in DOMAIN s : Below(s, i) /\ Above(s, i)
Flatness(s) == \A i \in DOMAIN s : LoopBelow(s, i)

(* Every depth taken, or still to be taken, is given back.                  *)
Occurrences(s, x) == {i \in DOMAIN s : s[i] = x}
Count(s, x) == Cardinality(Occurrences(s, x))
Balanced == control_depth + Count(stack, "deeper") = Count(stack, "shallower")

(* The depth around a function, which is saved while its body is parsed, is *)
(* 0.                                                                       *)
InFn(s) ==
    /\ Len(s) >= 2 /\ s[Len(s) - 1] = "leave_fn"
    /\ Len(s) >= 6 => s[Len(s) - 5] # "enter_fn"
Saved == saved = IF InFn(stack) THEN <<0>> ELSE <<>>

(* Somewhere on the stack the literals are allowed again, and no body is    *)
(* open before.                                                             *)
InHeader(s) ==
    \E i \in DOMAIN s :
       /\ s[i] = "literals"
       /\ \A j \in DOMAIN s : j < i => s[j] \notin Blocks \cup {"arms", "stmt", "else"}

Undefining(s) ==
    s # <<>> /\ s[1] # "def_zone" => \A i \in DOMAIN s : s[i] \notin Definitions

PCore ==
    /\ Chain(stack) /\ Flatness(stack)
    /\ Parsing => /\ Balanced /\ Saved
                  /\ no_struct_lit => InHeader(stack)
                  /\ in_alg => Undefining(stack)
    /\ ~Parsing => stack = <<>>
PInv == ParserTypeOK /\ PCore

-----------------------------------------------------------------------------
(* What the methods push.                                                   *)

(* w can be put on top of whatever calls for it.                            *)
Plainly(w) == w \in Seq(Plain) /\ (w # <<>> => w[Len(w)] # "LBrace")

(* What may stand anywhere.                                                 *)
LEMMA PlainWords ==
    {"Alloc", "Amp", "Arrow", "As", "AsmBang", "Assign", "Base", "Bool", "Break",
     "Colon", "Comma", "Continue", "Defer", "Dot", "DotDot", "Else", "Enum",
     "Fn", "Ident", "Import", "Int", "LBrace", "LBracket", "LParen", "Let",
     "Minus", "Mut", "Not", "Ok", "Option", "OrElse", "OrPanic", "OrReturn",
     "OrZero", "Pipe", "Plus", "PlusAssign", "Prim", "Question", "RBrace",
     "RBracket", "RParen", "Read", "Result", "Return", "Safe", "Semi", "Star",
     "Str", "Type", "Underscore", "Void", "annotation", "args", "args_more",
     "asm_args", "assignment", "attrs", "binary", "binding", "comma_opt",
     "elems", "expr", "inits", "label", "member", "mode_opt", "mut_opt",
     "operands", "option_arg", "params", "params_more", "postfix", "primary",
     "question_opt", "range", "result_args", "return", "size_opt",
     "struct_lit", "ty", "ty_params", "ty_params_more", "type_fields",
     "unary", "variant", "variants"} \subseteq Plain
  BY SMTT(60) DEF Plain, PlainMethods, Definitions, TokenKinds, Identifiers, Operators,
                  Punctuation, Keywords, Literals

(* parse_type *)
LEMMA TyPlain ==
  ASSUME NEW t
  PROVE  Plainly(Ty(t))
<1>1. Ty(t) \in
         {<<"LBracket", "size_opt", "RBracket", "ty">>, <<"Fn", "LParen",
          "ty_params", "RParen", "Arrow", "ty">>, <<"Star", "mut_opt", "ty">>,
          <<"Prim">>, <<"Void">>, <<"Result", "result_args">>, <<"Option",
          "option_arg">>, <<"Ident">>}
  BY SMT DEF Ty, Choice
<1>2. Plainly(<<"LBracket", "size_opt", "RBracket", "ty">>)
  BY SMT, PlainWords DEF Plainly
<1>3. Plainly(<<"Fn", "LParen", "ty_params", "RParen", "Arrow", "ty">>)
  BY SMT, PlainWords DEF Plainly
<1>4. Plainly(<<"Star", "mut_opt", "ty">>)
  BY SMT, PlainWords DEF Plainly
<1>5. Plainly(<<"Prim">>)
  BY SMT, PlainWords DEF Plainly
<1>6. Plainly(<<"Void">>)
  BY SMT, PlainWords DEF Plainly
<1>7. Plainly(<<"Result", "result_args">>)
  BY SMT, PlainWords DEF Plainly
<1>8. Plainly(<<"Option", "option_arg">>)
  BY SMT, PlainWords DEF Plainly
<1>9. Plainly(<<"Ident">>)
  BY SMT, PlainWords DEF Plainly
<1> QED
  BY SMT, <1>1, <1>2, <1>3, <1>4, <1>5, <1>6, <1>7, <1>8, <1>9

(* The loop of parse_postfix. *)
LEMMA PostfixPlain ==
  ASSUME NEW t
  PROVE  Plainly(Postfix(t))
<1>1. Postfix(t) \in
         {<<"Dot", "member", "postfix">>, <<"LBracket", "expr", "RBracket",
          "postfix">>, <<"LParen", "args", "RParen", "postfix">>, <<"As",
          "ty", "postfix">>, <<>>}
  BY SMT DEF Postfix, Choice
<1>2. Plainly(<<"Dot", "member", "postfix">>)
  BY SMT, PlainWords DEF Plainly
<1>3. Plainly(<<"LBracket", "expr", "RBracket", "postfix">>)
  BY SMT, PlainWords DEF Plainly
<1>4. Plainly(<<"LParen", "args", "RParen", "postfix">>)
  BY SMT, PlainWords DEF Plainly
<1>5. Plainly(<<"As", "ty", "postfix">>)
  BY SMT, PlainWords DEF Plainly
<1>6. Plainly(<<>>)
  BY SMT, PlainWords DEF Plainly
<1> QED
  BY SMT, <1>1, <1>2, <1>3, <1>4, <1>5, <1>6

(* What follows a dot. *)
LEMMA MemberPlain ==
  ASSUME NEW t
  PROVE  Plainly(Member(t))
<1>1. Member(t) \in
         {<<"Alloc", "LParen", "ty", "Comma", "expr", "RParen">>,
          <<"OrReturn", "question_opt">>, <<"OrPanic", "LParen", "Str",
          "RParen">>, <<"OrElse", "LParen", "expr", "RParen">>, <<"OrZero">>,
          <<"Ident">>}
  BY SMT DEF Member, Choice
<1>2. Plainly(<<"Alloc", "LParen", "ty", "Comma", "expr", "RParen">>)
  BY SMT, PlainWords DEF Plainly
<1>3. Plainly(<<"OrReturn", "question_opt">>)
  BY SMT, PlainWords DEF Plainly
<1>4. Plainly(<<"OrPanic", "LParen", "Str", "RParen">>)
  BY SMT, PlainWords DEF Plainly
<1>5. Plainly(<<"OrElse", "LParen", "expr", "RParen">>)
  BY SMT, PlainWords DEF Plainly
<1>6. Plainly(<<"OrZero">>)
  BY SMT, PlainWords DEF Plainly
<1>7. Plainly(<<"Ident">>)
  BY SMT, PlainWords DEF Plainly
<1> QED
  BY SMT, <1>1, <1>2, <1>3, <1>4, <1>5, <1>6, <1>7

(* parse_stmt, but for the loops. *)
LEMMA StmtPlain ==
  ASSUME NEW t, t \notin {"For", "While", "Loop"}
  PROVE  Plainly(Stmt(t))
<1>1. Stmt(t) \in
         {<<"Let", "Ident", "annotation", "Assign", "expr">>, <<"Return",
          "return">>, <<"Defer", "expr">>, <<"Break">>, <<"Continue">>,
          <<"expr", "assignment">>}
  BY SMT DEF Stmt, Choice
<1>2. Plainly(<<"Let", "Ident", "annotation", "Assign", "expr">>)
  BY SMT, PlainWords DEF Plainly
<1>3. Plainly(<<"Return", "return">>)
  BY SMT, PlainWords DEF Plainly
<1>4. Plainly(<<"Defer", "expr">>)
  BY SMT, PlainWords DEF Plainly
<1>5. Plainly(<<"Break">>)
  BY SMT, PlainWords DEF Plainly
<1>6. Plainly(<<"Continue">>)
  BY SMT, PlainWords DEF Plainly
<1>7. Plainly(<<"expr", "assignment">>)
  BY SMT, PlainWords DEF Plainly
<1> QED
  BY SMT, <1>1, <1>2, <1>3, <1>4, <1>5, <1>6, <1>7

(* parse_primary, but for if and match. *)
LEMMA PrimaryPlain ==
  ASSUME NEW t, t \notin {"If", "Match"}
  PROVE  Plainly(Primary(t))
<1>1. Primary(t) \in
         {<<"Int">>, <<"Bool">>, <<"Str">>, <<"Ok", "LParen", "expr",
          "RParen">>, <<"AsmBang", "LParen", "Str", "asm_args", "RParen">>,
          <<"LBracket", "elems", "RBracket">>, <<"Void", "LBrace", "RBrace">>,
          <<"LParen", "expr", "RParen">>, <<"Ident", "struct_lit">>}
  BY SMT DEF Primary, Choice
<1>2. Plainly(<<"Int">>)
  BY SMT, PlainWords DEF Plainly
<1>3. Plainly(<<"Bool">>)
  BY SMT, PlainWords DEF Plainly
<1>4. Plainly(<<"Str">>)
  BY SMT, PlainWords DEF Plainly
<1>5. Plainly(<<"Ok", "LParen", "expr", "RParen">>)
  BY SMT, PlainWords DEF Plainly
<1>6. Plainly(<<"AsmBang", "LParen", "Str", "asm_args", "RParen">>)
  BY SMT, PlainWords DEF Plainly
<1>7. Plainly(<<"LBracket", "elems", "RBracket">>)
  BY SMT, PlainWords DEF Plainly
<1>8. Plainly(<<"Void", "LBrace", "RBrace">>)
  BY SMT, PlainWords DEF Plainly
<1>9. Plainly(<<"LParen", "expr", "RParen">>)
  BY SMT, PlainWords DEF Plainly
<1>10. Plainly(<<"Ident", "struct_lit">>)
  BY SMT, PlainWords DEF Plainly
<1> QED
  BY SMT, <1>1, <1>2, <1>3, <1>4, <1>5, <1>6, <1>7, <1>8, <1>9, <1>10

(* A plain method pushes nothing but tokens and plain methods. *)
LEMMA PlainExpansions ==
  ASSUME NEW r \in PlainMethods, NEW t
  PROVE  Plainly(Expansion(r, t))
<1>1. CASE r = "ring"
  <2>1. Expansion(r, t) = Ring(t)
    BY SMT, <1>1 DEF Expansion, Blocks
  <2> QED
    BY SMT, PlainWords, <2>1 DEF Ring, When, Plainly
<1>2. CASE r = "import"
  <2>1. Expansion(r, t) = Import
    BY SMT, <1>2 DEF Expansion, Blocks
  <2> QED
    BY SMT, PlainWords, <2>1 DEF Import, Plainly
<1>3. CASE r = "attrs_opt"
  <2>1. Expansion(r, t) = AttrsOpt(t)
    BY SMT, <1>3 DEF Expansion, Blocks
  <2> QED
    BY SMT, PlainWords, <2>1 DEF AttrsOpt, When, Plainly
<1>4. CASE r = "attrs"
  <2>1. Expansion(r, t) = Attrs(t)
    BY SMT, <1>4 DEF Expansion, Blocks
  <2> QED
    BY SMT, PlainWords, <2>1 DEF Attrs, Until, Plainly
<1>5. CASE r = "params"
  <2>1. Expansion(r, t) = Params(t)
    BY SMT, <1>5 DEF Expansion, Blocks
  <2> QED
    BY SMT, PlainWords, <2>1 DEF Params, Until, Modes, Plainly
<1>6. CASE r = "params_more"
  <2>1. Expansion(r, t) = ParamsMore(t)
    BY SMT, <1>6 DEF Expansion, Blocks
  <2> QED
    BY SMT, PlainWords, <2>1 DEF ParamsMore, When, Plainly
<1>7. CASE r = "type"
  <2>1. Expansion(r, t) = TypeDef
    BY SMT, <1>7 DEF Expansion, Blocks
  <2> QED
    BY SMT, PlainWords, <2>1 DEF TypeDef, Plainly
<1>8. CASE r = "type_fields"
  <2>1. Expansion(r, t) = TypeFields(t)
    BY SMT, <1>8 DEF Expansion, Blocks
  <2> QED
    BY SMT, PlainWords, <2>1 DEF TypeFields, Until, Plainly
<1>9. CASE r = "enum"
  <2>1. Expansion(r, t) = EnumDef
    BY SMT, <1>9 DEF Expansion, Blocks
  <2> QED
    BY SMT, PlainWords, <2>1 DEF EnumDef, Plainly
<1>10. CASE r = "variants"
  <2>1. Expansion(r, t) = Variants(t)
    BY SMT, <1>10 DEF Expansion, Blocks
  <2> QED
    BY SMT, PlainWords, <2>1 DEF Variants, Until, Plainly
<1>11. CASE r = "annotation"
  <2>1. Expansion(r, t) = Annotation(t)
    BY SMT, <1>11 DEF Expansion, Blocks
  <2> QED
    BY SMT, PlainWords, <2>1 DEF Annotation, When, Plainly
<1>12. CASE r = "comma_opt"
  <2>1. Expansion(r, t) = CommaOpt(t)
    BY SMT, <1>12 DEF Expansion, Blocks
  <2> QED
    BY SMT, PlainWords, <2>1 DEF CommaOpt, When, Plainly
<1>13. CASE r = "mode_opt"
  <2>1. Expansion(r, t) = ModeOpt(t)
    BY SMT, <1>13 DEF Expansion, Blocks
  <2> QED
    BY SMT, PlainWords, <2>1 DEF ModeOpt, When, Modes, Plainly
<1>14. CASE r = "mut_opt"
  <2>1. Expansion(r, t) = MutOpt(t)
    BY SMT, <1>14 DEF Expansion, Blocks
  <2> QED
    BY SMT, PlainWords, <2>1 DEF MutOpt, When, Plainly
<1>15. CASE r = "ty"
  <2>1. Expansion(r, t) = Ty(t)
    BY SMT, <1>15 DEF Expansion, Blocks
  <2> QED
    BY <2>1, TyPlain
<1>16. CASE r = "size_opt"
  <2>1. Expansion(r, t) = SizeOpt(t)
    BY SMT, <1>16 DEF Expansion, Blocks
  <2> QED
    BY SMT, PlainWords, <2>1 DEF SizeOpt, When, Plainly
<1>17. CASE r = "ty_params"
  <2>1. Expansion(r, t) = TyParams(t)
    BY SMT, <1>17 DEF Expansion, Blocks
  <2> QED
    BY SMT, PlainWords, <2>1 DEF TyParams, Until, Plainly
<1>18. CASE r = "ty_params_more"
  <2>1. Expansion(r, t) = TyParamsMore(t)
    BY SMT, <1>18 DEF Expansion, Blocks
  <2> QED
    BY SMT, PlainWords, <2>1 DEF TyParamsMore, When, Plainly
<1>19. CASE r = "result_args"
  <2>1. Expansion(r, t) = ResultArgs(t)
    BY SMT, <1>19 DEF Expansion, Blocks
  <2> QED
    BY SMT, PlainWords, <2>1 DEF ResultArgs, When, Plainly
<1>20. CASE r = "option_arg"
  <2>1. Expansion(r, t) = OptionArg(t)
    BY SMT, <1>20 DEF Expansion, Blocks
  <2> QED
    BY SMT, PlainWords, <2>1 DEF OptionArg, When, Plainly
<1>21. CASE r = "return"
  <2>1. Expansion(r, t) = Return(t)
    BY SMT, <1>21 DEF Expansion, Blocks
  <2> QED
    BY SMT, PlainWords, <2>1 DEF Return, Until, Plainly
<1>22. CASE r = "assignment"
  <2>1. Expansion(r, t) = Assignment(t)
    BY SMT, <1>22 DEF Expansion, Blocks
  <2> QED
    BY SMT, PlainWords, <2>1 DEF Assignment, When, Plainly
<1>23. CASE r = "expr"
  <2>1. Expansion(r, t) = Expr
    BY SMT, <1>23 DEF Expansion, Blocks
  <2> QED
    BY SMT, PlainWords, <2>1 DEF Expr, Plainly
<1>24. CASE r = "range"
  <2>1. Expansion(r, t) = RangeEnd(t)
    BY SMT, <1>24 DEF Expansion, Blocks
  <2> QED
    BY SMT, PlainWords, <2>1 DEF RangeEnd, When, Plainly
<1>25. CASE r = "operands"
  <2>1. Expansion(r, t) = Operands
    BY SMT, <1>25 DEF Expansion, Blocks
  <2> QED
    BY SMT, PlainWords, <2>1 DEF Operands, Plainly
<1>26. CASE r = "binary"
  <2>1. Expansion(r, t) = Binary(t, ahead[1].nl)
    BY SMT, <1>26 DEF Expansion, Blocks
  <2> QED
    BY SMT, PlainWords, <2>1 DEF Binary, When, Plainly
<1>27. CASE r = "unary"
  <2>1. Expansion(r, t) = Unary(t)
    BY SMT, <1>27 DEF Expansion, Blocks
  <2> QED
    BY SMT, PlainWords, <2>1 DEF Unary, Plainly
<1>28. CASE r = "postfix"
  <2>1. Expansion(r, t) = Postfix(t)
    BY SMT, <1>28 DEF Expansion, Blocks
  <2> QED
    BY <2>1, PostfixPlain
<1>29. CASE r = "member"
  <2>1. Expansion(r, t) = Member(t)
    BY SMT, <1>29 DEF Expansion, Blocks
  <2> QED
    BY <2>1, MemberPlain
<1>30. CASE r = "question_opt"
  <2>1. Expansion(r, t) = QuestionOpt(t)
    BY SMT, <1>30 DEF Expansion, Blocks
  <2> QED
    BY SMT, PlainWords, <2>1 DEF QuestionOpt, When, Plainly
<1>31. CASE r = "pattern"
  <2>1. Expansion(r, t) = Pattern(t)
    BY SMT, <1>31 DEF Expansion, Blocks
  <2> QED
    BY SMT, PlainWords, <2>1 DEF Pattern, Choice, Plainly
<1>32. CASE r = "variant"
  <2>1. Expansion(r, t) = Variant(t)
    BY SMT, <1>32 DEF Expansion, Blocks
  <2> QED
    BY SMT, PlainWords, <2>1 DEF Variant, When, Plainly
<1>33. CASE r = "binding"
  <2>1. Expansion(r, t) = Binding(t)
    BY SMT, <1>33 DEF Expansion, Blocks
  <2> QED
    BY SMT, PlainWords, <2>1 DEF Binding, When, Plainly
<1>34. CASE r = "asm_args"
  <2>1. Expansion(r, t) = AsmArgs(t)
    BY SMT, <1>34 DEF Expansion, Blocks
  <2> QED
    BY SMT, PlainWords, <2>1 DEF AsmArgs, When, Plainly
<1>35. CASE r = "elems"
  <2>1. Expansion(r, t) = Elems(t)
    BY SMT, <1>35 DEF Expansion, Blocks
  <2> QED
    BY SMT, PlainWords, <2>1 DEF Elems, Until, Plainly
<1>36. CASE r = "struct_lit"
  <2>1. Expansion(r, t) = StructLit
    BY SMT, <1>36 DEF Expansion, Blocks
  <2> QED
    BY SMT, PlainWords, <2>1 DEF StructLit, Plainly
<1>37. CASE r = "inits"
  <2>1. Expansion(r, t) = Inits(t)
    BY SMT, <1>37 DEF Expansion, Blocks
  <2> QED
    BY SMT, PlainWords, <2>1 DEF Inits, Until, Plainly
<1>38. CASE r = "args"
  <2>1. Expansion(r, t) = Args(t)
    BY SMT, <1>38 DEF Expansion, Blocks
  <2> QED
    BY SMT, PlainWords, <2>1 DEF Args, Until, Plainly
<1>39. CASE r = "args_more"
  <2>1. Expansion(r, t) = ArgsMore(t)
    BY SMT, <1>39 DEF Expansion, Blocks
  <2> QED
    BY SMT, PlainWords, <2>1 DEF ArgsMore, When, Plainly
<1>40. CASE r = "label"
  <2>1. Expansion(r, t) = Label
    BY SMT, <1>40 DEF Expansion, Blocks
  <2> QED
    BY SMT, PlainWords, <2>1 DEF Label, Plainly
<1> QED
  BY <1>1, <1>2, <1>3, <1>4, <1>5, <1>6, <1>7, <1>8, <1>9, <1>10, <1>11,
     <1>12, <1>13, <1>14, <1>15, <1>16, <1>17, <1>18, <1>19, <1>20, <1>21,
     <1>22, <1>23, <1>24, <1>25, <1>26, <1>27, <1>28, <1>29, <1>30, <1>31,
     <1>32, <1>33, <1>34, <1>35, <1>36, <1>37, <1>38, <1>39, <1>40 DEF
     PlainMethods

-----------------------------------------------------------------------------
(* What stands above and below a symbol, when one is done or others are put *)
(* in front.                                                                *)

(* What has to stand above s[i] does. *)
Standing(s, i) ==
    /\ s[i] = "shallower" =>
          \/ i > 1 /\ s[i - 1] = "else"
          \/ i > 2 /\ s[i - 1] = "RBrace" /\ s[i - 2] \in {"loop_block", "else_block", "arms"}
    /\ s[i] = "else" => i > 2 /\ s[i - 1] = "RBrace" /\ s[i - 2] = "then_block"
    /\ s[i] \in {"loop_block", "then_block", "arms"} /\ i > 1 /\ s[i - 1] = "LBrace" =>
          i > 2 /\ s[i - 2] = "deeper"
    /\ s[i] = "else_block" /\ i > 1 => s[i - 1] # "LBrace"
Firm(s) == \A i \in DOMAIN s : Standing(s, i)

(* The first of a sequence is done. *)
LEMMA ChainTail ==
  ASSUME NEW s, Chain(s), s # <<>>
  PROVE  Chain(Tail(s))
<1> DEFINE u == Tail(s)
<1>1. /\ s \in Seq(Symbols) /\ u \in Seq(Symbols)
      /\ Len(s) \in Nat /\ Len(u) = Len(s) - 1
      /\ DOMAIN s = 1..Len(s) /\ DOMAIN u = 1..Len(u)
      /\ \A i \in 1..Len(u) : u[i] = s[i + 1]
  BY HeadTailProperties, LenProperties DEF Chain
<1> HIDE DEF u
<1>2. ASSUME NEW i \in 1..Len(u)
      PROVE  Below(u, i)
  <2>1. Below(s, i + 1)
    BY SMT, <1>1 DEF Chain
  <2> QED
    BY SMT, <1>1, <2>1 DEF Below
<1>3. ASSUME NEW i \in 1..Len(u)
      PROVE  Above(u, i)
  <2>1. Above(s, i + 1)
    BY SMT, <1>1 DEF Chain
  <2> QED
    BY SMT, <1>1, <2>1 DEF Above
<1> QED
  BY <1>1, <1>2, <1>3 DEF Chain, u

(* A method other than else, on top, has nothing above what remains.        *)
LEMMA FirmTail ==
  ASSUME NEW s, Chain(s), s # <<>>,
         s[1] \notin {"RBrace", "LBrace", "deeper", "else", "Else",
                      "then_block", "loop_block", "else_block", "arms"}
  PROVE  Firm(Tail(s))
<1> DEFINE u == Tail(s)
<1>1. /\ s \in Seq(Symbols) /\ u \in Seq(Symbols)
      /\ Len(s) \in Nat /\ Len(u) = Len(s) - 1
      /\ DOMAIN s = 1..Len(s) /\ DOMAIN u = 1..Len(u)
      /\ \A i \in 1..Len(u) : u[i] = s[i + 1]
  BY HeadTailProperties, LenProperties DEF Chain
<1> HIDE DEF u
<1>2. ASSUME NEW i \in 1..Len(u)
      PROVE  Standing(u, i)
  <2>1. Above(s, i + 1)
    BY SMT, <1>1 DEF Chain
  <2>2. u[i] = s[i + 1] /\ s[(i + 1) - 1] = s[i] /\ s[(i + 1) - 2] = s[i - 1]
    BY SMT, <1>1
  <2>3. i > 1 => u[i - 1] = s[i]
    BY SMT, <1>1
  <2>4. i > 2 => u[i - 2] = s[i - 1]
    BY SMT, <1>1
  <2>5. i = 1 => s[i] = s[1]
    OBVIOUS
  <2>6. i = 2 => s[i - 1] = s[1]
    BY SMT
  <2>7. i + 1 # 1 /\ (i + 1 = 2 => i = 1) /\ (i + 1 = 3 => i = 2) /\ i \in Nat /\ i >= 1
    BY SMT, <1>1
  <2> QED
    BY SMT, <2>1, <2>2, <2>3, <2>4, <2>5, <2>6, <2>7 DEF Above, Standing
<1> QED
  BY <1>1, <1>2 DEF Firm, u

(* A list on top has nothing above it and needs nothing.                    *)
LEMMA FirmList ==
  ASSUME NEW s, Chain(s), s # <<>>, s[1] \in Blocks \cup {"arms"}
  PROVE  Firm(s)
<1>1. /\ s \in Seq(Symbols) /\ Len(s) \in Nat /\ DOMAIN s = 1..Len(s)
  BY LenProperties DEF Chain
<1>2. ASSUME NEW i \in 1..Len(s)
      PROVE  Standing(s, i)
  <2>1. Above(s, i)
    BY SMT, <1>1 DEF Chain
  <2> QED
    BY SMT, <1>1, <2>1 DEF Above, Standing, Blocks
<1> QED
  BY <1>1, <1>2 DEF Firm

(* A symbol that is moved with what follows it stands on the same.          *)
LEMMA Within ==
  ASSUME NEW i \in Nat, NEW a \in Nat
  PROVE  /\ i + 2 <= a => i + 1 <= a
         /\ i + 3 <= a => i + 1 <= a /\ i + 2 <= a
         /\ i + 1 = a => i + 1 <= a
         /\ i + 2 = a => i + 1 <= a /\ i + 2 <= a
         /\ i + 3 = a => i + 1 <= a /\ i + 2 <= a
  BY SMT

(* w is put in front of u. *)
LEMMA ChainConcat ==
  ASSUME NEW w \in Seq(Symbols), NEW u, Chain(u), Firm(u),
         w # <<>> => w[Len(w)] # "LBrace",
         \A i \in 1..Len(w) : Below(w \o u, i) /\ Above(w \o u, i)
  PROVE  Chain(w \o u)
<1> DEFINE s == w \o u
           n == Len(w)
<1>1. /\ u \in Seq(Symbols) /\ s \in Seq(Symbols)
      /\ n \in Nat /\ Len(u) \in Nat /\ Len(s) = n + Len(u)
      /\ DOMAIN s = 1..Len(s) /\ DOMAIN u = 1..Len(u)
      /\ \A i \in 1..n : s[i] = w[i]
      /\ \A i \in 1..Len(u) : s[n + i] = u[i]
  <2>1. /\ u \in Seq(Symbols) /\ s \in Seq(Symbols)
        /\ n \in Nat /\ Len(u) \in Nat /\ Len(s) = n + Len(u)
        /\ DOMAIN s = 1..Len(s) /\ DOMAIN u = 1..Len(u)
        /\ \A i \in 1..n + Len(u) : s[i] = IF i <= n THEN w[i] ELSE u[i - n]
    BY ConcatProperties, LenProperties DEF Chain
  <2> HIDE DEF s, n
  <2>2. \A i \in 1..n : i \in 1..n + Len(u) /\ i <= n
    BY ONLY <2>1, SMT
  <2>3. \A i \in 1..Len(u) : n + i \in 1..n + Len(u) /\ ~(n + i <= n) /\ (n + i) - n = i
    BY ONLY <2>1, SMT
  <2>4. \A i \in 1..n : s[i] = w[i]
    BY ONLY <2>1, <2>2, Zenon
  <2>5. \A i \in 1..Len(u) : s[n + i] = u[i]
    BY ONLY <2>1, <2>3, Zenon
  <2> QED
    BY ONLY <2>1, <2>4, <2>5, Zenon
<1>2. n > 0 => w[n] # "LBrace"
  BY <1>1
<1>3. \A i \in 1..n : Below(s, i) /\ Above(s, i)
  OBVIOUS
<1> HIDE DEF s, n
<1>4. ASSUME NEW i \in 1..Len(u)
      PROVE  Below(s, n + i)
  <2>1. Below(u, i)
    BY <1>1 DEF Chain
  <2>2. s[n + i] = u[i]
    BY <1>1
  <2>3. i + 1 <= Len(u) => s[(n + i) + 1] = u[i + 1]
    <3>1. i + 1 <= Len(u) => i + 1 \in 1..Len(u)
      BY SMT, <1>1
    <3>2. n + (i + 1) = (n + i) + 1
      BY SMT, <1>1
    <3> QED
      BY <1>1, <3>1, <3>2
  <2>4. i + 2 <= Len(u) => s[(n + i) + 2] = u[i + 2]
    <3>1. i + 2 <= Len(u) => i + 2 \in 1..Len(u)
      BY SMT, <1>1
    <3>2. n + (i + 2) = (n + i) + 2
      BY SMT, <1>1
    <3> QED
      BY <1>1, <3>1, <3>2
  <2>5. i \in Nat /\ n \in Nat /\ Len(u) \in Nat /\ Len(s) = n + Len(u)
    BY SMT, <1>1
  <2> DEFINE k == n + i
             a == Len(u)
             z == Len(s)
  <2>x. i \in Nat /\ n \in Nat /\ a \in Nat /\ z = n + a
    BY ONLY <2>5
  <2> HIDE DEF a, z
  <2>6. /\ k + 1 <= z <=> i + 1 <= a
        /\ k + 2 <= z <=> i + 2 <= a
        /\ k + 3 <= z <=> i + 3 <= a
        /\ k = z <=> i = a
        /\ k + 1 = z <=> i + 1 = a
        /\ k + 2 = z <=> i + 2 = a
        /\ k + 3 = z <=> i + 3 = a
    BY ONLY <2>x, SMT DEF k
  <2>7. s[k] = u[i] /\ (i + 1 <= a => s[k + 1] = u[i + 1])
                   /\ (i + 2 <= a => s[k + 2] = u[i + 2])
    BY ONLY <2>2, <2>3, <2>4, Zenon DEF a
  <2>8. /\ i + 2 <= a => i + 1 <= a
        /\ i + 3 <= a => i + 1 <= a /\ i + 2 <= a
        /\ i + 1 = a => i + 1 <= a
        /\ i + 2 = a => i + 1 <= a /\ i + 2 <= a
        /\ i + 3 = a => i + 1 <= a /\ i + 2 <= a
    BY ONLY <2>x, Within, Zenon
  <2> HIDE DEF k
  <2>9. Below(s, k)
    <3>1. s[k] \in {"loop_block", "else_block", "arms"} =>
            k + 3 <= z /\ s[k + 1] = "RBrace" /\ s[k + 2] = "shallower"
      BY ONLY <2>1, <2>6, <2>7, <2>8, Zenon DEF Below, a, z
    <3>2. s[k] = "then_block" => k + 3 <= z /\ s[k + 1] = "RBrace" /\ s[k + 2] = "else"
      BY ONLY <2>1, <2>6, <2>7, <2>8, Zenon DEF Below, a, z
    <3>3. s[k] = "else" => k + 1 <= z /\ s[k + 1] = "shallower"
      BY ONLY <2>1, <2>6, <2>7, <2>8, Zenon DEF Below, a, z
    <3>4. s[k] = "fn_block" => k + 3 = z /\ s[k + 1] = "RBrace" /\ s[k + 2] = "leave_fn"
      BY ONLY <2>1, <2>6, <2>7, <2>8, Zenon DEF Below, a, z
    <3>5. s[k] = "deeper" =>
            k + 2 <= z /\ s[k + 1] = "LBrace" /\ s[k + 2] \in {"loop_block", "then_block", "arms"}
      BY ONLY <2>1, <2>6, <2>7, <2>8, Zenon DEF Below, a, z
    <3>6. s[k] = "no_literals" => k + 2 <= z /\ s[k + 1] = "expr" /\ s[k + 2] = "literals"
      BY ONLY <2>1, <2>6, <2>7, <2>8, Zenon DEF Below, a, z
    <3>7. s[k] = "enter_fn" => k + 2 <= z /\ s[k + 1] = "LBrace" /\ s[k + 2] = "fn_block"
      BY ONLY <2>1, <2>6, <2>7, <2>8, Zenon DEF Below, a, z
    <3>8. s[k] \in {"leave_fn", "fn", "ext"} => k + 1 = z
      BY ONLY <2>1, <2>6, <2>7, <2>8, Zenon DEF Below, a, z
    <3>9. s[k] = "stmt" => k + 1 <= z /\ s[k + 1] \in Blocks \cup {"file"}
      BY ONLY <2>1, <2>6, <2>7, <2>8, Zenon DEF Below, a, z
    <3>10. s[k] = "alg_zone" => k + 2 = z /\ s[k + 1] = "stmt"
      BY ONLY <2>1, <2>6, <2>7, <2>8, Zenon DEF Below, a, z
    <3>11. s[k] = "file" <=> k = z
      BY ONLY <2>1, <2>6, <2>7, <2>8, Zenon DEF Below, a, z
    <3> QED
      BY ONLY <3>1, <3>2, <3>3, <3>4, <3>5, <3>6, <3>7, <3>8, <3>9, <3>10, <3>11, Zenon DEF Below, a, z
  <2> QED
    BY <2>9 DEF k
<1>5. ASSUME NEW i \in 1..Len(u)
      PROVE  Above(s, n + i)
  <2>1. Above(u, i) /\ Standing(u, i)
    BY <1>1 DEF Chain, Firm
  <2>2. i = 1 => n + i = 1 \/ s[n + i - 1] # "LBrace"
    BY SMT, <1>1, <1>2
  <2>3. i > 1 => s[n + i - 1] = u[i - 1]
    BY SMT, <1>1
  <2>4. i > 2 => s[n + i - 2] = u[i - 2]
    BY SMT, <1>1
  <2>5. s[n + i] = u[i]
    BY <1>1
  <2>6. n \in Nat /\ i \in Nat /\ i >= 1
    BY SMT, <1>1
  <2>7. /\ n + i = 2 => i = 1 \/ i = 2
        /\ n + i = 3 => i = 1 \/ i = 2 \/ i = 3
        /\ i = 1 \/ i > 1
        /\ i > 1 => i = 2 \/ i > 2
        /\ i > 2 => i = 3 \/ i > 3
        /\ i > 2 => i > 1
    BY ONLY <2>6, SMT
  <2> QED
    BY SMT, <2>1, <2>2, <2>3, <2>4, <2>5, <2>6, <2>7 DEF Above, Standing
<1>6. ASSUME NEW i \in 1..Len(s)
      PROVE  Below(s, i) /\ Above(s, i)
  <2>1. CASE i <= n
    BY SMT, <1>1, <1>3, <2>1
  <2>2. CASE i > n
    <3>1. i - n \in 1..Len(u) /\ n + (i - n) = i
      BY SMT, <1>1, <2>2
    <3> QED
      BY <1>4, <1>5, <3>1
  <2> QED
    BY SMT, <1>1, <2>1, <2>2
<1> QED
  BY <1>1, <1>6 DEF Chain, s

-----------------------------------------------------------------------------
(* Each form that is pushed leaves the stack a chain.                       *)

Marked == Definitions \cup ControlBlocks \cup {"else", "stmt", "file"} \cup Assignments

(* The names the proofs group the contents of the stack by.                 *)
LEMMA PlainSymbols ==
  /\ Plain \subseteq Symbols
  /\ \A x \in Plain : x \notin Marked
<1> USE DEF Plain, PlainMethods, Definitions, ControlBlocks, Assignments, TokenKinds, Identifiers,
            Operators, Punctuation, Keywords, Literals
<1>1. Plain \subseteq Symbols
  BY DEF Symbols
<1>2. ASSUME NEW x \in Plain
      PROVE  x \notin Marked
  <2>1. CASE x \in TokenKinds
    BY SMT, <2>1 DEF Marked
  <2>2. CASE x \in PlainMethods \cup {"primary"}
    BY SMT, <2>2 DEF Marked
  <2> QED
    BY <2>1, <2>2
<1> QED
  BY <1>1, <1>2

LEMMA SpecialSymbols == Marked \subseteq Symbols
  BY DEF Marked, ControlBlocks, Symbols, Blocks

LEMMA TokenSymbols == TokenKinds \subseteq Symbols
  BY SMTT(30) DEF Symbols, Plain, Definitions, TokenKinds, Identifiers,
            Operators, Punctuation, Keywords, Literals

(* Plain symbols. *)
LEMMA ChainPlain ==
  ASSUME NEW w, Plainly(w), NEW u, Chain(u), Firm(u), u # <<>>
  PROVE  Chain(w \o u)
<1>1. w \in Seq(Plain) /\ w \in Seq(Symbols) /\ u \in Seq(Symbols)
  BY SeqMonotonic, PlainSymbols DEF Plainly, Chain
<1>2. /\ Len(w) \in Nat /\ Len(u) \in Nat \ {0} /\ Len(w \o u) = Len(w) + Len(u)
      /\ \A i \in 1..Len(w) : (w \o u)[i] = w[i] /\ w[i] \in Plain
  BY SMT, <1>1, ConcatProperties, LenProperties, ElementOfSeq, EmptySeq
<1>3. ASSUME NEW i \in 1..Len(w)
      PROVE  Below(w \o u, i) /\ Above(w \o u, i)
  <2>1. (w \o u)[i] \notin Marked
    BY <1>2, PlainSymbols
  <2>2. i # Len(w \o u)
    BY SMT, <1>2
  <2> QED
    BY SMT, <2>1, <2>2 DEF Below, Above, Marked, Definitions, ControlBlocks, Assignments
<1> QED
  BY <1>1, <1>3, ChainConcat DEF Plainly

(* The last of a form is what was on top. *)
LEMMA Regroup ==
  ASSUME NEW S, NEW v \in Seq(S), NEW s \in Seq(S), s # <<>>
  PROVE  (v \o <<s[1]>>) \o Tail(s) = v \o s
<1>1. s[1] \in S /\ Tail(s) \in Seq(S) /\ <<s[1]>> \in Seq(S)
  BY SMT, HeadTailProperties
<1>2. <<s[1]>> \o Tail(s) = s
  BY SMT, <1>1, HeadTailProperties
<1> QED
  BY <1>1, <1>2, ConcatAssociative

(* The other symbols stand anywhere. *)
LEMMA Unconcerned ==
  ASSUME NEW s, NEW i, i # Len(s),
         s[i] \notin (Marked \ {"flat", "literals"})
  PROVE  Below(s, i) /\ Above(s, i)
  BY SMT DEF Below, Above, Marked, Definitions, ControlBlocks, Assignments

(* parse_for, parse_while, parse_loop, parse_if and parse_match push what gives*)
(* the depth back along with what takes it.                                 *)
LEMMA ChainFor ==
  ASSUME NEW u, Chain(u), Firm(u), u # <<>>
  PROVE  Chain(For \o u)
<1> DEFINE s == For \o u
<1>1. For \in Seq(Symbols)
  BY SMT, TokenSymbols, SpecialSymbols, PlainSymbols, PlainWords
     DEF For, Marked, TokenKinds, ControlBlocks, Assignments, Keywords
<1>2. u \in Seq(Symbols) /\ Len(u) \in Nat \ {0}
  BY LenProperties, EmptySeq DEF Chain
<1>3. /\ Len(s) = 12 + Len(u)
      /\ s[1] = "For" /\ s[2] = "flat" /\ s[3] = "Ident" /\ s[4] = "In" /\
         s[5] = "no_literals" /\ s[6] = "expr" /\ s[7] = "literals" /\ s[8] =
         "deeper" /\ s[9] = "LBrace" /\ s[10] = "loop_block" /\ s[11] =
         "RBrace" /\ s[12] = "shallower"
  BY SMT, <1>1, <1>2 DEF For
<1> HIDE DEF s
<1>4. \A i \in {1, 2, 3, 4, 6, 7, 9, 11} : Below(s, i) /\ Above(s, i)
  <2>1. \A i \in {1, 2, 3, 4, 6, 7, 9, 11} : s[i] \notin (Marked \ {"flat", "literals"})
    BY SMT, <1>3 DEF Marked, Definitions, ControlBlocks, Assignments
  <2>2. \A i \in {1, 2, 3, 4, 6, 7, 9, 11} : i # Len(s)
    BY SMT, <1>2, <1>3
  <2> QED
    BY <2>1, <2>2, Unconcerned
<1>5. Below(s, 5) /\ Above(s, 5)
  BY SMT, <1>2, <1>3 DEF Below, Above
<1>6. Below(s, 8) /\ Above(s, 8)
  BY SMT, <1>2, <1>3 DEF Below, Above
<1>7. Below(s, 10) /\ Above(s, 10)
  BY SMT, <1>2, <1>3 DEF Below, Above
<1>8. Below(s, 12) /\ Above(s, 12)
  BY SMT, <1>2, <1>3 DEF Below, Above
<1>9. Len(For) = 12 /\ For # <<>> /\ For[Len(For)] # "LBrace"
  BY SMT DEF For
<1>10. \A i \in 1..12 : Below(s, i) /\ Above(s, i)
  BY SMT, <1>4, <1>5, <1>6, <1>7, <1>8, <1>9
<1> QED
  BY <1>1, <1>9, <1>10, ChainConcat DEF s

LEMMA ChainWhile ==
  ASSUME NEW u, Chain(u), Firm(u), u # <<>>
  PROVE  Chain(While \o u)
<1> DEFINE s == While \o u
<1>1. While \in Seq(Symbols)
  BY SMT, TokenSymbols, SpecialSymbols, PlainSymbols, PlainWords
     DEF While, Marked, TokenKinds, ControlBlocks, Assignments, Keywords
<1>2. u \in Seq(Symbols) /\ Len(u) \in Nat \ {0}
  BY LenProperties, EmptySeq DEF Chain
<1>3. /\ Len(s) = 10 + Len(u)
      /\ s[1] = "While" /\ s[2] = "flat" /\ s[3] = "no_literals" /\ s[4] =
         "expr" /\ s[5] = "literals" /\ s[6] = "deeper" /\ s[7] = "LBrace" /\
         s[8] = "loop_block" /\ s[9] = "RBrace" /\ s[10] = "shallower"
  BY SMT, <1>1, <1>2 DEF While
<1> HIDE DEF s
<1>4. \A i \in {1, 2, 4, 5, 7, 9} : Below(s, i) /\ Above(s, i)
  <2>1. \A i \in {1, 2, 4, 5, 7, 9} : s[i] \notin (Marked \ {"flat", "literals"})
    BY SMT, <1>3 DEF Marked, Definitions, ControlBlocks, Assignments
  <2>2. \A i \in {1, 2, 4, 5, 7, 9} : i # Len(s)
    BY SMT, <1>2, <1>3
  <2> QED
    BY <2>1, <2>2, Unconcerned
<1>5. Below(s, 3) /\ Above(s, 3)
  BY SMT, <1>2, <1>3 DEF Below, Above
<1>6. Below(s, 6) /\ Above(s, 6)
  BY SMT, <1>2, <1>3 DEF Below, Above
<1>7. Below(s, 8) /\ Above(s, 8)
  BY SMT, <1>2, <1>3 DEF Below, Above
<1>8. Below(s, 10) /\ Above(s, 10)
  BY SMT, <1>2, <1>3 DEF Below, Above
<1>9. Len(While) = 10 /\ While # <<>> /\ While[Len(While)] # "LBrace"
  BY SMT DEF While
<1>10. \A i \in 1..10 : Below(s, i) /\ Above(s, i)
  BY SMT, <1>4, <1>5, <1>6, <1>7, <1>8, <1>9
<1> QED
  BY <1>1, <1>9, <1>10, ChainConcat DEF s

LEMMA ChainLoop ==
  ASSUME NEW u, Chain(u), Firm(u), u # <<>>
  PROVE  Chain(Loop \o u)
<1> DEFINE s == Loop \o u
<1>1. Loop \in Seq(Symbols)
  BY SMT, TokenSymbols, SpecialSymbols, PlainSymbols, PlainWords
     DEF Loop, Marked, TokenKinds, ControlBlocks, Assignments, Keywords
<1>2. u \in Seq(Symbols) /\ Len(u) \in Nat \ {0}
  BY LenProperties, EmptySeq DEF Chain
<1>3. /\ Len(s) = 7 + Len(u)
      /\ s[1] = "Loop" /\ s[2] = "flat" /\ s[3] = "deeper" /\ s[4] = "LBrace"
         /\ s[5] = "loop_block" /\ s[6] = "RBrace" /\ s[7] = "shallower"
  BY SMT, <1>1, <1>2 DEF Loop
<1> HIDE DEF s
<1>4. \A i \in {1, 2, 4, 6} : Below(s, i) /\ Above(s, i)
  <2>1. \A i \in {1, 2, 4, 6} : s[i] \notin (Marked \ {"flat", "literals"})
    BY SMT, <1>3 DEF Marked, Definitions, ControlBlocks, Assignments
  <2>2. \A i \in {1, 2, 4, 6} : i # Len(s)
    BY SMT, <1>2, <1>3
  <2> QED
    BY <2>1, <2>2, Unconcerned
<1>5. Below(s, 3) /\ Above(s, 3)
  BY SMT, <1>2, <1>3 DEF Below, Above
<1>6. Below(s, 5) /\ Above(s, 5)
  BY SMT, <1>2, <1>3 DEF Below, Above
<1>7. Below(s, 7) /\ Above(s, 7)
  BY SMT, <1>2, <1>3 DEF Below, Above
<1>8. Len(Loop) = 7 /\ Loop # <<>> /\ Loop[Len(Loop)] # "LBrace"
  BY SMT DEF Loop
<1>9. \A i \in 1..7 : Below(s, i) /\ Above(s, i)
  BY SMT, <1>4, <1>5, <1>6, <1>7, <1>8
<1> QED
  BY <1>1, <1>8, <1>9, ChainConcat DEF s

LEMMA ChainIf ==
  ASSUME NEW u, Chain(u), Firm(u), u # <<>>
  PROVE  Chain(If \o u)
<1> DEFINE s == If \o u
<1>1. If \in Seq(Symbols)
  BY SMT, TokenSymbols, SpecialSymbols, PlainSymbols, PlainWords
     DEF If, Marked, TokenKinds, ControlBlocks, Assignments, Keywords
<1>2. u \in Seq(Symbols) /\ Len(u) \in Nat \ {0}
  BY LenProperties, EmptySeq DEF Chain
<1>3. /\ Len(s) = 10 + Len(u)
      /\ s[1] = "If" /\ s[2] = "no_literals" /\ s[3] = "expr" /\ s[4] =
         "literals" /\ s[5] = "deeper" /\ s[6] = "LBrace" /\ s[7] =
         "then_block" /\ s[8] = "RBrace" /\ s[9] = "else" /\ s[10] =
         "shallower"
  BY SMT, <1>1, <1>2 DEF If
<1> HIDE DEF s
<1>4. \A i \in {1, 3, 4, 6, 8} : Below(s, i) /\ Above(s, i)
  <2>1. \A i \in {1, 3, 4, 6, 8} : s[i] \notin (Marked \ {"flat", "literals"})
    BY SMT, <1>3 DEF Marked, Definitions, ControlBlocks, Assignments
  <2>2. \A i \in {1, 3, 4, 6, 8} : i # Len(s)
    BY SMT, <1>2, <1>3
  <2> QED
    BY <2>1, <2>2, Unconcerned
<1>5. Below(s, 2) /\ Above(s, 2)
  BY SMT, <1>2, <1>3 DEF Below, Above
<1>6. Below(s, 5) /\ Above(s, 5)
  BY SMT, <1>2, <1>3 DEF Below, Above
<1>7. Below(s, 7) /\ Above(s, 7)
  BY SMT, <1>2, <1>3 DEF Below, Above
<1>8. Below(s, 9) /\ Above(s, 9)
  BY SMT, <1>2, <1>3 DEF Below, Above
<1>9. Below(s, 10) /\ Above(s, 10)
  BY SMT, <1>2, <1>3 DEF Below, Above
<1>10. Len(If) = 10 /\ If # <<>> /\ If[Len(If)] # "LBrace"
  BY SMT DEF If
<1>11. \A i \in 1..10 : Below(s, i) /\ Above(s, i)
  BY SMT, <1>4, <1>5, <1>6, <1>7, <1>8, <1>9, <1>10
<1> QED
  BY <1>1, <1>10, <1>11, ChainConcat DEF s

LEMMA ChainMatch ==
  ASSUME NEW u, Chain(u), Firm(u), u # <<>>
  PROVE  Chain(Match \o u)
<1> DEFINE s == Match \o u
<1>1. Match \in Seq(Symbols)
  BY SMT, TokenSymbols, SpecialSymbols, PlainSymbols, PlainWords
     DEF Match, Marked, TokenKinds, ControlBlocks, Assignments, Keywords
<1>2. u \in Seq(Symbols) /\ Len(u) \in Nat \ {0}
  BY LenProperties, EmptySeq DEF Chain
<1>3. /\ Len(s) = 9 + Len(u)
      /\ s[1] = "Match" /\ s[2] = "no_literals" /\ s[3] = "expr" /\ s[4] =
         "literals" /\ s[5] = "deeper" /\ s[6] = "LBrace" /\ s[7] = "arms" /\
         s[8] = "RBrace" /\ s[9] = "shallower"
  BY SMT, <1>1, <1>2 DEF Match
<1> HIDE DEF s
<1>4. \A i \in {1, 3, 4, 6, 8} : Below(s, i) /\ Above(s, i)
  <2>1. \A i \in {1, 3, 4, 6, 8} : s[i] \notin (Marked \ {"flat", "literals"})
    BY SMT, <1>3 DEF Marked, Definitions, ControlBlocks, Assignments
  <2>2. \A i \in {1, 3, 4, 6, 8} : i # Len(s)
    BY SMT, <1>2, <1>3
  <2> QED
    BY <2>1, <2>2, Unconcerned
<1>5. Below(s, 2) /\ Above(s, 2)
  BY SMT, <1>2, <1>3 DEF Below, Above
<1>6. Below(s, 5) /\ Above(s, 5)
  BY SMT, <1>2, <1>3 DEF Below, Above
<1>7. Below(s, 7) /\ Above(s, 7)
  BY SMT, <1>2, <1>3 DEF Below, Above
<1>8. Below(s, 9) /\ Above(s, 9)
  BY SMT, <1>2, <1>3 DEF Below, Above
<1>9. Len(Match) = 9 /\ Match # <<>> /\ Match[Len(Match)] # "LBrace"
  BY SMT DEF Match
<1>10. \A i \in 1..9 : Below(s, i) /\ Above(s, i)
  BY SMT, <1>4, <1>5, <1>6, <1>7, <1>8, <1>9
<1> QED
  BY <1>1, <1>9, <1>10, ChainConcat DEF s

(* A list goes on with one of its members. *)
LEMMA ChainOneMore ==
  ASSUME NEW v \in Seq(Plain), v # <<>> => v[Len(v)] # "LBrace", NEW s, Chain(s), s # <<>>,
         s[1] \in Blocks \cup {"arms"}
  PROVE  Chain((v \o <<s[1]>>) \o Tail(s))
<1>1. v \in Seq(Symbols) /\ s \in Seq(Symbols)
  BY SeqMonotonic, PlainSymbols DEF Chain
<1>2. Chain(v \o s)
  BY FirmList, ChainPlain DEF Plainly
<1> QED
  BY <1>1, <1>2, Regroup

LEMMA StmtRegroup ==
  ASSUME NEW s, Chain(s), s # <<>>
  PROVE  <<"stmt", s[1]>> \o Tail(s) = <<"stmt">> \o s
<1>1. s \in Seq(Symbols) /\ s[1] \in Symbols /\ "stmt" \in Symbols
  BY SMT, LenProperties, EmptySeq, ElementOfSeq, SpecialSymbols DEF Chain, Marked
<1>2. <<"stmt">> \in Seq(Symbols) /\ <<s[1]>> \in Seq(Symbols)
  BY SMT, <1>1
<1>3. (<<"stmt">> \o <<s[1]>>) \o Tail(s) = <<"stmt">> \o s
  BY <1>1, <1>2, Regroup
<1>4. <<"stmt">> \o <<s[1]>> = <<"stmt", s[1]>>
  <2> DEFINE a == <<"stmt">> \o <<s[1]>>
             b == <<"stmt", s[1]>>
  <2>1. a \in Seq(Symbols) /\ Len(a) = 2 /\ a[1] = "stmt" /\ a[2] = s[1]
    BY SMT, <1>2
  <2>2. b \in Seq(Symbols) /\ Len(b) = 2 /\ b[1] = "stmt" /\ b[2] = s[1]
    BY SMT, <1>1
  <2> HIDE DEF a, b
  <2>3. \A i \in 1..Len(a) : a[i] = b[i]
    BY SMT, <2>1, <2>2
  <2>4. a = b
    BY <2>1, <2>2, <2>3, SeqEqual
  <2> QED
    BY <2>4 DEF a, b
<1> QED
  BY <1>3, <1>4

(* parse_block pushes a statement on top of itself.                         *)
LEMMA ChainStmt ==
  ASSUME NEW s, Chain(s), s # <<>>, s[1] \in Blocks
  PROVE  Chain(<<"stmt", s[1]>> \o Tail(s))
<1> DEFINE q == <<"stmt">> \o s
<1>1. s \in Seq(Symbols) /\ Len(s) \in Nat \ {0} /\ "stmt" \in Symbols
  BY LenProperties, EmptySeq DEF Chain, Symbols
<1>2. <<"stmt">> \in Seq(Symbols) /\ Len(<<"stmt">>) = 1 /\ <<"stmt">>[1] = "stmt"
  BY SMT, <1>1
<1>3. Len(q) = 1 + Len(s) /\ q[1] = "stmt" /\ q[2] = s[1]
  BY SMT, <1>1, <1>2
<1> HIDE DEF q
<1>4. Below(q, 1) /\ Above(q, 1)
  BY SMT, <1>1, <1>3 DEF Below, Above
<1>5. \A i \in 1..Len(<<"stmt">>) : Below(q, i) /\ Above(q, i)
  BY SMT, <1>2, <1>4
<1>6. <<"stmt">>[Len(<<"stmt">>)] # "LBrace"
  BY SMT, <1>2
<1> QED
  BY <1>2, <1>5, <1>6, FirmList, ChainConcat, StmtRegroup DEF q

(* The else branch of parse_if.                                             *)
LEMMA ChainElse ==
  ASSUME NEW s, Chain(s), s # <<>>, s[1] = "else"
  PROVE  Chain(<<"Else", "LBrace", "else_block", "RBrace">> \o Tail(s))
<1> DEFINE v == <<"Else", "LBrace", "else_block", "RBrace">>
           w == <<"Else", "LBrace", "else_block", "RBrace", "shallower">>
           u == Tail(s)
           q == w \o Tail(u)
<1>1. /\ s \in Seq(Symbols) /\ u \in Seq(Symbols) /\ Len(u) = Len(s) - 1
      /\ Len(s) \in Nat \ {0} /\ DOMAIN s = 1..Len(s) /\ Len(u) \in Nat
      /\ \A i \in 1..Len(u) : u[i] = s[i + 1]
  BY HeadTailProperties, LenProperties, EmptySeq DEF Chain
<1>2. Below(s, 1) /\ 1 + 1 <= Len(s) /\ s[1 + 1] = "shallower" /\ 1 # Len(u)
  <2>1. Below(s, 1)
    BY SMT, <1>1 DEF Chain
  <2>2. 1 + 1 <= Len(s) /\ s[1 + 1] = "shallower"
    BY <2>1 DEF Below
  <2>3. Below(s, 2)
    BY SMT, <1>1, <2>2 DEF Chain
  <2>4. 2 # Len(s)
    BY SMT, <2>2, <2>3 DEF Below
  <2> QED
    BY SMT, <1>1, <2>1, <2>2, <2>4
<1>3. Chain(u)
  BY ChainTail
<1>4. u # <<>> /\ u[1] = "shallower"
  <2>1. Len(u) >= 1 /\ s[2] = "shallower"
    BY SMT, <1>1, <1>2
  <2>2. u[1] = s[1 + 1]
    BY SMT, <1>1, <2>1
  <2> HIDE DEF u
  <2> QED
    BY SMT, <1>1, <2>1, <2>2
<1>5. Chain(Tail(u)) /\ Firm(Tail(u)) /\ Tail(u) \in Seq(Symbols)
  <2>1. u[1] \notin {"RBrace", "LBrace", "deeper", "else", "Else",
                      "then_block", "loop_block", "else_block", "arms"}
    BY SMT, <1>4
  <2> QED
    BY <1>1, <1>3, <1>4, <2>1, ChainTail, FirmTail, HeadTailProperties
<1>6. Len(Tail(u)) \in Nat \ {0}
  BY SMT, <1>1, <1>2, <1>4, HeadTailProperties
<1>7. w \in Seq(Symbols) /\ v \in Seq(Symbols)
  BY SMT, SpecialSymbols, PlainSymbols, PlainWords DEF Marked, ControlBlocks, Assignments
<1>8. /\ Len(q) = 5 + Len(Tail(u)) /\ Len(w) = 5 /\ w[5] = "shallower"
      /\ q[1] = "Else" /\ q[2] = "LBrace" /\ q[3] = "else_block" /\ q[4] = "RBrace"
      /\ q[5] = "shallower"
  <2> HIDE DEF u
  <2> QED
    BY SMT, <1>5, <1>6, <1>7
<1>9. v \o <<u[1]>> = w
  <2> DEFINE a == v \o <<"shallower">>
  <2>1. <<"shallower">> \in Seq(Symbols)
    BY SMT, SpecialSymbols DEF Marked, Assignments
  <2>2. /\ a \in Seq(Symbols) /\ Len(a) = 5
        /\ a[1] = "Else" /\ a[2] = "LBrace" /\ a[3] = "else_block" /\ a[4] = "RBrace"
        /\ a[5] = "shallower"
    BY SMT, <1>7, <2>1
  <2> HIDE DEF a
  <2>3. \A i \in 1..Len(a) : a[i] = w[i]
    BY SMT, <2>2
  <2>4. a = w
    BY SMT, <1>7, <1>8, <2>2, <2>3, SeqEqual
  <2> QED
    BY <1>4, <2>4 DEF a
<1>10. w \o Tail(u) = v \o u
  <2> HIDE DEF u
  <2> QED
    BY <1>1, <1>4, <1>7, <1>9, Regroup
<1> HIDE DEF q, u
<1>11. \A i \in {1, 2, 4} : Below(q, i) /\ Above(q, i)
  <2>1. \A i \in {1, 2, 4} : q[i] \notin (Marked \ {"flat", "literals"})
    BY SMT, <1>8 DEF Marked, Definitions, ControlBlocks, Assignments
  <2>2. \A i \in {1, 2, 4} : i # Len(q)
    BY SMT, <1>6, <1>8
  <2> QED
    BY <2>1, <2>2, Unconcerned
<1>12. Below(q, 3) /\ Above(q, 3) /\ Below(q, 5) /\ Above(q, 5)
  <2>1. /\ Len(q) \in Nat /\ Len(q) >= 6
        /\ q[1] = "Else" /\ q[2] = "LBrace" /\ q[3] = "else_block" /\ q[4] = "RBrace"
        /\ q[5] = "shallower"
    <3> DEFINE n == Len(Tail(u))
    <3>1. n \in Nat \ {0} /\ Len(q) = 5 + n
      BY <1>6, <1>8
    <3> HIDE DEF n
    <3>2. Len(q) \in Nat /\ Len(q) >= 6
      BY SMT, <3>1
    <3> QED
      BY <1>8, <3>2
  <2>2. Below(q, 3) /\ Above(q, 3)
    BY SMT, <2>1 DEF Below, Above
  <2>3. Below(q, 5)
    <3> DEFINE m == Len(q)
    <3>1. m \in Nat /\ m >= 6
      BY <2>1
    <3> HIDE DEF m
    <3>2. 5 # m
      BY SMT, <3>1
    <3>3. 5 # Len(q)
      BY <3>2 DEF m
    <3>4. q[5] = "shallower"
      BY <2>1
    <3> QED
      BY SMT, <3>3, <3>4 DEF Below
  <2>4. Above(q, 5)
    BY SMT, <2>1 DEF Above
  <2> QED
    BY <2>2, <2>3, <2>4
<1>13. \A i \in 1..5 : Below(q, i) /\ Above(q, i)
  BY SMT, <1>11, <1>12
<1>14. Chain(q)
  <2>1. w[Len(w)] # "LBrace" /\ (\A i \in 1..Len(w) : Below(q, i) /\ Above(q, i))
    BY <1>8, <1>13
  <2> HIDE DEF w
  <2> QED
    BY <1>5, <1>7, <2>1, ChainConcat DEF q
<1> QED
  BY <1>10, <1>14 DEF q, u

(* What is written on an otherwise empty stack. *)
LEMMA ChainOfFile ==
  /\ \A x \in {"import", "ext", "fn", "type", "enum"} : Chain(<<"def_zone", x, "file">>)
  /\ Chain(<<"alg_zone", "stmt", "file">>)
  /\ Chain(<<"ring", "file">>)
  /\ Chain(<<>>)
<1>1. {"import", "ext", "fn", "type", "enum", "alg_zone", "def_zone", "stmt", "file", "ring"} \subseteq Symbols
  BY SMT DEF Symbols, Definitions, Assignments, Plain, PlainMethods
<1>2. ASSUME NEW x \in {"import", "ext", "fn", "type", "enum"}
      PROVE  Chain(<<"def_zone", x, "file">>)
  BY SMT, <1>1 DEF Chain, Below, Above
<1>3. Chain(<<"alg_zone", "stmt", "file">>)
  BY SMT, <1>1 DEF Chain, Below, Above
<1>4. Chain(<<"ring", "file">>)
  BY SMT, <1>1 DEF Chain, Below, Above
<1>5. Chain(<<>>)
  BY SMT DEF Chain
<1> QED
  BY <1>2, <1>3, <1>4, <1>5

LEMMA FnSymbols == Fn \in Seq(Symbols) /\ CompilerExt \in Seq(Symbols)
<1>1. {"fn", "enter_fn", "leave_fn", "fn_block"} \subseteq Symbols
  BY SMT DEF Symbols, Definitions, Assignments
<1>2. {"Fn", "Ident", "LParen", "params", "RParen", "Arrow", "ty", "LBrace", "RBrace"} \subseteq Symbols
  BY SMT, PlainSymbols, PlainWords
<1>3. {"At", "Phase", "attrs_opt"} \subseteq Symbols
  BY SMTT(30) DEF Symbols, Plain, PlainMethods, Definitions, TokenKinds, Punctuation, Identifiers
<1>4. Fn \in Seq(Symbols)
  BY SMT, <1>1, <1>2 DEF Fn
<1>5. CompilerExt \in Seq(Symbols)
  BY SMT, <1>1, <1>3 DEF CompilerExt
<1> QED
  BY <1>4, <1>5

LEMMA ChainOfExt ==
  LET q == CompilerExt \o <<"file">> IN
  /\ Chain(q) /\ Len(q) = 5
  /\ q[1] = "At" /\ q[2] = "Phase" /\ q[3] = "attrs_opt" /\ q[4] = "fn" /\ q[5] = "file"
<1> DEFINE q == CompilerExt \o <<"file">>
<1>1. CompilerExt \in Seq(Symbols) /\ <<"file">> \in Seq(Symbols)
  BY SMT, FnSymbols, SpecialSymbols DEF Marked
<1>2. /\ q \in Seq(Symbols) /\ Len(q) = 5 /\ DOMAIN q = 1..5
      /\ q[1] = "At" /\ q[2] = "Phase" /\ q[3] = "attrs_opt" /\ q[4] = "fn" /\ q[5] = "file"
  BY SMT, <1>1 DEF CompilerExt
<1> HIDE DEF q
<1>3. Chain(q)
  BY SMT, <1>2 DEF Chain, Below, Above
<1> QED
  BY <1>2, <1>3 DEF q

LEMMA ChainOfFn ==
  LET q == Fn \o <<"file">> IN
  /\ Chain(q) /\ Len(q) = 13
  /\ q[1] = "Fn" /\ q[2] = "Ident" /\ q[3] = "LParen" /\ q[4] = "params" /\ q[5] = "RParen"
  /\ q[6] = "Arrow" /\ q[7] = "ty" /\ q[8] = "enter_fn" /\ q[9] = "LBrace" /\ q[10] = "fn_block"
  /\ q[11] = "RBrace" /\ q[12] = "leave_fn" /\ q[13] = "file"
<1> DEFINE q == Fn \o <<"file">>
<1>1. Fn \in Seq(Symbols) /\ <<"file">> \in Seq(Symbols)
  BY SMT, FnSymbols, SpecialSymbols DEF Marked
<1>2. /\ q \in Seq(Symbols) /\ Len(q) = 13 /\ DOMAIN q = 1..13
      /\ q[1] = "Fn" /\ q[2] = "Ident" /\ q[3] = "LParen" /\ q[4] = "params" /\ q[5] = "RParen"
      /\ q[6] = "Arrow" /\ q[7] = "ty" /\ q[8] = "enter_fn" /\ q[9] = "LBrace" /\ q[10] = "fn_block"
      /\ q[11] = "RBrace" /\ q[12] = "leave_fn" /\ q[13] = "file"
  BY SMT, <1>1 DEF Fn
<1> HIDE DEF q
<1>3. \A i \in {1, 2, 3, 4, 5, 6, 7, 9, 11} : Below(q, i) /\ Above(q, i)
  <2>1. \A i \in {1, 2, 3, 4, 5, 6, 7, 9, 11} : q[i] \notin (Marked \ {"flat", "literals"})
    BY SMT, <1>2 DEF Marked, Definitions, ControlBlocks, Assignments
  <2>2. \A i \in {1, 2, 3, 4, 5, 6, 7, 9, 11} : i # Len(q)
    BY SMT, <1>2
  <2> QED
    BY <2>1, <2>2, Unconcerned
<1>4. Below(q, 8) /\ Above(q, 8)
  BY SMT, <1>2 DEF Below, Above
<1>5. Below(q, 10) /\ Above(q, 10)
  BY SMT, <1>2 DEF Below, Above
<1>6. Below(q, 12) /\ Above(q, 12) /\ Below(q, 13) /\ Above(q, 13)
  BY SMT, <1>2 DEF Below, Above
<1>7. \A i \in 1..13 : Below(q, i) /\ Above(q, i)
  BY SMT, <1>3, <1>4, <1>5, <1>6
<1> QED
  BY <1>2, <1>7 DEF Chain, q

-----------------------------------------------------------------------------
(* The calls, by what is on top and what they push.                         *)

CallsPlain(s, w) == s[1] \in PlainMethods \cup {"primary", "stmt"} /\ Plainly(w)
CallsIf(s, w) == s[1] = "primary" /\ w \in {If, Match}
CallsLoop(s, w) == s[1] = "stmt" /\ w \in {For, While, Loop}
CallsElse(s, w) == s[1] = "else" /\ w = <<"Else", "LBrace", "else_block", "RBrace">>
CallsArm(s, w) == s[1] = "arms" /\ w = <<"pattern", "FatArrow", "expr", "comma_opt", "arms">>
CallsStmt(s, w) == s[1] \in Blocks /\ w = <<"stmt", s[1]>>
CallsNothing(s, w) == s[1] \in Blocks \cup {"else", "arms"} /\ w = <<>>
CallsItem(s, w) ==
    /\ s = <<"file">>
    /\ \/ w = <<>>
       \/ w = <<"alg_zone", "stmt", "file">>
       \/ \E x \in {"import", "ext", "fn", "type", "enum"} : w = <<"def_zone", x, "file">>
CallsFn(s, w) == s = <<"fn", "file">> /\ w = Fn
CallsExt(s, w) == s = <<"ext", "file">> /\ w = CompilerExt
Calls(s, w) ==
    \/ CallsPlain(s, w) \/ CallsIf(s, w) \/ CallsLoop(s, w) \/ CallsElse(s, w) \/ CallsArm(s, w)
    \/ CallsStmt(s, w) \/ CallsNothing(s, w) \/ CallsItem(s, w) \/ CallsFn(s, w) \/ CallsExt(s, w)

(* A sequence is given by its elements.                                     *)
LEMMA OnlyFile ==
  ASSUME NEW s, Chain(s), s # <<>>, s[1] = "file"
  PROVE  s = <<"file">>
<1>1. s \in Seq(Symbols) /\ Len(s) \in Nat \ {0} /\ DOMAIN s = 1..Len(s)
  BY LenProperties, EmptySeq DEF Chain
<1>2. Below(s, 1)
  BY SMT, <1>1 DEF Chain
<1>3. Len(s) = 1
  BY <1>2 DEF Below
<1>4. <<"file">> \in Seq(Symbols) /\ Len(<<"file">>) = 1 /\ <<"file">>[1] = "file"
  BY SMT, SpecialSymbols DEF Marked
<1> QED
  BY SMT, <1>1, <1>3, <1>4, SeqEqual

LEMMA OnlyItem ==
  ASSUME NEW s, Chain(s), s # <<>>, s[1] \in {"fn", "ext"}
  PROVE  s = <<s[1], "file">>
<1>1. s \in Seq(Symbols) /\ Len(s) \in Nat \ {0} /\ DOMAIN s = 1..Len(s)
  BY LenProperties, EmptySeq DEF Chain
<1>2. Below(s, 1)
  BY SMT, <1>1 DEF Chain
<1>3. Len(s) = 2
  BY SMT, <1>2 DEF Below
<1>4. Below(s, 2)
  BY SMT, <1>1, <1>3 DEF Chain
<1>5. s[2] = "file"
  BY <1>3, <1>4 DEF Below
<1> DEFINE q == <<s[1], "file">>
<1>6. q \in Seq(Symbols) /\ Len(q) = 2 /\ q[1] = s[1] /\ q[2] = "file"
  BY SMT, <1>1, <1>3, ElementOfSeq, SpecialSymbols DEF Marked
<1> HIDE DEF q
<1>7. \A i \in 1..Len(s) : s[i] = q[i]
  BY SMT, <1>3, <1>5, <1>6
<1>8. s = q
  BY <1>1, <1>3, <1>6, <1>7, SeqEqual
<1> QED
  BY <1>8 DEF q

(* Whatever the next token is, a call is one of those above.                *)
LEMMA EveryCall ==
  ASSUME NEW s, Chain(s), s # <<>>, s[1] \notin TokenKinds \cup Assignments, NEW t
  PROVE  Calls(s, Expansion(s[1], t))
<1> DEFINE r == s[1]
<1>1. r \in Symbols
  BY SMT, LenProperties, EmptySeq, ElementOfSeq DEF Chain
<1>2. r \in PlainMethods \cup {"primary", "ext", "fn", "else", "arms", "stmt", "file"} \cup Blocks
  BY <1>1 DEF Symbols, Plain, Definitions, Blocks, PlainMethods
<1>3. CASE r \in PlainMethods
  BY <1>3, PlainExpansions DEF Calls, CallsPlain
<1>4. CASE r = "primary"
  <2>1. Expansion(r, t) = Primary(t)
    BY SMT, <1>4 DEF Expansion, Blocks
  <2>2. CASE t \notin {"If", "Match"}
    BY <1>4, <2>1, <2>2, PrimaryPlain DEF Calls, CallsPlain
  <2>3. CASE t \in {"If", "Match"}
    <3>1. Primary(t) \in {If, Match}
      BY SMT, <2>3 DEF Primary, Choice
    <3> QED
      BY <1>4, <2>1, <3>1 DEF Calls, CallsIf
  <2> QED
    BY <2>2, <2>3
<1>5. CASE r = "stmt"
  <2>1. Expansion(r, t) = Stmt(t)
    BY SMT, <1>5 DEF Expansion, Blocks
  <2>2. CASE t \notin {"For", "While", "Loop"}
    BY <1>5, <2>1, <2>2, StmtPlain DEF Calls, CallsPlain
  <2>3. CASE t \in {"For", "While", "Loop"}
    <3>1. Stmt(t) \in {For, While, Loop}
      BY SMT, <2>3 DEF Stmt, Choice
    <3> QED
      BY <1>5, <2>1, <3>1 DEF Calls, CallsLoop
  <2> QED
    BY <2>2, <2>3
<1>6. CASE r = "else"
  <2>1. Expansion(r, t) = Else(t)
    BY SMT, <1>6 DEF Expansion, Blocks
  <2> QED
    BY <1>6, <2>1 DEF Else, When, Calls, CallsElse, CallsNothing
<1>7. CASE r = "arms"
  <2>1. Expansion(r, t) = Arms(t)
    BY SMT, <1>7 DEF Expansion, Blocks
  <2> QED
    BY <1>7, <2>1 DEF Arms, Until, Calls, CallsArm, CallsNothing
<1>8. CASE r \in Blocks
  <2>1. Expansion(r, t) = Block(r, t)
    BY SMT, <1>8 DEF Expansion, Blocks
  <2> QED
    BY <1>8, <2>1 DEF Block, Until, Calls, CallsStmt, CallsNothing
<1>9. CASE r = "file"
  <2>1. Expansion(r, t) = File(t)
    BY SMT, <1>9 DEF Expansion, Blocks
  <2>2. \/ File(t) \in {<<>>, <<"alg_zone", "stmt", "file">>}
        \/ \E x \in {"import", "ext", "fn", "type", "enum"} : File(t) = <<"def_zone", x, "file">>
    BY SMT DEF File, Until, Choice
  <2> QED
    BY <1>9, <2>1, <2>2, OnlyFile DEF Calls, CallsItem
<1>10. CASE r = "fn"
  <2>1. Expansion(r, t) = Fn
    BY SMT, <1>10 DEF Expansion, Blocks
  <2> QED
    BY <1>10, <2>1, OnlyItem DEF Calls, CallsFn
<1>11. CASE r = "ext"
  <2>1. Expansion(r, t) = CompilerExt
    BY SMT, <1>11 DEF Expansion, Blocks
  <2> QED
    BY <1>11, <2>1, OnlyItem DEF Calls, CallsExt
<1> QED
  BY <1>2, <1>3, <1>4, <1>5, <1>6, <1>7, <1>8, <1>9, <1>10, <1>11

(* Below everything but file there is something. *)
LEMMA SomethingBelow ==
  ASSUME NEW s, Chain(s), s # <<>>, s[1] # "file"
  PROVE  /\ Tail(s) # <<>> /\ Chain(Tail(s))
         /\ Len(s) \in Nat /\ Len(s) >= 2 /\ Tail(s)[1] = s[2]
<1>1. /\ s \in Seq(Symbols) /\ Len(s) \in Nat \ {0} /\ DOMAIN s = 1..Len(s)
      /\ Tail(s) \in Seq(Symbols) /\ Len(Tail(s)) = Len(s) - 1
      /\ \A i \in 1..Len(Tail(s)) : Tail(s)[i] = s[i + 1]
  BY HeadTailProperties, LenProperties, EmptySeq DEF Chain
<1>2. Below(s, 1)
  BY SMT, <1>1 DEF Chain
<1>3. Len(s) # 1
  BY <1>2 DEF Below
<1>4. Len(Tail(s)) # 0
  <2> DEFINE n == Len(s)
  <2>1. n \in Nat \ {0} /\ n # 1 /\ Len(Tail(s)) = n - 1
    BY <1>1, <1>3
  <2> HIDE DEF n
  <2> QED
    BY SMT, <2>1
<1>5. Tail(s) # <<>>
  BY <1>4, EmptySeq
<1>6. Tail(s)[1] = s[1 + 1]
  BY SMT, <1>1, <1>3
<1>7. Len(s) \in Nat /\ Len(s) >= 2
  BY SMT, <1>1, <1>3
<1> QED
  BY SMT, <1>5, <1>6, <1>7, ChainTail

(* A statement stands in a block or in the algorithm zone. *)
LEMMA StmtInBlock ==
  ASSUME NEW s, Chain(s), s # <<>>, s[1] = "stmt"
  PROVE  Tail(s)[1] \in Blocks \cup {"file"}
<1>1. Below(s, 1)
  BY SMT, LenProperties, EmptySeq DEF Chain
<1>2. s[1 + 1] \in Blocks \cup {"file"}
  BY <1>1 DEF Below
<1>3. Tail(s)[1] = s[2]
  BY SomethingBelow
<1>4. 1 + 1 = 2
  BY SMT
<1> QED
  BY <1>2, <1>3, <1>4

(* A call leaves a well-formed stack.                                       *)
LEMMA ChainCalls ==
  ASSUME NEW s, Chain(s), s # <<>>, NEW w, Calls(s, w)
  PROVE  Chain(w \o Tail(s))
<1>1. CASE CallsPlain(s, w) \/ CallsIf(s, w) \/ CallsLoop(s, w)
  <2>1. s[1] \in PlainMethods \cup {"primary", "stmt"}
    BY <1>1 DEF CallsPlain, CallsIf, CallsLoop
  <2>2. s[1] \notin {"RBrace", "LBrace", "deeper", "else", "Else", "file",
                     "then_block", "loop_block", "else_block", "arms"}
    BY SMT, <2>1 DEF PlainMethods
  <2>3. Chain(Tail(s)) /\ Firm(Tail(s)) /\ Tail(s) # <<>>
    BY <2>2, SomethingBelow, FirmTail
  <2> QED
    BY <1>1, <2>3, ChainPlain, ChainIf, ChainMatch, ChainFor, ChainWhile, ChainLoop
       DEF CallsPlain, CallsIf, CallsLoop
<1>2. CASE CallsElse(s, w)
  BY <1>2, ChainElse DEF CallsElse
<1>3. CASE CallsArm(s, w)
  <2> DEFINE v == <<"pattern", "FatArrow", "expr", "comma_opt">>
             a == v \o <<"arms">>
             b == <<"pattern", "FatArrow", "expr", "comma_opt", "arms">>
  <2>1. v \in Seq(Plain) /\ v \in Seq(Symbols) /\ v[Len(v)] # "LBrace"
    BY SMT, PlainSymbols DEF Plain, PlainMethods, Definitions, TokenKinds, Punctuation
  <2>2. <<"arms">> \in Seq(Symbols) /\ b \in Seq(Symbols)
    BY SMT, <2>1, SpecialSymbols, ElementOfSeq, PlainSymbols
       DEF Marked, ControlBlocks, Plain, PlainMethods, Definitions, TokenKinds, Punctuation
  <2>3. /\ a \in Seq(Symbols) /\ Len(a) = 5 /\ Len(b) = 5
        /\ a[1] = "pattern" /\ a[2] = "FatArrow" /\ a[3] = "expr" /\ a[4] = "comma_opt" /\ a[5] = "arms"
        /\ b[1] = "pattern" /\ b[2] = "FatArrow" /\ b[3] = "expr" /\ b[4] = "comma_opt" /\ b[5] = "arms"
    BY SMT, <2>1, <2>2
  <2>4. a = b
    <3> HIDE DEF a, b
    <3>1. \A i \in 1..Len(a) : a[i] = b[i]
      BY SMT, <2>3
    <3> QED
      BY <2>2, <2>3, <3>1, SeqEqual
  <2>5. s[1] = "arms" /\ w = b
    BY <1>3 DEF CallsArm
  <2>6. Chain((v \o <<s[1]>>) \o Tail(s))
    <3> HIDE DEF v
    <3> QED
      BY <2>1, <2>5, ChainOneMore
  <2> QED
    BY <2>4, <2>5, <2>6
<1>4. CASE CallsStmt(s, w)
  BY <1>4, ChainStmt DEF CallsStmt
<1>5. CASE CallsNothing(s, w)
  <2>1. Chain(Tail(s)) /\ Tail(s) \in Seq(Symbols)
    BY ChainTail DEF Chain
  <2> QED
    BY <1>5, <2>1, ConcatEmptySeq DEF CallsNothing
<1>6. CASE CallsItem(s, w)
  <2>1. Tail(s) = <<>>
    BY SMT, <1>6 DEF CallsItem
  <2>2. Chain(w)
    BY <1>6, ChainOfFile DEF CallsItem
  <2>3. w \o <<>> = w
    BY <2>2, ConcatEmptySeq DEF Chain
  <2> QED
    BY <2>1, <2>2, <2>3
<1>7. CASE CallsFn(s, w)
  <2>1. Tail(s) = <<"file">>
    BY SMT, <1>7 DEF CallsFn
  <2> QED
    BY <1>7, <2>1, ChainOfFn DEF CallsFn
<1>8. CASE CallsExt(s, w)
  <2>1. Tail(s) = <<"file">>
    BY SMT, <1>8 DEF CallsExt
  <2> QED
    BY <1>8, <2>1, ChainOfExt DEF CallsExt
<1> QED
  BY <1>1, <1>2, <1>3, <1>4, <1>5, <1>6, <1>7, <1>8 DEF Calls

-----------------------------------------------------------------------------
(* Counting the symbols of a kind.                                          *)

(* Occurrences can be counted.                                              *)
LEMMA CountType ==
  ASSUME NEW S, NEW s \in Seq(S), NEW x
  PROVE  IsFiniteSet(Occurrences(s, x)) /\ Count(s, x) \in Nat
<1>1. Len(s) \in Nat /\ DOMAIN s = 1..Len(s)
  BY LenProperties
<1>2. IsFiniteSet(1..Len(s))
  BY SMT, <1>1, FS_Interval
<1>3. Occurrences(s, x) \in SUBSET (1..Len(s))
  BY <1>1 DEF Occurrences
<1> QED
  BY <1>2, <1>3, FS_Subset, FS_CardinalityType DEF Count

LEMMA CountNone ==
  ASSUME NEW s, NEW x, \A i \in DOMAIN s : s[i] # x
  PROVE  Count(s, x) = 0
<1>1. Occurrences(s, x) = {}
  BY DEF Occurrences
<1> QED
  BY <1>1, FS_EmptySet DEF Count

LEMMA CountOne ==
  ASSUME NEW s, NEW x, NEW k \in DOMAIN s, s[k] = x, \A i \in DOMAIN s : i # k => s[i] # x
  PROVE  Count(s, x) = 1
<1>1. Occurrences(s, x) = {k}
  BY DEF Occurrences
<1> QED
  BY <1>1, FS_Singleton DEF Count

LEMMA CountConcat ==
  ASSUME NEW S, NEW w \in Seq(S), NEW u \in Seq(S), NEW x
  PROVE  Count(w \o u, x) = Count(w, x) + Count(u, x)
<1> DEFINE s == w \o u
           n == Len(w)
           A == Occurrences(w, x)
           B == Occurrences(u, x)
           C == {i \in DOMAIN s : i > n /\ s[i] = x}
<1>1. /\ n \in Nat /\ Len(u) \in Nat /\ Len(s) = n + Len(u)
      /\ DOMAIN s = 1..(n + Len(u)) /\ DOMAIN w = 1..n /\ DOMAIN u = 1..Len(u)
      /\ \A i \in 1..n + Len(u) : s[i] = IF i <= n THEN w[i] ELSE u[i - n]
  BY ConcatProperties, LenProperties
<1>2. IsFiniteSet(A) /\ IsFiniteSet(B)
  BY CountType
<1> HIDE DEF s, n
<1>3. Occurrences(s, x) = A \cup C
  <2>1. \A i \in 1..n : i \in DOMAIN s /\ s[i] = w[i]
    BY SMT, <1>1
  <2>2. \A i \in DOMAIN s : i > n \/ i \in 1..n
    BY SMT, <1>1
  <2> QED
    BY <1>1, <2>1, <2>2 DEF Occurrences
<1>4. A \cap C = {}
  BY SMT, <1>1 DEF Occurrences
<1>5. IsFiniteSet(C) /\ Cardinality(C) = Cardinality(B)
  <2> DEFINE f == [j \in B |-> j + n]
  <2>1. \A j \in B : j \in Nat /\ j + n \in C
    BY SMT, <1>1 DEF Occurrences
  <2>2. \A i \in C : i - n \in B /\ (i - n) + n = i
    BY SMT, <1>1 DEF Occurrences
  <2>3. \A j, k \in B : j + n = k + n => j = k
    BY SMT, <1>1, <2>1
  <2> HIDE DEF B, C
  <2>4. f \in [B -> C]
    BY <2>1
  <2>5. \A j, k \in B : f[j] = f[k] => j = k
    BY <2>3
  <2>6. \A i \in C : \E j \in B : f[j] = i
    BY <2>2
  <2>7. f \in Bijection(B, C)
    <3> HIDE DEF f
    <3> QED
      BY <2>4, <2>5, <2>6, Fun_IsBij
  <2> QED
    BY <1>2, <2>7, FS_Bijection DEF ExistsBijection
<1>6. Cardinality(A \cup C) = Cardinality(A) + Cardinality(C) - Cardinality(A \cap C)
  <2> HIDE DEF A, C
  <2> QED
    BY <1>2, <1>5, FS_Union
<1>7. Cardinality(A \cap C) = 0
  BY <1>4, FS_EmptySet
<1>8. Cardinality(A) \in Nat /\ Cardinality(B) \in Nat
  BY <1>2, FS_CardinalityType
<1> DEFINE a == Cardinality(A)
           b == Cardinality(B)
           c == Cardinality(A \cup C)
<1>9. c = a + b - 0 /\ a \in Nat /\ b \in Nat
  BY <1>5, <1>6, <1>7, <1>8
<1> HIDE DEF a, b, c
<1>10. c = a + b
  BY SMT, <1>9
<1> QED
  BY <1>3, <1>10 DEF Count, a, b, c, s

LEMMA CountTail ==
  ASSUME NEW S, NEW s \in Seq(S), s # <<>>, NEW x
  PROVE  Count(s, x) = Count(Tail(s), x) + (IF s[1] = x THEN 1 ELSE 0)
<1> DEFINE h == <<s[1]>>
<1>1. s[1] \in S /\ Tail(s) \in Seq(S) /\ Head(s) = s[1]
  BY SMT, HeadTailProperties
<1>2. h \in Seq(S) /\ Len(h) = 1 /\ DOMAIN h = {1} /\ h[1] = s[1]
  BY SMT, <1>1
<1>3. s = h \o Tail(s)
  BY SMT, <1>1, HeadTailProperties
<1> HIDE DEF h
<1>4. Count(s, x) = Count(h, x) + Count(Tail(s), x)
  <2>1. Count(h \o Tail(s), x) = Count(h, x) + Count(Tail(s), x)
    BY <1>1, <1>2, CountConcat
  <2> QED
    BY <1>3, <2>1
<1>5. Count(h, x) = IF s[1] = x THEN 1 ELSE 0
  BY <1>2, CountOne, CountNone
<1>6. Count(Tail(s), x) \in Nat
  BY <1>1, CountType
<1> DEFINE a == Count(Tail(s), x)
           b == Count(h, x)
<1>7. Count(s, x) = b + a /\ a \in Nat /\ b \in Nat
  BY <1>4, <1>5, <1>6
<1> HIDE DEF a, b
<1>8. b + a = a + b
  BY SMT, <1>7
<1> QED
  BY <1>5, <1>7, <1>8 DEF a, b

(* A depth taken is given back by the same call.                            *)
LEMMA CountIf ==
  If \in Seq(Symbols) /\ Count(If, "deeper") = 1 /\ Count(If, "shallower") = 1
<1>1. If \in Seq(Symbols)
  BY SMT, TokenSymbols, SpecialSymbols, PlainSymbols, PlainWords
     DEF If, Marked, TokenKinds, ControlBlocks, Assignments, Keywords
<1>2. /\ 5 \in DOMAIN If /\ If[5] = "deeper"
      /\ \A i \in DOMAIN If : i # 5 => If[i] # "deeper"
  BY SMT DEF If
<1>3. /\ 10 \in DOMAIN If /\ If[10] = "shallower"
      /\ \A i \in DOMAIN If : i # 10 => If[i] # "shallower"
  BY SMT DEF If
<1> QED
  BY <1>1, <1>2, <1>3, CountOne

LEMMA CountMatch ==
  Match \in Seq(Symbols) /\ Count(Match, "deeper") = 1 /\ Count(Match, "shallower") = 1
<1>1. Match \in Seq(Symbols)
  BY SMT, TokenSymbols, SpecialSymbols, PlainSymbols, PlainWords
     DEF Match, Marked, TokenKinds, ControlBlocks, Assignments, Keywords
<1>2. /\ 5 \in DOMAIN Match /\ Match[5] = "deeper"
      /\ \A i \in DOMAIN Match : i # 5 => Match[i] # "deeper"
  BY SMT DEF Match
<1>3. /\ 9 \in DOMAIN Match /\ Match[9] = "shallower"
      /\ \A i \in DOMAIN Match : i # 9 => Match[i] # "shallower"
  BY SMT DEF Match
<1> QED
  BY <1>1, <1>2, <1>3, CountOne

LEMMA CountFor ==
  For \in Seq(Symbols) /\ Count(For, "deeper") = 1 /\ Count(For, "shallower") = 1
<1>1. For \in Seq(Symbols)
  BY SMT, TokenSymbols, SpecialSymbols, PlainSymbols, PlainWords
     DEF For, Marked, TokenKinds, ControlBlocks, Assignments, Keywords
<1>2. /\ 8 \in DOMAIN For /\ For[8] = "deeper"
      /\ \A i \in DOMAIN For : i # 8 => For[i] # "deeper"
  BY SMT DEF For
<1>3. /\ 12 \in DOMAIN For /\ For[12] = "shallower"
      /\ \A i \in DOMAIN For : i # 12 => For[i] # "shallower"
  BY SMT DEF For
<1> QED
  BY <1>1, <1>2, <1>3, CountOne

LEMMA CountWhile ==
  While \in Seq(Symbols) /\ Count(While, "deeper") = 1 /\ Count(While, "shallower") = 1
<1>1. While \in Seq(Symbols)
  BY SMT, TokenSymbols, SpecialSymbols, PlainSymbols, PlainWords
     DEF While, Marked, TokenKinds, ControlBlocks, Assignments, Keywords
<1>2. /\ 6 \in DOMAIN While /\ While[6] = "deeper"
      /\ \A i \in DOMAIN While : i # 6 => While[i] # "deeper"
  BY SMT DEF While
<1>3. /\ 10 \in DOMAIN While /\ While[10] = "shallower"
      /\ \A i \in DOMAIN While : i # 10 => While[i] # "shallower"
  BY SMT DEF While
<1> QED
  BY <1>1, <1>2, <1>3, CountOne

LEMMA CountLoop ==
  Loop \in Seq(Symbols) /\ Count(Loop, "deeper") = 1 /\ Count(Loop, "shallower") = 1
<1>1. Loop \in Seq(Symbols)
  BY SMT, TokenSymbols, SpecialSymbols, PlainSymbols, PlainWords
     DEF Loop, Marked, TokenKinds, ControlBlocks, Assignments, Keywords
<1>2. /\ 3 \in DOMAIN Loop /\ Loop[3] = "deeper"
      /\ \A i \in DOMAIN Loop : i # 3 => Loop[i] # "deeper"
  BY SMT DEF Loop
<1>3. /\ 7 \in DOMAIN Loop /\ Loop[7] = "shallower"
      /\ \A i \in DOMAIN Loop : i # 7 => Loop[i] # "shallower"
  BY SMT DEF Loop
<1> QED
  BY <1>1, <1>2, <1>3, CountOne

(* A call that takes a depth also gives it back. *)
LEMMA CountCalls ==
  ASSUME NEW s, Chain(s), s # <<>>, NEW w, Calls(s, w)
  PROVE  w \in Seq(Symbols) /\ Count(w, "deeper") = Count(w, "shallower")
<1>1. s \in Seq(Symbols) /\ s[1] \in Symbols
  BY SMT, LenProperties, EmptySeq, ElementOfSeq DEF Chain
<1>2. CASE w \in {If, Match, For, While, Loop}
  BY <1>2, CountIf, CountMatch, CountFor, CountWhile, CountLoop
<1>3. ASSUME w \in Seq(Symbols), \A i \in DOMAIN w : w[i] \notin {"deeper", "shallower"}
      PROVE  w \in Seq(Symbols) /\ Count(w, "deeper") = Count(w, "shallower")
  <2>1. Count(w, "deeper") = 0
    BY <1>3, CountNone
  <2>2. Count(w, "shallower") = 0
    BY <1>3, CountNone
  <2> QED
    BY <1>3, <2>1, <2>2
<1>4. CASE CallsPlain(s, w)
  <2>1. w \in Seq(Plain) /\ w \in Seq(Symbols)
    BY <1>4, PlainSymbols, SeqMonotonic DEF CallsPlain, Plainly
  <2>2. \A i \in DOMAIN w : w[i] \notin Marked
    BY <2>1, LenProperties, ElementOfSeq, PlainSymbols
  <2>3. {"deeper", "shallower"} \subseteq Marked
    BY SMT DEF Marked, Assignments
  <2> QED
    BY <1>3, <2>1, <2>2, <2>3
<1>5. CASE CallsElse(s, w)
  <2>1. w \in Seq(Symbols)
    BY SMT, <1>5, SpecialSymbols, PlainSymbols, PlainWords DEF CallsElse, Marked, ControlBlocks
  <2>2. \A i \in DOMAIN w : w[i] \notin {"deeper", "shallower"}
    BY SMT, <1>5 DEF CallsElse
  <2> QED
    BY <1>3, <2>1, <2>2
<1>6. CASE CallsArm(s, w)
  <2>1. {"pattern", "FatArrow", "expr", "comma_opt", "arms"} \subseteq Symbols
    BY SMT, SpecialSymbols, PlainSymbols
       DEF Marked, ControlBlocks, Plain, PlainMethods, Definitions, TokenKinds, Punctuation
  <2>2. w \in Seq(Symbols)
    BY SMT, <1>6, <2>1 DEF CallsArm
  <2>3. \A i \in DOMAIN w : w[i] \notin {"deeper", "shallower"}
    BY SMT, <1>6 DEF CallsArm
  <2> QED
    BY <1>3, <2>2, <2>3
<1>7. CASE CallsStmt(s, w)
  <2>1. w \in Seq(Symbols)
    BY SMT, <1>1, <1>7, SpecialSymbols DEF CallsStmt, Marked
  <2>2. \A i \in DOMAIN w : w[i] \notin {"deeper", "shallower"}
    BY SMT, <1>7 DEF CallsStmt, Blocks
  <2> QED
    BY <1>3, <2>1, <2>2
<1>8. CASE CallsNothing(s, w)
  <2>1. w \in Seq(Symbols)
    BY <1>8, EmptySeq DEF CallsNothing
  <2>2. \A i \in DOMAIN w : w[i] \notin {"deeper", "shallower"}
    BY SMT, <1>8 DEF CallsNothing
  <2> QED
    BY <1>3, <2>1, <2>2
<1>9. CASE CallsItem(s, w)
  <2>1. w \in Seq(Symbols)
    BY <1>9, ChainOfFile DEF CallsItem, Chain
  <2>2. \A i \in DOMAIN w : w[i] \notin {"deeper", "shallower"}
    BY SMT, <1>9 DEF CallsItem
  <2> QED
    BY <1>3, <2>1, <2>2
<1>10. CASE CallsFn(s, w)
  <2>1. w \in Seq(Symbols)
    BY SMT, <1>10, SpecialSymbols, PlainSymbols, PlainWords, FnSymbols DEF CallsFn
  <2>2. \A i \in DOMAIN w : w[i] \notin {"deeper", "shallower"}
    BY SMT, <1>10 DEF CallsFn, Fn
  <2> QED
    BY <1>3, <2>1, <2>2
<1>11. CASE CallsExt(s, w)
  <2>1. w \in Seq(Symbols)
    BY SMT, <1>11, FnSymbols DEF CallsExt
  <2>2. \A i \in DOMAIN w : w[i] \notin {"deeper", "shallower"}
    BY SMT, <1>11 DEF CallsExt, CompilerExt
  <2> QED
    BY <1>3, <2>1, <2>2
<1> QED
  BY <1>2, <1>4, <1>5, <1>6, <1>7, <1>8, <1>9, <1>10, <1>11 DEF Calls, CallsIf, CallsLoop

(* A call leaves the balance of depths as it was.                           *)
LEMMA BalancedCalls ==
  ASSUME NEW s, Chain(s), s # <<>>, s[1] \notin {"deeper", "shallower"},
         NEW w, Calls(s, w), NEW c \in Nat,
         c + Count(s, "deeper") = Count(s, "shallower")
  PROVE  c + Count(w \o Tail(s), "deeper") = Count(w \o Tail(s), "shallower")
<1>1. /\ s \in Seq(Symbols) /\ Tail(s) \in Seq(Symbols) /\ w \in Seq(Symbols)
      /\ Count(w, "deeper") = Count(w, "shallower")
  BY CountCalls, HeadTailProperties DEF Chain
<1> DEFINE d == Count(Tail(s), "deeper")
           h == Count(Tail(s), "shallower")
           k == Count(w, "deeper")
<1>2. Count(w \o Tail(s), "deeper") = k + d /\ Count(w \o Tail(s), "shallower") = k + h
  <2>1. \A x : Count(w \o Tail(s), x) = Count(w, x) + Count(Tail(s), x)
    BY <1>1, CountConcat, Zenon
  <2> QED
    BY <1>1, <2>1
<1>3. d \in Nat /\ h \in Nat /\ k \in Nat
  BY <1>1, CountType
<1>4. Count(s, "deeper") = d + 0 /\ Count(s, "shallower") = h + 0
  BY <1>1, CountTail
<1>5. c + (d + 0) = h + 0
  BY <1>4
<1> HIDE DEF d, h, k
<1>6. c + (k + d) = k + h
  BY SMT, <1>3, <1>5
<1> QED
  BY <1>2, <1>6

-----------------------------------------------------------------------------
(* Loops.                                                                   *)

(* No loop is about to be opened. *)
Settled(s) ==
    \A i \in DOMAIN s : s[i] # "flat" /\ (s[i] = "loop_block" => s[i + 3] \in {"fn_block", "file"})

LEMMA SettledIsFlat ==
  ASSUME NEW s, Settled(s)
  PROVE  Flatness(s)
  BY DEF Settled, Flatness, LoopBelow

(* Between two loops nothing of a loop is left unchecked.                   *)
LEMMA FlatIsSettled ==
  ASSUME NEW s, Chain(s), Flatness(s), s # <<>>, s[1] \notin {"flat", "For", "While", "Loop"}
  PROVE  Settled(s)
<1>1. Len(s) \in Nat \ {0} /\ DOMAIN s = 1..Len(s)
  BY LenProperties, EmptySeq DEF Chain
<1>2. ~Unchecked(s)
  BY DEF Unchecked
<1>3. ASSUME NEW i \in DOMAIN s
      PROVE  s[i] # "flat" /\ (s[i] = "loop_block" => s[i + 3] \in {"fn_block", "file"})
  BY <1>2, <1>3 DEF Flatness, LoopBelow
<1> QED
  BY <1>3 DEF Settled

LEMMA SettledTail ==
  ASSUME NEW s, Chain(s), Settled(s), s # <<>>
  PROVE  Settled(Tail(s))
<1> DEFINE u == Tail(s)
<1>1. /\ s \in Seq(Symbols) /\ u \in Seq(Symbols)
      /\ Len(s) \in Nat /\ Len(u) = Len(s) - 1
      /\ DOMAIN s = 1..Len(s) /\ DOMAIN u = 1..Len(u)
      /\ \A i \in 1..Len(u) : u[i] = s[i + 1]
  BY HeadTailProperties, LenProperties DEF Chain
<1>2. Chain(u)
  BY ChainTail
<1> HIDE DEF u
<1>3. ASSUME NEW i \in DOMAIN u
      PROVE  u[i] # "flat" /\ (u[i] = "loop_block" => u[i + 3] \in {"fn_block", "file"})
  <2>1. u[i] = s[i + 1] /\ i + 1 \in DOMAIN s
    BY SMT, <1>1
  <2>2. ASSUME u[i] = "loop_block"
        PROVE  u[i + 3] = s[(i + 1) + 3]
    <3>1. i + 3 <= Len(u)
      BY <1>2, <2>2 DEF Chain, Below
    <3>2. i + 3 \in 1..Len(u) /\ (i + 3) + 1 = (i + 1) + 3
      BY SMT, <1>1, <3>1
    <3> QED
      BY <1>1, <3>2
  <2> QED
    BY <2>1, <2>2 DEF Settled
<1> QED
  BY <1>3 DEF Settled, u

(* In front of settled ones. *)
LEMMA SettledConcat ==
  ASSUME NEW w \in Seq(Symbols), \A i \in DOMAIN w : w[i] \notin {"flat", "loop_block"},
         NEW u, Chain(u), Settled(u)
  PROVE  Settled(w \o u)
<1> DEFINE s == w \o u
           n == Len(w)
<1>1. /\ u \in Seq(Symbols) /\ s \in Seq(Symbols)
      /\ n \in Nat /\ Len(u) \in Nat /\ Len(s) = n + Len(u)
      /\ DOMAIN s = 1..Len(s) /\ DOMAIN u = 1..Len(u) /\ DOMAIN w = 1..n
      /\ \A i \in 1..n + Len(u) : s[i] = IF i <= n THEN w[i] ELSE u[i - n]
  BY ConcatProperties, LenProperties DEF Chain
<1> HIDE DEF s, n
<1>2. ASSUME NEW i \in DOMAIN s
      PROVE  s[i] # "flat" /\ (s[i] = "loop_block" => s[i + 3] \in {"fn_block", "file"})
  <2>1. CASE i <= n
    BY SMT, <1>1, <2>1
  <2>2. CASE i > n
    <3>1. i - n \in DOMAIN u /\ s[i] = u[i - n]
      BY SMT, <1>1, <2>2
    <3>2. ASSUME u[i - n] = "loop_block"
          PROVE  s[i + 3] = u[(i - n) + 3]
      <4>1. (i - n) + 3 <= Len(u)
        BY <3>1, <3>2 DEF Chain, Below
      <4>2. i + 3 \in 1..n + Len(u) /\ ~(i + 3 <= n) /\ (i + 3) - n = (i - n) + 3
        BY SMT, <1>1, <2>2, <4>1
      <4> QED
        BY <1>1, <4>2
    <3> QED
      BY <3>1, <3>2 DEF Settled
  <2> QED
    BY SMT, <1>1, <2>1, <2>2
<1> QED
  BY <1>2 DEF Settled, s

LEMMA FlatLoop ==
  ASSUME NEW w \in Seq(Symbols), NEW k \in Nat, k > 2, Len(w) = k + 2,
         w[1] \in {"For", "While", "Loop"}, w[2] = "flat",
         w[k - 1] = "LBrace", w[k] = "loop_block",
         \A i \in DOMAIN w : (i # 2 => w[i] # "flat") /\ (i # k => w[i] # "loop_block"),
         NEW u, Chain(u), Settled(u), u # <<>>, u[1] \in Blocks \cup {"file"}
  PROVE  Flatness(w \o u)
<1> DEFINE s == w \o u
           n == Len(w)
<1>1. /\ u \in Seq(Symbols) /\ s \in Seq(Symbols)
      /\ n \in Nat /\ Len(u) \in Nat \ {0} /\ Len(s) = n + Len(u)
      /\ DOMAIN s = 1..Len(s) /\ DOMAIN u = 1..Len(u) /\ DOMAIN w = 1..n
      /\ \A i \in 1..n + Len(u) : s[i] = IF i <= n THEN w[i] ELSE u[i - n]
  <2>1. u \in Seq(Symbols) /\ Len(u) \in Nat \ {0}
    BY EmptySeq DEF Chain
  <2>2. DOMAIN w = 1..n /\ DOMAIN u = 1..Len(u) /\ n \in Nat
    BY <2>1, LenProperties
  <2>3. /\ s \in Seq(Symbols) /\ Len(s) = n + Len(u)
        /\ \A i \in 1..n + Len(u) : s[i] = IF i <= n THEN w[i] ELSE u[i - n]
    BY ONLY w \in Seq(Symbols), <2>1, ConcatProperties
  <2>4. DOMAIN s = 1..Len(s)
    BY <2>3, LenProperties
  <2> QED
    BY <2>1, <2>2, <2>3, <2>4
<1>2. n = k + 2
  OBVIOUS
<1> HIDE DEF s, n
<1>3. s[1] = w[1] /\ s[2] = "flat" /\ s[k - 1] = "LBrace" /\ Len(s) >= 2
  BY SMT, <1>1, <1>2
<1>4. s[k + 3] = u[1]
  BY SMT, <1>1, <1>2
<1>5. Unchecked(s)
  BY <1>3 DEF Unchecked
<1>6. k > 1
  BY SMT
<1>7. ASSUME NEW i \in DOMAIN s
      PROVE  LoopBelow(s, i)
  <2>1. CASE i <= n
    <3>1. s[i] = w[i] /\ i \in DOMAIN w
      BY SMT, <1>1, <2>1
    <3>2. s[i] = "flat" => i = 2
      BY <3>1
    <3>3. s[i] = "loop_block" => i = k
      BY <3>1
    <3> QED
      BY <1>3, <1>4, <1>5, <1>6, <3>2, <3>3 DEF LoopBelow
  <2>2. CASE i > n
    <3>1. i - n \in DOMAIN u /\ s[i] = u[i - n]
      BY SMT, <1>1, <2>2
    <3>2. ASSUME u[i - n] = "loop_block"
          PROVE  s[i + 3] = u[(i - n) + 3]
      <4>1. (i - n) + 3 <= Len(u)
        BY <3>1, <3>2 DEF Chain, Below
      <4>2. i + 3 \in 1..n + Len(u) /\ ~(i + 3 <= n) /\ (i + 3) - n = (i - n) + 3
        BY SMT, <1>1, <2>2, <4>1
      <4> QED
        BY <1>1, <4>2
    <3> QED
      BY <3>1, <3>2 DEF Settled, LoopBelow
  <2> QED
    BY SMT, <1>1, <2>1, <2>2
<1> QED
  BY <1>7 DEF Flatness, s

(* Most calls open nothing but the else of an if or another arm. *)
QuietCall(s, w) == CallsPlain(s, w) \/ CallsElse(s, w) \/ CallsArm(s, w) \/ CallsNothing(s, w)

LEMMA QuietCalls ==
  ASSUME NEW s, NEW w, QuietCall(s, w)
  PROVE  \A i \in DOMAIN w : w[i] \notin Marked \ {"else_block", "arms"}
<1>1. CASE CallsPlain(s, w)
  <2>1. w \in Seq(Plain)
    BY <1>1 DEF CallsPlain, Plainly
  <2> QED
    BY <2>1, LenProperties, ElementOfSeq, PlainSymbols
<1>2. CASE CallsElse(s, w)
  BY SMT, <1>2 DEF CallsElse, Marked, Definitions, ControlBlocks, Assignments
<1>3. CASE CallsArm(s, w)
  BY SMT, <1>3 DEF CallsArm, Marked, Definitions, ControlBlocks, Assignments
<1>4. CASE CallsNothing(s, w)
  BY SMT, <1>4 DEF CallsNothing
<1> QED
  BY <1>1, <1>2, <1>3, <1>4 DEF QuietCall

(* A call pushes no loop but behind the check of its depth.                 *)
LEMMA FlatCalls ==
  ASSUME NEW s, Chain(s), Flatness(s), s # <<>>, s[1] \notin TokenKinds \cup Assignments,
         NEW w, Calls(s, w)
  PROVE  Flatness(w \o Tail(s))
<1> DEFINE u == Tail(s)
<1>1. w \in Seq(Symbols) /\ Chain(u) /\ Chain(s) /\ Settled(s) /\ Settled(u) /\ s \in Seq(Symbols)
  <2>1. s[1] \notin {"flat", "For", "While", "Loop"}
    BY SMT DEF TokenKinds, Keywords, Assignments
  <2> QED
    BY <2>1, CountCalls, ChainTail, FlatIsSettled, SettledTail DEF Chain
<1>2. CASE CallsLoop(s, w)
  <2>1. u # <<>> /\ u[1] \in Blocks \cup {"file"}
    BY SMT, <1>2, StmtInBlock, SomethingBelow DEF CallsLoop
  <2> HIDE DEF u
  <2>2. CASE w = For
    <3> DEFINE k == 10
    <3>1. /\ k \in Nat /\ k > 2 /\ Len(w) = k + 2 /\ w[1] \in {"For", "While", "Loop"} /\ w[2] = "flat"
          /\ w[k - 1] = "LBrace" /\ w[k] = "loop_block"
          /\ \A i \in DOMAIN w : (i # 2 => w[i] # "flat") /\ (i # k => w[i] # "loop_block")
      BY SMT, <2>2 DEF For
    <3> HIDE DEF k
    <3> QED
      BY <1>1, <2>1, <3>1, FlatLoop DEF u
  <2>3. CASE w = While
    <3> DEFINE k == 8
    <3>1. /\ k \in Nat /\ k > 2 /\ Len(w) = k + 2 /\ w[1] \in {"For", "While", "Loop"} /\ w[2] = "flat"
          /\ w[k - 1] = "LBrace" /\ w[k] = "loop_block"
          /\ \A i \in DOMAIN w : (i # 2 => w[i] # "flat") /\ (i # k => w[i] # "loop_block")
      BY SMT, <2>3 DEF While
    <3> HIDE DEF k
    <3> QED
      BY <1>1, <2>1, <3>1, FlatLoop DEF u
  <2>4. CASE w = Loop
    <3> DEFINE k == 5
    <3>1. /\ k \in Nat /\ k > 2 /\ Len(w) = k + 2 /\ w[1] \in {"For", "While", "Loop"} /\ w[2] = "flat"
          /\ w[k - 1] = "LBrace" /\ w[k] = "loop_block"
          /\ \A i \in DOMAIN w : (i # 2 => w[i] # "flat") /\ (i # k => w[i] # "loop_block")
      BY SMT, <2>4 DEF Loop
    <3> HIDE DEF k
    <3> QED
      BY <1>1, <2>1, <3>1, FlatLoop DEF u
  <2> QED
    BY <1>2, <2>2, <2>3, <2>4 DEF CallsLoop, u
<1>3. ASSUME \A i \in DOMAIN w : w[i] \notin {"flat", "loop_block"}
      PROVE  Flatness(w \o u)
  BY <1>1, <1>3, SettledConcat, SettledIsFlat
<1>4. CASE QuietCall(s, w)
  <2>1. {"flat", "loop_block"} \subseteq Marked \ {"else_block", "arms"}
    BY SMT DEF Marked, ControlBlocks, Assignments
  <2> QED
    BY <1>3, <1>4, <2>1, QuietCalls
<1>5. CASE CallsIf(s, w)
  <2>1. \A i \in DOMAIN w : w[i] \notin {"flat", "loop_block"}
    BY SMT, <1>5 DEF CallsIf, If, Match
  <2> QED
    BY <1>3, <2>1
<1>6. CASE CallsStmt(s, w)
  <2>1. w \o u = <<"stmt">> \o s
    BY <1>6, StmtRegroup DEF CallsStmt
  <2>2. <<"stmt">> \in Seq(Symbols) /\ \A i \in DOMAIN <<"stmt">> : <<"stmt">>[i] \notin {"flat", "loop_block"}
    BY SMT, SpecialSymbols DEF Marked
  <2> QED
    BY <1>1, <2>1, <2>2, SettledConcat, SettledIsFlat
<1>7. CASE CallsItem(s, w)
  <2>1. \A i \in DOMAIN w : w[i] \notin {"flat", "loop_block"}
    BY SMT, <1>7 DEF CallsItem
  <2> QED
    BY <1>3, <2>1
<1>8. CASE CallsFn(s, w) \/ CallsExt(s, w)
  <2>1. \A i \in DOMAIN w : w[i] \notin {"flat", "loop_block"}
    BY SMT, <1>8 DEF CallsFn, CallsExt, Fn, CompilerExt
  <2> QED
    BY <1>3, <2>1
<1> QED
  BY <1>2, <1>4, <1>5, <1>6, <1>7, <1>8 DEF Calls, QuietCall

-----------------------------------------------------------------------------
(* What the fields stand for, across a call.                                *)

LEMMA CallElements ==
  ASSUME NEW w \in Seq(Symbols), NEW s \in Seq(Symbols), s # <<>>
  PROVE  LET q == w \o Tail(s) IN
         /\ q \in Seq(Symbols) /\ Len(w) \in Nat /\ Len(s) \in Nat /\ Len(s) >= 1
         /\ Len(q) = Len(w) + Len(s) - 1
         /\ DOMAIN q = 1..Len(q) /\ DOMAIN w = 1..Len(w) /\ DOMAIN s = 1..Len(s)
         /\ \A i \in 1..Len(w) : q[i] = w[i]
         /\ \A j \in 2..Len(s) : q[Len(w) + j - 1] = s[j]
<1> DEFINE u == Tail(s)
           q == w \o u
           n == Len(w)
           l == Len(s)
<1>1. /\ u \in Seq(Symbols) /\ Len(u) = l - 1 /\ \A i \in 1..Len(u) : u[i] = s[i + 1]
  BY HeadTailProperties
<1>2. n \in Nat /\ l \in Nat \ {0} /\ DOMAIN w = 1..n /\ DOMAIN s = 1..l
  BY LenProperties, EmptySeq
<1>3. /\ q \in Seq(Symbols) /\ Len(q) = n + Len(u)
      /\ \A i \in 1..n + Len(u) : q[i] = IF i <= n THEN w[i] ELSE u[i - n]
  BY <1>1, ConcatProperties
<1>4. DOMAIN q = 1..Len(q)
  BY <1>3, LenProperties
<1> DEFINE m == Len(u)
<1>5. m = l - 1 /\ Len(q) = n + m
  BY <1>1, <1>3
<1>6. \A i \in 1..m : u[i] = s[i + 1]
  BY <1>1
<1>7. \A i \in 1..n + m : q[i] = IF i <= n THEN w[i] ELSE u[i - n]
  BY <1>3
<1> HIDE DEF u, q, n, l, m
<1>8. l >= 1 /\ Len(q) = n + l - 1
  BY SMT, <1>2, <1>5
<1>9. \A i \in 1..n : q[i] = w[i]
  BY SMT, <1>2, <1>5, <1>7
<1>10. ASSUME NEW j \in 2..l
       PROVE  q[n + j - 1] = s[j]
  <2>1. n + j - 1 \in 1..n + m /\ ~(n + j - 1 <= n) /\ (n + j - 1) - n = j - 1 /\ j - 1 \in 1..m /\ (j - 1) + 1 = j
    BY SMT, <1>2, <1>5
  <2>2. q[n + j - 1] = u[(n + j - 1) - n]
    BY <1>7, <2>1
  <2>3. u[j - 1] = s[(j - 1) + 1]
    BY <1>6, <2>1
  <2> QED
    BY <2>1, <2>2, <2>3
<1> QED
  BY <1>2, <1>3, <1>4, <1>8, <1>9, <1>10 DEF q, n, l, u

LEMMA InFnQuiet ==
  ASSUME NEW w \in Seq(Symbols), NEW s \in Seq(Symbols), s # <<>>,
         s[1] \notin {"leave_fn", "enter_fn"},
         \A i \in DOMAIN w : w[i] \notin {"leave_fn", "enter_fn"}
  PROVE  InFn(w \o Tail(s)) <=> InFn(s)
<1> DEFINE q == w \o Tail(s)
           n == Len(w)
           l == Len(s)
           m == Len(q)
<1>1. /\ n \in Nat /\ l \in Nat /\ l >= 1 /\ m = n + l - 1
      /\ \A i \in 1..n : q[i] = w[i] /\ w[i] \notin {"leave_fn", "enter_fn"}
      /\ \A j \in 2..l : q[n + j - 1] = s[j]
  BY CallElements
<1> HIDE DEF q, n, l, m
<1>2. ASSUME NEW k \in {1, 5}, NEW x \in {"leave_fn", "enter_fn"}
      PROVE  (m > k /\ q[m - k] = x) <=> (l > k /\ s[l - k] = x)
  <2>1. CASE l - k >= 2
    <3>1. l - k \in 2..l /\ n + (l - k) - 1 = m - k /\ m > k /\ l > k
      BY SMT, <1>1, <2>1
    <3>2. q[m - k] = s[l - k]
      BY <1>1, <3>1
    <3> QED
      BY <3>1, <3>2
  <2>2. CASE l - k < 2
    <3>1. l > k => l - k = 1
      BY SMT, <1>1, <2>2
    <3>2. m > k => m - k \in 1..n
      BY SMT, <1>1, <2>2
    <3> QED
      BY <1>1, <3>1, <3>2
  <2> QED
    BY SMT, <1>1, <2>1, <2>2
<1>3. (m > 1 /\ q[m - 1] = "leave_fn") <=> (l > 1 /\ s[l - 1] = "leave_fn")
  BY <1>2
<1>4. (m > 5 /\ q[m - 5] = "enter_fn") <=> (l > 5 /\ s[l - 5] = "enter_fn")
  BY <1>2
<1>5. (m > 1 <=> m >= 2) /\ (l > 1 <=> l >= 2) /\ (m > 5 <=> m >= 6) /\ (l > 5 <=> l >= 6)
  BY SMT, <1>1
<1>6. InFn(q) <=> m > 1 /\ q[m - 1] = "leave_fn" /\ ~(m > 5 /\ q[m - 5] = "enter_fn")
  BY <1>5 DEF InFn, m
<1>7. InFn(s) <=> l > 1 /\ s[l - 1] = "leave_fn" /\ ~(l > 5 /\ s[l - 5] = "enter_fn")
  BY <1>5 DEF InFn, l
<1> QED
  BY <1>3, <1>4, <1>6, <1>7 DEF q

(* A call enters no function by itself.                                     *)
LEMMA InFnCalls ==
  ASSUME NEW s, Chain(s), s # <<>>, s[1] \notin TokenKinds \cup Assignments,
         NEW w, Calls(s, w)
  PROVE  InFn(w \o Tail(s)) <=> InFn(s)
<1>1. w \in Seq(Symbols) /\ s \in Seq(Symbols) /\ s[1] \notin {"leave_fn", "enter_fn"}
  BY CountCalls DEF Chain, Assignments
<1>2. ASSUME \A i \in DOMAIN w : w[i] \notin {"leave_fn", "enter_fn"}
      PROVE  InFn(w \o Tail(s)) <=> InFn(s)
  BY <1>1, <1>2, InFnQuiet
<1>3. CASE QuietCall(s, w)
  <2>1. {"leave_fn", "enter_fn"} \subseteq Marked \ {"else_block", "arms"}
    BY SMT DEF Marked, Assignments
  <2> QED
    BY <1>2, <1>3, <2>1, QuietCalls
<1>4. CASE CallsIf(s, w)
  <2>1. \A i \in DOMAIN w : w[i] \notin {"leave_fn", "enter_fn"}
    BY SMT, <1>4 DEF CallsIf, If, Match
  <2> QED
    BY <1>2, <2>1
<1>5. CASE CallsLoop(s, w)
  <2>1. \A i \in DOMAIN w : w[i] \notin {"leave_fn", "enter_fn"}
    <3>1. CASE w = For
      BY SMT, <3>1 DEF For
    <3>2. CASE w = While
      BY SMT, <3>2 DEF While
    <3>3. CASE w = Loop
      BY SMT, <3>3 DEF Loop
    <3> QED
      BY <1>5, <3>1, <3>2, <3>3 DEF CallsLoop
  <2> QED
    BY <1>2, <2>1
<1>6. CASE CallsStmt(s, w)
  <2>1. \A i \in DOMAIN w : w[i] \notin {"leave_fn", "enter_fn"}
    BY SMT, <1>6 DEF CallsStmt, Blocks
  <2> QED
    BY <1>2, <2>1
<1>7. CASE CallsItem(s, w)
  <2>1. \A i \in DOMAIN w : w[i] \notin {"leave_fn", "enter_fn"}
    BY SMT, <1>7 DEF CallsItem
  <2> QED
    BY <1>2, <2>1
<1>8. CASE CallsExt(s, w)
  <2>1. \A i \in DOMAIN w : w[i] \notin {"leave_fn", "enter_fn"}
    BY SMT, <1>8 DEF CallsExt, CompilerExt
  <2> QED
    BY <1>2, <2>1
<1>9. CASE CallsFn(s, w)
  <2> DEFINE q == w \o Tail(s)
  <2>1. s = <<"fn", "file">> /\ Tail(s) = <<"file">>
    BY SMT, <1>9 DEF CallsFn
  <2>2. Len(q) = 13 /\ q[8] = "enter_fn"
    BY <1>9, <2>1, ChainOfFn DEF CallsFn
  <2> HIDE DEF q
  <2>3. ~InFn(q)
    BY SMT, <2>2 DEF InFn
  <2>4. ~InFn(s)
    BY SMT, <2>1 DEF InFn
  <2> QED
    BY <2>3, <2>4 DEF q
<1> QED
  BY <1>3, <1>4, <1>5, <1>6, <1>7, <1>8, <1>9 DEF Calls, QuietCall

(* A call that is made in a condition or subject stays in it.               *)
LEMMA HeaderCalls ==
  ASSUME NEW s, Chain(s), s # <<>>, s[1] \notin TokenKinds \cup Assignments, InHeader(s),
         NEW w, Calls(s, w)
  PROVE  InHeader(w \o Tail(s))
<1> DEFINE q == w \o Tail(s)
           n == Len(w)
           l == Len(s)
           Bodies == Blocks \cup {"arms", "stmt", "else"}
<1>1. w \in Seq(Symbols) /\ s \in Seq(Symbols)
  BY CountCalls DEF Chain
<1>2. /\ n \in Nat /\ l \in Nat /\ l >= 1 /\ Len(q) = n + l - 1
      /\ DOMAIN q = 1..Len(q) /\ DOMAIN w = 1..n /\ DOMAIN s = 1..l
      /\ \A i \in 1..n : q[i] = w[i]
      /\ \A j \in 2..l : q[n + j - 1] = s[j]
  BY <1>1, CallElements
<1>3. PICK i \in DOMAIN s : s[i] = "literals" /\ \A j \in DOMAIN s : j < i => s[j] \notin Bodies
  BY DEF InHeader
<1> HIDE DEF q, n, l
<1>4. s[1] # "literals" /\ 1 \in DOMAIN s
  BY SMT, <1>2 DEF Assignments
<1>5. i \in 2..l
  BY SMT, <1>2, <1>3, <1>4
<1>6. s[1] \notin Bodies
  BY SMT, <1>3, <1>4, <1>5
<1>7. CASE CallsPlain(s, w)
  <2>1. \A j \in 1..n : w[j] \notin Bodies
    <3>1. QuietCall(s, w)
      BY <1>7 DEF QuietCall
    <3>2. w \in Seq(Plain)
      BY <1>7 DEF CallsPlain, Plainly
    <3>3. \A j \in 1..n : w[j] \in Plain
      BY <1>2, <3>2, ElementOfSeq DEF n
    <3>4. Bodies \subseteq Marked
      BY SMT DEF Marked, Definitions, ControlBlocks, Blocks
    <3> HIDE DEF Bodies
    <3> QED
      BY <3>3, <3>4, PlainSymbols
  <2>2. n + i - 1 \in DOMAIN q /\ q[n + i - 1] = "literals"
    <3>1. n + i - 1 \in 1..Len(q)
      BY SMT, <1>2, <1>5
    <3> QED
      BY <1>2, <1>3, <1>5, <3>1
  <2>3. ASSUME NEW j \in DOMAIN q, j < n + i - 1
        PROVE  q[j] \notin Bodies
    <3>1. CASE j <= n
      <4>1. j \in 1..n
        BY SMT, <1>2, <3>1
      <4> QED
        BY <1>2, <2>1, <4>1
    <3>2. CASE j > n
      <4>1. /\ j - n + 1 \in 2..l /\ n + (j - n + 1) - 1 = j
            /\ j - n + 1 \in DOMAIN s /\ j - n + 1 < i
        BY SMT, <1>2, <1>5, <2>3, <3>2
      <4>2. q[j] = s[j - n + 1]
        BY <1>2, <4>1
      <4> QED
        BY <1>3, <4>1, <4>2
    <3> QED
      BY SMT, <1>2, <3>1, <3>2
  <2> QED
    BY <2>2, <2>3 DEF InHeader, q
<1>8. CASE CallsIf(s, w)
  <2>1. /\ n >= 4 /\ w[1] \notin Bodies /\ w[2] \notin Bodies /\ w[3] \notin Bodies /\ w[4] = "literals"
    <3>1. CASE w = If
      BY SMT, <3>1 DEF If, Blocks, n
    <3>2. CASE w = Match
      BY SMT, <3>2 DEF Match, Blocks, n
    <3> QED
      BY <1>8, <3>1, <3>2 DEF CallsIf
  <2>2. 4 \in DOMAIN q /\ q[4] = "literals" /\ \A j \in DOMAIN q : j < 4 => q[j] \notin Bodies
    <3>1. 4 \in 1..n /\ 4 \in DOMAIN q /\ (\A j \in DOMAIN q : j < 4 => j \in {1, 2, 3} /\ j \in 1..n)
      BY SMT, <1>2, <2>1
    <3> QED
      BY <1>2, <2>1, <3>1
  <2> QED
    BY <2>2 DEF InHeader, q
<1>9. CASE CallsItem(s, w)
  <2>1. l = 1
    BY SMT, <1>9 DEF CallsItem, l
  <2> QED
    BY SMT, <1>5, <2>1
<1>10. CASE CallsFn(s, w) \/ CallsExt(s, w)
  <2>1. l = 2 /\ s[2] = "file"
    BY SMT, <1>10 DEF CallsFn, CallsExt, l
  <2> QED
    BY SMT, <1>3, <1>5, <2>1
<1> QED
  BY <1>6, <1>7, <1>8, <1>9, <1>10 DEF Calls, CallsLoop, CallsElse, CallsArm, CallsStmt, CallsNothing

(* In the algorithm zone a call finds no definition unless it has checked the zone.*)
LEMMA ZoneCalls ==
  ASSUME NEW s, Chain(s), s # <<>>, \A i \in DOMAIN s : s[i] \notin Definitions,
         NEW w, Calls(s, w)
  PROVE  Undefining(w \o Tail(s))
<1> DEFINE q == w \o Tail(s)
           n == Len(w)
           l == Len(s)
<1>1. w \in Seq(Symbols) /\ s \in Seq(Symbols)
  BY CountCalls DEF Chain
<1>2. /\ n \in Nat /\ l \in Nat /\ l >= 1 /\ Len(q) = n + l - 1
      /\ DOMAIN q = 1..Len(q) /\ DOMAIN w = 1..n /\ DOMAIN s = 1..l
      /\ \A i \in 1..n : q[i] = w[i]
      /\ \A j \in 2..l : q[n + j - 1] = s[j]
  BY <1>1, CallElements
<1> HIDE DEF q, n, l
<1>3. s[1] \notin Definitions
  BY SMT, <1>2
<1>4. ASSUME \A i \in DOMAIN w : w[i] \notin Definitions
      PROVE  \A i \in DOMAIN q : q[i] \notin Definitions
  <2> TAKE i \in DOMAIN q
  <2>1. CASE i <= n
    <3>1. i \in 1..n
      BY SMT, <1>2, <2>1
    <3> QED
      BY <1>2, <1>4, <3>1
  <2>2. CASE i > n
    <3>1. i - n + 1 \in 2..l /\ n + (i - n + 1) - 1 = i /\ i - n + 1 \in DOMAIN s
      BY SMT, <1>2, <2>2
    <3> QED
      BY <1>2, <3>1
  <2> QED
    BY SMT, <1>2, <2>1, <2>2
<1>5. CASE QuietCall(s, w)
  <2>1. Definitions \subseteq Marked \ {"else_block", "arms"}
    BY SMT DEF Marked, Definitions
  <2> QED
    BY <1>4, <1>5, <2>1, QuietCalls DEF q, Undefining
<1>6. CASE CallsIf(s, w) \/ CallsLoop(s, w)
  <2>1. \A i \in DOMAIN w : w[i] \notin Definitions
    BY SMT, <1>6 DEF CallsIf, CallsLoop, If, Match, For, While, Loop, Definitions
  <2> QED
    BY <1>4, <2>1 DEF q, Undefining
<1>7. CASE CallsStmt(s, w)
  <2>1. \A i \in DOMAIN w : w[i] \notin Definitions
    BY SMT, <1>3, <1>7 DEF CallsStmt, Definitions
  <2> QED
    BY <1>4, <2>1 DEF q, Undefining
<1>8. CASE CallsItem(s, w)
  <2>1. l = 1
    BY SMT, <1>8 DEF CallsItem, l
  <2>2. CASE w \in {<<>>, <<"alg_zone", "stmt", "file">>}
    <3>1. \A i \in DOMAIN w : w[i] \notin Definitions
      BY SMT, <2>2 DEF Definitions
    <3> QED
      BY <1>4, <3>1 DEF q, Undefining
  <2>3. CASE \E x \in {"import", "ext", "fn", "type", "enum"} : w = <<"def_zone", x, "file">>
    <3>1. n = 3 /\ w[1] = "def_zone"
      BY SMT, <2>3 DEF n
    <3>2. q[1] = "def_zone"
      BY SMT, <1>2, <3>1
    <3> QED
      BY <3>2 DEF q, Undefining
  <2> QED
    BY <1>8, <2>2, <2>3 DEF CallsItem
<1>9. CASE CallsFn(s, w) \/ CallsExt(s, w)
  <2>1. s[1] \in Definitions
    BY SMT, <1>9 DEF CallsFn, CallsExt, Definitions
  <2> QED
    BY <1>3, <2>1
<1> QED
  BY <1>5, <1>6, <1>7, <1>8, <1>9 DEF Calls, QuietCall

-----------------------------------------------------------------------------
(* Bodies and the places where their depth is given back.                   *)

Controls(s) == {i \in DOMAIN s : s[i] \in ControlBlocks /\ (i = 1 \/ s[i - 1] # "LBrace")}
Bodies(s) == {i \in DOMAIN s : s[i] \in ControlBlocks}
GivenBack(s, i) == IF s[i] = "then_block" THEN i + 3 ELSE i + 2

LEMMA ChainDomain ==
  ASSUME NEW s, Chain(s)
  PROVE  s \in Seq(Symbols) /\ Len(s) \in Nat /\ DOMAIN s = 1..Len(s)
  BY LenProperties DEF Chain

(* Every body of a control structure has its place where its depth is given back.*)
LEMMA GivenBackIsShallower ==
  ASSUME NEW s, Chain(s), NEW i \in Bodies(s)
  PROVE  GivenBack(s, i) \in Occurrences(s, "shallower") /\ i \in Nat /\ s[i + 1] = "RBrace"
<1>1. Len(s) \in Nat /\ DOMAIN s = 1..Len(s) /\ i \in 1..Len(s) /\ s[i] \in ControlBlocks
  BY ChainDomain DEF Bodies
<1>2. Below(s, i)
  BY <1>1 DEF Chain
<1>3. CASE s[i] = "then_block"
  <2>1. i + 3 <= Len(s) /\ s[i + 1] = "RBrace" /\ s[i + 2] = "else"
    BY <1>2, <1>3 DEF Below
  <2>2. i + 2 \in 1..Len(s)
    BY SMT, <1>1, <2>1
  <2>3. Below(s, i + 2)
    BY <1>1, <2>2 DEF Chain
  <2>4. s[(i + 2) + 1] = "shallower"
    BY <2>1, <2>3 DEF Below
  <2>5. i + 3 \in 1..Len(s) /\ (i + 2) + 1 = i + 3 /\ i \in Nat
    BY SMT, <1>1, <2>1
  <2>6. s[i + 3] = "shallower"
    BY <2>4, <2>5
  <2> QED
    BY <1>1, <1>3, <2>1, <2>5, <2>6 DEF GivenBack, Occurrences
<1>4. CASE s[i] # "then_block"
  <2>1. s[i] \in {"loop_block", "else_block", "arms"}
    BY <1>1, <1>4 DEF ControlBlocks
  <2>2. i + 3 <= Len(s) /\ s[i + 1] = "RBrace" /\ s[i + 2] = "shallower"
    BY <1>2, <2>1 DEF Below
  <2>3. i + 2 \in 1..Len(s) /\ i \in Nat
    BY SMT, <1>1, <2>2
  <2> QED
    BY <1>1, <1>4, <2>2, <2>3 DEF GivenBack, Occurrences
<1> QED
  BY <1>3, <1>4

(* No two bodies share that place.                                          *)
LEMMA GivenBackOnce ==
  ASSUME NEW s, Chain(s), NEW i \in Bodies(s), NEW k \in Bodies(s),
         GivenBack(s, i) = GivenBack(s, k)
  PROVE  i = k
<1>1. i \in Nat /\ k \in Nat /\ s[i + 1] = "RBrace" /\ s[k + 1] = "RBrace"
  BY GivenBackIsShallower
<1>2. s[i] \in ControlBlocks /\ s[k] \in ControlBlocks
  BY DEF Bodies
<1>3. \/ i = k
      \/ i + 3 = k + 2
      \/ i + 2 = k + 3
  BY SMT, <1>1 DEF GivenBack
<1>4. i = k \/ k = i + 1 \/ i = k + 1
  BY SMT, <1>1, <1>3
<1> QED
  BY <1>1, <1>2, <1>4 DEF ControlBlocks

(* A depth still to be taken belongs to a body that is not open. *)
LEMMA DeeperHasBody ==
  ASSUME NEW s, Chain(s), NEW i \in Occurrences(s, "deeper")
  PROVE  i \in Nat /\ i >= 1 /\ i + 2 \in Bodies(s) /\ s[i + 1] = "LBrace"
<1>1. Len(s) \in Nat /\ DOMAIN s = 1..Len(s) /\ i \in 1..Len(s) /\ s[i] = "deeper"
  BY ChainDomain DEF Occurrences
<1>2. Below(s, i)
  BY <1>1 DEF Chain
<1>3. i + 2 <= Len(s) /\ s[i + 1] = "LBrace" /\ s[i + 2] \in {"loop_block", "then_block", "arms"}
  BY <1>1, <1>2 DEF Below
<1>4. i + 2 \in 1..Len(s) /\ i \in Nat /\ i >= 1
  BY SMT, <1>1, <1>3
<1> QED
  BY <1>1, <1>3, <1>4 DEF Bodies, ControlBlocks

(* A depth that is given back and was taken before.                         *)
LEMMA FewerDeeper ==
  ASSUME NEW s, Chain(s), NEW e \in Occurrences(s, "shallower"),
         \A i \in Occurrences(s, "deeper") : GivenBack(s, i + 2) # e
  PROVE  Count(s, "deeper") < Count(s, "shallower")
<1> DEFINE D == Occurrences(s, "deeper")
           E == Occurrences(s, "shallower")
           T == E \ {e}
           f == [i \in D |-> GivenBack(s, i + 2)]
<1>1. s \in Seq(Symbols)
  BY DEF Chain
<1>2. IsFiniteSet(E) /\ Cardinality(E) \in Nat /\ Cardinality(D) \in Nat /\ IsFiniteSet(D)
  BY <1>1, CountType DEF Count
<1>3. IsFiniteSet(T) /\ Cardinality(T) = Cardinality(E) - 1
  <2>1. e \in E
    OBVIOUS
  <2> HIDE DEF E
  <2> QED
    BY <1>2, <2>1, FS_RemoveElement
<1>4. f \in [D -> T]
  BY DeeperHasBody, GivenBackIsShallower
<1>5. \A i, k \in D : f[i] = f[k] => i = k
  <2> SUFFICES ASSUME NEW i \in D, NEW k \in D, GivenBack(s, i + 2) = GivenBack(s, k + 2)
               PROVE  i = k
    OBVIOUS
  <2>1. i + 2 = k + 2 /\ i \in Nat /\ k \in Nat
    BY DeeperHasBody, GivenBackOnce
  <2> QED
    BY SMT, <2>1
<1> HIDE DEF D, E, T, f
<1>6. f \in Injection(D, T)
  BY <1>4, <1>5, Fun_IsInj
<1>7. Cardinality(D) <= Cardinality(T)
  BY <1>3, <1>6, FS_Injection
<1> DEFINE d == Cardinality(D)
           h == Cardinality(E)
           g == Cardinality(T)
<1>8. d \in Nat /\ h \in Nat /\ g = h - 1 /\ d <= g
  BY <1>2, <1>3, <1>7
<1> HIDE DEF d, h, g
<1>9. d < h
  BY SMT, <1>8
<1> QED
  BY <1>9 DEF Count, d, h, D, E

(* Where a depth is given back, it has been taken.                          *)
LEMMA ShallowerIsTaken ==
  ASSUME NEW s, Chain(s), s # <<>>, s[1] = "shallower"
  PROVE  Count(s, "deeper") < Count(s, "shallower")
<1>1. 1 \in Occurrences(s, "shallower")
  BY SMT, ChainDomain, EmptySeq DEF Occurrences
<1>2. ASSUME NEW i \in Occurrences(s, "deeper")
      PROVE  GivenBack(s, i + 2) # 1
  <2>1. i \in Nat
    BY DeeperHasBody
  <2> QED
    BY SMT, <2>1 DEF GivenBack
<1> QED
  BY <1>1, <1>2, FewerDeeper

(* In an open body of a control structure, a depth has been taken.          *)
LEMMA ControlIsTaken ==
  ASSUME NEW s, Chain(s), NEW i \in Controls(s)
  PROVE  Count(s, "deeper") < Count(s, "shallower")
<1>1. i \in Bodies(s) /\ (i = 1 \/ s[i - 1] # "LBrace")
  BY DEF Controls, Bodies
<1>2. GivenBack(s, i) \in Occurrences(s, "shallower")
  BY <1>1, GivenBackIsShallower
<1>3. ASSUME NEW k \in Occurrences(s, "deeper"), GivenBack(s, k + 2) = GivenBack(s, i)
      PROVE  FALSE
  <2>1. k \in Nat /\ k >= 1 /\ k + 2 \in Bodies(s) /\ s[k + 1] = "LBrace"
    BY DeeperHasBody
  <2>2. k + 2 = i
    BY <1>1, <1>3, <2>1, GivenBackOnce
  <2>3. i # 1 /\ i - 1 = k + 1
    BY SMT, <2>1, <2>2
  <2> QED
    BY <1>1, <2>1, <2>3
<1> QED
  BY <1>2, <1>3, FewerDeeper

(* A method on top: every body above it has been opened by its brace.       *)
LEMMA FirmWhole ==
  ASSUME NEW s, Chain(s), s # <<>>,
         s[1] \notin {"RBrace", "LBrace", "deeper", "shallower", "else", "Else",
                      "then_block", "loop_block", "else_block", "arms"}
  PROVE  Firm(s)
<1>1. Len(s) \in Nat /\ DOMAIN s = 1..Len(s)
  BY ChainDomain
<1>2. ASSUME NEW i \in 1..Len(s)
      PROVE  Standing(s, i)
  <2>1. Above(s, i)
    BY <1>1 DEF Chain
  <2>2. i = 2 => s[i - 1] = s[1]
    BY SMT
  <2>3. i = 3 => s[i - 2] = s[1]
    BY SMT
  <2>4. i \in Nat /\ i >= 1 /\ (i = 1 \/ i = 2 \/ i > 2)
    BY SMT, <1>1
  <2>5. i > 2 => i > 1
    BY SMT, <2>4
  <2>6. i = 1 => ~(i > 1)
    BY SMT
  <2> QED
    BY SMT, <2>1, <2>2, <2>3, <2>4, <2>5, <2>6 DEF Above, Standing
<1> QED
  BY <1>1, <1>2 DEF Firm

(* The depths taken and not given back are as many as the open bodies.      *)
LEMMA Depth ==
  ASSUME NEW s, Chain(s), Firm(s)
  PROVE  Count(s, "shallower") = Count(s, "deeper") + Cardinality(Controls(s))
<1> DEFINE D == Occurrences(s, "deeper")
           E == Occurrences(s, "shallower")
           B == Bodies(s)
           C == Controls(s)
           P == {i + 2 : i \in D}
<1>1. s \in Seq(Symbols) /\ Len(s) \in Nat /\ DOMAIN s = 1..Len(s)
  BY ChainDomain
<1>2. IsFiniteSet(D) /\ IsFiniteSet(E)
  BY <1>1, CountType
<1>3. IsFiniteSet(B) /\ Cardinality(B) = Cardinality(E)
  <2> DEFINE f == [i \in B |-> GivenBack(s, i)]
  <2>1. f \in [B -> E]
    BY GivenBackIsShallower
  <2>2. \A i, k \in B : f[i] = f[k] => i = k
    BY GivenBackOnce
  <2>3. ASSUME NEW k \in E
        PROVE  \E i \in B : f[i] = k
    <3>1. k \in 1..Len(s) /\ s[k] = "shallower" /\ Standing(s, k)
      BY <1>1 DEF Occurrences, Firm
    <3>2. CASE k > 1 /\ s[k - 1] = "else"
      <4>1. k - 1 \in 1..Len(s)
        BY SMT, <1>1, <3>1, <3>2
      <4>2. Standing(s, k - 1)
        BY <1>1, <4>1 DEF Firm
      <4>3. k - 1 > 2 /\ s[(k - 1) - 2] = "then_block"
        BY <3>2, <4>2 DEF Standing
      <4>4. (k - 1) - 2 \in 1..Len(s) /\ ((k - 1) - 2) + 3 = k
        <5>1. k - 1 > 2 /\ k \in 1..Len(s) /\ Len(s) \in Nat
          BY <1>1, <3>1, <4>3
        <5> QED
          BY SMT, <5>1
      <4>5. (k - 1) - 2 \in B /\ GivenBack(s, (k - 1) - 2) = k
        BY <1>1, <4>3, <4>4 DEF Bodies, GivenBack, ControlBlocks
      <4> QED
        BY <4>5
    <3>3. CASE k > 2 /\ s[k - 1] = "RBrace" /\ s[k - 2] \in {"loop_block", "else_block", "arms"}
      <4>1. k - 2 \in 1..Len(s) /\ (k - 2) + 2 = k
        BY SMT, <1>1, <3>1, <3>3
      <4>2. k - 2 \in B
        BY <1>1, <3>3, <4>1 DEF Bodies, ControlBlocks
      <4>3. GivenBack(s, k - 2) = k
        BY SMT, <3>3, <4>1 DEF GivenBack
      <4> QED
        BY <4>2, <4>3
    <3> QED
      BY <3>1, <3>2, <3>3 DEF Standing
  <2> HIDE DEF B, E
  <2>4. f \in Bijection(B, E)
    <3> HIDE DEF f
    <3> QED
      BY <2>1, <2>2, <2>3, Fun_IsBij
  <2>5. IsFiniteSet(B)
    <3> HIDE DEF f
    <3> QED
      BY <1>2, <2>1, <2>2, Fun_IsInj, FS_Injection
  <2> QED
    BY <2>4, <2>5, FS_Bijection DEF ExistsBijection
<1>4. B = C \cup P /\ C \cap P = {}
  <2>1. P \subseteq B
    BY DeeperHasBody
  <2>2. C \subseteq B
    BY DEF Controls, Bodies
  <2>3. ASSUME NEW i \in B
        PROVE  i \in C \/ i \in P
    <3>1. i \in 1..Len(s) /\ s[i] \in ControlBlocks /\ Standing(s, i)
      BY <1>1 DEF Bodies, Firm
    <3>2. CASE i = 1 \/ s[i - 1] # "LBrace"
      BY <1>1, <3>1, <3>2 DEF Controls
    <3>3. CASE i # 1 /\ s[i - 1] = "LBrace"
      <4>1. i > 1
        BY SMT, <1>1, <3>1, <3>3
      <4>2. i > 2 /\ s[i - 2] = "deeper"
        BY <3>1, <3>3, <4>1 DEF Standing, ControlBlocks
      <4>3. i - 2 \in 1..Len(s) /\ (i - 2) + 2 = i
        BY SMT, <1>1, <3>1, <4>2
      <4>4. i - 2 \in D
        BY <1>1, <4>2, <4>3 DEF Occurrences
      <4> QED
        BY <4>3, <4>4
    <3> QED
      BY <3>2, <3>3
  <2>4. ASSUME NEW i \in D, i + 2 \in C
        PROVE  FALSE
    <3>1. i \in Nat /\ i >= 1 /\ s[i + 1] = "LBrace"
      BY <2>4, DeeperHasBody
    <3>2. i + 2 # 1 /\ (i + 2) - 1 = i + 1
      BY SMT, <3>1
    <3> QED
      BY <2>4, <3>1, <3>2 DEF Controls
  <2> QED
    BY <2>1, <2>2, <2>3, <2>4
<1>5. IsFiniteSet(P) /\ Cardinality(P) = Cardinality(D)
  <2> DEFINE f == [i \in D |-> i + 2]
  <2>1. f \in [D -> P]
    OBVIOUS
  <2>2. \A i, k \in D : f[i] = f[k] => i = k
    <3> SUFFICES ASSUME NEW i \in D, NEW k \in D, i + 2 = k + 2
                 PROVE  i = k
      OBVIOUS
    <3>1. i \in Nat /\ k \in Nat
      BY DeeperHasBody
    <3> QED
      BY SMT, <3>1
  <2>3. \A k \in P : \E i \in D : f[i] = k
    OBVIOUS
  <2> HIDE DEF D, P
  <2>4. f \in Bijection(D, P)
    <3> HIDE DEF f
    <3> QED
      BY <2>1, <2>2, <2>3, Fun_IsBij
  <2> QED
    BY <1>2, <2>4, FS_Bijection DEF ExistsBijection
<1>6. IsFiniteSet(C)
  <2>1. C \in SUBSET B
    BY DEF Controls, Bodies
  <2> HIDE DEF B, C
  <2> QED
    BY <1>3, <2>1, FS_Subset
<1>7. Cardinality(B) = Cardinality(C) + Cardinality(P) - Cardinality(C \cap P)
  <2> HIDE DEF B, C, P
  <2> QED
    BY <1>4, <1>5, <1>6, FS_Union
<1>8. Cardinality(C \cap P) = 0 /\ Cardinality(C) \in Nat /\ Cardinality(P) \in Nat
  <2> HIDE DEF C, P
  <2> QED
    BY <1>4, <1>5, <1>6, FS_EmptySet, FS_CardinalityType
<1> DEFINE b == Cardinality(B)
           c == Cardinality(C)
           p == Cardinality(P)
<1>9. b = c + p - 0 /\ c \in Nat /\ p \in Nat
  BY <1>7, <1>8
<1> HIDE DEF b, c, p
<1>10. b = p + c
  BY SMT, <1>9
<1>11. Count(s, "shallower") = b /\ Count(s, "deeper") = p
  BY <1>3, <1>5 DEF Count, b, p
<1> QED
  BY <1>10, <1>11 DEF c

-----------------------------------------------------------------------------
(* What remains when the first symbol is done.                              *)

(* What is left of the stack when its top is done.                          *)
LEMMA TailElements ==
  ASSUME NEW s, Chain(s), s # <<>>
  PROVE  /\ s \in Seq(Symbols) /\ Tail(s) \in Seq(Symbols) /\ Chain(Tail(s))
         /\ Len(s) \in Nat /\ Len(s) >= 1 /\ Len(Tail(s)) = Len(s) - 1
         /\ DOMAIN s = 1..Len(s) /\ DOMAIN Tail(s) = 1..Len(Tail(s))
         /\ \A i \in 1..Len(Tail(s)) : Tail(s)[i] = s[i + 1] /\ i + 1 \in DOMAIN s
<1> DEFINE u == Tail(s)
<1>1. /\ s \in Seq(Symbols) /\ u \in Seq(Symbols) /\ Len(u) = Len(s) - 1
      /\ \A i \in 1..Len(u) : u[i] = s[i + 1]
  BY HeadTailProperties DEF Chain
<1>2. /\ Len(s) \in Nat \ {0} /\ DOMAIN s = 1..Len(s) /\ DOMAIN u = 1..Len(u)
  BY <1>1, LenProperties, EmptySeq
<1>3. Chain(u)
  BY ChainTail
<1> HIDE DEF u
<1>4. Len(s) >= 1 /\ \A i \in 1..Len(u) : i + 1 \in DOMAIN s
  BY SMT, <1>1, <1>2
<1> QED
  BY <1>1, <1>2, <1>3, <1>4 DEF u

(* No loop is left unchecked when the top is done.                          *)
LEMMA FlatTail ==
  ASSUME NEW s, Chain(s), s # <<>>, Flatness(s), s[1] # "flat"
  PROVE  Flatness(Tail(s))
<1> DEFINE u == Tail(s)
<1>1. CASE s[1] \notin {"For", "While", "Loop"}
  BY <1>1, FlatIsSettled, SettledTail, SettledIsFlat
<1>2. CASE s[1] \in {"For", "While", "Loop"}
  <2>1. /\ Chain(u) /\ Len(s) \in Nat /\ Len(u) = Len(s) - 1
        /\ DOMAIN s = 1..Len(s) /\ DOMAIN u = 1..Len(u)
        /\ \A i \in 1..Len(u) : u[i] = s[i + 1] /\ i + 1 \in DOMAIN s
    BY TailElements
  <2> HIDE DEF u
  <2>2. ASSUME NEW i \in DOMAIN u
        PROVE  LoopBelow(u, i)
    <3>1. u[i] = s[i + 1] /\ LoopBelow(s, i + 1) /\ i \in Nat /\ i >= 1 /\ i + 1 # 1
      <4>1. u[i] = s[i + 1] /\ i + 1 \in DOMAIN s
        BY <2>1
      <4>2. i \in Nat /\ i >= 1 /\ i + 1 # 1
        BY SMT, <2>1
      <4> QED
        BY <4>1, <4>2 DEF Flatness
    <3>2. u[i] = "flat" => i = 1
      <4>1. s[i + 1] = "flat" => i + 1 = 2
        BY <3>1 DEF LoopBelow
      <4> QED
        BY SMT, <3>1, <4>1
    <3>3. ASSUME u[i] = "loop_block"
          PROVE  \/ u[i + 3] \in {"fn_block", "file"}
                 \/ u[i + 3] \in Blocks /\ i > 1 /\ u[i - 1] = "LBrace" /\ Unchecked(u)
      <4>1. i + 3 <= Len(u)
        BY <2>1, <3>3 DEF Chain, Below
      <4>2. i + 3 \in 1..Len(u) /\ (i + 3) + 1 = (i + 1) + 3 /\ (i + 1) - 1 = i
        BY SMT, <2>1, <3>1, <4>1
      <4>3. u[i + 3] = s[(i + 1) + 3]
        BY <2>1, <4>2
      <4>4. CASE s[(i + 1) + 3] \in {"fn_block", "file"}
        BY <4>3, <4>4
      <4>5. CASE s[(i + 1) + 3] \in Blocks /\ s[(i + 1) - 1] = "LBrace" /\ Unchecked(s)
        <5>1. s[i] = "LBrace"
          BY <4>2, <4>5
        <5>2. i # 1
          BY SMT, <1>2, <5>1
        <5>3. i > 1 /\ i - 1 \in 1..Len(u) /\ (i - 1) + 1 = i
          BY SMT, <2>1, <3>1, <5>2
        <5>4. u[i - 1] = "LBrace"
          BY <2>1, <5>1, <5>3
        <5>5. s[2] = "flat" /\ Len(s) >= 2
          BY <4>5 DEF Unchecked
        <5>6. 1 \in 1..Len(u) /\ 1 + 1 = 2 /\ Len(u) >= 1
          BY SMT, <2>1, <5>5
        <5>7. u[1] = "flat"
          BY <2>1, <5>5, <5>6
        <5>8. Unchecked(u)
          BY <5>6, <5>7 DEF Unchecked
        <5> QED
          BY <4>3, <4>5, <5>3, <5>4, <5>8
      <4> QED
        BY <3>1, <3>3, <4>4, <4>5 DEF LoopBelow
    <3> QED
      BY <3>2, <3>3 DEF LoopBelow
  <2> QED
    BY <2>2 DEF Flatness, u
<1> QED
  BY <1>1, <1>2

(* A loop passes the check where no control structure is open. *)
LEMMA FlatChecked ==
  ASSUME NEW s, Chain(s), s # <<>>, Flatness(s), s[1] = "flat", Controls(s) = {}
  PROVE  Flatness(Tail(s))
<1> DEFINE u == Tail(s)
<1>1. /\ Chain(u) /\ Len(s) \in Nat /\ Len(u) = Len(s) - 1
      /\ DOMAIN s = 1..Len(s) /\ DOMAIN u = 1..Len(u)
      /\ \A i \in 1..Len(u) : u[i] = s[i + 1] /\ i + 1 \in DOMAIN s
  BY TailElements
<1> HIDE DEF u
<1>2. ASSUME NEW i \in DOMAIN u
      PROVE  u[i] # "flat" /\ (u[i] = "loop_block" => u[i + 3] \in {"fn_block", "file"})
  <2>1. u[i] = s[i + 1] /\ i + 1 \in DOMAIN s /\ LoopBelow(s, i + 1)
    BY <1>1 DEF Flatness
  <2>2. i \in Nat /\ i >= 1 /\ i + 1 # 1
    BY SMT, <1>1
  <2>3. u[i] # "flat"
    BY <2>1, <2>2 DEF LoopBelow
  <2>4. ASSUME u[i] = "loop_block"
        PROVE  u[i + 3] \in {"fn_block", "file"}
    <3>1. i + 3 <= Len(u) /\ u[i + 2] = "shallower"
      BY <1>1, <2>4 DEF Chain, Below
    <3>2. i + 3 \in 1..Len(u) /\ i + 2 \in 1..Len(u) /\ i + 3 # 1 /\ (i + 3) - 1 = i + 2
      BY SMT, <1>1, <2>2, <3>1
    <3>3. (i + 3) + 1 = (i + 1) + 3 /\ (i + 2) + 1 = i + 3
      BY SMT, <2>2
    <3>4. u[i + 3] = s[(i + 1) + 3] /\ s[i + 3] = "shallower" /\ (i + 1) + 3 \in DOMAIN s
      BY <1>1, <3>1, <3>2, <3>3
    <3>5. (i + 1) + 3 # 1 /\ ((i + 1) + 3) - 1 = i + 3
      BY SMT, <2>2
    <3>6. s[(i + 1) + 3] \notin ControlBlocks
      BY <3>4, <3>5 DEF Controls
    <3>7. s[(i + 1) + 3] \in {"fn_block", "file"} \cup Blocks
      BY <2>1, <2>4 DEF LoopBelow
    <3> QED
      BY <3>4, <3>6, <3>7 DEF ControlBlocks, Blocks
  <2> QED
    BY <2>3, <2>4
<1>3. Settled(u)
  BY <1>2 DEF Settled
<1> QED
  BY <1>3, SettledIsFlat DEF u

LEMMA HeaderTail ==
  ASSUME NEW s, Chain(s), s # <<>>, InHeader(s), s[1] # "literals"
  PROVE  InHeader(Tail(s))
<1> DEFINE u == Tail(s)
           Open == Blocks \cup {"arms", "stmt", "else"}
<1>1. /\ Len(s) \in Nat /\ Len(u) = Len(s) - 1
      /\ DOMAIN s = 1..Len(s) /\ DOMAIN u = 1..Len(u)
      /\ \A i \in 1..Len(u) : u[i] = s[i + 1] /\ i + 1 \in DOMAIN s
  BY TailElements
<1>2. PICK i \in DOMAIN s : s[i] = "literals" /\ \A j \in DOMAIN s : j < i => s[j] \notin Open
  BY DEF InHeader
<1> HIDE DEF u, Open
<1>3. i \in Nat /\ i - 1 \in 1..Len(u) /\ (i - 1) + 1 = i
  <2>1. i # 1
    BY <1>2
  <2> QED
    BY SMT, <1>1, <2>1
<1>4. u[i - 1] = "literals"
  BY <1>1, <1>2, <1>3
<1>5. ASSUME NEW j \in DOMAIN u, j < i - 1
      PROVE  u[j] \notin Open
  <2>1. j + 1 < i /\ j + 1 \in DOMAIN s
    BY SMT, <1>1, <1>3, <1>5
  <2> QED
    BY <1>1, <1>2, <2>1
<1> QED
  BY <1>1, <1>3, <1>4, <1>5 DEF InHeader, u, Open

LEMMA UndefiningTail ==
  ASSUME NEW s, Chain(s), s # <<>>, Undefining(s), s[1] # "def_zone"
  PROVE  Undefining(Tail(s))
<1>1. \A i \in DOMAIN s : s[i] \notin Definitions
  BY DEF Undefining
<1>2. \A i \in DOMAIN Tail(s) : Tail(s)[i] \notin Definitions
  BY <1>1, TailElements
<1> QED
  BY <1>2 DEF Undefining

LEMMA InFnTail ==
  ASSUME NEW s, Chain(s), s # <<>>, s[1] \notin {"leave_fn", "enter_fn"}
  PROVE  InFn(Tail(s)) <=> InFn(s)
<1>1. s \in Seq(Symbols) /\ Tail(s) \in Seq(Symbols)
  BY TailElements
<1>2. <<>> \o Tail(s) = Tail(s) /\ <<>> \in Seq(Symbols)
  BY <1>1, ConcatEmptySeq, EmptySeq
<1>3. \A i \in DOMAIN <<>> : <<>>[i] \notin {"leave_fn", "enter_fn"}
  BY SMT
<1>4. InFn(<<>> \o Tail(s)) <=> InFn(s)
  BY <1>1, <1>2, <1>3, InFnQuiet, Zenon
<1> QED
  BY ONLY <1>2, <1>4, Zenon

(* A function is entered and left without a body open. *)
LEMMA AtEnterFn ==
  ASSUME NEW s, Chain(s), s # <<>>, s[1] = "enter_fn"
  PROVE  /\ ~InFn(s) /\ InFn(Tail(s))
         /\ Count(s, "deeper") = 0 /\ Count(s, "shallower") = 0
         /\ Count(Tail(s), "deeper") = 0 /\ Count(Tail(s), "shallower") = 0
<1> DEFINE u == Tail(s)
<1>1. /\ Len(s) \in Nat /\ Len(s) >= 1 /\ Len(u) = Len(s) - 1
      /\ DOMAIN s = 1..Len(s) /\ DOMAIN u = 1..Len(u)
      /\ \A i \in 1..Len(u) : u[i] = s[i + 1]
  BY TailElements
<1> HIDE DEF u
<1>2. Below(s, 1)
  BY SMT, <1>1 DEF Chain
<1>3. 1 + 2 <= Len(s) /\ s[1 + 1] = "LBrace" /\ s[1 + 2] = "fn_block"
  BY <1>2 DEF Below
<1>4. 3 \in DOMAIN s /\ 1 + 2 = 3 /\ 1 + 1 = 2
  BY SMT, <1>1, <1>3
<1>5. s[2] = "LBrace" /\ s[3] = "fn_block" /\ Below(s, 3)
  BY <1>3, <1>4 DEF Chain
<1>6. 3 + 3 = Len(s) /\ s[3 + 1] = "RBrace" /\ s[3 + 2] = "leave_fn"
  BY <1>5 DEF Below
<1>7. Len(s) = 6 /\ s[4] = "RBrace" /\ s[5] = "leave_fn" /\ 6 \in DOMAIN s
  <2>1. 3 + 3 = 6 /\ 3 + 1 = 4 /\ 3 + 2 = 5 /\ 6 \in 1..6
    BY SMT
  <2>2. Len(s) = 6 /\ s[4] = "RBrace" /\ s[5] = "leave_fn"
    BY ONLY <1>6, <2>1
  <2> QED
    BY <1>1, <2>1, <2>2
<1>8. Below(s, 6)
  BY <1>7 DEF Chain
<1>9. s[6] = "file"
  BY <1>7, <1>8 DEF Below
<1>10. ~InFn(s)
  BY SMT, <1>7 DEF InFn
<1>11. Len(u) = 5
  BY SMT, <1>1, <1>7
<1>12. u[4] = "leave_fn"
  BY SMT, <1>1, <1>7, <1>11
<1>13. InFn(u)
  BY SMT, <1>11, <1>12 DEF InFn
<1>14. \A i \in DOMAIN s : s[i] \notin {"deeper", "shallower"}
  <2>1. DOMAIN s = 1..6
    BY <1>1, <1>7
  <2>2. \A i \in 1..6 : i \in {1, 2, 3, 4, 5, 6}
    BY SMT
  <2> QED
    BY SMT, <1>5, <1>7, <1>9, <2>1, <2>2
<1>15. \A i \in DOMAIN u : u[i] \notin {"deeper", "shallower"}
  <2>1. \A i \in DOMAIN u : i + 1 \in DOMAIN s
    BY SMT, <1>1
  <2> QED
    BY <1>1, <1>14, <2>1
<1>16. Count(s, "deeper") = 0 /\ Count(s, "shallower") = 0
  BY <1>14, CountNone
<1>17. Count(u, "deeper") = 0 /\ Count(u, "shallower") = 0
  BY <1>15, CountNone
<1> QED
  BY <1>10, <1>13, <1>16, <1>17 DEF u

LEMMA AtLeaveFn ==
  ASSUME NEW s, Chain(s), s # <<>>, s[1] = "leave_fn"
  PROVE  /\ InFn(s) /\ ~InFn(Tail(s))
         /\ Count(Tail(s), "deeper") = 0 /\ Count(Tail(s), "shallower") = 0
<1> DEFINE u == Tail(s)
<1>1. /\ Len(s) \in Nat /\ Len(s) >= 1 /\ Len(u) = Len(s) - 1
      /\ DOMAIN s = 1..Len(s) /\ DOMAIN u = 1..Len(u)
      /\ \A i \in 1..Len(u) : u[i] = s[i + 1]
  BY TailElements
<1> HIDE DEF u
<1>2. Below(s, 1)
  BY SMT, <1>1 DEF Chain
<1>3. Len(s) = 2
  BY SMT, <1>2 DEF Below
<1>4. 2 \in DOMAIN s
  BY SMT, <1>1, <1>3
<1>5. Below(s, 2)
  BY <1>4 DEF Chain
<1>6. s[2] = "file"
  BY <1>3, <1>5 DEF Below
<1>7. InFn(s)
  BY SMT, <1>3 DEF InFn
<1>8. Len(u) = 1
  BY SMT, <1>1, <1>3
<1>9. ~InFn(u)
  BY SMT, <1>8 DEF InFn
<1>10. \A i \in DOMAIN u : u[i] \notin {"deeper", "shallower"}
  <2>1. 1..1 = {1} /\ 1 + 1 = 2
    BY SMT
  <2>2. DOMAIN u = {1} /\ u[1] = s[2]
    BY <1>1, <1>8, <2>1
  <2> QED
    BY <1>6, <2>2
<1>11. Count(u, "deeper") = 0 /\ Count(u, "shallower") = 0
  BY <1>10, CountNone
<1> QED
  BY <1>7, <1>9, <1>11 DEF u

-----------------------------------------------------------------------------
(* The invariant holds at first and is preserved by every action.           *)

Errors == {"UnexpectedToken", "DefInAlgZone", "IllegalNesting"}

LEMMA SymbolsAreTyped ==
  ASSUME NEW s, Chain(s)
  PROVE  s \in Seq(TokenKinds \cup Methods \cup Assignments)
<1>1. PlainMethods \cup Definitions \cup Blocks \cup {"primary", "arms", "else", "stmt", "file"} \subseteq Methods
  BY DEF PlainMethods, Definitions, Blocks, Methods
<1>2. Symbols \subseteq TokenKinds \cup Methods \cup Assignments
  BY <1>1 DEF Symbols, Plain
<1> QED
  BY <1>2, SeqMonotonic DEF Chain

(* The invariant but for the types is about these variables.                *)
LEMMA CoreUnchanged ==
  ASSUME PCore, UNCHANGED <<stack, fields, outcome>>
  PROVE  PCore'
  BY DEF PCore, fields, Parsing, Balanced, Saved

LEMMA TopOfStack ==
  ASSUME PInv, stack # <<>>
  PROVE  Head(stack) = stack[1] /\ Chain(stack) /\ Flatness(stack) /\ Parsing
<1>1. stack \in Seq(Symbols) /\ Parsing
  BY DEF PInv, PCore, Chain
<1> QED
  BY SMT, <1>1 DEF PInv, PCore

LEMMA Lookahead ==
  /\ LookedAt \in 0..3
  /\ Head(stack) \notin Assignments => LookedAt >= 1
  BY SMT DEF LookedAt

(* A method that decides has a token to look at.                            *)
LEMMA SomethingAhead ==
  ASSUME PInv, Parsing, stack # <<>>, ~NeedsToken, Head(stack) \notin Assignments
  PROVE  /\ ahead # <<>>
         /\ Peek \in Tokens \cup {"Eof"}
         /\ Tail(ahead) \in Seq([kind : Tokens \cup {"Eof"}, nl : BOOLEAN])
         /\ Len(Tail(ahead)) <= 3
<1> DEFINE T == [kind : Tokens \cup {"Eof"}, nl : BOOLEAN]
<1>1. ahead \in Seq(T) /\ Len(ahead) \in Nat /\ Len(ahead) <= 3
  BY LenProperties DEF PInv, ParserTypeOK
<1>2. LookedAt \in 0..3 /\ LookedAt >= 1
  BY Lookahead
<1>3. ~(Len(ahead) < LookedAt) \/ ahead # <<>>
  BY DEF NeedsToken, AtEnd
<1>4. ahead = <<>> => Len(ahead) = 0
  BY EmptySeq
<1>5. ahead # <<>>
  BY SMT, <1>1, <1>2, <1>3, <1>4
<1>6. ahead[1] \in T
  <2>1. Len(ahead) >= 1
    BY SMT, <1>1, <1>5
  <2> HIDE DEF T
  <2> QED
    BY <1>1, <2>1, ElementOfSeq
<1>7. Tail(ahead) \in Seq(T) /\ Len(Tail(ahead)) = Len(ahead) - 1
  BY <1>1, <1>5, HeadTailProperties
<1>8. Len(Tail(ahead)) <= 3
  BY SMT, <1>1, <1>7
<1> QED
  BY <1>5, <1>6, <1>7, <1>8 DEF Peek

LEMMA InitInv == Init => PInv
<1> SUFFICES ASSUME Init PROVE PInv
  OBVIOUS
<1>1. stack = <<"ring", "file">> /\ Chain(stack)
  BY ChainOfFile DEF Init
<1>2. Len(stack) = 2 /\ DOMAIN stack = 1..2 /\ stack[1] = "ring" /\ stack[2] = "file"
  BY SMT, <1>1
<1>3. Settled(stack)
  BY SMT, <1>2 DEF Settled
<1>4. Count(stack, "deeper") = 0 /\ Count(stack, "shallower") = 0
  <2>1. \A i \in DOMAIN stack : stack[i] # "deeper" /\ stack[i] # "shallower"
    BY SMT, <1>2
  <2> QED
    BY <2>1, CountNone
<1>5. Balanced
  BY SMT, <1>4 DEF Balanced, Init
<1>6. Saved
  BY SMT, <1>2 DEF Saved, InFn, Init
<1>7. ParserTypeOK
  <2>1. stack \in Seq(TokenKinds \cup Methods \cup Assignments)
    BY <1>1, SymbolsAreTyped
  <2>2. ahead \in Seq([kind : Tokens \cup {"Eof"}, nl : BOOLEAN]) /\ Len(ahead) <= 3
    BY SMT DEF Init
  <2>3. saved \in Seq(Nat) /\ brackets \in Seq({"RParen", "RBracket", "RBrace"})
    BY SMT DEF Init
  <2>4. control_depth \in Nat
    BY SMT DEF Init
  <2> QED
    BY <2>1, <2>2, <2>3, <2>4 DEF ParserTypeOK, Init
<1> QED
  BY <1>1, <1>3, <1>5, <1>6, <1>7, SettledIsFlat DEF PInv, PCore, Init, Parsing

(* An error leaves nothing on the stack.                                    *)
LEMMA FailInv ==
  ASSUME PInv, NEW e \in Errors, Fail(e)
  PROVE  PInv'
<1>1. stack' = <<>> /\ ahead' = <<>> /\ brackets' = <<>> /\ outcome' = e
  BY DEF Fail
<1>2. Chain(stack') /\ Settled(stack')
  BY SMT, <1>1, ChainOfFile DEF Settled
<1>3. PCore'
  <2>1. ~Parsing'
    BY SMT, <1>1 DEF Parsing, Errors
  <2> QED
    BY <1>1, <1>2, <2>1, SettledIsFlat DEF PCore
<1>4. ParserTypeOK'
  <2>1. /\ ahead' \in Seq([kind : Tokens \cup {"Eof"}, nl : BOOLEAN]) /\ Len(ahead') <= 3
        /\ brackets' \in Seq({"RParen", "RBracket", "RBrace"}) /\ stack' \in Seq(TokenKinds \cup Methods \cup Assignments)
    BY SMT, <1>1
  <2> QED
    BY <1>1, <2>1 DEF ParserTypeOK, PInv, Fail, fields, Errors
<1> QED
  BY <1>3, <1>4 DEF PInv

LEMMA ReadInv ==
  ASSUME PInv, Read
  PROVE  PInv'
<1> DEFINE T == [kind : Tokens \cup {"Eof"}, nl : BOOLEAN]
<1>1. PICK t \in Tokens \cup {"Eof"}, nl \in BOOLEAN : ahead' = Append(ahead, [kind |-> t, nl |-> nl])
  BY DEF Read
<1>2. ahead \in Seq(T) /\ Len(ahead) \in Nat /\ [kind |-> t, nl |-> nl] \in T
  BY LenProperties DEF PInv, ParserTypeOK
<1>3. ahead' \in Seq(T) /\ Len(ahead') = Len(ahead) + 1
  BY <1>1, <1>2, AppendProperties
<1>4. Len(ahead) < LookedAt /\ LookedAt \in 0..3
  BY Lookahead DEF Read, NeedsToken
<1>5. Len(ahead') <= 3
  BY SMT, <1>2, <1>3, <1>4
<1>6. ParserTypeOK'
  BY <1>3, <1>5 DEF ParserTypeOK, PInv, Read, fields
<1>7. PCore'
  BY CoreUnchanged DEF PInv, Read
<1> QED
  BY <1>6, <1>7 DEF PInv

LEMMA AcceptInv ==
  ASSUME PInv, Accept
  PROVE  PInv'
<1>1. ParserTypeOK'
  BY DEF ParserTypeOK, PInv, Accept, fields
<1>2. ~Parsing' /\ stack' = stack /\ stack = <<>>
  BY SMT DEF Accept, Parsing
<1>3. PCore'
  BY <1>2 DEF PInv, PCore
<1> QED
  BY <1>1, <1>3 DEF PInv

(* What the top of the stack leaves as it was when it is done.              *)
LEMMA Popped ==
  ASSUME PInv, Parsing, stack # <<>>, Done, UNCHANGED outcome
  PROVE  /\ stack' \in Seq(TokenKinds \cup Methods \cup Assignments) /\ Chain(stack') /\ Parsing'
         /\ stack[1] # "flat" => Flatness(stack')
         /\ stack[1] \notin {"deeper", "shallower"} /\ UNCHANGED control_depth => Balanced'
         /\ stack[1] \notin {"enter_fn", "leave_fn"} /\ UNCHANGED saved => Saved'
         /\ stack[1] # "literals" /\ no_struct_lit => InHeader(stack')
         /\ stack[1] # "def_zone" /\ in_alg => Undefining(stack')
<1>1. Chain(stack) /\ Flatness(stack) /\ stack' = Tail(stack)
  BY TopOfStack DEF Done
<1>2. /\ Balanced /\ Saved /\ (no_struct_lit => InHeader(stack)) /\ (in_alg => Undefining(stack))
  BY DEF PInv, PCore
<1>3. Chain(stack') /\ stack \in Seq(Symbols)
  BY <1>1, TailElements
<1>4. stack' \in Seq(TokenKinds \cup Methods \cup Assignments)
  BY <1>3, SymbolsAreTyped
<1>5. Parsing'
  BY DEF Parsing
<1>6. ASSUME stack[1] \notin {"deeper", "shallower"}, UNCHANGED control_depth
      PROVE  Balanced'
  <2>1. \A x : Count(stack, x) = Count(stack', x) + (IF stack[1] = x THEN 1 ELSE 0)
    BY <1>1, <1>3, CountTail
  <2>2. Count(stack', "deeper") \in Nat /\ Count(stack', "shallower") \in Nat
    BY <1>3, CountType DEF Chain
  <2>3. Count(stack, "deeper") = Count(stack', "deeper")
    BY SMT, <2>1, <2>2, <1>6
  <2>4. Count(stack, "shallower") = Count(stack', "shallower")
    BY SMT, <2>1, <2>2, <1>6
  <2> QED
    BY <1>2, <1>6, <2>3, <2>4 DEF Balanced
<1>7. ASSUME stack[1] \notin {"enter_fn", "leave_fn"}, UNCHANGED saved
      PROVE  Saved'
  BY <1>1, <1>2, <1>7, InFnTail DEF Saved
<1>8. stack[1] # "flat" => Flatness(stack')
  BY <1>1, FlatTail
<1>9. stack[1] # "literals" /\ no_struct_lit => InHeader(stack')
  BY <1>1, <1>2, HeaderTail
<1>10. stack[1] # "def_zone" /\ in_alg => Undefining(stack')
  BY <1>1, <1>2, UndefiningTail
<1> QED
  BY <1>3, <1>4, <1>5, <1>6, <1>7, <1>8, <1>9, <1>10

(* A method that is due is on top of the stack.                             *)
LEMMA DueIsTop ==
  ASSUME PInv, NEW x, Due(x)
  PROVE  Parsing /\ stack # <<>> /\ stack[1] = x /\ Chain(stack) /\ Flatness(stack)
  BY TopOfStack DEF Due

(* A call pushes what keeps the invariant.                                  *)
LEMMA CallInv ==
  ASSUME PInv, Call
  PROVE  PInv'
<1> DEFINE w == Expansion(stack[1], Peek)
<1>1. /\ Parsing /\ stack # <<>> /\ Chain(stack) /\ Flatness(stack)
      /\ stack[1] \notin TokenKinds \cup Assignments
      /\ stack' = w \o Tail(stack)
      /\ UNCHANGED <<ahead, fields, brackets, outcome>>
  <2>1. Parsing /\ stack # <<>>
    BY DEF Call
  <2>2. Head(stack) = stack[1] /\ Chain(stack) /\ Flatness(stack)
    BY <2>1, TopOfStack
  <2> QED
    BY <2>1, <2>2 DEF Call
<1>2. Calls(stack, w)
  BY <1>1, EveryCall
<1> HIDE DEF w
<1>3. Chain(stack') /\ Flatness(stack')
  BY <1>1, <1>2, ChainCalls, FlatCalls
<1>4. Balanced'
  <2>1. control_depth \in Nat /\ control_depth' = control_depth
    BY <1>1 DEF PInv, ParserTypeOK, fields
  <2>2. Balanced
    BY <1>1 DEF PInv, PCore
  <2>3. stack[1] \notin {"deeper", "shallower"}
    BY <1>1 DEF Assignments
  <2> QED
    BY <1>1, <1>2, <2>1, <2>2, <2>3, BalancedCalls DEF Balanced
<1>5. Saved'
  <2>1. Saved /\ saved' = saved
    BY <1>1 DEF PInv, PCore, fields
  <2>2. InFn(stack') <=> InFn(stack)
    BY <1>1, <1>2, InFnCalls
  <2> QED
    BY <2>1, <2>2 DEF Saved
<1>6. no_struct_lit' => InHeader(stack')
  BY <1>1, <1>2, HeaderCalls DEF PInv, PCore, fields
<1>7. in_alg' => Undefining(stack')
  <2>1. stack[1] # "def_zone"
    BY <1>1 DEF Assignments
  <2>2. in_alg => \A i \in DOMAIN stack : stack[i] \notin Definitions
    BY <1>1, <2>1 DEF PInv, PCore, Undefining
  <2> QED
    BY <1>1, <1>2, <2>2, ZoneCalls DEF fields
<1>8. Parsing'
  BY <1>1 DEF Parsing
<1>9. PCore'
  BY <1>3, <1>4, <1>5, <1>6, <1>7, <1>8 DEF PCore
<1>10. stack' \in Seq(TokenKinds \cup Methods \cup Assignments)
  BY <1>3, SymbolsAreTyped
<1>11. ParserTypeOK'
  BY <1>1, <1>10 DEF PInv, ParserTypeOK, fields
<1> QED
  BY <1>9, <1>11 DEF PInv

(* Names of tokens are names of nothing else the stack holds.               *)
LEMMA TokensAreTokens ==
  TokenKinds \cap Assignments = {}
  BY SMT DEF TokenKinds, Identifiers, Operators, Punctuation, Keywords, Literals, Assignments

LEMMA BracketsTyped ==
  ASSUME ParserTypeOK, NEW t
  PROVE  Bracketed(t) \in Seq({"RParen", "RBracket", "RBrace"})
<1> DEFINE C == {"RParen", "RBracket", "RBrace"}
<1>1. brackets \in Seq(C)
  BY DEF ParserTypeOK
<1>2. CASE t \in DOMAIN Closing
  <2>1. DOMAIN Closing = {"LParen", "LBracket", "LBrace"}
    BY SMT DEF Closing
  <2>2. Closing[t] \in C
    BY SMT, <1>2, <2>1 DEF Closing
  <2>3. <<Closing[t]>> \in Seq(C)
    BY <2>2
  <2>4. <<Closing[t]>> \o brackets \in Seq(C)
    BY <1>1, <2>3, ConcatProperties
  <2> QED
    BY <1>2, <2>4 DEF Bracketed
<1>3. CASE t \notin DOMAIN Closing
  <2>1. brackets # <<>> => Tail(brackets) \in Seq(C)
    BY <1>1, HeadTailProperties
  <2> QED
    BY <1>1, <1>3, <2>1 DEF Bracketed
<1> QED
  BY <1>2, <1>3

(* A token is consumed, or the parse ends.                                  *)
LEMMA ExpectInv ==
  ASSUME PInv, Expect
  PROVE  PInv'
<1>1. /\ Parsing /\ stack # <<>> /\ ~NeedsToken /\ Head(stack) \in TokenKinds
      /\ Head(stack) = stack[1]
  BY TopOfStack DEF Expect
<1>2. stack[1] \notin Assignments /\ Head(stack) \notin Assignments
  BY <1>1, TokensAreTokens
<1>3. CASE ~Is(Peek, Head(stack))
  <2>1. Fail("UnexpectedToken")
    BY <1>3 DEF Expect
  <2> QED
    BY <2>1, FailInv DEF Errors
<1>4. CASE Is(Peek, Head(stack))
  <2>1. ahead' = Tail(ahead) /\ brackets' = Bracketed(Peek) /\ Done /\ UNCHANGED <<fields, outcome>>
    BY <1>4 DEF Expect
  <2>2. stack[1] \notin {"flat", "deeper", "shallower", "enter_fn", "leave_fn", "literals", "def_zone"}
    BY <1>2 DEF Assignments
  <2>3. stack' \in Seq(TokenKinds \cup Methods \cup Assignments) /\ PCore'
    BY <1>1, <2>1, <2>2, Popped DEF PCore, fields
  <2>4. ahead' \in Seq([kind : Tokens \cup {"Eof"}, nl : BOOLEAN]) /\ Len(ahead') <= 3
    BY <1>1, <1>2, <2>1, SomethingAhead
  <2>5. brackets' \in Seq({"RParen", "RBracket", "RBrace"})
    BY <2>1, BracketsTyped DEF PInv
  <2>6. ParserTypeOK'
    BY <2>1, <2>3, <2>4, <2>5 DEF PInv, ParserTypeOK, fields
  <2> QED
    BY <2>3, <2>6 DEF PInv
<1> QED
  BY <1>3, <1>4

LEMMA DefZoneInv ==
  ASSUME PInv, DefZone
  PROVE  PInv'
<1>1. Parsing /\ stack # <<>> /\ stack[1] = "def_zone"
  BY DueIsTop DEF DefZone
<1>2. CASE in_alg
  BY <1>2, FailInv DEF DefZone, Errors
<1>3. CASE ~in_alg
  <2>1. Done /\ UNCHANGED <<ahead, fields, brackets, outcome>>
    BY <1>3 DEF DefZone
  <2>2. stack' \in Seq(TokenKinds \cup Methods \cup Assignments) /\ PCore'
    BY <1>1, <1>3, <2>1, Popped DEF PCore, fields
  <2>3. ParserTypeOK'
    BY <2>1, <2>2 DEF PInv, ParserTypeOK, fields
  <2> QED
    BY <2>2, <2>3 DEF PInv
<1> QED
  BY <1>2, <1>3

LEMMA AlgZoneInv ==
  ASSUME PInv, AlgZone
  PROVE  PInv'
<1>1. Parsing /\ stack # <<>> /\ stack[1] = "alg_zone" /\ Chain(stack)
  BY DueIsTop DEF AlgZone
<1>2. /\ Done /\ in_alg' = TRUE
      /\ UNCHANGED <<ahead, control_depth, no_struct_lit, saved, brackets, outcome>>
  BY DEF AlgZone
<1>3. \A i \in DOMAIN stack' : stack'[i] \notin Definitions
  <2>1. /\ Len(stack) \in Nat /\ Len(stack) >= 1 /\ Len(stack') = Len(stack) - 1
        /\ DOMAIN stack = 1..Len(stack) /\ DOMAIN stack' = 1..Len(stack')
        /\ \A i \in 1..Len(stack') : stack'[i] = stack[i + 1]
    BY <1>1, <1>2, TailElements DEF Done
  <2>2. Below(stack, 1)
    BY SMT, <1>1, <2>1 DEF Chain
  <2>3. 1 + 2 = Len(stack) /\ stack[1 + 1] = "stmt"
    BY <1>1, <2>2 DEF Below
  <2>4. Len(stack) = 3 /\ 3 \in DOMAIN stack /\ Len(stack') = 2 /\ 1 + 1 = 2 /\ 2 + 1 = 3
    <3>1. 1 + 2 = 3 /\ 1 + 1 = 2 /\ 2 + 1 = 3 /\ 3 - 1 = 2 /\ 3 \in 1..3
      BY SMT
    <3>2. Len(stack) = 3
      BY ONLY <2>3, <3>1
    <3> QED
      BY <2>1, <3>1, <3>2
  <2>5. stack[3] = "file"
    BY <1>1, <2>4 DEF Chain, Below
  <2>6. ASSUME NEW i \in DOMAIN stack'
        PROVE  stack'[i] \in {"stmt", "file"}
    <3>1. i = 1 \/ i = 2
      BY SMT, <2>1, <2>4, <2>6
    <3> QED
      BY <2>1, <2>3, <2>4, <2>5, <2>6, <3>1
  <2> QED
    BY <2>6 DEF Definitions
<1>4. stack' \in Seq(TokenKinds \cup Methods \cup Assignments) /\ PCore'
  <2>1. Undefining(stack')
    BY <1>3 DEF Undefining
  <2> QED
    BY <1>1, <1>2, <2>1, Popped DEF PCore
<1>5. ParserTypeOK'
  BY <1>2, <1>4 DEF PInv, ParserTypeOK
<1> QED
  BY <1>4, <1>5 DEF PInv

(* The depth is 0 only where no body of a control structure is open.        *)
LEMMA FlatInv ==
  ASSUME PInv, Flat
  PROVE  PInv'
<1>1. Parsing /\ stack # <<>> /\ stack[1] = "flat" /\ Chain(stack) /\ Flatness(stack)
  BY DueIsTop DEF Flat
<1>2. CASE control_depth >= 1
  BY <1>2, FailInv DEF Flat, Errors
<1>3. CASE ~(control_depth >= 1)
  <2>1. Done /\ UNCHANGED <<ahead, fields, brackets, outcome>>
    BY <1>3 DEF Flat
  <2>2. Controls(stack) = {}
    <3>1. control_depth \in Nat /\ Balanced
      BY <1>1 DEF PInv, PCore, ParserTypeOK
    <3>2. control_depth = 0
      BY SMT, <1>3, <3>1
    <3>3. Count(stack, "deeper") \in Nat
      BY <1>1, CountType DEF Chain
    <3>4. Count(stack, "deeper") = Count(stack, "shallower")
      BY SMT, <3>1, <3>2, <3>3 DEF Balanced
    <3>5. ~(Count(stack, "deeper") < Count(stack, "shallower"))
      BY SMT, <3>3, <3>4
    <3> QED
      BY <1>1, <3>5, ControlIsTaken
  <2>3. Flatness(stack')
    BY <1>1, <2>1, <2>2, FlatChecked DEF Done
  <2>4. stack' \in Seq(TokenKinds \cup Methods \cup Assignments) /\ PCore'
    BY <1>1, <2>1, <2>3, Popped DEF PCore, fields
  <2>5. ParserTypeOK'
    BY <2>1, <2>4 DEF PInv, ParserTypeOK, fields
  <2> QED
    BY <2>4, <2>5 DEF PInv
<1> QED
  BY <1>2, <1>3

LEMMA DeeperInv ==
  ASSUME PInv, Deeper
  PROVE  PInv'
<1>1. Parsing /\ stack # <<>> /\ stack[1] = "deeper" /\ Chain(stack)
  BY DueIsTop DEF Deeper
<1>2. /\ Done /\ control_depth' = control_depth + 1
      /\ UNCHANGED <<ahead, in_alg, no_struct_lit, saved, brackets, outcome>>
  BY DEF Deeper
<1>3. control_depth \in Nat /\ Balanced
  BY <1>1 DEF PInv, PCore, ParserTypeOK
<1>4. Balanced'
  <2>1. stack \in Seq(Symbols) /\ stack' \in Seq(Symbols)
    BY <1>1, <1>2, TailElements DEF Done
  <2>2. \A x : Count(stack, x) = Count(stack', x) + (IF stack[1] = x THEN 1 ELSE 0)
    BY <1>1, <1>2, <2>1, CountTail DEF Done
  <2>3. Count(stack', "deeper") \in Nat /\ Count(stack', "shallower") \in Nat
    BY <2>1, CountType
  <2>4. Count(stack, "deeper") = Count(stack', "deeper") + 1
    BY <1>1, <2>2
  <2>5. Count(stack, "shallower") = Count(stack', "shallower")
    BY SMT, <1>1, <2>2, <2>3
  <2>6. control_depth' + Count(stack', "deeper") = Count(stack', "shallower")
    BY SMT, <1>2, <1>3, <2>3, <2>4, <2>5 DEF Balanced
  <2> QED
    BY <2>6 DEF Balanced
<1>5. stack' \in Seq(TokenKinds \cup Methods \cup Assignments) /\ PCore'
  BY <1>1, <1>2, <1>4, Popped DEF PCore
<1>6. control_depth' \in Nat
  BY SMT, <1>2, <1>3
<1>7. ParserTypeOK'
  BY <1>2, <1>5, <1>6 DEF PInv, ParserTypeOK
<1> QED
  BY <1>5, <1>7 DEF PInv

(* The depth that is given back has been taken: it does not fall below 0.   *)
LEMMA ShallowerInv ==
  ASSUME PInv, Shallower
  PROVE  PInv'
<1>1. Parsing /\ stack # <<>> /\ stack[1] = "shallower" /\ Chain(stack)
  BY DueIsTop DEF Shallower
<1>2. /\ Done /\ control_depth' = control_depth - 1
      /\ UNCHANGED <<ahead, in_alg, no_struct_lit, saved, brackets, outcome>>
  BY DEF Shallower
<1>3. control_depth \in Nat /\ Balanced
  BY <1>1 DEF PInv, PCore, ParserTypeOK
<1>4. stack \in Seq(Symbols) /\ stack' \in Seq(Symbols)
  BY <1>1, <1>2, TailElements DEF Done
<1>5. \A x : Count(stack, x) = Count(stack', x) + (IF stack[1] = x THEN 1 ELSE 0)
  BY <1>1, <1>2, <1>4, CountTail DEF Done
<1>6. Count(stack', "deeper") \in Nat /\ Count(stack', "shallower") \in Nat
  BY <1>4, CountType
<1>7. Count(stack, "shallower") = Count(stack', "shallower") + 1
  BY <1>1, <1>5
<1>8. Count(stack, "deeper") = Count(stack', "deeper")
  BY SMT, <1>1, <1>5, <1>6
<1>9. Count(stack, "deeper") < Count(stack, "shallower")
  BY <1>1, ShallowerIsTaken
<1>10. control_depth' \in Nat /\ control_depth' + Count(stack', "deeper") = Count(stack', "shallower")
  BY SMT, <1>2, <1>3, <1>6, <1>7, <1>8, <1>9 DEF Balanced
<1>11. Balanced'
  BY <1>10 DEF Balanced
<1>12. stack' \in Seq(TokenKinds \cup Methods \cup Assignments) /\ PCore'
  BY <1>1, <1>2, <1>11, Popped DEF PCore
<1>13. ParserTypeOK'
  BY <1>2, <1>10, <1>12 DEF PInv, ParserTypeOK
<1> QED
  BY <1>12, <1>13 DEF PInv

(* Where struct literals are suppressed, they will be allowed again.        *)
LEMMA SuppressInv ==
  ASSUME PInv, SuppressLiterals
  PROVE  PInv'
<1>1. Parsing /\ stack # <<>> /\ stack[1] = "no_literals" /\ Chain(stack)
  BY DueIsTop DEF SuppressLiterals
<1>2. /\ Done /\ no_struct_lit' = TRUE
      /\ UNCHANGED <<ahead, in_alg, control_depth, saved, brackets, outcome>>
  BY DEF SuppressLiterals
<1>3. InHeader(stack')
  <2>1. /\ Len(stack) \in Nat /\ Len(stack) >= 1 /\ Len(stack') = Len(stack) - 1
        /\ DOMAIN stack = 1..Len(stack) /\ DOMAIN stack' = 1..Len(stack')
        /\ \A i \in 1..Len(stack') : stack'[i] = stack[i + 1]
    BY <1>1, <1>2, TailElements DEF Done
  <2>2. Below(stack, 1)
    BY SMT, <1>1, <2>1 DEF Chain
  <2>3. 1 + 2 <= Len(stack) /\ stack[1 + 1] = "expr" /\ stack[1 + 2] = "literals"
    BY <1>1, <2>2 DEF Below
  <2>4. 1 \in DOMAIN stack' /\ 2 \in DOMAIN stack' /\ 1 + 2 = 2 + 1
    BY SMT, <2>1, <2>3
  <2>5. stack'[1] = "expr" /\ stack'[2] = "literals"
    BY <2>1, <2>3, <2>4
  <2>6. \A j \in DOMAIN stack' : j < 2 => j = 1
    BY SMT, <2>1
  <2>7. "expr" \notin Blocks \cup {"arms", "stmt", "else"}
    BY DEF Blocks
  <2>8. \A j \in DOMAIN stack' : j < 2 => stack'[j] \notin Blocks \cup {"arms", "stmt", "else"}
    BY <2>5, <2>6, <2>7
  <2> QED
    BY <2>4, <2>5, <2>8 DEF InHeader
<1>4. stack' \in Seq(TokenKinds \cup Methods \cup Assignments) /\ PCore'
  BY <1>1, <1>2, <1>3, Popped DEF PCore
<1>5. ParserTypeOK'
  BY <1>2, <1>4 DEF PInv, ParserTypeOK
<1> QED
  BY <1>4, <1>5 DEF PInv

LEMMA AllowInv ==
  ASSUME PInv, AllowLiterals
  PROVE  PInv'
<1>1. Parsing /\ stack # <<>> /\ stack[1] = "literals"
  BY DueIsTop DEF AllowLiterals
<1>2. /\ Done /\ no_struct_lit' = FALSE
      /\ UNCHANGED <<ahead, in_alg, control_depth, saved, brackets, outcome>>
  BY DEF AllowLiterals
<1>3. stack' \in Seq(TokenKinds \cup Methods \cup Assignments) /\ PCore'
  BY <1>1, <1>2, Popped DEF PCore
<1>4. ParserTypeOK'
  BY <1>2, <1>3 DEF PInv, ParserTypeOK
<1> QED
  BY <1>3, <1>4 DEF PInv

(* A function starts from depth 0, and what it saves is 0.                  *)
LEMMA EnterInv ==
  ASSUME PInv, EnterFn
  PROVE  PInv'
<1>1. Parsing /\ stack # <<>> /\ stack[1] = "enter_fn" /\ Chain(stack)
  BY DueIsTop DEF EnterFn
<1>2. /\ Done /\ saved' = <<control_depth>> \o saved /\ control_depth' = 0
      /\ UNCHANGED <<ahead, in_alg, no_struct_lit, brackets, outcome>>
  BY DEF EnterFn
<1>3. /\ ~InFn(stack) /\ InFn(stack')
      /\ Count(stack, "deeper") = 0 /\ Count(stack, "shallower") = 0
      /\ Count(stack', "deeper") = 0 /\ Count(stack', "shallower") = 0
  BY <1>1, <1>2, AtEnterFn DEF Done
<1>4. Saved /\ Balanced /\ control_depth \in Nat
  BY <1>1 DEF PInv, PCore, ParserTypeOK
<1>5. saved = <<>> /\ control_depth = 0
  BY SMT, <1>3, <1>4 DEF Saved, Balanced
<1>6. saved' = <<0>>
  BY SMT, <1>2, <1>5
<1>7. Saved' /\ Balanced'
  <2>1. Saved'
    BY <1>3, <1>6 DEF Saved
  <2>2. 0 + 0 = 0
    BY SMT
  <2>3. Balanced'
    BY <1>2, <1>3, <2>2 DEF Balanced
  <2> QED
    BY <2>1, <2>3
<1>8. stack' \in Seq(TokenKinds \cup Methods \cup Assignments) /\ PCore'
  BY <1>1, <1>2, <1>7, Popped DEF PCore
<1>9. saved' \in Seq(Nat) /\ control_depth' \in Nat
  <2>1. 0 \in Nat
    BY SMT
  <2>2. <<0>> \in Seq(Nat)
    BY <2>1
  <2> QED
    BY <1>2, <1>6, <2>1, <2>2
<1>10. ParserTypeOK'
  BY <1>2, <1>8, <1>9 DEF PInv, ParserTypeOK
<1> QED
  BY <1>8, <1>10 DEF PInv

(* The depth a function gives back is 0.                                    *)
LEMMA LeaveInv ==
  ASSUME PInv, LeaveFn
  PROVE  PInv'
<1>1. Parsing /\ stack # <<>> /\ stack[1] = "leave_fn" /\ Chain(stack)
  BY DueIsTop DEF LeaveFn
<1>2. /\ Done /\ control_depth' = Head(saved) /\ saved' = Tail(saved)
      /\ UNCHANGED <<ahead, in_alg, no_struct_lit, brackets, outcome>>
  BY DEF LeaveFn
<1>3. /\ InFn(stack) /\ ~InFn(stack')
      /\ Count(stack', "deeper") = 0 /\ Count(stack', "shallower") = 0
  BY <1>1, <1>2, AtLeaveFn DEF Done
<1>4. saved = <<0>>
  BY <1>1, <1>3 DEF PInv, PCore, Saved
<1>5. control_depth' = 0 /\ saved' = <<>>
  BY SMT, <1>2, <1>4
<1>6. Saved' /\ Balanced'
  <2>1. Saved'
    BY <1>3, <1>5 DEF Saved
  <2>2. 0 + 0 = 0
    BY SMT
  <2>3. Balanced'
    BY <1>3, <1>5, <2>2 DEF Balanced
  <2> QED
    BY <2>1, <2>3
<1>7. stack' \in Seq(TokenKinds \cup Methods \cup Assignments) /\ PCore'
  BY <1>1, <1>2, <1>6, Popped DEF PCore
<1>8. saved' \in Seq(Nat) /\ control_depth' \in Nat
  BY <1>5
<1>9. ParserTypeOK'
  BY <1>2, <1>7, <1>8 DEF PInv, ParserTypeOK
<1> QED
  BY <1>7, <1>9 DEF PInv

(* The invariant above is inductive: it holds in every state of the parser. *)
THEOREM ParserInv == Spec => []PInv
<1>1. Init => PInv
  BY InitInv
<1>2. PInv /\ [Next]_vars => PInv'
  <2> SUFFICES ASSUME PInv, [Next]_vars
               PROVE  PInv'
    OBVIOUS
  <2>1. CASE UNCHANGED vars
    <3>1. UNCHANGED <<stack, ahead, fields, brackets, outcome>>
      BY <2>1 DEF vars
    <3>2. PCore'
      BY <3>1, CoreUnchanged DEF PInv
    <3>3. ParserTypeOK'
      BY <3>1 DEF PInv, ParserTypeOK, fields
    <3> QED
      BY <3>2, <3>3 DEF PInv
  <2>2. CASE Read BY <2>2, ReadInv
  <2>3. CASE Call BY <2>3, CallInv
  <2>4. CASE Expect BY <2>4, ExpectInv
  <2>5. CASE Accept BY <2>5, AcceptInv
  <2>6. CASE DefZone BY <2>6, DefZoneInv
  <2>7. CASE AlgZone BY <2>7, AlgZoneInv
  <2>8. CASE Flat BY <2>8, FlatInv
  <2>9. CASE Deeper BY <2>9, DeeperInv
  <2>10. CASE Shallower BY <2>10, ShallowerInv
  <2>11. CASE SuppressLiterals BY <2>11, SuppressInv
  <2>12. CASE AllowLiterals BY <2>12, AllowInv
  <2>13. CASE EnterFn BY <2>13, EnterInv
  <2>14. CASE LeaveFn BY <2>14, LeaveInv
  <2> QED
    BY <2>1, <2>2, <2>3, <2>4, <2>5, <2>6, <2>7, <2>8, <2>9, <2>10, <2>11, <2>12, <2>13, <2>14
       DEF Next
<1> QED
  BY <1>1, <1>2, PTL DEF Spec

(* Every variable has its type, and the depth never falls below zero.       *)
THEOREM ParserTypesCorrect == Spec => []ParserTypeOK
<1>1. PInv => ParserTypeOK
  BY DEF PInv
<1> QED
  BY <1>1, ParserInv, PTL

(* What the properties call open bodies. *)
LEMMA SameBodies ==
  ASSUME PInv
  PROVE  /\ ControlBodies = Controls(stack)
         /\ stack \in Seq(Symbols) /\ Chain(stack) /\ Flatness(stack)
         /\ DOMAIN stack = 1..Len(stack) /\ Len(stack) \in Nat
<1>1. (Blocks \cup {"arms"}) \ {"fn_block"} = ControlBlocks
  BY SMT DEF Blocks, ControlBlocks
<1>2. Chain(stack) /\ Flatness(stack)
  BY DEF PInv, PCore
<1> QED
  BY <1>1, <1>2, ChainDomain DEF ControlBodies, OpenBodies, Controls, Bodies

(* The depth of control structures that the parser counts is the depth at   *)
(* which it is, whatever it has parsed before.                              *)
THEOREM DepthCorrect == Spec => []DepthIsNesting
<1>1. PInv => DepthIsNesting
  <2> SUFFICES ASSUME PInv, Due("stmt") \/ Due("expr")
               PROVE  control_depth = Cardinality(ControlBodies)
    BY DEF DepthIsNesting
  <2>1. Parsing /\ stack # <<>> /\ stack[1] \in {"stmt", "expr"} /\ Chain(stack)
    <3>1. CASE Due("stmt") BY <3>1, DueIsTop
    <3>2. CASE Due("expr") BY <3>2, DueIsTop
    <3> QED BY <3>1, <3>2
  <2>2. Firm(stack)
    <3>1. stack[1] \notin {"RBrace", "LBrace", "deeper", "shallower", "else", "Else",
                           "then_block", "loop_block", "else_block", "arms"}
      BY <2>1
    <3> QED
      BY <2>1, <3>1, FirmWhole
  <2>3. ControlBodies = Controls(stack)
    BY SameBodies
  <2>4. Count(stack, "shallower") = Count(stack, "deeper") + Cardinality(ControlBodies)
    BY <2>1, <2>2, <2>3, Depth
  <2>5. Balanced /\ control_depth \in Nat
    BY <2>1 DEF PInv, PCore, ParserTypeOK
  <2>6. Count(stack, "deeper") \in Nat
    BY <2>1, CountType DEF Chain
  <2>7. Cardinality(ControlBodies) \in Nat
    <3>1. DOMAIN stack = 1..Len(stack) /\ Len(stack) \in Nat
      BY SameBodies
    <3>2. IsFiniteSet(1..Len(stack))
      BY <3>1, FS_Interval
    <3>3. ControlBodies \subseteq 1..Len(stack)
      BY <3>1 DEF ControlBodies, OpenBodies
    <3>4. IsFiniteSet(ControlBodies)
      BY <3>2, <3>3, FS_Subset
    <3> HIDE DEF ControlBodies
    <3> QED
      BY <3>4, FS_CardinalityType
  <2> HIDE DEF ControlBodies
  <2> DEFINE d == Count(stack, "deeper")
             c == Cardinality(ControlBodies)
  <2>8. control_depth + d = d + c /\ d \in Nat /\ c \in Nat
    BY <2>4, <2>5, <2>6, <2>7 DEF Balanced
  <2> HIDE DEF d, c
  <2>9. control_depth = c
    BY SMT, <2>5, <2>8
  <2> QED
    BY <2>9 DEF c
<1> QED
  BY <1>1, ParserInv, PTL

(* A loop is in no control structure, however it got there.                 *)
THEOREM LoopsCorrect == Spec => []LoopsAreFlat
<1>1. PInv => LoopsAreFlat
  <2> SUFFICES ASSUME PInv,
                      NEW i \in OpenBodies, stack[i] = "loop_block",
                      NEW j \in ControlBodies, ~(j <= i)
               PROVE  FALSE
    BY DEF LoopsAreFlat
  <2>1. /\ Chain(stack) /\ Flatness(stack) /\ ControlBodies = Controls(stack)
        /\ Len(stack) \in Nat /\ DOMAIN stack = 1..Len(stack)
    BY SameBodies
  <2>2. i \in 1..Len(stack) /\ j \in 1..Len(stack) /\ (i = 1 \/ stack[i - 1] # "LBrace")
    BY <2>1 DEF ControlBodies, OpenBodies
  <2>3. stack[j] \in ControlBlocks /\ (j = 1 \/ stack[j - 1] # "LBrace")
    BY <2>1 DEF Controls
  <2>4. Below(stack, i) /\ LoopBelow(stack, i)
    BY <2>1, <2>2 DEF Chain, Flatness
  <2>5. i + 3 <= Len(stack) /\ stack[i + 1] = "RBrace" /\ stack[i + 2] = "shallower"
    BY <2>4 DEF Below
  <2>6. stack[i + 3] \in {"fn_block", "file"}
    <3>1. i = 1 => ~(i > 1)
      BY SMT
    <3> QED
      BY <2>2, <2>4, <3>1 DEF LoopBelow
  <2>7. i + 3 \in 1..Len(stack) /\ i \in Nat /\ j \in Nat
    BY SMT, <2>1, <2>2, <2>5
  <2>8. Below(stack, i + 3)
    BY <2>1, <2>7 DEF Chain
  <2>9. ASSUME NEW k \in Nat, k > i, k <= i + 3
        PROVE  stack[k] \notin ControlBlocks
    <3>1. k = i + 1 \/ k = i + 2 \/ k = i + 3
      BY SMT, <2>7, <2>9
    <3> QED
      BY <2>5, <2>6, <3>1 DEF ControlBlocks
  <2>10. j > i + 3
    BY SMT, <2>3, <2>7, <2>9
  <2>11. stack[i + 3] # "file"
    <3>1. stack[i + 3] = "file" => i + 3 = Len(stack)
      BY <2>8 DEF Below
    <3> DEFINE n == Len(stack)
    <3>2. n \in Nat /\ j \in 1..n /\ i \in Nat /\ j > i + 3
      BY <2>1, <2>2, <2>7, <2>10
    <3> HIDE DEF n
    <3>3. i + 3 # n
      BY SMT, <3>2
    <3> QED
      BY <3>1, <3>3 DEF n
  <2>12. /\ (i + 3) + 3 = Len(stack) /\ stack[(i + 3) + 1] = "RBrace"
         /\ stack[(i + 3) + 2] = "leave_fn"
    BY <2>6, <2>8, <2>11 DEF Below
  <2>13. i + 6 \in 1..Len(stack) /\ i + 6 = Len(stack) /\ (i + 3) + 1 = i + 4 /\ (i + 3) + 2 = i + 5
    <3> DEFINE n == Len(stack)
    <3>1. n \in Nat /\ i \in Nat /\ (i + 3) + 3 = n
      BY <2>1, <2>7, <2>12
    <3> HIDE DEF n
    <3>2. i + 6 \in 1..n /\ i + 6 = n /\ (i + 3) + 1 = i + 4 /\ (i + 3) + 2 = i + 5
      BY SMT, <3>1
    <3> QED
      BY <3>2 DEF n
  <2>14. stack[i + 6] = "file"
    BY <2>1, <2>13 DEF Chain, Below
  <2>15. j = i + 4 \/ j = i + 5 \/ j = i + 6
    BY SMT, <2>2, <2>7, <2>10, <2>13
  <2> QED
    BY <2>3, <2>12, <2>13, <2>14, <2>15 DEF ControlBlocks
<1> QED
  BY <1>1, ParserInv, PTL

(* Struct literals are suppressed in conditions and subjects only, never in *)
(* a body.                                                                  *)
THEOREM SuppressionCorrect == Spec => []SuppressedOnlyInHeaders
<1>1. PInv => SuppressedOnlyInHeaders
  <2> SUFFICES ASSUME PInv, Parsing, no_struct_lit
               PROVE  \E i \in DOMAIN stack :
                         stack[i] = "literals" /\ \A j \in OpenBodies : i < j
    BY DEF SuppressedOnlyInHeaders
  <2>1. /\ Len(stack) \in Nat /\ DOMAIN stack = 1..Len(stack)
    BY SameBodies
  <2>2. PICK i \in DOMAIN stack :
           /\ stack[i] = "literals"
           /\ \A j \in DOMAIN stack : j < i => stack[j] \notin Blocks \cup {"arms", "stmt", "else"}
    BY DEF PInv, PCore, InHeader
  <2>3. ASSUME NEW j \in OpenBodies
        PROVE  i < j
    <3>1. j \in DOMAIN stack /\ stack[j] \in Blocks \cup {"arms"}
      BY DEF OpenBodies
    <3>2. ~(j < i)
      BY <2>2, <3>1
    <3>3. i # j
      BY <2>2, <3>1 DEF Blocks
    <3> QED
      BY SMT, <2>1, <3>1, <3>2, <3>3
  <2> QED
    BY <2>2, <2>3
<1> QED
  BY <1>1, ParserInv, PTL

(* Once a statement of the algorithm zone has been seen, no definition is   *)
(* begun.                                                                   *)
THEOREM ZonesCorrect == Spec => []ZonesInOrder
<1>1. PInv => ZonesInOrder
  <2> SUFFICES ASSUME PInv, in_alg, NEW i \in DOMAIN stack,
                      stack[i] \in {"import", "ext", "fn", "type", "enum", "fn_block"}
               PROVE  Head(stack) = "def_zone"
    BY DEF ZonesInOrder
  <2>1. stack # <<>>
    <3>1. stack = <<>> => DOMAIN stack = {}
      BY SMT
    <3> QED
      BY <3>1
  <2>2. Head(stack) = stack[1] /\ Parsing
    BY <2>1, TopOfStack
  <2> QED
    BY <2>1, <2>2 DEF PInv, PCore, Undefining, Definitions
<1> QED
  BY <1>1, ParserInv, PTL
=============================================================================
