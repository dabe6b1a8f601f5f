------------------------------ MODULE RymLexer ------------------------------
(****************************************************************************)
(* rym-lexer (lexer.rs): a source file is cut into tokens, one next_token   *)
(* a step, up to the end of the file or the first error.                    *)
(*                                                                          *)
(* Characters are strings of length one; every character counts as one      *)
(* position (in the code a span counts bytes).  Of what a token carries     *)
(* only the class is kept, its text is what the source has between start    *)
(* and end.                                                                 *)
(****************************************************************************)
EXTENDS Integers, FiniteSetsExt, SequencesExt

CONSTANTS
    Sources,    \* the files: sequences of characters
    Keywords,   \* the reserved words, as sequences of characters
    MacroWord,  \* the word that takes a ! behind it (asm)
    MaxInt      \* the largest integer literal (i64::MAX)

Quote == "\""
Blank == {" ", "\t", "\r"}
Digit == {"0", "1", "2", "3", "4", "5", "6", "7", "8", "9"}
NumberChar == Digit \cup {"_"}

(* The characters that are an operator alone, and the operators of two.     *)
Alone == {"(", ")", "{", "}", "[", "]", ",", ";", "@", "?", "~"}
Pairs == {<<"+", "+">>, <<"+", "=">>, <<"-", ">">>, <<"-", "=">>, <<"*", "=">>, <<"/", "=">>,
          <<"%", "=">>, <<"=", ">">>, <<"=", "=">>, <<"!", "=">>, <<"<", "=">>, <<"<", "<">>,
          <<">", "=">>, <<">", ">">>, <<"&", "&">>, <<"&", "=">>, <<"^", "=">>, <<"|", ">">>,
          <<"|", "|">>, <<"|", "=">>, <<":", ":">>, <<".", ".">>}
OperatorChar == Alone \cup {pair[1] : pair \in Pairs}

(* A shift may be followed by = once more. *)
Shifts == {"<", ">"}

(* The characters of ASCII that start no token; \ only counts in a string.  *)
(* (The backquote and the control characters are others.)                   *)
Unknown == {"#", "$", "'", "\\"}

(* Everything else is a letter: char::is_alphabetic, or outside of ASCII.   *)
NotAWord == Blank \cup OperatorChar \cup Unknown \cup {"\n", Quote}
WordChar(c) == c \notin NotAWord
WordStart(c) == WordChar(c) /\ c \notin Digit

ASSUME SourcesAssumption == \A s \in Sources : s \in Seq(STRING)
ASSUME WordsAssumption ==
    \A w \in Keywords \cup {MacroWord} :
       /\ w \in Seq(STRING) \ {<<>>}
       /\ WordStart(w[1]) /\ \A i \in DOMAIN w : WordChar(w[i])
ASSUME MaxIntAssumption == MaxInt \in Nat

VARIABLES
    src,      \* the file that is being read
    pos,      \* characters consumed
    tokens,   \* the tokens found so far
    lexed     \* "lexing", "ok" or the kind of LexError

lexVars == <<src, pos, tokens, lexed>>

LexInit ==
    /\ src \in Sources
    /\ pos = 0
    /\ tokens = <<>>
    /\ lexed = "lexing"

-----------------------------------------------------------------------------
(* Looking at the source: a position p is before the character src[p + 1].  *)

At(p, c) == p < Len(src) /\ src[p + 1] = c
AtAny(p, S) == p < Len(src) /\ src[p + 1] \in S
Text(p, q) == SubSeq(src, p + 1, q)

(* The first position from p on that is not before a character of S.        *)
EndOf(p, Is(_)) ==
    Min({q \in p..Len(src) : q = Len(src) \/ ~Is(src[q + 1])})

(* One turn of skip_whitespace_and_comments.                                *)
(* Fault: a comment takes the end of its line with it.                      *)
SkipWithNewline(p) ==
    IF AtAny(p, Blank) THEN p + 1
    ELSE IF At(p, "/") /\ At(p + 1, "/")
         THEN Min({Len(src), EndOf(p, LAMBDA c : c # "\n") + 1})
    ELSE p

Skip(p) ==
    IF AtAny(p, Blank) THEN p + 1
    ELSE IF At(p, "/") /\ At(p + 1, "/") THEN EndOf(p, LAMBDA c : c # "\n")
    ELSE p

(* The turns, at most one a character. *)
Skipped ==
    LET after[i \in 0..Len(src)] == IF i = 0 THEN pos ELSE Skip(after[i - 1])
    IN after[Len(src)]

(* lex_number: a dot belongs to the number if a digit comes next.           *)
(* Fault: any dot makes a float.                                            *)
FloatDotAny(p) == At(p, ".")

FloatDot(p) == At(p, ".") /\ AtAny(p + 1, Digit)
NumberEnd(p) ==
    LET whole == EndOf(p, LAMBDA c : c \in NumberChar) IN
    IF FloatDot(whole) THEN EndOf(whole + 1, LAMBDA c : c \in NumberChar) ELSE whole

DigitValue == [c \in Digit |-> CHOOSE n \in 0..9 : ToString(n) = c]

(* The underscores are dropped and the rest is parsed as an i64.            *)
IntValue(text) ==
    FoldLeft(LAMBDA n, c : IF c \in Digit THEN 10 * n + DigitValue[c] ELSE n, 0, text)

(* lex_string behind the opening quote: the position behind the closing one, *)
(* 0 if a line or the file ends first.  A backslash takes any character.     *)
StringEnd(p) ==
    LET turn(q) == IF q >= Len(src) \/ AtAny(q, {"\n", Quote}) THEN q
                   ELSE IF At(q, "\\") THEN q + 2
                   ELSE q + 1
        after[i \in 0..Len(src)] == IF i = 0 THEN p ELSE turn(after[i - 1])
        stop == after[Len(src)]
    IN IF At(stop, Quote) THEN stop + 1 ELSE 0

(* The operator that starts at p. *)
OperatorEnd(p) ==
    IF p + 1 >= Len(src) \/ <<src[p + 1], src[p + 2]>> \notin Pairs THEN p + 1
    ELSE IF src[p + 1] \in Shifts /\ At(p + 1, src[p + 1]) /\ At(p + 2, "=") THEN p + 3
    ELSE p + 2

-----------------------------------------------------------------------------
(* next_token, by the character found behind the blanks and comments.       *)

Token == [kind : {"newline", "int", "float", "str", "ident", "keyword", "asm", "op", "eof"},
          start : Nat, end : Nat]

Lexing == lexed = "lexing"

Found(kind, end) ==
    /\ tokens' = Append(tokens, [kind |-> kind, start |-> Skipped, end |-> end])
    /\ pos' = end
    /\ lexed' = IF kind = "eof" THEN "ok" ELSE "lexing"
    /\ UNCHANGED src

Failed(error) ==
    /\ lexed' = error
    /\ pos' = Skipped
    /\ UNCHANGED <<src, tokens>>

LexEof == Lexing /\ Skipped = Len(src) /\ Found("eof", Skipped)

LexNewline == Lexing /\ At(Skipped, "\n") /\ Found("newline", Skipped + 1)

LexNumber ==
    /\ Lexing /\ AtAny(Skipped, Digit)
    /\ LET end == NumberEnd(Skipped)  text == Text(Skipped, end) IN
       IF "." \in Range(text) THEN Found("float", end)
       ELSE IF IntValue(text) > MaxInt THEN Failed("InvalidNumber")
       ELSE Found("int", end)

LexString ==
    /\ Lexing /\ At(Skipped, Quote)
    /\ LET end == StringEnd(Skipped + 1) IN
       IF end = 0 THEN Failed("UnterminatedString") ELSE Found("str", end)

LexWord ==
    /\ Lexing /\ Skipped < Len(src) /\ WordStart(src[Skipped + 1])
    /\ LET end == EndOf(Skipped, WordChar)  text == Text(Skipped, end) IN
       IF text = MacroWord /\ At(end, "!") THEN Found("asm", end + 1)
       ELSE Found(IF text \in Keywords THEN "keyword" ELSE "ident", end)

LexOperator == Lexing /\ AtAny(Skipped, OperatorChar) /\ Found("op", OperatorEnd(Skipped))

LexUnknown == Lexing /\ AtAny(Skipped, Unknown) /\ Failed("UnknownChar")

LexNext ==
    LexEof \/ LexNewline \/ LexNumber \/ LexString \/ LexWord \/ LexOperator \/ LexUnknown

LexSpec == LexInit /\ [][LexNext]_lexVars

-----------------------------------------------------------------------------
(* Properties.  The lexemes of the language, written down as a set of texts *)
(* and not as a scan: what token.rs lists, one entry per TokenKind.         *)

Spellings ==
    {<<c>> : c \in {"?", ":", ",", ".", ";", "@", "*", "&", "+", "-", "/", "%", "^", "~", "<",
                    ">", "=", "!", "|", "(", ")", "{", "}", "[", "]"}}
    \cup {<<"|", ">">>, <<"-", ">">>, <<"=", ">">>, <<":", ":">>, <<".", ".">>, <<"+", "+">>,
          <<"<", "<">>, <<">", ">">>, <<"=", "=">>, <<"!", "=">>, <<"<", "=">>, <<">", "=">>,
          <<"+", "=">>, <<"-", "=">>, <<"*", "=">>, <<"/", "=">>, <<"%", "=">>, <<"&", "=">>,
          <<"|", "=">>, <<"^", "=">>, <<"&", "&">>, <<"|", "|">>}
    \cup {<<"<", "<", "=">>, <<">", ">", "=">>}

IsWord(t) == WordStart(t[1]) /\ \A i \in DOMAIN t : WordChar(t[i])
IsDigits(t) == t # <<>> /\ t[1] \in Digit /\ Range(t) \subseteq NumberChar

(* In the body of a string a quote and the end of a line are preceded by an *)
(* odd number of backslashes, the end of the body by an even one.           *)
Backslashes(t, i) ==
    i - 1 - Max({0} \cup {j \in 1..(i - 1) : t[j] # "\\"})
IsStringBody(t) ==
    /\ \A i \in DOMAIN t : t[i] \in {Quote, "\n"} => Backslashes(t, i) % 2 = 1
    /\ Backslashes(t, Len(t) + 1) % 2 = 0

(* t is a complete token of class kind. *)
IsLexeme(kind, t) ==
    /\ t # <<>>
    /\ CASE kind = "newline" -> t = <<"\n">>
         [] kind = "int" -> IsDigits(t)
         [] kind = "float" -> \E i \in 2..(Len(t) - 1) :
                                 /\ t[i] = "."
                                 /\ IsDigits(SubSeq(t, 1, i - 1))
                                 /\ IsDigits(SubSeq(t, i + 1, Len(t)))
         [] kind = "str" -> /\ Len(t) >= 2 /\ t[1] = Quote /\ t[Len(t)] = Quote
                            /\ IsStringBody(SubSeq(t, 2, Len(t) - 1))
         [] kind = "ident" -> IsWord(t) /\ t \notin Keywords
         [] kind = "keyword" -> t \in Keywords
         [] kind = "asm" -> t = Append(MacroWord, "!")
         [] kind = "op" -> t \in Spellings
         [] kind = "eof" -> FALSE

Kinds == {"newline", "int", "float", "str", "ident", "keyword", "asm", "op"}
LexemeAt(p, q) == \E k \in Kinds : IsLexeme(k, Text(p, q))

(* A token is the longest lexeme that starts where it starts, of the class  *)
(* it says: no operator, number or word is cut short (1..5 is a range and   *)
(* <<= one operator).  An error is one: no token starts there, or it is a   *)
(* number that does not fit.                                                *)
LongestMatch ==
    /\ \A i \in DOMAIN tokens :
          LET t == tokens[i] IN
          IF t.kind = "eof" THEN t.start = Len(src) /\ t.end = Len(src)
          ELSE /\ IsLexeme(t.kind, Text(t.start, t.end))
               /\ \A q \in (t.end + 1)..Len(src) : ~LexemeAt(t.start, q)
    /\ lexed = "InvalidNumber" =>
          \E q \in (pos + 1)..Len(src) :
             IsLexeme("int", Text(pos, q)) /\ IntValue(Text(pos, q)) > MaxInt
    /\ lexed \in {"UnterminatedString", "UnknownChar"} =>
          pos < Len(src) /\ \A q \in (pos + 1)..Len(src) : ~LexemeAt(pos, q)

(* Where a comment is: behind a //, on the same line. *)
InComment(p, q) ==
    \E i \in p..(q - 1) : /\ At(i, "/") /\ At(i + 1, "/")
                          /\ \A j \in i..(q - 1) : ~At(j, "\n")

(* Nothing of the file is lost: tokens follow each other, only blanks and   *)
(* comments lie between them, and no comment takes the end of its line with *)
(* it (skip_whitespace_and_comments: "Newlines are kept so the parser can   *)
(* use them as statement terminators").                                     *)
NothingLost ==
    LET startOf(i) == IF i > Len(tokens) THEN pos ELSE tokens[i].start
        endOf(i) == IF i = 0 THEN 0 ELSE tokens[i].end
    IN \A i \in 0..Len(tokens) :
          /\ endOf(i) <= startOf(i + 1)
          /\ \A p \in endOf(i)..(startOf(i + 1) - 1) :
                ~At(p, "\n") /\ (AtAny(p, Blank) \/ InComment(endOf(i), p + 1))
=============================================================================
