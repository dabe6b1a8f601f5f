---------------------------- MODULE RymMainProofs ----------------------------
(****************************************************************************)
(* What rymc's main does, for every set of files: proofs about RymDriver,   *)
(* what a run does with the text of the file and what it leaves on disk, and *)
(* about RymImports, how the files imported are merged.                     *)
(*                                                                          *)
(* The first part is about the lexer.  Its loops are functions over         *)
(* 0..Len(src), so what one turn keeps holds at the end (Repeats), and what *)
(* each of them stops at is said without a loop: Skipped (SkippedIs), the   *)
(* end of a string (ScanIs, BodyIs), of a word (WordEnd) and of digits      *)
(* (DigitsEnd).  Each class of lexeme is then put as a condition on the     *)
(* characters between two positions (DigitsAre, FloatIs, StrIs, WordIs,     *)
(* OpIs, AsmIs), and the first character tells the class (StartIs); so of   *)
(* each class the token that is found is a lexeme and nothing longer is     *)
(* (NumberRight, StringRight, WordRight, OperatorRight).  LInv puts this    *)
(* together with what lies between the tokens (Gap).                        *)
(*                                                                          *)
(* The second part is about the files (DInv), the third about the lexer in  *)
(* the run, up to where the parser takes the tokens (DLInv).                *)
(*                                                                          *)
(* The last part is about the import graph, cycles included: splices only   *)
(* ever replace the import they belong to, a safe root stays free of base   *)
(* code, nothing is lost or merged twice, and what a file imports comes     *)
(* before what it defines behind the import.                                *)
(****************************************************************************)
EXTENDS RymDriver, RymImports,
        SequenceTheorems, WellFoundedInduction, FiniteSetTheorems, TLAPS

(* A set of natural numbers has a least member. *)
LEMMA Least ==
  ASSUME NEW T, T \subseteq Nat, T # {}
  PROVE  \E x \in T : \A y \in T : x <= y
<1>1. IsWellFoundedOn(OpToRel(<, Nat), Nat)
  BY NatLessThanWellFounded
<1> DEFINE R == OpToRel(<, Nat)
<1>2. \A x, y \in Nat : <<x, y>> \in R <=> x < y
  BY DEF OpToRel
<1>3. IsWellFoundedOn(R, Nat)
  BY <1>1
<1> HIDE DEF R
<1>4. PICK x \in T : \A y \in T : ~(<<y, x>> \in R)
  BY <1>3, WFMin
<1>5. \A y \in T : y \in Nat /\ x \in Nat /\ ~(y < x)
  BY <1>2, <1>4
<1>6. \A y \in T : x <= y
  BY <1>5
<1> QED
  BY <1>6

(* Along an interval. *)
LEMMA Walk ==
  ASSUME NEW n \in Nat, NEW S, 0 \in S, \A i \in 1..n : i - 1 \in S => i \in S
  PROVE  \A i \in 0..n : i \in S
<1> SUFFICES ASSUME NEW m \in 0..n, m \notin S
             PROVE  FALSE
  OBVIOUS
<1> DEFINE T == (0..n) \ S
<1>1. T \subseteq Nat /\ T # {}
  OBVIOUS
<1>2. PICK x \in T : \A y \in T : x <= y
  <2> HIDE DEF T
  <2> QED
    BY <1>1, Least
<1>3. x \in 1..n /\ x - 1 \in 0..n /\ ~(x <= x - 1)
  BY <1>2
<1>4. x - 1 \in S
  BY <1>2, <1>3
<1> QED
  BY <1>2, <1>3, <1>4

(* A step that stays in X can be repeated. *)
Repeated(f, step, c, n, X) ==
    f \in [0..n -> X] /\ f[0] = c /\ \A i \in 1..n : f[i] = step[f[i - 1]]

LEMMA Repeats ==
  ASSUME NEW n \in Nat, NEW X, NEW c \in X, NEW step \in [X -> X]
  PROVE  \E f : Repeated(f, step, c, n, X)
<1> DEFINE Good(m, f) == f[0] = c /\ \A i \in 1..m : f[i] = step[f[i - 1]]
<1> DEFINE S == {m \in 0..n : \E f \in [0..m -> X] : Good(m, f)}
<1>1. 0 \in S
  <2> DEFINE g == [i \in 0..0 |-> c]
  <2>1. g \in [0..0 -> X] /\ g[0] = c
    OBVIOUS
  <2>2. 0 \in 0..n
    OBVIOUS
  <2> HIDE DEF g
  <2>3. Good(0, g)
    BY <2>1
  <2> HIDE DEF Good
  <2> QED
    BY <2>1, <2>2, <2>3
<1>2. ASSUME NEW i \in 1..n, i - 1 \in S PROVE i \in S
  <2>1. PICK f \in [0..(i - 1) -> X] : Good(i - 1, f)
    BY <1>2
  <2>2. i - 1 \in 0..(i - 1)
    OBVIOUS
  <2>3. f[i - 1] \in X
    BY <2>2
  <2>4. step[f[i - 1]] \in X
    BY <2>3
  <2> DEFINE g == [j \in 0..i |-> IF j = i THEN step[f[i - 1]] ELSE f[j]]
  <2>5. ASSUME NEW j \in 0..i PROVE g[j] \in X
    <3>1. CASE j = i
      BY <2>4, <3>1
    <3>2. CASE j # i
      <4>1. j \in 0..(i - 1)
        BY <3>2
      <4> QED
        BY <3>2, <4>1
    <3> QED
      BY <3>1, <3>2
  <2>6. g \in [0..i -> X]
    BY <2>5
  <2>7. g[0] = c
    <3>1. 0 # i /\ 0 \in 0..i
      OBVIOUS
    <3> QED
      BY <2>1, <3>1
  <2>8. ASSUME NEW j \in 1..i PROVE g[j] = step[g[j - 1]]
    <3>1. CASE j = i
      <4>1. i - 1 # i /\ i - 1 \in 0..i /\ i \in 0..i
        OBVIOUS
      <4>2. g[j] = step[f[i - 1]] /\ g[j - 1] = f[i - 1]
        BY <3>1, <4>1
      <4> QED
        BY <3>1, <4>2
    <3>2. CASE j # i
      <4>1. j \in 1..(i - 1) /\ j \in 0..i /\ j - 1 \in 0..i /\ j - 1 # i
        BY <3>2
      <4>2. g[j] = f[j] /\ g[j - 1] = f[j - 1]
        BY <3>2, <4>1
      <4>3. f[j] = step[f[j - 1]]
        BY <2>1, <4>1
      <4> QED
        BY <4>2, <4>3
    <3> QED
      BY <3>1, <3>2
  <2>9. Good(i, g)
    BY <2>7, <2>8
  <2> HIDE DEF g, Good
  <2> QED
    BY <2>6, <2>9
<1> HIDE DEF S
<1>3. \A i \in 0..n : i \in S
  BY <1>1, <1>2, Walk
<1>4. n \in S
  BY <1>3
<1> QED
  BY <1>4 DEF S, Repeated

-----------------------------------------------------------------------------
(* Skipping.                                                                *)

LEMMA InCommentFurther ==
  ASSUME NEW p \in Int, NEW q \in Int, NEW a \in Int, a <= p, InComment(p, q)
  PROVE  InComment(a, q)
BY DEF InComment

(* What may lie between two tokens. *)
Gap(a, b) ==
    /\ a <= b
    /\ \A p \in a..(b - 1) : ~At(p, "\n") /\ (AtAny(p, Blank) \/ InComment(a, p + 1))

LEMMA GapJoin ==
  ASSUME NEW a \in Int, NEW b \in Int, NEW c \in Int, Gap(a, b), Gap(b, c)
  PROVE  Gap(a, c)
<1>1. a <= b /\ b <= c
  BY DEF Gap
<1>2. ASSUME NEW p \in a..(c - 1)
      PROVE  ~At(p, "\n") /\ (AtAny(p, Blank) \/ InComment(a, p + 1))
  <2>1. CASE p < b
    <3>1. p \in a..(b - 1)
      BY <2>1
    <3> QED
      BY <3>1 DEF Gap
  <2>2. CASE p >= b
    <3>1. p \in b..(c - 1)
      BY <2>2
    <3>2. InComment(b, p + 1) => InComment(a, p + 1)
      BY <1>1, InCommentFurther
    <3> QED
      BY <3>1, <3>2 DEF Gap
  <2> QED
    BY <2>1, <2>2
<1> QED
  BY <1>1, <1>2 DEF Gap

(* A run of characters ends at the first position of T. *)
LEMMA RunEnd ==
  ASSUME src \in Seq(STRING), NEW p \in 0..Len(src), NEW T, T \subseteq p..Len(src), Len(src) \in T
  PROVE  /\ Min(T) \in p..Len(src) /\ Min(T) \in T
         /\ \A x \in p..(Min(T) - 1) : x \in p..Len(src) /\ x < Len(src) /\ x \notin T
<1>1. Len(src) \in Nat /\ T \subseteq Nat /\ T # {}
  OBVIOUS
<1>2. \E x \in T : \A y \in T : x <= y
  BY <1>1, Least
<1>3. Min(T) \in T /\ \A y \in T : Min(T) <= y
  BY <1>2 DEF Min
<1>4. Min(T) \in p..Len(src)
  BY <1>3
<1>5. ASSUME NEW x \in p..(Min(T) - 1) PROVE x \in p..Len(src) /\ x < Len(src) /\ x \notin T
  <2>1. ~(Min(T) <= x) /\ x \in p..Len(src) /\ x < Len(src)
    BY <1>1, <1>4
  <2> QED
    BY <1>3, <2>1
<1> QED
  BY <1>3, <1>4, <1>5

(* The end of a line. *)
LEMMA LineEnd ==
  ASSUME src \in Seq(STRING), NEW p \in 0..Len(src)
  PROVE  /\ EndOf(p, LAMBDA c : c # "\n") \in p..Len(src)
         /\ \A x \in p..(EndOf(p, LAMBDA c : c # "\n") - 1) : ~At(x, "\n")
<1> DEFINE T == {q \in p..Len(src) : q = Len(src) \/ ~(src[q + 1] # "\n")}
<1>1. T \subseteq p..Len(src) /\ Len(src) \in T
  OBVIOUS
<1>2. EndOf(p, LAMBDA c : c # "\n") = Min(T)
  BY DEF EndOf
<1>3. \A x \in p..Len(src) : x \notin T => ~At(x, "\n")
  BY DEF At
<1> HIDE DEF T
<1> QED
  BY <1>1, <1>2, <1>3, RunEnd

LEMMA SkipIs ==
  ASSUME src \in Seq(STRING), NEW p \in 0..Len(src)
  PROVE  Skip(p) \in 0..Len(src) /\ Gap(p, Skip(p))
<1> DEFINE e == EndOf(p, LAMBDA c : c # "\n")
<1>1. Len(src) \in Nat
  OBVIOUS
<1>2. CASE AtAny(p, Blank)
  <2>1. Skip(p) = p + 1 /\ p < Len(src)
    BY <1>2 DEF Skip, AtAny
  <2>2. ~At(p, "\n")
    BY <1>2 DEF AtAny, At, Blank
  <2>3. \A x \in p..(p + 1 - 1) : x = p
    OBVIOUS
  <2> QED
    BY <1>1, <1>2, <2>1, <2>2, <2>3 DEF Gap
<1>3. CASE ~AtAny(p, Blank) /\ At(p, "/") /\ At(p + 1, "/")
  <2>1. Skip(p) = e
    BY <1>3 DEF Skip
  <2>2. e \in p..Len(src) /\ \A x \in p..(e - 1) : ~At(x, "\n")
    BY LineEnd
  <2> HIDE DEF e
  <2>3. ASSUME NEW x \in p..(e - 1) PROVE InComment(p, x + 1)
    <3>1. p \in p..(x + 1 - 1) /\ \A j \in p..(x + 1 - 1) : j \in p..(e - 1)
      BY <2>2
    <3> QED
      BY <1>3, <2>2, <3>1 DEF InComment
  <2> QED
    BY <2>1, <2>2, <2>3 DEF Gap
<1>4. CASE ~AtAny(p, Blank) /\ ~(At(p, "/") /\ At(p + 1, "/"))
  <2>1. Skip(p) = p /\ \A x \in p..(p - 1) : FALSE
    BY <1>4 DEF Skip
  <2> QED
    BY <2>1 DEF Gap
<1> QED
  BY <1>2, <1>3, <1>4

SkipRun(f) == f = [i \in 0..Len(src) |-> IF i = 0 THEN pos ELSE Skip(f[i - 1])]

LEMMA SkippedIs ==
  ASSUME src \in Seq(STRING), pos \in 0..Len(src)
  PROVE  Skipped \in 0..Len(src) /\ Gap(pos, Skipped)
<1> DEFINE n == Len(src)
           X == 0..n
           step == [p \in X |-> Skip(p)]
<1>1. n \in Nat
  OBVIOUS
<1>2. \A p \in X : step[p] = Skip(p) /\ Skip(p) \in X /\ Gap(p, Skip(p))
  BY SkipIs
<1>3. step \in [X -> X]
  BY <1>2
<1> HIDE DEF step
<1>4. PICK f : Repeated(f, step, pos, n, X)
  BY <1>1, <1>3, Repeats
<1>5. f \in [0..n -> X] /\ f[0] = pos /\ \A i \in 1..n : f[i] = step[f[i - 1]]
  BY <1>4 DEF Repeated
<1>6. f = [i \in 0..n |-> f[i]]
  BY <1>5
<1>7. ASSUME NEW i \in 1..n
      PROVE  f[i - 1] \in X /\ f[i] = Skip(f[i - 1]) /\ Gap(f[i - 1], f[i])
  <2>1. i - 1 \in 0..n
    OBVIOUS
  <2>2. f[i - 1] \in X
    BY <1>5, <2>1
  <2> QED
    BY <1>2, <1>5, <2>2
<1>8. ASSUME NEW i \in 0..n
      PROVE  f[i] = IF i = 0 THEN pos ELSE Skip(f[i - 1])
  <2>1. i = 0 \/ i \in 1..n
    OBVIOUS
  <2> QED
    BY <1>5, <1>7, <2>1
<1>9. SkipRun(f)
  BY <1>6, <1>8 DEF SkipRun
<1>10. Skipped = (CHOOSE g : SkipRun(g))[n]
  BY DEF Skipped, SkipRun
<1>11. PICK h : h = CHOOSE g : SkipRun(g)
  OBVIOUS
<1>12. SkipRun(h)
  BY <1>9, <1>11, Zenon
<1>13. h[0] = pos /\ \A i \in 1..n : h[i] = Skip(h[i - 1])
  <2>1. \A i \in 0..n : h[i] = IF i = 0 THEN pos ELSE Skip(h[i - 1])
    BY <1>12 DEF SkipRun
  <2>2. \A i \in 1..n : i \in 0..n /\ i # 0
    OBVIOUS
  <2> QED
    BY <1>1, <2>1, <2>2
<1> DEFINE S == {i \in 0..n : h[i] \in X /\ Gap(pos, h[i])}
<1>14. 0 \in S
  <2>1. \A p \in pos..(pos - 1) : FALSE
    OBVIOUS
  <2> QED
    BY <1>13, <2>1 DEF Gap
<1>15. ASSUME NEW i \in 1..n, i - 1 \in S PROVE i \in S
  <2>1. h[i - 1] \in X /\ Gap(pos, h[i - 1]) /\ h[i] = Skip(h[i - 1])
    BY <1>13, <1>15
  <2>2. h[i] \in X /\ Gap(h[i - 1], h[i])
    BY <1>2, <2>1
  <2>3. Gap(pos, h[i])
    BY <2>1, <2>2, GapJoin
  <2> QED
    BY <2>2, <2>3
<1> HIDE DEF S
<1>16. n \in S
  <2>1. \A i \in 0..n : i \in S
    BY <1>1, <1>14, <1>15, Walk
  <2> QED
    BY <1>1, <2>1
<1>17. h[n] \in X /\ Gap(pos, h[n])
  BY <1>16 DEF S
<1> QED
  BY <1>10, <1>11, <1>17

-----------------------------------------------------------------------------
(* Texts, and the backslashes in them.                                      *)

LEMMA TextIs ==
  ASSUME src \in Seq(STRING), NEW p \in 0..Len(src), NEW q \in p..Len(src)
  PROVE  /\ Text(p, q) \in Seq(STRING) /\ Len(Text(p, q)) = q - p
         /\ DOMAIN Text(p, q) = 1..(q - p)
         /\ \A i \in 1..(q - p) : Text(p, q)[i] = src[p + i]
<1>1. p \in Int /\ q \in Int /\ p <= q /\ p + 1 \in Int /\ Len(src) \in Nat
  OBVIOUS
<1>2. \A i \in (p + 1)..q : src[i] \in STRING
  <2>1. \A i \in (p + 1)..q : i \in 1..Len(src)
    OBVIOUS
  <2> QED
    BY <2>1
<1>3. /\ SubSeq(src, p + 1, q) \in Seq(STRING)
      /\ Len(SubSeq(src, p + 1, q)) = IF p + 1 <= q THEN q - (p + 1) + 1 ELSE 0
      /\ \A i \in 1..(q - (p + 1) + 1) : SubSeq(src, p + 1, q)[i] = src[p + 1 + i - 1]
  BY <1>1, <1>2, SubSeqProperties
<1>4. q - (p + 1) + 1 = q - p /\ \A i \in 1..(q - p) : p + 1 + i - 1 = p + i
  BY <1>1
<1>5. Len(Text(p, q)) = q - p
  BY <1>1, <1>3, <1>4 DEF Text
<1>6. \A i \in 1..(q - p) : Text(p, q)[i] = src[p + i]
  BY <1>3, <1>4 DEF Text
<1>7. Text(p, q) \in Seq(STRING)
  BY <1>3 DEF Text
<1>8. DOMAIN Text(p, q) = 1..(q - p)
  BY <1>5, <1>7
<1> QED
  BY <1>5, <1>6, <1>7, <1>8

(* A bounded set of numbers has a greatest member. *)
LEMMA Greatest ==
  ASSUME NEW n \in Nat, NEW T, T \subseteq 0..n, T # {}
  PROVE  Max(T) \in T /\ \A y \in T : Max(T) >= y
<1> DEFINE D == {n - x : x \in T}
<1>1. D \subseteq Nat /\ D # {}
  <2>1. ASSUME NEW x \in T PROVE n - x \in Nat
    <3>1. x \in Int /\ x <= n
      OBVIOUS
    <3> QED
      BY <3>1
  <2> QED
    BY <2>1
<1>2. PICK d \in D : \A y \in D : d <= y
  <2> HIDE DEF D
  <2> QED
    BY <1>1, Least
<1>3. PICK x \in T : d = n - x
  OBVIOUS
<1>4. ASSUME NEW y \in T PROVE x >= y
  <2>1. n - x <= n - y
    BY <1>2, <1>3
  <2> QED
    BY <2>1
<1> QED
  BY <1>3, <1>4 DEF Max

NoBackslash(t, i) == {0} \cup {j \in 1..(i - 1) : t[j] # "\\"}

LEMMA BackslashesAre ==
  ASSUME NEW t, NEW i \in Nat \ {0}
  PROVE  /\ Backslashes(t, i) \in Nat
         /\ Backslashes(t, i) = i - 1 - Max(NoBackslash(t, i))
         /\ Max(NoBackslash(t, i)) \in NoBackslash(t, i)
         /\ \A j \in NoBackslash(t, i) : Max(NoBackslash(t, i)) >= j
<1>1. NoBackslash(t, i) \subseteq 0..(i - 1) /\ NoBackslash(t, i) # {} /\ i - 1 \in Nat
  BY DEF NoBackslash
<1>2. /\ Max(NoBackslash(t, i)) \in NoBackslash(t, i)
      /\ \A j \in NoBackslash(t, i) : Max(NoBackslash(t, i)) >= j
  BY <1>1, Greatest
<1>3. Backslashes(t, i) = i - 1 - Max(NoBackslash(t, i))
  BY DEF Backslashes, NoBackslash
<1> QED
  BY <1>1, <1>2, <1>3

(* Before position q of a text that begins at p. *)
Back(p, q) == Backslashes(Text(p, q), q - p + 1)

LEMMA BackIs ==
  ASSUME src \in Seq(STRING), NEW p \in 0..Len(src), NEW q \in p..Len(src),
         NEW e \in q..Len(src)
  PROVE  Backslashes(Text(p, e), q - p + 1) = Back(p, q) /\ Back(p, q) \in Nat
<1>1. p \in Int /\ q \in Int /\ e \in p..Len(src) /\ q - p + 1 \in Nat \ {0}
  OBVIOUS
<1>2. \A j \in 1..(q - p + 1 - 1) : Text(p, e)[j] = Text(p, q)[j]
  <2>1. \A j \in 1..(q - p + 1 - 1) : j \in 1..(q - p) /\ j \in 1..(e - p)
    OBVIOUS
  <2> QED
    BY <1>1, <2>1, TextIs
<1>3. NoBackslash(Text(p, e), q - p + 1) = NoBackslash(Text(p, q), q - p + 1)
  BY <1>2 DEF NoBackslash
<1> QED
  BY <1>1, <1>3, BackslashesAre DEF Back

LEMMA BackNone ==
  ASSUME src \in Seq(STRING), NEW p \in 0..Len(src)
  PROVE  Back(p, p) = 0
<1>1. p - p + 1 = 1 /\ 1 \in Nat \ {0} /\ \A j \in 1..(1 - 1) : FALSE
  OBVIOUS
<1>2. NoBackslash(Text(p, p), 1) = {0}
  BY <1>1 DEF NoBackslash
<1>3. Max(NoBackslash(Text(p, p), 1)) = 0
  BY <1>1, <1>2, BackslashesAre
<1> QED
  BY <1>1, <1>3, BackslashesAre DEF Back

LEMMA BackslashesNext ==
  ASSUME NEW t, NEW i \in Nat \ {0}, NEW k, k = i + 1
  PROVE  Backslashes(t, k) = IF t[i] = "\\" THEN Backslashes(t, i) + 1 ELSE 0
<1> DEFINE M == NoBackslash(t, i)
           N == NoBackslash(t, k)
<1>1. i \in Nat \ {0} /\ k \in Nat \ {0} /\ k - 1 = i
  OBVIOUS
<1>2. /\ Max(M) \in M /\ \A j \in M : Max(M) >= j
      /\ Backslashes(t, i) = i - 1 - Max(M)
  BY <1>1, BackslashesAre, Zenon
<1>3. /\ Max(N) \in N /\ \A j \in N : Max(N) >= j
      /\ Backslashes(t, k) = k - 1 - Max(N)
  BY <1>1, BackslashesAre, Zenon
<1>4. M \subseteq 0..(i - 1) /\ N \subseteq 0..i
  BY <1>1 DEF NoBackslash
<1>5. CASE t[i] = "\\"
  <2>1. M = N
    BY <1>1, <1>5 DEF NoBackslash
  <2> HIDE DEF M, N
  <2>2. Max(M) \in 0..(i - 1)
    BY <1>2, <1>4, Zenon
  <2>3. Max(M) \in Int
    BY <2>2
  <2> QED
    BY <1>1, <1>2, <1>3, <1>5, <2>1, <2>3
<1>6. CASE t[i] # "\\"
  <2>1. i \in N
    BY <1>1, <1>6 DEF NoBackslash
  <2> HIDE DEF M, N
  <2>2. Max(N) \in 0..i /\ Max(N) >= i
    BY <1>3, <1>4, <2>1, Zenon
  <2>3. Max(N) = i
    BY <1>1, <2>2
  <2> QED
    BY <1>1, <1>3, <1>6, <2>3
<1> QED
  BY <1>5, <1>6

LEMMA BackNext ==
  ASSUME src \in Seq(STRING), NEW p \in 0..Len(src), NEW q \in p..Len(src), q < Len(src)
  PROVE  Back(p, q + 1) = IF src[q + 1] = "\\" THEN Back(p, q) + 1 ELSE 0
<1> DEFINE t == Text(p, q + 1)
           i == q - p + 1
           k == q + 1 - p + 1
<1>1. /\ q + 1 \in p..Len(src) /\ q + 1 \in q..Len(src) /\ i \in Nat \ {0}
      /\ p + i = q + 1 /\ i \in 1..(q + 1 - p) /\ k = i + 1
  OBVIOUS
<1>2. t[i] = src[q + 1]
  <2>1. \A j \in 1..(q + 1 - p) : Text(p, q + 1)[j] = src[p + j]
    BY <1>1, TextIs
  <2> HIDE DEF i
  <2> QED
    BY <1>1, <2>1
<1>3. Back(p, q) = Backslashes(t, i) /\ Back(p, q + 1) = Backslashes(t, k)
  BY <1>1, BackIs DEF Back
<1> HIDE DEF t, i, k
<1> QED
  BY <1>1, <1>2, <1>3, BackslashesNext

-----------------------------------------------------------------------------
(* The scan of a string.                                                    *)

Turn(q) ==
    IF q >= Len(src) \/ AtAny(q, {"\n", Quote}) THEN q
    ELSE IF At(q, "\\") THEN q + 2
    ELSE q + 1

(* From p to q there is no end of the string; q is not escaped.             *)
Scanned(p, q) ==
    /\ p <= q /\ q <= Len(src) + 1
    /\ q <= Len(src) => Back(p, q) % 2 = 0
    /\ \A x \in p..(q - 1) : AtAny(x, {"\n", Quote}) => Back(p, x) % 2 = 1

LEMMA TurnKeeps ==
  ASSUME src \in Seq(STRING), NEW p \in 0..Len(src), NEW q \in 0..(Len(src) + 1), Scanned(p, q)
  PROVE  Scanned(p, Turn(q))
<1>1. Len(src) \in Nat /\ p \in Int /\ q \in Int /\ p <= q /\ q \in Nat
  BY DEF Scanned
<1>2. CASE q >= Len(src) \/ AtAny(q, {"\n", Quote})
  BY <1>2 DEF Turn
<1>3. CASE ~(q >= Len(src) \/ AtAny(q, {"\n", Quote})) /\ At(q, "\\")
  <2>1. q < Len(src) /\ src[q + 1] = "\\" /\ Turn(q) = q + 2 /\ q \in p..Len(src)
        /\ ~AtAny(q, {"\n", Quote}) /\ q + 1 \in p..Len(src) /\ p \in 0..Len(src)
    BY <1>1, <1>3 DEF At, Turn
  <2>2. Back(p, q) \in Nat /\ Back(p, q) % 2 = 0
    BY <1>1, <2>1, BackIs DEF Scanned
  <2>3. Back(p, q + 1) = Back(p, q) + 1
    BY <2>1, BackNext
  <2>4. Back(p, q + 1) % 2 = 1
    BY <2>2, <2>3
  <2>5. q + 2 <= Len(src) => Back(p, q + 2) % 2 = 0
    <3> SUFFICES ASSUME q + 2 <= Len(src) PROVE Back(p, q + 2) % 2 = 0
      OBVIOUS
    <3>1. q + 1 < Len(src) /\ q + 1 + 1 = q + 2
      BY <1>1
    <3>2. Back(p, q + 1 + 1) = IF src[q + 1 + 1] = "\\" THEN Back(p, q + 1) + 1 ELSE 0
      BY <2>1, <3>1, BackNext
    <3>3. Back(p, q + 2) = Back(p, q) + 2 \/ Back(p, q + 2) = 0
      <4>1. Back(p, q + 1) + 1 = Back(p, q) + 2
        BY <2>2, <2>3
      <4> QED
        BY <3>1, <3>2, <4>1
    <3> QED
      BY <2>2, <3>3
  <2>6. ASSUME NEW x \in p..(q + 2 - 1), AtAny(x, {"\n", Quote}) PROVE Back(p, x) % 2 = 1
    <3>1. x \in p..(q - 1) \/ x = q \/ x = q + 1
      BY <1>1
    <3>2. CASE x \in p..(q - 1)
      BY <2>6, <3>2 DEF Scanned
    <3> QED
      BY <2>1, <2>4, <2>6, <3>1, <3>2
  <2>7. p <= q + 2 /\ q + 2 <= Len(src) + 1
    BY <1>1, <2>1
  <2>8. PICK k : k = q + 2
    OBVIOUS
  <2>9. Scanned(p, k)
    <3>1. p <= k /\ k <= Len(src) + 1
      BY <2>7, <2>8
    <3>2. k <= Len(src) => Back(p, k) % 2 = 0
      BY <2>5, <2>8
    <3>3. \A x \in p..(k - 1) : AtAny(x, {"\n", Quote}) => Back(p, x) % 2 = 1
      BY <2>6, <2>8
    <3> QED
      BY <3>1, <3>2, <3>3, Zenon DEF Scanned
  <2> QED
    BY <2>1, <2>8, <2>9
<1>4. CASE ~(q >= Len(src) \/ AtAny(q, {"\n", Quote})) /\ ~At(q, "\\")
  <2>1. q < Len(src) /\ src[q + 1] # "\\" /\ Turn(q) = q + 1 /\ q \in p..Len(src)
        /\ ~AtAny(q, {"\n", Quote}) /\ p \in 0..Len(src)
    BY <1>1, <1>4 DEF At, Turn
  <2>2. Back(p, q + 1) = 0
    BY <2>1, BackNext
  <2>3. ASSUME NEW x \in p..(q + 1 - 1), AtAny(x, {"\n", Quote}) PROVE Back(p, x) % 2 = 1
    <3>1. x \in p..(q - 1) \/ x = q
      BY <1>1
    <3>2. CASE x \in p..(q - 1)
      BY <2>3, <3>2 DEF Scanned
    <3> QED
      BY <2>1, <2>3, <3>1, <3>2
  <2>4. p <= q + 1 /\ q + 1 <= Len(src) + 1 /\ 0 % 2 = 0
    BY <1>1, <2>1
  <2>5. PICK k : k = q + 1
    OBVIOUS
  <2>6. Scanned(p, k)
    <3>1. p <= k /\ k <= Len(src) + 1
      BY <2>4, <2>5
    <3>2. k <= Len(src) => Back(p, k) % 2 = 0
      BY <2>2, <2>4, <2>5
    <3>3. \A x \in p..(k - 1) : AtAny(x, {"\n", Quote}) => Back(p, x) % 2 = 1
      BY <2>3, <2>5
    <3> QED
      BY <3>1, <3>2, <3>3, Zenon DEF Scanned
  <2> QED
    BY <2>1, <2>5, <2>6
<1> QED
  BY <1>2, <1>3, <1>4

LEMMA TurnIs ==
  ASSUME src \in Seq(STRING), NEW q \in 0..(Len(src) + 1)
  PROVE  /\ Turn(q) \in 0..(Len(src) + 1)
         /\ Turn(q) = q \/ Turn(q) >= q + 1
<1>1. Len(src) \in Nat /\ q \in Nat
  OBVIOUS
<1> QED
  BY <1>1 DEF Turn

ScanRun(f, p) == f = [i \in 0..Len(src) |-> IF i = 0 THEN p ELSE Turn(f[i - 1])]

(* Where the scan stops. *)
LEMMA ScanIs ==
  ASSUME src \in Seq(STRING), NEW p \in 1..Len(src)
  PROVE  \E stop \in p..(Len(src) + 1) :
            /\ StringEnd(p) = IF At(stop, Quote) THEN stop + 1 ELSE 0
            /\ Scanned(p, stop)
            /\ stop >= Len(src) \/ AtAny(stop, {"\n", Quote})
<1> DEFINE n == Len(src)
           X == 0..(n + 1)
           step == [q \in X |-> Turn(q)]
<1>1. n \in Nat /\ p \in X /\ p \in 0..n
  OBVIOUS
<1>2. \A q \in X : step[q] = Turn(q) /\ Turn(q) \in X
  BY TurnIs
<1>3. step \in [X -> X]
  BY <1>2
<1> HIDE DEF step
<1>4. PICK f : Repeated(f, step, p, n, X)
  BY <1>1, <1>3, Repeats
<1>5. f \in [0..n -> X] /\ f[0] = p /\ \A i \in 1..n : f[i] = step[f[i - 1]]
  BY <1>4 DEF Repeated
<1>6. f = [i \in 0..n |-> f[i]]
  BY <1>5
<1>7. ASSUME NEW i \in 1..n
      PROVE  f[i - 1] \in X /\ f[i] = Turn(f[i - 1])
  <2>1. i - 1 \in 0..n
    OBVIOUS
  <2>2. f[i - 1] \in X
    BY <1>5, <2>1
  <2> QED
    BY <1>2, <1>5, <2>2
<1>8. ASSUME NEW i \in 0..n
      PROVE  f[i] = IF i = 0 THEN p ELSE Turn(f[i - 1])
  <2>1. i = 0 \/ i \in 1..n
    OBVIOUS
  <2> QED
    BY <1>5, <1>7, <2>1
<1>9. ScanRun(f, p)
  BY <1>6, <1>8 DEF ScanRun
<1> DEFINE r == CHOOSE g : ScanRun(g, p)
<1>10. StringEnd(p) = IF At(r[n], Quote) THEN r[n] + 1 ELSE 0
  BY DEF StringEnd, ScanRun, Turn
<1>11. PICK h : h = r
  OBVIOUS
<1>12. ScanRun(h, p)
  BY <1>9, <1>11, Zenon
<1>13. h[0] = p /\ \A i \in 1..n : h[i] = Turn(h[i - 1])
  <2>1. \A i \in 0..n : h[i] = IF i = 0 THEN p ELSE Turn(h[i - 1])
    BY <1>12 DEF ScanRun
  <2>2. \A i \in 1..n : i \in 0..n /\ i # 0
    OBVIOUS
  <2> QED
    BY <1>1, <2>1, <2>2
<1> HIDE DEF r
<1> DEFINE S == {i \in 0..n : /\ h[i] \in X /\ Scanned(p, h[i])
                              /\ h[i] >= p + i \/ Turn(h[i]) = h[i]}
<1>14. 0 \in S
  <2>1. Back(p, p) % 2 = 0
    BY <1>1, BackNone
  <2>2. \A x \in p..(p - 1) : FALSE
    OBVIOUS
  <2>3. Scanned(p, p)
    BY <1>1, <2>1, <2>2 DEF Scanned
  <2> QED
    BY <1>1, <1>13, <2>3
<1>15. ASSUME NEW i \in 1..n, i - 1 \in S PROVE i \in S
  <2>1. /\ h[i - 1] \in X /\ Scanned(p, h[i - 1]) /\ h[i] = Turn(h[i - 1])
        /\ h[i - 1] >= p + (i - 1) \/ Turn(h[i - 1]) = h[i - 1]
    BY <1>13, <1>15
  <2>2. h[i] \in X /\ (h[i] = h[i - 1] \/ h[i] >= h[i - 1] + 1)
    BY <2>1, TurnIs
  <2>3. Scanned(p, h[i])
    BY <1>1, <2>1, TurnKeeps
  <2>4. CASE Turn(h[i - 1]) = h[i - 1]
    BY <2>1, <2>2, <2>3, <2>4
  <2>5. CASE Turn(h[i - 1]) # h[i - 1]
    <3>1. h[i - 1] >= p + (i - 1) /\ h[i] >= h[i - 1] + 1 /\ h[i] \in Int /\ h[i - 1] \in Int
      BY <2>1, <2>2, <2>5
    <3>2. h[i] >= p + i
      BY <3>1
    <3> QED
      BY <2>2, <2>3, <3>2
  <2> QED
    BY <2>4, <2>5
<1> HIDE DEF S
<1>16. n \in S
  <2>1. \A i \in 0..n : i \in S
    BY <1>1, <1>14, <1>15, Walk
  <2> QED
    BY <1>1, <2>1
<1>17. h[n] \in X /\ Scanned(p, h[n]) /\ (h[n] >= p + n \/ Turn(h[n]) = h[n])
  BY <1>16 DEF S
<1>18. h[n] >= n \/ AtAny(h[n], {"\n", Quote})
  <2>1. CASE h[n] >= p + n
    BY <1>1, <1>17, <2>1
  <2>2. CASE Turn(h[n]) = h[n]
    <3>1. h[n] \in Int
      BY <1>17
    <3> QED
      BY <2>2, <3>1 DEF Turn
  <2> QED
    BY <1>17, <2>1, <2>2
<1>19. h[n] \in p..(n + 1)
  BY <1>17 DEF Scanned
<1>20. StringEnd(p) = IF At(h[n], Quote) THEN h[n] + 1 ELSE 0
  BY <1>10, <1>11
<1> QED
  BY <1>17, <1>18, <1>19, <1>20

-----------------------------------------------------------------------------
(* Lexemes, by their place in the file.                                     *)

(* The text from a to b is that from i to j of the one from p to q.         *)
IsCut(p, q, a, b, i, j) ==
    /\ src \in Seq(STRING) /\ p \in 0..Len(src) /\ q \in p..Len(src)
    /\ a \in p..q /\ b \in a..q /\ i = a - p + 1 /\ j = b - p

LEMMA SubText ==
  ASSUME NEW p, NEW q, NEW a, NEW b, NEW i, NEW j, IsCut(p, q, a, b, i, j)
  PROVE  SubSeq(Text(p, q), i, j) = Text(a, b)
<1>0. /\ src \in Seq(STRING) /\ p \in 0..Len(src) /\ q \in p..Len(src)
      /\ a \in p..q /\ b \in a..q /\ i = a - p + 1 /\ j = b - p
  BY DEF IsCut
<1> DEFINE t == Text(p, q)
           u == SubSeq(t, i, j)
           v == Text(a, b)
<1>1. /\ i \in Int /\ j \in Int /\ j - i + 1 = b - a /\ a \in 0..Len(src) /\ b \in a..Len(src)
      /\ b - a \in Nat
  BY <1>0
<1>2. /\ t \in Seq(STRING) /\ Len(t) = q - p
      /\ \A k \in 1..(q - p) : t[k] = src[p + k]
  BY <1>0, TextIs
<1>3. /\ v \in Seq(STRING) /\ Len(v) = b - a
      /\ \A k \in 1..(b - a) : v[k] = src[a + k]
  BY <1>0, <1>1, TextIs
<1> HIDE DEF t, v
<1>4. ASSUME NEW k \in i..j PROVE t[k] \in STRING /\ t[k] = src[p + k]
  <2>1. k \in 1..(q - p)
    BY <1>0
  <2>2. k \in 1..Len(t)
    BY <1>2, <2>1
  <2>3. t[k] \in STRING
    BY <1>2, <2>2, ElementOfSeq
  <2> QED
    BY <1>2, <2>1, <2>3
<1>5. /\ u \in Seq(STRING) /\ Len(u) = IF i <= j THEN j - i + 1 ELSE 0
      /\ \A k \in 1..(j - i + 1) : u[k] = t[i + k - 1]
  BY <1>1, <1>4, SubSeqProperties
<1> HIDE DEF u
<1>6. Len(u) = Len(v)
  BY <1>1, <1>3, <1>5
<1>7. ASSUME NEW k \in 1..Len(u) PROVE u[k] = v[k]
  <2>1. k \in 1..(b - a) /\ k \in 1..(j - i + 1) /\ i + k - 1 \in i..j /\ p + (i + k - 1) = a + k
    BY <1>0, <1>1, <1>3, <1>6
  <2>2. u[k] = t[i + k - 1] /\ v[k] = src[a + k]
    BY <1>3, <1>5, <2>1
  <2>3. t[i + k - 1] = src[p + (i + k - 1)]
    BY <1>4, <2>1
  <2> QED
    BY <2>1, <2>2, <2>3
<1>8. u = v
  BY <1>3, <1>5, <1>6, <1>7, SeqEqual
<1> QED
  BY <1>8 DEF u, v, t

(* Text(p, q) is a run of digits and underscores. *)
Digits(p, q) ==
    p < q /\ src[p + 1] \in Digit /\ \A x \in p..(q - 1) : src[x + 1] \in NumberChar

LEMMA DigitsAre ==
  ASSUME src \in Seq(STRING), NEW p \in 0..Len(src), NEW q \in p..Len(src)
  PROVE  IsDigits(Text(p, q)) <=> Digits(p, q)
<1> DEFINE t == Text(p, q)
<1>1. /\ t \in Seq(STRING) /\ DOMAIN t = 1..(q - p) /\ Len(t) = q - p
      /\ \A i \in 1..(q - p) : t[i] = src[p + i]
  BY TextIs
<1> HIDE DEF t
<1>2. p \in Int /\ q \in Int /\ p <= q
  OBVIOUS
<1>3. t # <<>> <=> p < q
  BY <1>1, <1>2
<1>4. p < q => t[1] = src[p + 1]
  BY <1>1, <1>2
<1>5. Range(t) \subseteq NumberChar <=> \A i \in 1..(q - p) : src[p + i] \in NumberChar
  BY <1>1 DEF Range
<1>6. (\A i \in 1..(q - p) : src[p + i] \in NumberChar)
      <=> \A x \in p..(q - 1) : src[x + 1] \in NumberChar
  <2>1. ASSUME NEW i \in 1..(q - p) PROVE p + i - 1 \in p..(q - 1) /\ p + i - 1 + 1 = p + i
    BY <1>2
  <2>2. ASSUME NEW x \in p..(q - 1) PROVE x + 1 - p \in 1..(q - p) /\ p + (x + 1 - p) = x + 1
    BY <1>2
  <2> QED
    BY <2>1, <2>2
<1> QED
  BY <1>3, <1>4, <1>5, <1>6 DEF IsDigits, Digits, t

LEMMA FloatIs ==
  ASSUME src \in Seq(STRING), NEW p \in 0..Len(src), NEW q \in p..Len(src)
  PROVE  IsLexeme("float", Text(p, q))
         <=> \E d \in p..(q - 1) : At(d, ".") /\ Digits(p, d) /\ Digits(d + 1, q)
<1> DEFINE t == Text(p, q)
<1>1. /\ t \in Seq(STRING) /\ DOMAIN t = 1..(q - p) /\ Len(t) = q - p
      /\ \A i \in 1..(q - p) : t[i] = src[p + i]
  BY TextIs
<1>2. p \in Int /\ q \in Int /\ p <= q /\ Len(src) \in Nat /\ q <= Len(src)
  OBVIOUS
<1>3. ASSUME NEW i \in 1..(q - p), NEW d, d = p + i - 1
      PROVE  /\ d \in p..(q - 1) /\ t[i] = src[d + 1]
             /\ IsDigits(SubSeq(t, 1, i - 1)) <=> Digits(p, d)
             /\ IsDigits(SubSeq(t, i + 1, Len(t))) <=> Digits(d + 1, q)
  <2>1. d \in p..(q - 1) /\ p + i = d + 1 /\ d \in p..Len(src)
    BY <1>2, <1>3
  <2>2. t[i] = src[d + 1]
    BY <1>1, <2>1
  <2>3. SubSeq(t, 1, i - 1) = Text(p, d)
    <3>1. PICK j : j = i - 1
      OBVIOUS
    <3>2. p \in p..q /\ d \in p..q /\ 1 = p - p + 1 /\ j = d - p
      BY <1>2, <1>3, <2>1, <3>1
    <3>3. SubSeq(Text(p, q), 1, j) = Text(p, d)
      <4>1. IsCut(p, q, p, d, 1, j)
        BY <3>2 DEF IsCut
      <4> QED
        BY <4>1, SubText
    <3> QED
      BY <3>1, <3>3
  <2>4. SubSeq(t, i + 1, Len(t)) = Text(d + 1, q)
    <3>1. PICK a : a = d + 1
      OBVIOUS
    <3>2. PICK k : k = i + 1
      OBVIOUS
    <3>3. PICK l : l = Len(t)
      OBVIOUS
    <3>4. a \in p..q /\ q \in a..q /\ k = a - p + 1 /\ l = q - p
      BY <1>1, <1>2, <1>3, <2>1, <3>1, <3>2, <3>3
    <3> HIDE DEF t
    <3>5. SubSeq(Text(p, q), k, l) = Text(a, q)
      <4>1. IsCut(p, q, a, q, k, l)
        BY <1>2, <3>4 DEF IsCut
      <4> QED
        BY <4>1, SubText
    <3> QED
      BY <3>1, <3>2, <3>3, <3>5 DEF t
  <2>5. d + 1 \in 0..Len(src) /\ q \in (d + 1)..Len(src)
    BY <1>2, <2>1
  <2>6. IsDigits(Text(p, d)) <=> Digits(p, d)
    BY <2>1, DigitsAre
  <2>7. IsDigits(Text(d + 1, q)) <=> Digits(d + 1, q)
    BY <2>5, DigitsAre
  <2> QED
    BY <2>1, <2>2, <2>3, <2>4, <2>6, <2>7
<1> HIDE DEF t
<1>4. IsLexeme("float", t) <=>
         /\ t # <<>>
         /\ \E i \in 2..(Len(t) - 1) : /\ t[i] = "." /\ IsDigits(SubSeq(t, 1, i - 1))
                                       /\ IsDigits(SubSeq(t, i + 1, Len(t)))
  BY DEF IsLexeme
<1>5. ASSUME IsLexeme("float", t)
      PROVE  \E d \in p..(q - 1) : At(d, ".") /\ Digits(p, d) /\ Digits(d + 1, q)
  <2>1. PICK i \in 2..(Len(t) - 1) : /\ t[i] = "." /\ IsDigits(SubSeq(t, 1, i - 1))
                                     /\ IsDigits(SubSeq(t, i + 1, Len(t)))
    BY <1>4, <1>5
  <2>2. i \in 1..(q - p)
    BY <1>1, <1>2
  <2>3. PICK d : d = p + i - 1
    OBVIOUS
  <2>4. d \in p..(q - 1) /\ src[d + 1] = "." /\ Digits(p, d) /\ Digits(d + 1, q)
    BY <1>3, <2>1, <2>2, <2>3
  <2>5. d < Len(src)
    BY <1>2, <2>4
  <2> QED
    BY <2>4, <2>5 DEF At
<1>6. ASSUME NEW d \in p..(q - 1), At(d, "."), Digits(p, d), Digits(d + 1, q)
      PROVE  IsLexeme("float", t)
  <2> DEFINE i == d - p + 1
  <2>1. i \in 1..(q - p) /\ d = p + i - 1
    BY <1>2
  <2>2. p < d /\ d + 1 < q /\ src[d + 1] = "."
    BY <1>6 DEF Digits, At
  <2>3. i \in 2..(Len(t) - 1) /\ t # <<>>
    BY <1>1, <1>2, <2>2
  <2> HIDE DEF i
  <2>4. t[i] = "." /\ IsDigits(SubSeq(t, 1, i - 1)) /\ IsDigits(SubSeq(t, i + 1, Len(t)))
    BY <1>3, <1>6, <2>1, <2>2
  <2> QED
    BY <1>4, <2>3, <2>4
<1> QED
  BY <1>5, <1>6 DEF t

(* Text(p, q) can stand between quotes. *)
Body(p, q) ==
    /\ Back(p, q) % 2 = 0
    /\ \A x \in p..(q - 1) : AtAny(x, {"\n", Quote}) => Back(p, x) % 2 = 1

LEMMA BodyIs ==
  ASSUME src \in Seq(STRING), NEW p \in 0..Len(src), NEW q \in p..Len(src)
  PROVE  IsStringBody(Text(p, q)) <=> Body(p, q)
<1> DEFINE t == Text(p, q)
<1>1. /\ DOMAIN t = 1..(q - p) /\ Len(t) = q - p
      /\ \A i \in 1..(q - p) : t[i] = src[p + i]
  BY TextIs
<1>2. p \in Int /\ q \in Int /\ p <= q /\ Len(src) \in Nat /\ q <= Len(src)
  OBVIOUS
<1>3. ASSUME NEW x \in p..(q - 1), NEW i, i = x - p + 1
      PROVE  /\ i \in DOMAIN t /\ t[i] = src[x + 1]
             /\ Backslashes(t, i) = Back(p, x)
             /\ AtAny(x, {"\n", Quote}) <=> t[i] \in {Quote, "\n"}
  <2>1. i \in 1..(q - p) /\ p + i = x + 1 /\ x \in p..Len(src) /\ q \in x..Len(src) /\ x < Len(src)
    BY <1>2, <1>3
  <2>2. t[i] = src[x + 1]
    BY <1>1, <2>1
  <2>3. Backslashes(t, x - p + 1) = Back(p, x)
    BY <2>1, BackIs
  <2> HIDE DEF t
  <2> QED
    BY <1>1, <1>3, <2>1, <2>2, <2>3 DEF AtAny
<1>4. ASSUME NEW i \in DOMAIN t PROVE \E x \in p..(q - 1) : i = x - p + 1
  <2>1. i \in 1..(q - p)
    BY <1>1
  <2>2. PICK x : x = p + i - 1
    OBVIOUS
  <2>3. x \in p..(q - 1) /\ i = x - p + 1
    BY <1>2, <2>1, <2>2
  <2> QED
    BY <2>3
<1>5. Backslashes(t, Len(t) + 1) = Back(p, q)
  BY <1>1 DEF Back
<1> HIDE DEF t
<1>6. ASSUME IsStringBody(t) PROVE Body(p, q)
  <2>1. \A i \in DOMAIN t : t[i] \in {Quote, "\n"} => Backslashes(t, i) % 2 = 1
    BY <1>6 DEF IsStringBody
  <2>2. Back(p, q) % 2 = 0
    BY <1>5, <1>6 DEF IsStringBody
  <2>3. ASSUME NEW x \in p..(q - 1), AtAny(x, {"\n", Quote}) PROVE Back(p, x) % 2 = 1
    <3>1. PICK i : i = x - p + 1
      OBVIOUS
    <3> QED
      BY <1>3, <2>1, <2>3, <3>1
  <2> QED
    BY <2>2, <2>3 DEF Body
<1>7. ASSUME Body(p, q) PROVE IsStringBody(t)
  <2>1. ASSUME NEW i \in DOMAIN t, t[i] \in {Quote, "\n"} PROVE Backslashes(t, i) % 2 = 1
    <3>1. PICK x \in p..(q - 1) : i = x - p + 1
      BY <1>4
    <3> QED
      BY <1>3, <1>7, <2>1, <3>1 DEF Body
  <2> QED
    BY <1>5, <1>7, <2>1 DEF Body, IsStringBody
<1> QED
  BY <1>6, <1>7 DEF t

LEMMA StrIs ==
  ASSUME src \in Seq(STRING), NEW p \in 0..Len(src), NEW q \in p..Len(src)
  PROVE  IsLexeme("str", Text(p, q))
         <=> q >= p + 2 /\ src[p + 1] = Quote /\ src[q] = Quote /\ Body(p + 1, q - 1)
<1> DEFINE t == Text(p, q)
<1>1. /\ t \in Seq(STRING) /\ DOMAIN t = 1..(q - p) /\ Len(t) = q - p
      /\ \A i \in 1..(q - p) : t[i] = src[p + i]
  BY TextIs
<1>2. p \in Int /\ q \in Int /\ p <= q /\ Len(src) \in Nat /\ q <= Len(src)
  OBVIOUS
<1>3. ASSUME q >= p + 2
      PROVE  /\ t[1] = src[p + 1] /\ t[Len(t)] = src[q] /\ t # <<>> /\ Len(t) >= 2
             /\ IsStringBody(SubSeq(t, 2, Len(t) - 1)) <=> Body(p + 1, q - 1)
  <2>1. 1 \in 1..(q - p) /\ q - p \in 1..(q - p) /\ p + (q - p) = q
    BY <1>2, <1>3
  <2>2. PICK a : a = p + 1
    OBVIOUS
  <2>3. PICK b : b = q - 1
    OBVIOUS
  <2>4. PICK j : j = Len(t) - 1
    OBVIOUS
  <2>5. IsCut(p, q, a, b, 2, j)
    BY <1>1, <1>2, <1>3, <2>2, <2>3, <2>4 DEF IsCut
  <2>6. SubSeq(Text(p, q), 2, j) = Text(a, b)
    BY <2>5, SubText
  <2>7. IsStringBody(Text(a, b)) <=> Body(a, b)
    <3>1. a \in 0..Len(src) /\ b \in a..Len(src)
      BY <1>2, <1>3, <2>2, <2>3
    <3> QED
      BY <3>1, BodyIs
  <2>8. t[1] = src[p + 1] /\ t[Len(t)] = src[q] /\ t # <<>> /\ Len(t) >= 2
    BY <1>1, <1>2, <1>3, <2>1
  <2> QED
    BY <2>2, <2>3, <2>4, <2>6, <2>7, <2>8
<1> HIDE DEF t
<1>4. IsLexeme("str", t) <=>
         /\ t # <<>> /\ Len(t) >= 2 /\ t[1] = Quote /\ t[Len(t)] = Quote
         /\ IsStringBody(SubSeq(t, 2, Len(t) - 1))
  BY DEF IsLexeme
<1>5. Len(t) >= 2 <=> q >= p + 2
  BY <1>1, <1>2
<1> QED
  BY <1>3, <1>4, <1>5 DEF t

(* Words. *)
Letters(p, q) ==
    p < q /\ WordStart(src[p + 1]) /\ \A x \in p..(q - 1) : WordChar(src[x + 1])

LEMMA WordIs ==
  ASSUME src \in Seq(STRING), NEW p \in 0..Len(src), NEW q \in p..Len(src), p < q
  PROVE  IsWord(Text(p, q)) <=> Letters(p, q)
<1> DEFINE t == Text(p, q)
<1>1. /\ DOMAIN t = 1..(q - p)
      /\ \A i \in 1..(q - p) : t[i] = src[p + i]
  BY TextIs
<1> HIDE DEF t
<1>2. p \in Int /\ q \in Int /\ p < q
  OBVIOUS
<1>3. t[1] = src[p + 1]
  BY <1>1, <1>2
<1>4. (\A i \in DOMAIN t : WordChar(t[i])) <=> \A x \in p..(q - 1) : WordChar(src[x + 1])
  <2>1. ASSUME \A i \in DOMAIN t : WordChar(t[i]), NEW x \in p..(q - 1)
        PROVE  WordChar(src[x + 1])
    <3>1. PICK i : i = x + 1 - p
      OBVIOUS
    <3>2. i \in 1..(q - p) /\ p + i = x + 1
      BY <1>2, <3>1
    <3>3. t[i] = src[x + 1] /\ WordChar(t[i])
      BY <1>1, <2>1, <3>2
    <3> QED
      BY <3>3
  <2>2. ASSUME \A x \in p..(q - 1) : WordChar(src[x + 1]), NEW i \in DOMAIN t
        PROVE  WordChar(t[i])
    <3>1. PICK x : x = p + i - 1
      OBVIOUS
    <3>2. x \in p..(q - 1) /\ p + i = x + 1 /\ i \in 1..(q - p)
      BY <1>1, <1>2, <3>1
    <3>3. t[i] = src[x + 1] /\ WordChar(src[x + 1])
      BY <1>1, <2>2, <3>2
    <3> QED
      BY <3>3
  <2> QED
    BY <2>1, <2>2
<1> QED
  BY <1>2, <1>3, <1>4 DEF IsWord, Letters, t

(* Operators. *)
LEMMA SpellingsAre ==
  ASSUME NEW t
  PROVE  t \in Spellings <=> \/ \E c \in OperatorChar : t = <<c>>
                             \/ t \in Pairs
                             \/ \E c \in Shifts : t = <<c, c, "=">>
<1> DEFINE One == {"?", ":", ",", ".", ";", "@", "*", "&", "+", "-", "/", "%", "^", "~", "<",
                   ">", "=", "!", "|", "(", ")", "{", "}", "[", "]"}
           Two == {<<"|", ">">>, <<"-", ">">>, <<"=", ">">>, <<":", ":">>, <<".", ".">>,
                   <<"+", "+">>, <<"<", "<">>, <<">", ">">>, <<"=", "=">>, <<"!", "=">>,
                   <<"<", "=">>, <<">", "=">>, <<"+", "=">>, <<"-", "=">>, <<"*", "=">>,
                   <<"/", "=">>, <<"%", "=">>, <<"&", "=">>, <<"|", "=">>, <<"^", "=">>,
                   <<"&", "&">>, <<"|", "|">>}
<1>1. One = OperatorChar
  <2> DEFINE First == {"+", "-", "*", "/", "%", "=", "!", "<", ">", "&", "^", "|", ":", "."}
  <2>1. \A pair \in Pairs : pair[1] \in First
    BY DEF Pairs
  <2>2. ASSUME NEW c \in First PROVE \E d : <<c, d>> \in Pairs
    <3>1. \E d \in {"=", ":", "."} : <<c, d>> \in Pairs
      BY DEF Pairs
    <3> QED
      BY <3>1
  <2>3. \A c \in First : \E pair \in Pairs : pair[1] = c
    <3> HIDE DEF First
    <3> QED
      BY <2>2
  <2>4. {pair[1] : pair \in Pairs} = First
    <3> HIDE DEF First
    <3> QED
      BY <2>1, <2>3
  <2>5. One = Alone \cup First
    BY DEF Alone
  <2> QED
    BY <2>4, <2>5 DEF OperatorChar
<1>2. Two = Pairs
  BY DEF Pairs
<1>3. Spellings = {<<c>> : c \in One} \cup Two \cup {<<"<", "<", "=">>, <<">", ">", "=">>}
  BY Zenon DEF Spellings
<1> HIDE DEF One, Two
<1>4. t \in {<<"<", "<", "=">>, <<">", ">", "=">>} <=> \E c \in Shifts : t = <<c, c, "=">>
  BY DEF Shifts
<1> QED
  BY <1>1, <1>2, <1>3, <1>4

LEMMA PairsAre ==
  ASSUME NEW t \in Pairs
  PROVE  \E c \in OperatorChar : \E d : t = <<c, d>>
  BY DEF Pairs, OperatorChar

OpAt(p, q) ==
    \/ q = p + 1 /\ src[p + 1] \in OperatorChar
    \/ q = p + 2 /\ <<src[p + 1], src[p + 2]>> \in Pairs
    \/ /\ q = p + 3 /\ src[p + 1] \in Shifts
       /\ src[p + 2] = src[p + 1] /\ src[p + 3] = "="

LEMMA OpIs ==
  ASSUME src \in Seq(STRING), NEW p \in 0..Len(src), NEW q \in p..Len(src), p < q
  PROVE  IsLexeme("op", Text(p, q)) <=> OpAt(p, q)
<1> DEFINE t == Text(p, q)
<1>1. /\ t \in Seq(STRING) /\ DOMAIN t = 1..(q - p) /\ Len(t) = q - p
      /\ \A i \in 1..(q - p) : t[i] = src[p + i]
  BY TextIs
<1> HIDE DEF t
<1>2. p \in Int /\ q \in Int /\ p < q
  OBVIOUS
<1>3. IsLexeme("op", t) <=> t # <<>> /\ t \in Spellings
  BY DEF IsLexeme
<1>4. ASSUME t \in Spellings PROVE OpAt(p, q)
  <2>1. CASE \E c \in OperatorChar : t = <<c>>
    <3>1. PICK c \in OperatorChar : t = <<c>>
      BY <2>1
    <3>2. Len(t) = 1 /\ t[1] = c
      BY <3>1
    <3>3. q = p + 1 /\ t[1] = src[p + 1]
      <4>1. q - p = 1
        BY <1>1, <3>2
      <4>2. q = p + 1 /\ 1 \in 1..(q - p)
        BY <1>2, <4>1
      <4> QED
        BY <1>1, <4>2
    <3> QED
      BY <3>2, <3>3 DEF OpAt
  <2>2. CASE t \in Pairs
    <3>1. PICK c, d : t = <<c, d>>
      BY <2>2, PairsAre
    <3>2. Len(t) = 2 /\ t[1] = c /\ t[2] = d
      BY <3>1
    <3>3. q = p + 2 /\ t[1] = src[p + 1] /\ t[2] = src[p + 2]
      <4>1. q - p = 2
        BY <1>1, <3>2
      <4>2. q = p + 2 /\ 1 \in 1..(q - p) /\ 2 \in 1..(q - p)
        BY <1>2, <4>1
      <4> QED
        BY <1>1, <4>2
    <3> QED
      BY <2>2, <3>1, <3>2, <3>3 DEF OpAt
  <2>3. CASE \E c \in Shifts : t = <<c, c, "=">>
    <3>1. PICK c \in Shifts : t = <<c, c, "=">>
      BY <2>3
    <3>2. Len(t) = 3 /\ t[1] = c /\ t[2] = c /\ t[3] = "="
      BY <3>1
    <3>3. q = p + 3 /\ t[1] = src[p + 1] /\ t[2] = src[p + 2] /\ t[3] = src[p + 3]
      <4>1. q - p = 3
        BY <1>1, <3>2
      <4>2. q = p + 3 /\ 1 \in 1..(q - p) /\ 2 \in 1..(q - p) /\ 3 \in 1..(q - p)
        BY <1>2, <4>1
      <4> QED
        BY <1>1, <4>2
    <3> QED
      BY <3>2, <3>3 DEF OpAt
  <2> QED
    BY <1>4, <2>1, <2>2, <2>3, SpellingsAre
<1>5. ASSUME OpAt(p, q) PROVE t \in Spellings /\ t # <<>>
  <2>0. t # <<>>
    BY <1>1, <1>2
  <2>1. CASE q = p + 1 /\ src[p + 1] \in OperatorChar
    <3>1. Len(t) = 1 /\ t[1] = src[p + 1]
      BY <1>1, <1>2, <2>1
    <3>2. t = <<src[p + 1]>>
      <4>1. PICK u : u = <<src[p + 1]>>
        OBVIOUS
      <4>2. u \in Seq(STRING) /\ Len(u) = 1 /\ u[1] = t[1]
        <5>1. \A i \in 1..1 : t[i] \in STRING
          BY <1>1, <3>1, ElementOfSeq
        <5> QED
          BY <3>1, <4>1, <5>1
      <4>3. \A i \in 1..Len(u) : u[i] = t[i]
        BY <4>2
      <4> QED
        BY <1>1, <3>1, <4>1, <4>2, <4>3, SeqEqual
    <3> QED
      BY <2>0, <2>1, <3>2, SpellingsAre
  <2>2. CASE q = p + 2 /\ <<src[p + 1], src[p + 2]>> \in Pairs
    <3>1. Len(t) = 2 /\ t[1] = src[p + 1] /\ t[2] = src[p + 2]
      BY <1>1, <1>2, <2>2
    <3>2. t = <<src[p + 1], src[p + 2]>>
      <4>1. PICK u : u = <<src[p + 1], src[p + 2]>>
        OBVIOUS
      <4>2. u \in Seq(STRING) /\ Len(u) = 2 /\ u[1] = t[1] /\ u[2] = t[2]
        <5>1. \A i \in 1..2 : t[i] \in STRING
          BY <1>1, <3>1, ElementOfSeq
        <5> QED
          BY <3>1, <4>1, <5>1
      <4>3. \A i \in 1..Len(u) : u[i] = t[i]
        BY <4>2
      <4> QED
        BY <1>1, <3>1, <4>1, <4>2, <4>3, SeqEqual
    <3> QED
      BY <2>0, <2>2, <3>2, SpellingsAre
  <2>3. CASE /\ q = p + 3 /\ src[p + 1] \in Shifts
             /\ src[p + 2] = src[p + 1] /\ src[p + 3] = "="
    <3>1. Len(t) = 3 /\ t[1] = src[p + 1] /\ t[2] = src[p + 2] /\ t[3] = src[p + 3]
      BY <1>1, <1>2, <2>3
    <3>2. t = <<src[p + 1], src[p + 2], src[p + 3]>>
      <4>1. PICK u : u = <<src[p + 1], src[p + 2], src[p + 3]>>
        OBVIOUS
      <4>2. u \in Seq(STRING) /\ Len(u) = 3 /\ u[1] = t[1] /\ u[2] = t[2] /\ u[3] = t[3]
        <5>1. \A i \in 1..3 : t[i] \in STRING
          BY <1>1, <3>1, ElementOfSeq
        <5> QED
          BY <3>1, <4>1, <5>1
      <4>3. \A i \in 1..Len(u) : u[i] = t[i]
        BY <4>2
      <4> QED
        BY <1>1, <3>1, <4>1, <4>2, <4>3, SeqEqual
    <3> QED
      BY <2>0, <2>3, <3>2, SpellingsAre
  <2> QED
    BY <1>5, <2>1, <2>2, <2>3 DEF OpAt
<1> QED
  BY <1>3, <1>4, <1>5 DEF t

-----------------------------------------------------------------------------
(* What a lexeme starts with tells its class.                               *)

LEMMA Classes ==
  ASSUME NEW c
  PROVE  /\ c \in Digit => /\ c \notin OperatorChar /\ c \notin Unknown /\ c # "\n" /\ c # Quote
                           /\ ~WordStart(c) /\ c \in NumberChar
         /\ c \in OperatorChar => c \notin Unknown /\ c # "\n" /\ c # Quote /\ ~WordChar(c)
         /\ c \in Unknown => c # "\n" /\ c # Quote /\ ~WordChar(c)
         /\ c = "\n" => c # Quote /\ ~WordChar(c)
         /\ c = Quote => ~WordChar(c)
         /\ WordStart(c) => WordChar(c)
         /\ c = "." => c \notin NumberChar
         /\ c = "!" => c \in OperatorChar
<1> DEFINE Ops == {"(", ")", "{", "}", "[", "]", ",", ";", "@", "?", "~", "+", "-", "*", "/", "%",
                   "=", "!", "<", ">", "&", "^", "|", ":", "."}
<1>1. ASSUME NEW d \in OperatorChar PROVE d \in Ops
  <2>1. CASE d \in Alone
    BY <2>1 DEF Alone
  <2>2. CASE \E pair \in Pairs : d = pair[1]
    <3> DEFINE First == {"+", "-", "*", "/", "%", "=", "!", "<", ">", "&", "^", "|", ":", "."}
    <3>1. \A pair \in Pairs : pair[1] \in First
      BY DEF Pairs
    <3>2. d \in First
      <4> HIDE DEF First
      <4> QED
        BY <2>2, <3>1
    <3> QED
      BY <3>2
  <2> QED
    BY <2>1, <2>2 DEF OperatorChar
<1>2. "!" \in OperatorChar
  <2>1. PICK pair : pair = <<"!", "=">>
    OBVIOUS
  <2>2. pair \in Pairs /\ pair[1] = "!"
    BY <2>1 DEF Pairs
  <2> QED
    BY <2>2 DEF OperatorChar
<1>3. Quote \notin Ops
  BY Zenon DEF Quote
<1>4. Quote \notin Digit
  BY Zenon DEF Quote, Digit
<1>5. Quote \notin Unknown
  BY Zenon DEF Quote, Unknown
<1>6. Quote # "\n"
  BY Zenon DEF Quote
<1>7. \A d \in Ops : d \notin Digit /\ d \notin Unknown /\ d # "\n"
  BY DEF Digit, Unknown
<1>8. \A d \in Digit : d \notin Unknown /\ d # "\n"
  BY DEF Digit, Unknown
<1>9. \A d \in Unknown : d # "\n"
  BY DEF Unknown
<1>10. "." \notin NumberChar
  BY DEF NumberChar, Digit
<1> HIDE DEF Ops
<1> QED
  BY <1>1, <1>2, <1>3, <1>4, <1>5, <1>6, <1>7, <1>8, <1>9, <1>10
     DEF WordStart, WordChar, NotAWord, NumberChar

Word(k) == k \in {"ident", "keyword", "asm"}

LEMMA AsmIs ==
  ASSUME src \in Seq(STRING), NEW p \in 0..Len(src), NEW q \in p..Len(src), p < q,
         IsLexeme("asm", Text(p, q))
  PROVE  /\ q - 1 \in (p + 1)..Len(src) /\ Letters(p, q - 1) /\ src[q] = "!"
         /\ Text(p, q - 1) = MacroWord
<1> DEFINE t == Text(p, q)
<1>1. /\ t \in Seq(STRING) /\ DOMAIN t = 1..(q - p) /\ Len(t) = q - p
      /\ \A i \in 1..(q - p) : t[i] = src[p + i]
  BY TextIs
<1>2. p \in Int /\ q \in Int /\ p < q /\ Len(src) \in Nat /\ q <= Len(src)
  OBVIOUS
<1>3. t = Append(MacroWord, "!")
  BY DEF IsLexeme
<1> HIDE DEF t
<1>4. /\ MacroWord \in Seq(STRING) /\ MacroWord # <<>> /\ WordStart(MacroWord[1])
      /\ \A i \in DOMAIN MacroWord : WordChar(MacroWord[i])
  BY WordsAssumption
<1> DEFINE m == Len(MacroWord)
<1>5. m \in Nat /\ m # 0 /\ DOMAIN MacroWord = 1..m
  BY <1>4
<1>6. Len(t) = m + 1 /\ t[m + 1] = "!" /\ \A i \in 1..m : t[i] = MacroWord[i]
  BY <1>3, <1>4
<1>7. m = q - p - 1
  BY <1>1, <1>2, <1>5, <1>6
<1> HIDE DEF m
<1>8. PICK e : e = q - 1
  OBVIOUS
<1>9. e \in (p + 1)..Len(src) /\ e \in p..Len(src) /\ m = e - p /\ p + (m + 1) = q
  BY <1>2, <1>5, <1>7, <1>8
<1>10. src[q] = "!"
  <2>1. m + 1 \in 1..(q - p)
    BY <1>1, <1>2, <1>5, <1>6
  <2>2. t[m + 1] = src[p + (m + 1)]
    BY <1>1, <2>1
  <2> QED
    BY <1>6, <1>9, <2>2
<1>11. ASSUME NEW i \in 1..m PROVE Text(p, e)[i] = MacroWord[i] /\ src[p + i] = MacroWord[i]
  <2>1. i \in 1..(e - p) /\ i \in 1..(q - p)
    BY <1>1, <1>2, <1>5, <1>6, <1>9
  <2>2. Text(p, e)[i] = src[p + i]
    BY <1>9, <2>1, TextIs
  <2> QED
    BY <1>1, <1>6, <2>1, <2>2
<1>12. Text(p, e) = MacroWord
  <2>1. Text(p, e) \in Seq(STRING) /\ Len(Text(p, e)) = m
    BY <1>9, TextIs
  <2>2. \A i \in 1..Len(Text(p, e)) : Text(p, e)[i] = MacroWord[i]
    BY <1>11, <2>1
  <2> QED
    BY <1>4, <2>1, <2>2, SeqEqual DEF m
<1>13. IsWord(Text(p, e))
  BY <1>4, <1>12 DEF IsWord
<1>14. Letters(p, e)
  BY <1>2, <1>9, <1>13, WordIs
<1> QED
  BY <1>8, <1>9, <1>10, <1>12, <1>14

LEMMA StartIs ==
  ASSUME src \in Seq(STRING), NEW p \in 0..Len(src), NEW q \in p..Len(src), p < q,
         NEW k \in Kinds, IsLexeme(k, Text(p, q))
  PROVE  \/ k = "newline" /\ src[p + 1] = "\n" /\ q = p + 1
         \/ k \in {"int", "float"} /\ src[p + 1] \in Digit
         \/ k = "str" /\ src[p + 1] = Quote
         \/ Word(k) /\ WordStart(src[p + 1])
         \/ k = "op" /\ src[p + 1] \in OperatorChar
<1> DEFINE t == Text(p, q)
<1>1. /\ t \in Seq(STRING) /\ DOMAIN t = 1..(q - p) /\ Len(t) = q - p
      /\ \A i \in 1..(q - p) : t[i] = src[p + i]
  BY TextIs
<1>2. p \in Int /\ q \in Int /\ p < q /\ Len(src) \in Nat /\ q <= Len(src)
  OBVIOUS
<1>3. CASE k = "newline"
  <2>1. t = <<"\n">>
    BY <1>3 DEF IsLexeme
  <2> HIDE DEF t
  <2>2. q - p = 1 /\ t[1] = "\n"
    BY <1>1, <2>1
  <2>3. q = p + 1 /\ 1 \in 1..(q - p)
    BY <1>2, <2>2
  <2> QED
    BY <1>1, <1>3, <2>2, <2>3
<1>4. CASE k = "int"
  <2>1. IsDigits(t)
    BY <1>4 DEF IsLexeme
  <2> QED
    BY <1>4, <2>1, DigitsAre DEF Digits
<1>5. CASE k = "float"
  <2>1. PICK d \in p..(q - 1) : Digits(p, d)
    BY <1>5, FloatIs
  <2> QED
    BY <1>5, <2>1 DEF Digits
<1>6. CASE k = "str"
  BY <1>6, StrIs
<1>7. CASE k = "ident"
  <2>1. IsWord(t)
    BY <1>7 DEF IsLexeme
  <2> QED
    BY <1>7, <2>1, WordIs DEF Letters, Word
<1>8. CASE k = "keyword"
  <2>1. t \in Keywords
    BY <1>8 DEF IsLexeme
  <2>2. IsWord(t)
    <3> HIDE DEF t
    <3> QED
      BY <2>1, WordsAssumption DEF IsWord
  <2> QED
    BY <1>8, <2>2, WordIs DEF Letters, Word
<1>9. CASE k = "asm"
  <2>1. PICK e : e = q - 1
    OBVIOUS
  <2>2. Letters(p, e)
    BY <1>9, <2>1, AsmIs
  <2> QED
    BY <1>9, <2>2 DEF Letters, Word
<1>10. CASE k = "op"
  <2>1. OpAt(p, q)
    BY <1>10, OpIs
  <2>2. src[p + 1] \in OperatorChar
    <3>1. Shifts \subseteq OperatorChar
      <4>1. <<"<", "<">> \in Pairs /\ <<">", ">">> \in Pairs
        BY DEF Pairs
      <4>2. \A c, d : <<c, d>> \in Pairs => c \in OperatorChar
        BY DEF OperatorChar
      <4> QED
        BY <4>1, <4>2 DEF Shifts
    <3>2. \A c, d : <<c, d>> \in Pairs => c \in OperatorChar
      BY DEF OperatorChar
    <3> QED
      BY <2>1, <3>1, <3>2 DEF OpAt
  <2> QED
    BY <1>10, <2>2
<1> QED
  BY <1>3, <1>4, <1>5, <1>6, <1>7, <1>8, <1>9, <1>10 DEF Kinds

-----------------------------------------------------------------------------
(* What next_token finds is the longest.                                    *)

Right(k, p, q) ==
    IsLexeme(k, Text(p, q)) /\ \A r \in (q + 1)..Len(src) : ~LexemeAt(p, r)

None(p) == \A r \in (p + 1)..Len(src) : ~LexemeAt(p, r)

(* It is enough to look at the classes that start like that.                *)
LEMMA LongerStarts ==
  ASSUME src \in Seq(STRING), NEW p \in 0..Len(src), NEW r \in (p + 1)..Len(src), LexemeAt(p, r)
  PROVE  \E k \in Kinds :
            /\ IsLexeme(k, Text(p, r))
            /\ \/ k = "newline" /\ src[p + 1] = "\n" /\ r = p + 1
               \/ k \in {"int", "float"} /\ src[p + 1] \in Digit
               \/ k = "str" /\ src[p + 1] = Quote
               \/ Word(k) /\ WordStart(src[p + 1])
               \/ k = "op" /\ src[p + 1] \in OperatorChar
<1>1. PICK k \in Kinds : IsLexeme(k, Text(p, r))
  BY DEF LexemeAt
<1>2. r \in p..Len(src) /\ p < r
  OBVIOUS
<1> QED
  BY <1>1, <1>2, StartIs

LEMMA NewlineRight ==
  ASSUME src \in Seq(STRING), NEW p \in 0..Len(src), At(p, "\n")
  PROVE  \E q \in (p + 1)..Len(src) : q = p + 1 /\ Right("newline", p, q)
<1>1. PICK q : q = p + 1
  OBVIOUS
<1>2. p < Len(src) /\ src[p + 1] = "\n" /\ Len(src) \in Nat
  BY DEF At
<1>3. q \in (p + 1)..Len(src) /\ q \in p..Len(src) /\ q - p = 1 /\ 1 \in 1..(q - p) /\ p + 1 = q
  BY <1>1, <1>2
<1>4. Text(p, q) = <<"\n">>
  <2> DEFINE t == Text(p, q)
  <2>1. t \in Seq(STRING) /\ Len(t) = 1 /\ t[1] = "\n"
    <3>1. /\ Text(p, q) \in Seq(STRING) /\ Len(Text(p, q)) = q - p
          /\ \A i \in 1..(q - p) : Text(p, q)[i] = src[p + i]
      BY <1>3, TextIs
    <3> QED
      BY <1>2, <1>3, <3>1
  <2> HIDE DEF t
  <2>2. PICK u : u = <<"\n">>
    OBVIOUS
  <2>3. u \in Seq(STRING) /\ Len(u) = 1 /\ u[1] = t[1]
    <3>1. t[1] \in STRING
      BY <2>1, ElementOfSeq
    <3> QED
      BY <2>1, <2>2, <3>1
  <2>4. u = t
    BY <2>1, <2>3, SeqEqual
  <2> QED
    BY <2>2, <2>4 DEF t
<1>5. IsLexeme("newline", Text(p, q))
  <2>1. Text(p, q) # <<>>
    BY <1>4
  <2> QED
    BY <1>4, <2>1 DEF IsLexeme
<1>6. ASSUME NEW r \in (q + 1)..Len(src), LexemeAt(p, r) PROVE FALSE
  <2>1. r \in (p + 1)..Len(src) /\ r # p + 1
    BY <1>1, <1>2
  <2> QED
    BY <1>2, <1>6, <2>1, LongerStarts, Classes
<1> QED
  BY <1>1, <1>3, <1>5, <1>6 DEF Right

LEMMA UnknownWrong ==
  ASSUME src \in Seq(STRING), NEW p \in 0..Len(src), AtAny(p, Unknown)
  PROVE  None(p)
<1>1. src[p + 1] \in Unknown
  BY DEF AtAny
<1>2. ASSUME NEW r \in (p + 1)..Len(src), LexemeAt(p, r) PROVE FALSE
  <2>1. PICK k \in Kinds :
            \/ k = "newline" /\ src[p + 1] = "\n" /\ r = p + 1
            \/ k \in {"int", "float"} /\ src[p + 1] \in Digit
            \/ k = "str" /\ src[p + 1] = Quote
            \/ Word(k) /\ WordStart(src[p + 1])
            \/ k = "op" /\ src[p + 1] \in OperatorChar
    BY <1>2, LongerStarts
  <2> QED
    BY <1>1, <2>1, Classes
<1> QED
  BY <1>2 DEF None

LEMMA OperatorRight ==
  ASSUME src \in Seq(STRING), NEW p \in 0..Len(src), AtAny(p, OperatorChar)
  PROVE  OperatorEnd(p) \in (p + 1)..Len(src) /\ Right("op", p, OperatorEnd(p))
<1> DEFINE c == src[p + 1]
<1>1. p < Len(src) /\ c \in OperatorChar /\ p \in Nat /\ Len(src) \in Nat
  BY DEF AtAny
<1>2. PICK q : q = OperatorEnd(p)
  OBVIOUS
<1>3. /\ q \in (p + 1)..Len(src)
      /\ OpAt(p, q)
      /\ \A r \in (q + 1)..Len(src) : ~OpAt(p, r)
  <2>1. \A r \in (p + 1)..Len(src) : OpAt(p, r) =>
           \/ r = p + 1
           \/ r = p + 2 /\ <<c, src[p + 2]>> \in Pairs
           \/ r = p + 3 /\ c \in Shifts /\ src[p + 2] = c /\ src[p + 3] = "="
    BY DEF OpAt
  <2>2. \A d \in Shifts : <<d, d>> \in Pairs
    BY DEF Shifts, Pairs
  <2> DEFINE Two == p + 1 < Len(src) /\ <<c, src[p + 2]>> \in Pairs
             Three == c \in Shifts /\ At(p + 1, c) /\ At(p + 2, "=")
  <2>3. Three => p + 2 < Len(src) /\ src[p + 2] = c /\ src[p + 3] = "="
    <3>1. p + 1 + 1 = p + 2 /\ p + 2 + 1 = p + 3
      BY <1>1
    <3> QED
      BY <3>1 DEF At
  <2>4. p + 2 < Len(src) /\ c \in Shifts /\ src[p + 2] = c /\ src[p + 3] = "=" => Two /\ Three
    <3>1. p + 1 + 1 = p + 2 /\ p + 2 + 1 = p + 3 /\ (p + 2 < Len(src) => p + 1 < Len(src))
      BY <1>1
    <3> QED
      BY <2>2, <3>1 DEF At
  <2>5. q = IF ~Two THEN p + 1 ELSE IF Three THEN p + 3 ELSE p + 2
    BY <1>1, <1>2 DEF OperatorEnd
  <2> HIDE DEF c
  <2>6. CASE ~Two
    <3>1. q = p + 1
      BY <2>5, <2>6
    <3>2. OpAt(p, q)
      BY <1>1, <3>1 DEF OpAt, c
    <3>3. ASSUME NEW r \in (q + 1)..Len(src), OpAt(p, r) PROVE FALSE
      <4>1. r \in (p + 1)..Len(src) /\ r # p + 1
        BY <1>1, <3>1
      <4>2. \/ r = p + 2 /\ <<c, src[p + 2]>> \in Pairs
            \/ r = p + 3 /\ c \in Shifts /\ src[p + 2] = c /\ src[p + 3] = "="
        BY <2>1, <3>3, <4>1
      <4>3. (r = p + 2 => p + 1 < Len(src)) /\ (r = p + 3 => p + 2 < Len(src))
        BY <1>1, <4>1
      <4> QED
        BY <2>4, <2>6, <4>2, <4>3
    <3> QED
      BY <1>1, <3>1, <3>2, <3>3
  <2>7. CASE Two /\ Three
    <3>1. q = p + 3 /\ p + 2 < Len(src)
      BY <2>3, <2>5, <2>7
    <3>2. OpAt(p, q)
      BY <2>3, <2>7, <3>1 DEF OpAt, c
    <3>3. ASSUME NEW r \in (q + 1)..Len(src), OpAt(p, r) PROVE FALSE
      <4>1. r \in (p + 1)..Len(src) /\ r # p + 1 /\ r # p + 2 /\ r # p + 3
        BY <1>1, <3>1
      <4> QED
        BY <2>1, <3>3, <4>1
    <3> QED
      BY <1>1, <3>1, <3>2, <3>3
  <2>8. CASE Two /\ ~Three
    <3>1. q = p + 2 /\ p + 1 < Len(src)
      BY <2>5, <2>8
    <3>2. OpAt(p, q)
      BY <2>8, <3>1 DEF OpAt, c
    <3>3. ASSUME NEW r \in (q + 1)..Len(src), OpAt(p, r) PROVE FALSE
      <4>1. r \in (p + 1)..Len(src) /\ r # p + 1 /\ r # p + 2 /\ (r = p + 3 => p + 2 < Len(src))
        BY <1>1, <3>1
      <4>2. r = p + 3 /\ c \in Shifts /\ src[p + 2] = c /\ src[p + 3] = "="
        BY <2>1, <3>3, <4>1
      <4> QED
        BY <2>4, <2>8, <4>1, <4>2
    <3> QED
      BY <1>1, <3>1, <3>2, <3>3
  <2> QED
    BY <2>6, <2>7, <2>8
<1>4. IsLexeme("op", Text(p, q))
  <2>1. q \in p..Len(src) /\ p < q
    BY <1>1, <1>3
  <2> QED
    BY <1>3, <2>1, OpIs
<1>5. ASSUME NEW r \in (q + 1)..Len(src), LexemeAt(p, r) PROVE FALSE
  <2>1. r \in (p + 1)..Len(src) /\ r \in p..Len(src) /\ p < r
    BY <1>1, <1>3
  <2>2. PICK k \in Kinds :
            /\ IsLexeme(k, Text(p, r))
            /\ \/ k = "newline" /\ src[p + 1] = "\n" /\ r = p + 1
               \/ k \in {"int", "float"} /\ src[p + 1] \in Digit
               \/ k = "str" /\ src[p + 1] = Quote
               \/ Word(k) /\ WordStart(src[p + 1])
               \/ k = "op" /\ src[p + 1] \in OperatorChar
    BY <1>5, <2>1, LongerStarts
  <2>3. k = "op"
    BY <1>1, <2>2, Classes
  <2>4. OpAt(p, r)
    BY <2>1, <2>2, <2>3, OpIs
  <2> QED
    BY <1>3, <2>4
<1> QED
  BY <1>2, <1>3, <1>4, <1>5 DEF Right

LEMMA StringRight ==
  ASSUME src \in Seq(STRING), NEW s \in 0..Len(src), At(s, Quote), NEW e, e = StringEnd(s + 1)
  PROVE  /\ e # 0 => e \in (s + 1)..Len(src) /\ Right("str", s, e)
         /\ e = 0 => None(s)
<1>1. s < Len(src) /\ src[s + 1] = Quote /\ s \in Nat /\ Len(src) \in Nat
  BY DEF At
<1>2. PICK p : p = s + 1
  OBVIOUS
<1>3. p \in 1..Len(src) /\ p \in 0..Len(src) /\ p \in Int
  BY <1>1, <1>2
<1>4. PICK stop \in p..(Len(src) + 1) :
            /\ e = IF At(stop, Quote) THEN stop + 1 ELSE 0
            /\ Scanned(p, stop)
            /\ stop >= Len(src) \/ AtAny(stop, {"\n", Quote})
  BY <1>2, <1>3, ScanIs
(* A longer lexeme is a string, and has a place where it would end. *)
<1>5. ASSUME NEW r \in (s + 1)..Len(src), LexemeAt(s, r)
      PROVE  \E x \in p..(Len(src) - 1) :
                r = x + 1 /\ src[x + 1] = Quote /\ Body(p, x)
  <2>1. r \in s..Len(src)
    BY <1>1
  <2>2. PICK k \in Kinds :
            /\ IsLexeme(k, Text(s, r))
            /\ \/ k = "newline" /\ src[s + 1] = "\n" /\ r = s + 1
               \/ k \in {"int", "float"} /\ src[s + 1] \in Digit
               \/ k = "str" /\ src[s + 1] = Quote
               \/ Word(k) /\ WordStart(src[s + 1])
               \/ k = "op" /\ src[s + 1] \in OperatorChar
    BY <1>5, LongerStarts
  <2>3. k = "str"
    BY <1>1, <2>2, Classes
  <2>4. r >= s + 2 /\ src[r] = Quote /\ Body(s + 1, r - 1)
    BY <2>1, <2>2, <2>3, StrIs
  <2>5. PICK x : x = r - 1
    OBVIOUS
  <2>6. x \in p..(Len(src) - 1) /\ r = x + 1
    BY <1>1, <1>2, <2>1, <2>4, <2>5
  <2> QED
    BY <1>2, <2>4, <2>5, <2>6
<1>6. CASE At(stop, Quote)
  <2>1. stop < Len(src) /\ src[stop + 1] = Quote /\ e = stop + 1 /\ stop \in Nat
    BY <1>3, <1>4, <1>6 DEF At
  <2>2. e \in (s + 1)..Len(src) /\ e \in s..Len(src) /\ e # 0 /\ e >= s + 2 /\ e - 1 = stop
    BY <1>1, <1>2, <1>4, <2>1
  <2>3. Body(p, stop)
    <3>1. stop <= Len(src)
      BY <1>1, <2>1
    <3> QED
      BY <1>4, <3>1 DEF Scanned, Body
  <2>4. IsLexeme("str", Text(s, e))
    <3>1. src[e] = Quote /\ Body(s + 1, e - 1)
      BY <1>2, <2>1, <2>2, <2>3
    <3> QED
      BY <1>1, <2>2, <3>1, StrIs
  <2>5. ASSUME NEW r \in (e + 1)..Len(src), LexemeAt(s, r) PROVE FALSE
    <3>1. r \in (s + 1)..Len(src) /\ r > stop + 1
      BY <1>1, <2>1, <2>2
    <3>2. PICK x \in p..(Len(src) - 1) : r = x + 1 /\ src[x + 1] = Quote /\ Body(p, x)
      BY <1>5, <2>5, <3>1
    <3>3. stop \in p..(x - 1)
      BY <1>3, <1>4, <2>1, <3>1, <3>2
    <3>4. AtAny(stop, {"\n", Quote})
      BY <2>1 DEF AtAny
    <3>5. Back(p, stop) % 2 = 1 /\ Back(p, stop) % 2 = 0
      BY <2>3, <3>2, <3>3, <3>4 DEF Body
    <3> QED
      BY <3>5
  <2> QED
    BY <2>2, <2>4, <2>5 DEF Right
<1>7. CASE ~At(stop, Quote)
  <2>1. e = 0
    BY <1>4, <1>7
  <2>2. stop >= Len(src) \/ (stop < Len(src) /\ src[stop + 1] = "\n")
    BY <1>4, <1>7 DEF At, AtAny
  <2>3. ASSUME NEW r \in (s + 1)..Len(src), LexemeAt(s, r) PROVE FALSE
    <3>1. PICK x \in p..(Len(src) - 1) : r = x + 1 /\ src[x + 1] = Quote /\ Body(p, x)
      BY <1>5, <2>3
    <3>2. x < Len(src) /\ x \in Int /\ stop \in Int
      BY <1>3, <1>4
    <3>3. Back(p, x) % 2 = 0
      BY <3>1 DEF Body
    <3>4. CASE x < stop
      <4>1. x \in p..(stop - 1)
        BY <3>2, <3>4
      <4>2. AtAny(x, {"\n", Quote})
        BY <3>1, <3>2 DEF AtAny
      <4>3. Back(p, x) % 2 = 1
        BY <1>4, <4>1, <4>2 DEF Scanned
      <4> QED
        BY <3>3, <4>3
    <3>5. CASE x >= stop
      <4>1. stop < Len(src) /\ src[stop + 1] = "\n"
        BY <1>1, <2>2, <3>2, <3>5
      <4>2. x # stop
        <5>1. "\n" # Quote
          BY Classes
        <5> QED
          BY <3>1, <4>1, <5>1
      <4>3. stop \in p..(x - 1) /\ stop <= Len(src)
        BY <1>3, <1>4, <3>2, <3>5, <4>1, <4>2
      <4>4. AtAny(stop, {"\n", Quote})
        BY <4>1 DEF AtAny
      <4>5. Back(p, stop) % 2 = 1
        BY <3>1, <4>3, <4>4 DEF Body
      <4>6. Back(p, stop) % 2 = 0
        BY <1>4, <4>3 DEF Scanned
      <4> QED
        BY <4>5, <4>6
    <3> QED
      BY <3>2, <3>4, <3>5
  <2> QED
    BY <2>1, <2>3 DEF None
<1> QED
  BY <1>6, <1>7

(* A run of letters and the digits among them. *)
LEMMA WordEnd ==
  ASSUME src \in Seq(STRING), NEW p \in 0..Len(src)
  PROVE  /\ EndOf(p, WordChar) \in p..Len(src)
         /\ \A x \in p..(EndOf(p, WordChar) - 1) : x < Len(src) /\ WordChar(src[x + 1])
         /\ EndOf(p, WordChar) < Len(src) => ~WordChar(src[EndOf(p, WordChar) + 1])
<1> DEFINE T == {q \in p..Len(src) : q = Len(src) \/ ~WordChar(src[q + 1])}
<1>1. T \subseteq p..Len(src) /\ Len(src) \in T
  OBVIOUS
<1>2. EndOf(p, WordChar) = Min(T)
  BY DEF EndOf
<1>3. /\ \A x \in p..Len(src) : x \notin T => WordChar(src[x + 1])
      /\ \A x \in T : x < Len(src) => ~WordChar(src[x + 1])
  OBVIOUS
<1> HIDE DEF T
<1> QED
  BY <1>1, <1>2, <1>3, RunEnd

LEMMA DigitsEnd ==
  ASSUME src \in Seq(STRING), NEW p \in 0..Len(src), NEW e,
         e = EndOf(p, LAMBDA c : c \in NumberChar)
  PROVE  /\ e \in p..Len(src)
         /\ \A x \in p..(e - 1) : x < Len(src) /\ src[x + 1] \in NumberChar
         /\ e < Len(src) => src[e + 1] \notin NumberChar
<1> DEFINE T == {q \in p..Len(src) : q = Len(src) \/ ~(src[q + 1] \in NumberChar)}
<1>1. T \subseteq p..Len(src) /\ Len(src) \in T
  OBVIOUS
<1>2. e = Min(T)
  BY DEF EndOf
<1>3. /\ \A x \in p..Len(src) : x \notin T => src[x + 1] \in NumberChar
      /\ \A x \in T : x < Len(src) => src[x + 1] \notin NumberChar
  OBVIOUS
<1> HIDE DEF T
<1> QED
  BY <1>1, <1>2, <1>3, RunEnd

LEMMA WordLexeme ==
  ASSUME src \in Seq(STRING), NEW s \in 0..Len(src), NEW r \in (s + 1)..Len(src),
         NEW k, Word(k), IsLexeme(k, Text(s, r))
  PROVE  \/ Letters(s, r)
         \/ \E x \in s..(r - 1) : /\ r = x + 1 /\ Letters(s, x) /\ At(x, "!")
                                  /\ Text(s, x) = MacroWord
<1>1. r \in s..Len(src) /\ s < r /\ s \in Int /\ r \in Int /\ Len(src) \in Nat
  OBVIOUS
<1>2. CASE k = "ident"
  <2>1. IsWord(Text(s, r))
    BY <1>2 DEF IsLexeme
  <2> QED
    BY <1>1, <2>1, WordIs
<1>3. CASE k = "keyword"
  <2>1. Text(s, r) \in Keywords
    BY <1>3 DEF IsLexeme
  <2>2. IsWord(Text(s, r))
    BY <2>1, WordsAssumption DEF IsWord
  <2> QED
    BY <1>1, <2>2, WordIs
<1>4. CASE k = "asm"
  <2>1. /\ r - 1 \in (s + 1)..Len(src) /\ Letters(s, r - 1) /\ src[r] = "!"
        /\ Text(s, r - 1) = MacroWord
    BY <1>1, <1>4, AsmIs
  <2>2. PICK x : x = r - 1
    OBVIOUS
  <2>3. x \in s..(r - 1) /\ r = x + 1 /\ x < Len(src)
    BY <1>1, <2>1, <2>2
  <2> QED
    BY <2>1, <2>2, <2>3 DEF At
<1> QED
  BY <1>2, <1>3, <1>4 DEF Word

LEMMA WordRight ==
  ASSUME src \in Seq(STRING), NEW s \in 0..Len(src), s < Len(src), WordStart(src[s + 1]),
         NEW e, e = EndOf(s, WordChar)
  PROVE  /\ e \in (s + 1)..Len(src)
         /\ IF Text(s, e) = MacroWord /\ At(e, "!")
            THEN e + 1 <= Len(src) /\ Right("asm", s, e + 1)
            ELSE Right(IF Text(s, e) \in Keywords THEN "keyword" ELSE "ident", s, e)
<1>1. s \in Nat /\ Len(src) \in Nat /\ s < Len(src) /\ WordChar(src[s + 1])
  BY Classes
<1>2. /\ e \in s..Len(src)
      /\ \A x \in s..(e - 1) : x < Len(src) /\ WordChar(src[x + 1])
      /\ e < Len(src) => ~WordChar(src[e + 1])
  BY WordEnd
<1>3. e \in (s + 1)..Len(src) /\ e \in Int
  <2>1. e # s
    BY <1>1, <1>2
  <2> QED
    BY <1>1, <1>2, <2>1
<1>4. Letters(s, e)
  <2>1. s < e
    BY <1>1, <1>3
  <2>2. \A x \in s..(e - 1) : WordChar(src[x + 1])
    BY <1>2
  <2> QED
    BY <2>1, <2>2, Zenon DEF Letters
<1>5. IsWord(Text(s, e))
  BY <1>1, <1>2, <1>3, <1>4, WordIs
<1>6. Text(s, e) \in Seq(STRING) /\ Len(Text(s, e)) = e - s /\ Text(s, e) # <<>>
  <2>1. Text(s, e) \in Seq(STRING) /\ Len(Text(s, e)) = e - s
    BY <1>2, TextIs
  <2> QED
    BY <1>1, <1>3, <2>1
(* What is longer than the word is the word and a !. *)
<1>7. ASSUME NEW r \in (e + 1)..Len(src), LexemeAt(s, r)
      PROVE  r = e + 1 /\ Text(s, e) = MacroWord /\ At(e, "!")
  <2>1. r \in (s + 1)..Len(src) /\ r \in Int /\ e < r /\ e < Len(src)
    BY <1>1, <1>3
  <2>2. PICK k \in Kinds :
            /\ IsLexeme(k, Text(s, r))
            /\ \/ k = "newline" /\ src[s + 1] = "\n" /\ r = s + 1
               \/ k \in {"int", "float"} /\ src[s + 1] \in Digit
               \/ k = "str" /\ src[s + 1] = Quote
               \/ Word(k) /\ WordStart(src[s + 1])
               \/ k = "op" /\ src[s + 1] \in OperatorChar
    BY <1>7, <2>1, LongerStarts
  <2>3. Word(k)
    BY <1>1, <2>2, Classes
  <2>4. ~WordChar(src[e + 1])
    BY <1>2, <2>1
  <2>5. ~Letters(s, r)
    <3>1. e \in s..(r - 1)
      BY <1>2, <2>1
    <3> QED
      BY <2>4, <3>1 DEF Letters
  <2>6. PICK x \in s..(r - 1) : /\ r = x + 1 /\ Letters(s, x) /\ At(x, "!")
                                /\ Text(s, x) = MacroWord
    BY <2>1, <2>2, <2>3, <2>5, WordLexeme
  <2>7. ~(e < x)
    <3>1. SUFFICES ASSUME e < x PROVE FALSE
      OBVIOUS
    <3>2. e \in s..(x - 1)
      BY <1>1, <1>2, <1>3, <3>1
    <3> QED
      BY <2>4, <2>6, <3>2 DEF Letters
  <2>8. x = e
    BY <1>1, <1>3, <2>1, <2>6, <2>7
  <2> QED
    BY <2>6, <2>8
<1>8. CASE Text(s, e) = MacroWord /\ At(e, "!")
  <2>1. PICK f : f = e + 1
    OBVIOUS
  <2>2. e < Len(src) /\ src[e + 1] = "!" /\ f \in s..Len(src) /\ f <= Len(src)
    BY <1>1, <1>3, <1>8, <2>1 DEF At
  <2> DEFINE t == Text(s, f)
             w == Text(s, e)
  <2>3. /\ t \in Seq(STRING) /\ Len(t) = f - s
        /\ \A i \in 1..(f - s) : t[i] = src[s + i]
    BY <2>2, TextIs
  <2>4. \A i \in 1..(e - s) : w[i] = src[s + i]
    BY <1>2, TextIs
  <2> HIDE DEF t, w
  <2>5. w \in Seq(STRING) /\ Len(w) = e - s
    BY <1>6 DEF w
  <2>6. t = Append(w, "!")
    <3>1. Len(t) = e - s + 1 /\ e - s \in Nat
      BY <1>1, <1>3, <2>1, <2>3
    <3>2. t[e - s + 1] = "!"
      <4>1. e - s + 1 \in 1..(f - s) /\ s + (e - s + 1) = e + 1
        BY <1>1, <1>3, <2>1
      <4> QED
        BY <2>2, <2>3, <4>1
    <3>3. "!" \in STRING
      <4>1. e - s + 1 \in 1..Len(t)
        BY <3>1
      <4>2. t[e - s + 1] \in STRING
        BY <2>3, <4>1, ElementOfSeq
      <4> QED
        BY <3>2, <4>2
    <3>4. PICK u : u = Append(w, "!")
      OBVIOUS
    <3>5. /\ u \in Seq(STRING) /\ Len(u) = e - s + 1 /\ u[e - s + 1] = "!"
          /\ \A i \in 1..(e - s) : u[i] = w[i]
      BY <2>5, <3>3, <3>4
    <3>6. ASSUME NEW i \in 1..Len(t) PROVE t[i] = u[i]
      <4>1. CASE i = e - s + 1
        BY <3>2, <3>5, <4>1
      <4>2. CASE i # e - s + 1
        <5>1. i \in 1..(e - s) /\ i \in 1..(f - s)
          BY <1>1, <1>3, <2>1, <3>1, <4>2
        <5> QED
          BY <2>3, <2>4, <3>5, <5>1
      <4> QED
        BY <4>1, <4>2
    <3>7. t = u
      BY <2>3, <3>1, <3>5, <3>6, SeqEqual
    <3> QED
      BY <3>4, <3>7
  <2>7. IsLexeme("asm", t)
    <3>1. t = Append(MacroWord, "!")
      BY <1>8, <2>6 DEF w
    <3>2. t # <<>>
      BY <1>1, <1>3, <2>1, <2>3
    <3> QED
      BY <3>1, <3>2 DEF IsLexeme
  <2>8. ASSUME NEW r \in (f + 1)..Len(src), LexemeAt(s, r) PROVE FALSE
    <3>1. r \in (e + 1)..Len(src) /\ r # e + 1
      BY <1>3, <2>1
    <3> QED
      BY <1>7, <2>8, <3>1
  <2> QED
    BY <1>3, <1>8, <2>1, <2>2, <2>7, <2>8 DEF Right, t
<1>9. CASE ~(Text(s, e) = MacroWord /\ At(e, "!"))
  <2>1. \A r \in (e + 1)..Len(src) : ~LexemeAt(s, r)
    BY <1>7, <1>9
  <2>2. IsLexeme(IF Text(s, e) \in Keywords THEN "keyword" ELSE "ident", Text(s, e))
    BY <1>5, <1>6 DEF IsLexeme
  <2> QED
    BY <1>3, <1>9, <2>1, <2>2 DEF Right
<1> QED
  BY <1>8, <1>9

LEMMA NumberRight ==
  ASSUME src \in Seq(STRING), NEW s \in 0..Len(src), AtAny(s, Digit), NEW e, e = NumberEnd(s)
  PROVE  /\ e \in (s + 1)..Len(src)
         /\ Right(IF "." \in Range(Text(s, e)) THEN "float" ELSE "int", s, e)
<1>1. /\ s \in Nat /\ Len(src) \in Nat /\ s < Len(src)
      /\ src[s + 1] \in Digit /\ src[s + 1] \in NumberChar
  BY Classes DEF AtAny
<1>2. PICK w : w = EndOf(s, LAMBDA c : c \in NumberChar)
  OBVIOUS
<1>3. /\ w \in s..Len(src)
      /\ \A x \in s..(w - 1) : x < Len(src) /\ src[x + 1] \in NumberChar
      /\ w < Len(src) => src[w + 1] \notin NumberChar
  BY <1>2, DigitsEnd
<1>4. w \in (s + 1)..Len(src) /\ w \in Int
  <2>1. w # s
    BY <1>1, <1>3
  <2> QED
    BY <1>1, <1>3, <2>1
<1>5. Digits(s, w)
  <2>1. s < w
    BY <1>1, <1>4
  <2>2. \A x \in s..(w - 1) : src[x + 1] \in NumberChar
    BY <1>3
  <2> QED
    BY <1>1, <2>1, <2>2, Zenon DEF Digits
(* What else starts here is a number. *)
<1>6. ASSUME NEW r \in (s + 1)..Len(src), LexemeAt(s, r)
      PROVE  \/ Digits(s, r)
             \/ \E d \in s..(r - 1) : At(d, ".") /\ Digits(s, d) /\ Digits(d + 1, r)
  <2>1. PICK k \in Kinds :
            /\ IsLexeme(k, Text(s, r))
            /\ \/ k = "newline" /\ src[s + 1] = "\n" /\ r = s + 1
               \/ k \in {"int", "float"} /\ src[s + 1] \in Digit
               \/ k = "str" /\ src[s + 1] = Quote
               \/ Word(k) /\ WordStart(src[s + 1])
               \/ k = "op" /\ src[s + 1] \in OperatorChar
    BY <1>6, LongerStarts
  <2>2. k = "int" \/ k = "float"
    BY <1>1, <2>1, Classes
  <2>3. r \in s..Len(src)
    BY <1>1
  <2>4. CASE k = "int"
    <3>1. IsDigits(Text(s, r))
      BY <2>1, <2>4 DEF IsLexeme
    <3> QED
      BY <2>3, <3>1, DigitsAre
  <2>5. CASE k = "float"
    BY <2>1, <2>3, <2>5, FloatIs
  <2> QED
    BY <2>2, <2>4, <2>5
(* Digits go no further than w, and a dot behind digits is at w. *)
<1>7. ASSUME NEW r \in (w + 1)..Len(src) PROVE ~Digits(s, r)
  <2>1. w \in s..(r - 1) /\ w < Len(src)
    BY <1>1, <1>4
  <2> QED
    BY <1>3, <2>1 DEF Digits
<1>8. ASSUME NEW d \in s..(Len(src) - 1), At(d, "."), Digits(s, d) PROVE d = w
  <2>1. src[d + 1] \notin NumberChar /\ d < Len(src)
    BY <1>8, Classes DEF At
  <2>2. d \notin s..(w - 1)
    BY <1>3, <2>1
  <2>3. ~(w < d)
    <3>1. d \in (w + 1)..Len(src) => FALSE
      BY <1>7, <1>8
    <3> QED
      BY <1>1, <1>4, <2>1, <3>1
  <2> QED
    BY <1>1, <1>4, <2>2, <2>3
<1>9. ASSUME NEW q \in s..Len(src)
      PROVE  "." \in Range(Text(s, q)) <=> \E x \in s..(q - 1) : src[x + 1] = "."
  <2>1. /\ DOMAIN Text(s, q) = 1..(q - s)
        /\ \A i \in 1..(q - s) : Text(s, q)[i] = src[s + i]
    BY TextIs
  <2>2. "." \in Range(Text(s, q)) <=> \E i \in 1..(q - s) : src[s + i] = "."
    BY <2>1 DEF Range
  <2>3. ASSUME NEW i \in 1..(q - s), src[s + i] = "." PROVE \E x \in s..(q - 1) : src[x + 1] = "."
    <3>1. PICK x : x = s + i - 1
      OBVIOUS
    <3>2. x \in s..(q - 1) /\ x + 1 = s + i
      BY <1>1, <3>1
    <3> QED
      BY <2>3, <3>2
  <2>4. ASSUME NEW x \in s..(q - 1), src[x + 1] = "." PROVE \E i \in 1..(q - s) : src[s + i] = "."
    <3>1. PICK i : i = x + 1 - s
      OBVIOUS
    <3>2. i \in 1..(q - s) /\ x + 1 = s + i
      BY <1>1, <3>1
    <3> QED
      BY <2>4, <3>2
  <2> QED
    BY <2>2, <2>3, <2>4
<1>10. CASE FloatDot(w)
  <2>1. PICK v : v = w + 1
    OBVIOUS
  <2>2. /\ w < Len(src) /\ src[w + 1] = "." /\ v < Len(src) /\ src[v + 1] \in Digit
        /\ v \in 0..Len(src) /\ v \in Int
    BY <1>1, <1>4, <1>10, <2>1 DEF FloatDot, At, AtAny
  <2>3. e = EndOf(v, LAMBDA c : c \in NumberChar)
    BY <1>2, <1>10, <2>1 DEF NumberEnd
  <2>4. /\ e \in v..Len(src)
        /\ \A x \in v..(e - 1) : x < Len(src) /\ src[x + 1] \in NumberChar
        /\ e < Len(src) => src[e + 1] \notin NumberChar
    BY <2>2, <2>3, DigitsEnd
  <2>5. src[v + 1] \in NumberChar
    BY <2>2, Classes
  <2>6. e # v
    BY <2>2, <2>4, <2>5
  <2>7. v < e /\ e \in Int /\ e \in (s + 1)..Len(src) /\ e \in s..Len(src) /\ w \in s..(e - 1)
    BY <1>1, <1>4, <2>1, <2>2, <2>4, <2>6
  <2>8. Digits(v, e)
    BY <2>2, <2>4, <2>7 DEF Digits
  <2>9. IsLexeme("float", Text(s, e))
    <3>1. At(w, ".") /\ Digits(s, w) /\ Digits(w + 1, e)
      BY <1>5, <1>10, <2>1, <2>8 DEF FloatDot
    <3> QED
      BY <2>7, <3>1, FloatIs
  <2>10. "." \in Range(Text(s, e))
    BY <1>9, <2>2, <2>7
  <2>11. ASSUME NEW r \in (e + 1)..Len(src), LexemeAt(s, r) PROVE FALSE
    <3>1. r \in (s + 1)..Len(src) /\ r \in (w + 1)..Len(src) /\ e < Len(src)
      BY <1>1, <1>4, <2>1, <2>7
    <3>2. PICK d \in s..(r - 1) : At(d, ".") /\ Digits(s, d) /\ Digits(d + 1, r)
      BY <1>6, <1>7, <2>11, <3>1
    <3>3. d \in s..(Len(src) - 1)
      BY <1>1, <3>1
    <3>4. d = w
      BY <1>8, <3>2, <3>3
    <3>5. Digits(v, r) /\ e \in v..(r - 1)
      BY <2>1, <2>4, <2>7, <3>1, <3>2, <3>4
    <3> QED
      BY <2>4, <3>1, <3>5 DEF Digits
  <2> QED
    BY <2>7, <2>9, <2>10, <2>11 DEF Right
<1>11. CASE ~FloatDot(w)
  <2>1. e = w
    BY <1>2, <1>11 DEF NumberEnd
  <2>2. "." \notin Range(Text(s, w))
    <3>1. \A x \in s..(w - 1) : src[x + 1] # "."
      BY <1>3, Classes
    <3> QED
      BY <1>3, <1>9, <3>1
  <2>3. IsLexeme("int", Text(s, w))
    <3>1. IsDigits(Text(s, w))
      BY <1>3, <1>5, DigitsAre
    <3> QED
      BY <3>1 DEF IsLexeme, IsDigits
  <2>4. ASSUME NEW r \in (w + 1)..Len(src), LexemeAt(s, r) PROVE FALSE
    <3>1. r \in (s + 1)..Len(src)
      BY <1>1, <1>4
    <3>2. PICK d \in s..(r - 1) : At(d, ".") /\ Digits(s, d) /\ Digits(d + 1, r)
      BY <1>6, <1>7, <2>4, <3>1
    <3>3. d \in s..(Len(src) - 1)
      BY <1>1, <3>1
    <3>4. d = w
      BY <1>8, <3>2, <3>3
    <3>5. w + 1 < r /\ src[w + 1 + 1] \in Digit
      BY <3>2, <3>4 DEF Digits
    <3>6. AtAny(w + 1, Digit)
      BY <1>1, <1>4, <3>1, <3>5 DEF AtAny
    <3> QED
      BY <1>11, <3>2, <3>4, <3>6 DEF FloatDot
  <2> QED
    BY <1>4, <2>1, <2>2, <2>3, <2>4 DEF Right
<1> QED
  BY <1>10, <1>11

-----------------------------------------------------------------------------
(* The tokens of a file.                                                    *)

StartOf(i) == IF i > Len(tokens) THEN pos ELSE tokens[i].start
EndAt(i) == IF i = 0 THEN 0 ELSE tokens[i].end

TokenRight(t) ==
    IF t.kind = "eof" THEN t.start = Len(src) /\ t.end = Len(src)
    ELSE Right(t.kind, t.start, t.end)

(* The lexer between two tokens. *)
LInv ==
    /\ src \in Seq(STRING) /\ pos \in 0..Len(src)
    /\ tokens \in Seq(Token)
    /\ Lexing => pos = EndAt(Len(tokens))
    /\ \A i \in DOMAIN tokens : TokenRight(tokens[i])
    /\ \A i \in 0..Len(tokens) : Gap(EndAt(i), StartOf(i + 1))
    /\ lexed = "InvalidNumber" =>
          \E q \in (pos + 1)..Len(src) :
             IsLexeme("int", Text(pos, q)) /\ IntValue(Text(pos, q)) > MaxInt
    /\ lexed \in {"UnterminatedString", "UnknownChar"} => pos < Len(src) /\ None(pos)

LEMMA LInvSays == LInv => LongestMatch /\ NothingLost
<1> SUFFICES ASSUME LInv PROVE LongestMatch /\ NothingLost
  OBVIOUS
<1>1. LongestMatch
  BY DEF LInv, LongestMatch, TokenRight, Right, None
<1>2. NothingLost
  BY DEF LInv, NothingLost, Gap, StartOf, EndAt
<1> QED
  BY <1>1, <1>2

LEMMA SameText ==
  ASSUME UNCHANGED src
  PROVE  \A a, b : Text(a, b)' = Text(a, b)
BY DEF Text

LEMMA FoundKeeps ==
  ASSUME LInv, Lexing, NEW kind \in Kinds \cup {"eof"}, NEW end \in Skipped..Len(src),
         Found(kind, end),
         TokenRight([kind |-> kind, start |-> Skipped, end |-> end])
  PROVE  LInv'
<1> DEFINE t == [kind |-> kind, start |-> Skipped, end |-> end]
           n == Len(tokens)
<1>1. /\ src' = src /\ pos' = end /\ tokens' = Append(tokens, t)
      /\ lexed' = IF kind = "eof" THEN "ok" ELSE "lexing"
  BY DEF Found
<1>2. /\ src \in Seq(STRING) /\ pos \in 0..Len(src) /\ tokens \in Seq(Token) /\ pos = EndAt(n)
      /\ Len(src) \in Nat /\ n \in Nat /\ DOMAIN tokens = 1..n
  BY DEF LInv
<1>3. Skipped \in 0..Len(src) /\ Gap(pos, Skipped)
  BY <1>2, SkippedIs
<1>4. end \in 0..Len(src) /\ Skipped \in Nat /\ end \in Nat
  BY <1>2, <1>3
<1>5. t \in Token /\ t.start = Skipped /\ t.end = end
  BY <1>4 DEF Token, Kinds
<1>6. TokenRight(t)
  OBVIOUS
<1> HIDE DEF t
<1>7. PICK m : m = n + 1
  OBVIOUS
<1>8. /\ tokens' \in Seq(Token) /\ Len(tokens') = m /\ DOMAIN tokens' = 1..m
      /\ \A i \in 1..n : tokens'[i] = tokens[i]
      /\ tokens'[m] = t
  BY <1>1, <1>2, <1>5, <1>7
<1> HIDE DEF n
<1>9. \A i \in 0..n : EndAt(i)' = EndAt(i)
  <2>1. \A i \in 0..n : i # 0 => i \in 1..n
    BY <1>2
  <2> QED
    BY <1>8, <2>1 DEF EndAt
<1>10. EndAt(m)' = end
  <2>1. m # 0
    BY <1>2, <1>7
  <2> QED
    BY <1>5, <1>8, <2>1 DEF EndAt
<1>11. ASSUME NEW i \in 0..n, NEW j, j = i + 1 PROVE Gap(EndAt(i), StartOf(j)')
  <2>1. j \in 1..m /\ ~(j > m)
    BY <1>2, <1>7, <1>11
  <2>2. StartOf(j)' = tokens'[j].start
    BY <1>8, <2>1 DEF StartOf
  <2>3. CASE i < n
    <3>1. j \in 1..n /\ ~(j > n)
      BY <1>2, <1>11, <2>3
    <3>2. StartOf(j) = tokens[j].start /\ tokens'[j] = tokens[j]
      BY <1>8, <3>1 DEF StartOf, n
    <3>3. Gap(EndAt(i), StartOf(j))
      BY <1>11 DEF LInv, n
    <3> QED
      BY <2>2, <3>2, <3>3
  <2>4. CASE i = n
    <3>1. j = m
      BY <1>7, <1>11, <2>4
    <3> QED
      BY <1>2, <1>3, <1>5, <1>8, <2>2, <2>4, <3>1
  <2> QED
    BY <1>2, <2>3, <2>4
<1>12. ASSUME NEW j, j = m + 1 PROVE StartOf(j)' = end
  <2>1. j > m
    BY <1>2, <1>7, <1>12
  <2> QED
    BY <1>1, <1>8, <2>1 DEF StartOf
<1>13. ASSUME NEW i \in 0..m, NEW j, j = i + 1 PROVE Gap(EndAt(i)', StartOf(j)')
  <2>1. CASE i \in 0..n
    BY <1>9, <1>11, <1>13, <2>1
  <2>2. CASE i = m
    <3>1. Gap(end, end)
      <4>1. \A p \in end..(end - 1) : FALSE
        BY <1>4
      <4> QED
        BY <1>4, <4>1 DEF Gap
    <3> QED
      BY <1>10, <1>12, <1>13, <2>2, <3>1
  <2>3. i \in 0..n \/ i = m
    BY <1>2, <1>7
  <2> QED
    BY <2>1, <2>2, <2>3
<1>14. \A i \in 0..m : Gap(EndAt(i), StartOf(i + 1))'
  <2> SUFFICES ASSUME NEW i \in 0..m PROVE Gap(EndAt(i), StartOf(i + 1))'
    OBVIOUS
  <2>1. PICK j : j = i + 1
    OBVIOUS
  <2>2. Gap(EndAt(i)', StartOf(j)')
    BY <1>13, <2>1
  <2>4. Gap(EndAt(i), StartOf(j))'
    BY <1>1, <2>2 DEF Gap, At, AtAny, InComment
  <2> QED
    BY <2>1, <2>4
<1>15. \A i \in 1..m : TokenRight(tokens[i])'
  <2> SUFFICES ASSUME NEW i \in 1..m PROVE TokenRight(tokens[i])'
    OBVIOUS
  <2>1. TokenRight(tokens'[i])
    <3>1. i \in 1..n \/ i = m
      BY <1>2, <1>7
    <3>2. CASE i \in 1..n
      BY <1>2, <1>8, <3>2 DEF LInv
    <3> QED
      BY <1>6, <1>8, <3>1, <3>2
  <2>2. \A a, b : LexemeAt(a, b)' <=> LexemeAt(a, b)
    BY <1>1, SameText DEF LexemeAt
  <2>3. \A a, b : Text(a, b)' = Text(a, b)
    BY <1>1, SameText
  <2> QED
    BY <1>1, <2>1, <2>2, <2>3 DEF TokenRight, Right
<1>16. pos' \in 0..Len(src') /\ src' \in Seq(STRING)
  BY <1>1, <1>2, <1>4
<1>17. pos' = EndAt(Len(tokens))'
  <2>2. EndAt(Len(tokens))' = IF Len(tokens') = 0 THEN 0 ELSE tokens'[Len(tokens')].end
    BY DEF EndAt
  <2>3. m # 0
    BY <1>2, <1>7
  <2> QED
    BY <1>1, <1>5, <1>8, <2>2, <2>3
<1>18. lexed' # "InvalidNumber" /\ lexed' \notin {"UnterminatedString", "UnknownChar"}
  BY <1>1
<1>19. /\ \A i \in DOMAIN tokens' : TokenRight(tokens[i])'
       /\ \A i \in 0..Len(tokens') : Gap(EndAt(i), StartOf(i + 1))'
  BY <1>8, <1>14, <1>15
<1> QED
  BY <1>8, <1>16, <1>17, <1>18, <1>19 DEF LInv

LEMMA SameTokens ==
  ASSUME LInv, UNCHANGED <<src, tokens>>, pos' \in 0..Len(src), ~Lexing',
         Gap(EndAt(Len(tokens)), pos'),
         lexed' = "InvalidNumber" =>
            \E q \in (pos' + 1)..Len(src) :
               IsLexeme("int", Text(pos', q)) /\ IntValue(Text(pos', q)) > MaxInt,
         lexed' \in {"UnterminatedString", "UnknownChar"} => pos' < Len(src) /\ None(pos')
  PROVE  LInv'
<1> DEFINE n == Len(tokens)
<1>1. /\ src \in Seq(STRING) /\ tokens \in Seq(Token) /\ n \in Nat /\ DOMAIN tokens = 1..n
      /\ \A i \in DOMAIN tokens : TokenRight(tokens[i])
      /\ \A i \in 0..n : Gap(EndAt(i), StartOf(i + 1))
  BY DEF LInv
<1>2. \A a, b : Text(a, b)' = Text(a, b)
  BY SameText
<1>3. \A i \in DOMAIN tokens' : TokenRight(tokens[i])'
  <2>1. \A a, b : LexemeAt(a, b)' <=> LexemeAt(a, b)
    BY <1>2 DEF LexemeAt
  <2> QED
    BY <1>1, <1>2, <2>1 DEF TokenRight, Right
<1>4. \A i \in 0..n : Gap(EndAt(i), StartOf(i + 1))'
  <2> SUFFICES ASSUME NEW i \in 0..n PROVE Gap(EndAt(i), StartOf(i + 1))'
    OBVIOUS
  <2>1. PICK j : j = i + 1
    OBVIOUS
  <2>2. EndAt(i)' = EndAt(i)
    BY DEF EndAt
  <2>3. Gap(EndAt(i), StartOf(j)')
    <3>1. CASE i = n
      <4>1. j > n
        BY <1>1, <2>1, <3>1
      <4>2. StartOf(j)' = pos'
        BY <4>1 DEF StartOf
      <4> QED
        BY <3>1, <4>2
    <3>2. CASE i # n
      <4>1. ~(j > n)
        <5> HIDE DEF n
        <5> QED
          BY <1>1, <2>1, <3>2
      <4>2. StartOf(j)' = StartOf(j)
        BY <4>1 DEF StartOf
      <4> QED
        BY <1>1, <2>1, <4>2
    <3> QED
      BY <3>1, <3>2
  <2>4. Gap(EndAt(i), StartOf(j))'
    BY <2>2, <2>3 DEF Gap, At, AtAny, InComment
  <2> QED
    BY <2>1, <2>4
<1>5. lexed' = "InvalidNumber" =>
         \E q \in (pos' + 1)..Len(src') :
            IsLexeme("int", Text(pos, q)') /\ IntValue(Text(pos, q)') > MaxInt
  BY <1>2 DEF Text
<1>6. lexed' \in {"UnterminatedString", "UnknownChar"} => pos' < Len(src') /\ None(pos)'
  BY <1>2 DEF None, LexemeAt, Text
<1> QED
  BY <1>1, <1>3, <1>4, <1>5, <1>6 DEF LInv, Lexing

LEMMA FailedKeeps ==
  ASSUME LInv, Lexing, NEW error, Failed(error), error # "lexing",
         error = "InvalidNumber" =>
            \E q \in (Skipped + 1)..Len(src) :
               IsLexeme("int", Text(Skipped, q)) /\ IntValue(Text(Skipped, q)) > MaxInt,
         error \in {"UnterminatedString", "UnknownChar"} => Skipped < Len(src) /\ None(Skipped)
  PROVE  LInv'
<1>1. UNCHANGED <<src, tokens>> /\ pos' = Skipped /\ lexed' = error
  BY DEF Failed
<1>2. src \in Seq(STRING) /\ pos \in 0..Len(src) /\ pos = EndAt(Len(tokens))
  BY DEF LInv
<1>3. Skipped \in 0..Len(src) /\ Gap(pos, Skipped)
  BY <1>2, SkippedIs
<1>4. ~Lexing'
  BY <1>1 DEF Lexing
<1> QED
  BY <1>1, <1>2, <1>3, <1>4, SameTokens

-----------------------------------------------------------------------------
(* next_token, one class after the other.                                   *)

LEMMA SourceKnown ==
  ASSUME LInv
  PROVE  src \in Seq(STRING) /\ Len(src) \in Nat /\ Skipped \in 0..Len(src)
<1> QED
  BY SkippedIs DEF LInv

LEMMA FoundRight ==
  ASSUME LInv, Lexing, NEW kind \in Kinds, NEW end \in (Skipped + 1)..Len(src),
         Right(kind, Skipped, end), Found(kind, end)
  PROVE  LInv'
<1>1. end \in Skipped..Len(src) /\ kind # "eof"
  BY SourceKnown DEF Kinds
<1>2. PICK t : t = [kind |-> kind, start |-> Skipped, end |-> end]
  OBVIOUS
<1>3. t.kind = kind /\ t.start = Skipped /\ t.end = end
  BY <1>2
<1>4. TokenRight(t)
  BY <1>1, <1>3 DEF TokenRight
<1> QED
  BY <1>1, <1>2, <1>4, FoundKeeps

LEMMA EofKeeps == LInv /\ LexEof => LInv'
<1> SUFFICES ASSUME LInv, LexEof PROVE LInv'
  OBVIOUS
<1>1. Lexing /\ Skipped = Len(src) /\ Found("eof", Skipped)
  BY DEF LexEof
<1>2. PICK t : t = [kind |-> "eof", start |-> Skipped, end |-> Skipped]
  OBVIOUS
<1>3. TokenRight(t)
  BY <1>1, <1>2 DEF TokenRight
<1>4. Skipped \in Skipped..Len(src)
  BY <1>1, SourceKnown
<1> QED
  BY <1>1, <1>2, <1>3, <1>4, FoundKeeps

LEMMA NewlineKeeps == LInv /\ LexNewline => LInv'
<1> SUFFICES ASSUME LInv, LexNewline PROVE LInv'
  OBVIOUS
<1>1. Lexing /\ At(Skipped, "\n") /\ Found("newline", Skipped + 1)
  BY DEF LexNewline
<1>2. PICK p : p = Skipped
  OBVIOUS
<1>3. PICK q \in (p + 1)..Len(src) : q = p + 1 /\ Right("newline", p, q)
  BY <1>1, <1>2, SourceKnown, NewlineRight
<1>4. "newline" \in Kinds
  BY DEF Kinds
<1> QED
  BY <1>1, <1>2, <1>3, <1>4, FoundRight

LEMMA NumberKeeps == LInv /\ LexNumber => LInv'
<1> SUFFICES ASSUME LInv, LexNumber PROVE LInv'
  OBVIOUS
<1>1. PICK p : p = Skipped
  OBVIOUS
<1>2. PICK e : e = NumberEnd(p)
  OBVIOUS
<1>3. Lexing /\ AtAny(p, Digit)
  BY <1>1 DEF LexNumber
<1>4. IF "." \in Range(Text(p, e)) THEN Found("float", e)
      ELSE IF IntValue(Text(p, e)) > MaxInt THEN Failed("InvalidNumber")
      ELSE Found("int", e)
  BY <1>1, <1>2 DEF LexNumber
<1>5. src \in Seq(STRING) /\ p \in 0..Len(src)
  BY <1>1, SourceKnown
<1>6. /\ e \in (p + 1)..Len(src)
      /\ Right(IF "." \in Range(Text(p, e)) THEN "float" ELSE "int", p, e)
  BY <1>2, <1>3, <1>5, NumberRight
<1>7. CASE "." \in Range(Text(p, e))
  <2>1. "float" \in Kinds /\ Right("float", p, e) /\ Found("float", e)
    BY <1>4, <1>6, <1>7 DEF Kinds
  <2> QED
    BY <1>1, <1>3, <1>6, <2>1, FoundRight
<1>8. CASE "." \notin Range(Text(p, e)) /\ IntValue(Text(p, e)) > MaxInt
  <2>1. Failed("InvalidNumber") /\ Right("int", p, e)
    BY <1>4, <1>6, <1>8
  <2>2. IsLexeme("int", Text(p, e))
    BY <2>1 DEF Right
  <2>3. \E q \in (p + 1)..Len(src) : IsLexeme("int", Text(p, q)) /\ IntValue(Text(p, q)) > MaxInt
    BY <1>6, <1>8, <2>2
  <2>4. PICK error : error = "InvalidNumber"
    OBVIOUS
  <2>5. error # "lexing" /\ error \notin {"UnterminatedString", "UnknownChar"}
    BY <2>4
  <2> QED
    BY <1>1, <1>3, <2>1, <2>3, <2>4, <2>5, FailedKeeps
<1>9. CASE "." \notin Range(Text(p, e)) /\ ~(IntValue(Text(p, e)) > MaxInt)
  <2>1. "int" \in Kinds /\ Right("int", p, e) /\ Found("int", e)
    BY <1>4, <1>6, <1>9 DEF Kinds
  <2> QED
    BY <1>1, <1>3, <1>6, <2>1, FoundRight
<1> QED
  BY <1>7, <1>8, <1>9

LEMMA StringKeeps == LInv /\ LexString => LInv'
<1> SUFFICES ASSUME LInv, LexString PROVE LInv'
  OBVIOUS
<1>1. PICK p : p = Skipped
  OBVIOUS
<1>2. PICK e : e = StringEnd(p + 1)
  OBVIOUS
<1>3. /\ Lexing /\ At(p, Quote)
      /\ IF e = 0 THEN Failed("UnterminatedString") ELSE Found("str", e)
  BY <1>1, <1>2 DEF LexString
<1>4. src \in Seq(STRING) /\ p \in 0..Len(src)
  BY <1>1, SourceKnown
<1>5. /\ e # 0 => e \in (p + 1)..Len(src) /\ Right("str", p, e)
      /\ e = 0 => None(p)
  BY <1>2, <1>3, <1>4, StringRight
<1>6. CASE e # 0
  <2>1. "str" \in Kinds /\ Right("str", p, e) /\ Found("str", e)
    BY <1>3, <1>5, <1>6 DEF Kinds
  <2> QED
    BY <1>1, <1>3, <1>5, <1>6, <2>1, FoundRight
<1>7. CASE e = 0
  <2>1. PICK error : error = "UnterminatedString"
    OBVIOUS
  <2>2. Failed(error) /\ error # "lexing" /\ error # "InvalidNumber"
    BY <1>3, <1>7, <2>1
  <2>3. Skipped < Len(src) /\ None(Skipped)
    BY <1>1, <1>3, <1>5, <1>7 DEF At
  <2> QED
    BY <1>3, <2>2, <2>3, FailedKeeps
<1> QED
  BY <1>6, <1>7

LEMMA WordKeeps == LInv /\ LexWord => LInv'
<1> SUFFICES ASSUME LInv, LexWord PROVE LInv'
  OBVIOUS
<1>1. PICK p : p = Skipped
  OBVIOUS
<1>2. PICK e : e = EndOf(p, WordChar)
  OBVIOUS
<1>3. PICK f : f = e + 1
  OBVIOUS
<1>4. Lexing /\ p < Len(src) /\ WordStart(src[p + 1])
  BY <1>1 DEF LexWord
<1>5. IF Text(p, e) = MacroWord /\ At(e, "!") THEN Found("asm", f)
      ELSE Found(IF Text(p, e) \in Keywords THEN "keyword" ELSE "ident", e)
  BY <1>1, <1>2, <1>3 DEF LexWord
<1>6. src \in Seq(STRING) /\ p \in 0..Len(src) /\ Len(src) \in Nat
  BY <1>1, SourceKnown
<1>7. /\ e \in (p + 1)..Len(src)
      /\ IF Text(p, e) = MacroWord /\ At(e, "!")
         THEN f <= Len(src) /\ Right("asm", p, f)
         ELSE Right(IF Text(p, e) \in Keywords THEN "keyword" ELSE "ident", p, e)
  BY <1>2, <1>3, <1>4, <1>6, WordRight
<1>8. CASE Text(p, e) = MacroWord /\ At(e, "!")
  <2>1. "asm" \in Kinds /\ Right("asm", p, f) /\ Found("asm", f) /\ f <= Len(src)
    BY <1>5, <1>7, <1>8 DEF Kinds
  <2>2. f \in (p + 1)..Len(src)
    BY <1>3, <1>6, <1>7, <2>1
  <2> QED
    BY <1>1, <1>4, <2>1, <2>2, FoundRight
<1>9. CASE ~(Text(p, e) = MacroWord /\ At(e, "!"))
  <2>1. PICK kind : kind = IF Text(p, e) \in Keywords THEN "keyword" ELSE "ident"
    OBVIOUS
  <2>2. kind \in Kinds
    BY <2>1 DEF Kinds
  <2>3. Right(kind, p, e) /\ Found(kind, e)
    BY <1>5, <1>7, <1>9, <2>1
  <2> QED
    BY <1>1, <1>4, <1>7, <2>2, <2>3, FoundRight
<1> QED
  BY <1>8, <1>9

LEMMA OperatorKeeps == LInv /\ LexOperator => LInv'
<1> SUFFICES ASSUME LInv, LexOperator PROVE LInv'
  OBVIOUS
<1>1. PICK p : p = Skipped
  OBVIOUS
<1>2. PICK e : e = OperatorEnd(p)
  OBVIOUS
<1>3. Lexing /\ AtAny(p, OperatorChar) /\ Found("op", e)
  BY <1>1, <1>2 DEF LexOperator
<1>4. src \in Seq(STRING) /\ p \in 0..Len(src)
  BY <1>1, SourceKnown
<1>5. e \in (p + 1)..Len(src) /\ Right("op", p, e)
  BY <1>2, <1>3, <1>4, OperatorRight
<1>6. "op" \in Kinds
  BY DEF Kinds
<1> QED
  BY <1>1, <1>3, <1>5, <1>6, FoundRight

LEMMA UnknownKeeps == LInv /\ LexUnknown => LInv'
<1> SUFFICES ASSUME LInv, LexUnknown PROVE LInv'
  OBVIOUS
<1>1. PICK p : p = Skipped
  OBVIOUS
<1>2. PICK error : error = "UnknownChar"
  OBVIOUS
<1>3. Lexing /\ AtAny(p, Unknown) /\ Failed(error)
  BY <1>1, <1>2 DEF LexUnknown
<1>4. None(p) /\ p < Len(src)
  BY <1>1, <1>3, SourceKnown, UnknownWrong DEF AtAny
<1>5. error # "lexing" /\ error # "InvalidNumber"
  BY <1>2
<1> QED
  BY <1>1, <1>3, <1>4, <1>5, FailedKeeps

LEMMA LexNextKeeps == LInv /\ LexNext => LInv'
  BY EofKeeps, NewlineKeeps, NumberKeeps, StringKeeps, WordKeeps, OperatorKeeps, UnknownKeeps
     DEF LexNext

(* Also before the first token, and when the tokens are dropped. *)
LEMMA NoTokens ==
  ASSUME src \in Seq(STRING), pos = 0, tokens = <<>>, lexed \in {"lexing", "ok"}
  PROVE  LInv
<1>1. pos \in 0..Len(src) /\ tokens \in Seq(Token) /\ Len(tokens) = 0 /\ DOMAIN tokens = {}
  OBVIOUS
<1>2. ASSUME NEW i \in 0..Len(tokens) PROVE Gap(EndAt(i), StartOf(i + 1))
  <2>1. i = 0 /\ i + 1 = 1
    BY <1>1
  <2>2. EndAt(i) = 0 /\ StartOf(1) = 0
    BY <1>1, <2>1 DEF EndAt, StartOf
  <2>3. Gap(0, 0)
    <3>1. \A x \in 0..(0 - 1) : FALSE
      OBVIOUS
    <3> QED
      BY <3>1 DEF Gap
  <2> QED
    BY <2>1, <2>2, <2>3
<1>3. pos = EndAt(Len(tokens))
  BY <1>1 DEF EndAt
<1> QED
  BY <1>1, <1>2, <1>3 DEF LInv

LEMMA LInvSame ==
  ASSUME LInv, UNCHANGED lexVars
  PROVE  LInv'
<1>1. src' = src /\ pos' = pos /\ tokens' = tokens /\ lexed' = lexed
  BY DEF lexVars
<1>2. \A i : EndAt(i)' = EndAt(i) /\ StartOf(i)' = StartOf(i)
  BY <1>1 DEF EndAt, StartOf
<1>3. \A a, b : Text(a, b)' = Text(a, b)
  BY <1>1, SameText
<1>4. \A a, b : LexemeAt(a, b)' <=> LexemeAt(a, b)
  BY <1>3 DEF LexemeAt
<1>5. \A i \in DOMAIN tokens' : TokenRight(tokens[i])'
  BY <1>1, <1>3, <1>4 DEF LInv, TokenRight, Right
<1>6. \A i \in 0..Len(tokens') : Gap(EndAt(i), StartOf(i + 1))'
  <2> SUFFICES ASSUME NEW i \in 0..Len(tokens) PROVE Gap(EndAt(i), StartOf(i + 1))'
    BY <1>1
  <2>1. PICK j : j = i + 1
    OBVIOUS
  <2>2. Gap(EndAt(i), StartOf(j))
    BY <2>1 DEF LInv
  <2>3. Gap(EndAt(i), StartOf(j))'
    BY <1>1, <1>2, <2>2 DEF Gap, At, AtAny, InComment
  <2> QED
    BY <2>1, <2>3
<1>7. lexed' = "InvalidNumber" =>
         \E q \in (pos' + 1)..Len(src') :
            IsLexeme("int", Text(pos, q)') /\ IntValue(Text(pos, q)') > MaxInt
  BY <1>1, <1>3 DEF LInv, Text
<1>8. lexed' \in {"UnterminatedString", "UnknownChar"} => pos' < Len(src') /\ None(pos)'
  BY <1>1, <1>4 DEF LInv, None, LexemeAt, Text
<1>9. Lexing' => pos' = EndAt(Len(tokens))'
  BY <1>1 DEF LInv, Lexing, EndAt
<1> QED
  BY <1>1, <1>5, <1>6, <1>7, <1>8, <1>9 DEF LInv

LEMMA NoTokensThen ==
  ASSUME src' \in Seq(STRING), pos' = 0, tokens' = <<>>, lexed' = "ok"
  PROVE  LInv'
<1>1. pos' \in 0..Len(src') /\ tokens' \in Seq(Token) /\ Len(tokens') = 0 /\ DOMAIN tokens' = {}
  OBVIOUS
<1>2. ASSUME NEW i \in 0..Len(tokens') PROVE Gap(EndAt(i), StartOf(i + 1))'
  <2>1. i = 0 /\ i + 1 = 1
    BY <1>1
  <2>2. EndAt(i)' = 0 /\ StartOf(1)' = 0
    BY <1>1, <2>1 DEF EndAt, StartOf
  <2>3. Gap(EndAt(i), StartOf(1))'
    <3>1. \A x \in 0..(0 - 1) : FALSE
      OBVIOUS
    <3> QED
      BY <2>2, <3>1 DEF Gap
  <2> QED
    BY <2>1, <2>3
<1>3. pos' = EndAt(Len(tokens))'
  BY <1>1 DEF EndAt
<1> QED
  BY <1>1, <1>2, <1>3 DEF LInv

-----------------------------------------------------------------------------
(* The files of a run.                                                      *)

FrontPhases == {"read", "lex", "parse", "imports", "check", "lower"}
CPhases == {"write_c", "cc", "remove_c"}
LA64Phases ==
    {"write_s", "runtime", "as", "as_rt", "ld", "remove_o", "remove_rt", "remove_s"}

DriverTypeOK ==
    /\ cli \in Invocation
    /\ phase \in FrontPhases \cup CPhases \cup LA64Phases
    /\ exit \in {"running", "ok", "error"}
    /\ disk \in [Paths -> Contents]

(* What has been accepted when a phase begins.                              *)
Order ==
    /\ exit = "running" =>
          /\ phase \in {"read", "lex"} => passed = {}
          /\ phase = "parse" => passed = {"lex"}
          /\ phase = "imports" => passed = {"lex", "parse"}
          /\ phase = "check" => passed = {"lex", "parse", "imports"}
          /\ phase = "lower" => passed = {"lex", "parse", "imports", "check"}
    /\ phase \notin {"read", "lex"} => lexed = "ok"
    /\ phase \in CPhases \cup LA64Phases => passed = {"lex", "parse", "imports", "check"}

(* Which command lines come this far.                                       *)
Options ==
    /\ phase \in FrontPhases => disk = Before
    /\ exit = "ok" /\ phase \in FrontPhases => cli.dump # "none"
    /\ phase \notin {"read", "lex"} => cli.dump # "tokens"
    /\ phase \notin {"read", "lex", "parse", "imports"} => cli.dump # "ast"
    /\ phase \in CPhases \cup LA64Phases => cli.dump = "none"
    /\ phase \in CPhases => cli.target = "c"
    /\ phase \in LA64Phases => cli.target = "la64"
    /\ phase \in (CPhases \cup LA64Phases) \ {"write_c", "write_s"} => ~cli.emit_only

Removed(p, kept, d) == p \in kept \/ d[p] = "absent"

(* What the backends have done when they remove their files. *)
Progress ==
    /\ exit = "ok" /\ phase = "write_c" => cli.emit_only /\ disk[CPath] = "C"
    /\ exit = "ok" /\ phase = "write_s" => cli.emit_only /\ disk[AsmPath] = "assembly"
    /\ exit = "ok" => phase \in FrontPhases \cup {"write_c", "write_s", "remove_c", "remove_s"}
    /\ phase \in {"remove_c", "remove_o", "remove_rt", "remove_s"} =>
          (BaseOut \notin Intermediates => disk[BaseOut] = "program")
    /\ phase = "remove_c" /\ exit = "ok" => Removed(CPath, undeleted, disk)
    /\ phase \in {"remove_rt", "remove_s"} => Removed(ObjPath, undeleted, disk)
    /\ phase = "remove_s" => Removed(RtObj, undeleted, disk)
    /\ phase = "remove_s" /\ exit = "ok" => Removed(AsmPath, undeleted, disk)

DInv == DriverTypeOK /\ Order /\ Options /\ TouchesOnlyProducts /\ Progress

-----------------------------------------------------------------------------
(* Where the files of a run are.                                            *)

LEMMA WithExtensionPath ==
  ASSUME NEW p \in Paths, NEW ext \in Extensions
  PROVE  WithExtension(p, ext) \in Paths
  BY DEF WithExtension, Paths

LEMMA BaseOutPath == cli \in Invocation => BaseOut \in Paths
<1> SUFFICES ASSUME cli \in Invocation PROVE BaseOut \in Paths
  OBVIOUS
<1>1. cli.input \in Paths /\ cli.output \in Paths \cup {NoPath}
  BY DEF Invocation
<1>2. QED
  BY <1>1, WithExtensionPath DEF BaseOut, Extensions

LEMMA Places ==
  cli \in Invocation =>
     /\ BaseOut \in Paths /\ CPath \in Paths /\ AsmPath \in Paths
     /\ ObjPath \in Paths /\ RtObj \in Paths
<1> SUFFICES ASSUME cli \in Invocation
             PROVE /\ BaseOut \in Paths /\ CPath \in Paths /\ AsmPath \in Paths
                   /\ ObjPath \in Paths /\ RtObj \in Paths
  OBVIOUS
<1>1. BaseOut \in Paths
  BY BaseOutPath
<1>2. QED
  BY <1>1, WithExtensionPath DEF CPath, AsmPath, ObjPath, RtObj, Extensions

LEMMA DistinctPlaces ==
  AsmPath # ObjPath /\ AsmPath # RtObj /\ ObjPath # RtObj
<1>1. ASSUME NEW p, NEW a, NEW b, WithExtension(p, a) = WithExtension(p, b) PROVE a = b
  BY <1>1 DEF WithExtension
<1>2. QED
  BY <1>1 DEF AsmPath, ObjPath, RtObj

(* The command line does not change, and the places with it. *)
LEMMA SamePlaces ==
  ASSUME UNCHANGED cli
  PROVE  /\ BaseOut' = BaseOut /\ CPath' = CPath /\ AsmPath' = AsmPath
         /\ ObjPath' = ObjPath /\ RtObj' = RtObj /\ Before' = Before
         /\ Intermediates' = Intermediates /\ Products' = Products
  BY DEF BaseOut, CPath, AsmPath, ObjPath, RtObj, Before, Intermediates, Products, Listing

-----------------------------------------------------------------------------
(* The front end changes no file.                                           *)

LEMMA DInvInit == DriverInit => DInv
<1> SUFFICES ASSUME DriverInit PROVE DInv
  OBVIOUS
<1>1. cli \in Invocation
  BY InvocationsAssumption DEF DriverInit
<1>2. disk = Before /\ disk \in [Paths -> Contents]
  BY <1>1 DEF DriverInit, Before, Invocation, Contents
<1>3. phase = "read" /\ exit = "running" /\ passed = {}
  BY DEF DriverInit
<1>4. DriverTypeOK
  BY <1>1, <1>2, <1>3 DEF DriverTypeOK, FrontPhases
<1>5. Order /\ Options /\ Progress
  BY <1>2, <1>3 DEF Order, Options, Progress, FrontPhases, CPhases, LA64Phases
<1>6. TouchesOnlyProducts
  BY <1>2 DEF TouchesOnlyProducts
<1> QED
  BY <1>4, <1>5, <1>6 DEF DInv

(* A step that leaves the disk and the command line alone keeps what is     *)
(* said of files before the removals.                                       *)
LEMMA SameDisk ==
  ASSUME DInv, UNCHANGED <<cli, disk, undeleted>>,
         phase \in FrontPhases, exit' \in {"running", "ok", "error"},
         phase' \in FrontPhases \cup {"write_c", "write_s"},
         exit' = "ok" => phase' \in FrontPhases
  PROVE  DriverTypeOK' /\ TouchesOnlyProducts' /\ Progress'
<1>1. DriverTypeOK'
  BY DEF DInv, DriverTypeOK, FrontPhases, CPhases, LA64Phases
<1>2. TouchesOnlyProducts'
  BY SamePlaces DEF DInv, TouchesOnlyProducts
<1>3. Progress'
  BY DEF Progress, FrontPhases
<1> QED
  BY <1>1, <1>2, <1>3

LEMMA ReadSourceKeeps == DInv /\ ReadSource => DInv'
<1> SUFFICES ASSUME DInv, ReadSource PROVE DInv'
  OBVIOUS
<1>1. /\ UNCHANGED <<cli, disk, undeleted, lexed, passed>> /\ phase = "read" /\ exit = "running"
      /\ \/ phase' = "lex" /\ exit' = "running"
         \/ phase' = "read" /\ exit' = "error"
  BY DEF ReadSource, In, Proceed, Leave, lexVars
<1>2. DriverTypeOK' /\ TouchesOnlyProducts' /\ Progress'
  BY <1>1, SameDisk DEF FrontPhases
<1>3. Order' /\ Options'
  BY <1>1, SamePlaces DEF DInv, Order, Options, FrontPhases, CPhases, LA64Phases
<1> QED
  BY <1>2, <1>3 DEF DInv

LEMMA LexKeeps == DInv /\ Lex => DInv'
<1> SUFFICES ASSUME DInv, Lex PROVE DInv'
  OBVIOUS
<1>1. /\ UNCHANGED <<cli, disk, undeleted, passed, phase, exit>>
      /\ phase = "lex" /\ exit = "running"
  BY DEF Lex, In, driverVars
<1>2. DriverTypeOK' /\ TouchesOnlyProducts' /\ Progress'
  BY <1>1, SameDisk DEF FrontPhases
<1>3. Order' /\ Options'
  BY <1>1, SamePlaces DEF DInv, Order, Options, FrontPhases, CPhases, LA64Phases
<1> QED
  BY <1>2, <1>3 DEF DInv

LEMMA EndLexKeeps == DInv /\ EndLex => DInv'
<1> SUFFICES ASSUME DInv, EndLex PROVE DInv'
  OBVIOUS
<1>1. /\ UNCHANGED <<cli, disk, undeleted, lexed>> /\ phase = "lex" /\ exit = "running"
      /\ \/ phase' = "lex" /\ exit' = "error"
         \/ phase' = "lex" /\ exit' = "ok" /\ cli.dump = "tokens"
         \/ /\ phase' = "parse" /\ exit' = "running" /\ passed' = {"lex"}
            /\ lexed = "ok" /\ cli.dump # "tokens"
  BY DEF EndLex, In, Proceed, Leave, lexVars
<1>2. DriverTypeOK' /\ TouchesOnlyProducts' /\ Progress'
  BY <1>1, SameDisk DEF FrontPhases
<1>3. Order' /\ Options'
  BY <1>1, SamePlaces DEF DInv, Order, Options, FrontPhases, CPhases, LA64Phases
<1> QED
  BY <1>2, <1>3 DEF DInv

LEMMA ParseKeeps == DInv /\ Parse => DInv'
<1> SUFFICES ASSUME DInv, Parse PROVE DInv'
  OBVIOUS
<1>1. /\ UNCHANGED <<cli, disk, undeleted, lexed>> /\ phase = "parse" /\ exit = "running"
      /\ \/ phase' = "parse" /\ exit' = "error"
         \/ phase' = "imports" /\ exit' = "running" /\ passed' = passed \cup {"parse"}
  BY DEF Parse, Accept, In, Proceed, Leave
<1>2. DriverTypeOK' /\ TouchesOnlyProducts' /\ Progress'
  BY <1>1, SameDisk DEF FrontPhases
<1>3. Order' /\ Options'
  BY <1>1, SamePlaces DEF DInv, Order, Options, FrontPhases, CPhases, LA64Phases
<1> QED
  BY <1>2, <1>3 DEF DInv

LEMMA ResolveImportsKeeps == DInv /\ ResolveImports => DInv'
<1> SUFFICES ASSUME DInv, ResolveImports PROVE DInv'
  OBVIOUS
<1>1. /\ UNCHANGED <<cli, disk, undeleted, lexed>> /\ phase = "imports" /\ exit = "running"
      /\ \/ phase' = "imports" /\ exit' = "error"
         \/ phase' = "imports" /\ exit' = "ok" /\ cli.dump = "ast"
         \/ /\ phase' = "check" /\ exit' = "running" /\ passed' = passed \cup {"imports"}
            /\ cli.dump # "ast"
  BY DEF ResolveImports, Accept, In, Proceed, Leave, lexVars
<1>2. DriverTypeOK' /\ TouchesOnlyProducts' /\ Progress'
  BY <1>1, SameDisk DEF FrontPhases
<1>3. Order' /\ Options'
  BY <1>1, SamePlaces DEF DInv, Order, Options, FrontPhases, CPhases, LA64Phases
<1> QED
  BY <1>2, <1>3 DEF DInv

LEMMA CheckKeeps == DInv /\ Check => DInv'
<1> SUFFICES ASSUME DInv, Check PROVE DInv'
  OBVIOUS
<1>1. /\ UNCHANGED <<cli, disk, undeleted, lexed>> /\ phase = "check" /\ exit = "running"
      /\ \/ phase' = "check" /\ exit' = "error"
         \/ phase' = "lower" /\ exit' = "running" /\ passed' = passed \cup {"check"}
  BY DEF Check, Accept, In, Proceed, Leave
<1>2. DriverTypeOK' /\ TouchesOnlyProducts' /\ Progress'
  BY <1>1, SameDisk DEF FrontPhases
<1>3. Order' /\ Options'
  BY <1>1, SamePlaces DEF DInv, Order, Options, FrontPhases, CPhases, LA64Phases
<1> QED
  BY <1>2, <1>3 DEF DInv

LEMMA LowerKeeps == DInv /\ Lower => DInv'
<1> SUFFICES ASSUME DInv, Lower PROVE DInv'
  OBVIOUS
<1>1. /\ UNCHANGED <<cli, disk, undeleted, lexed, passed>> /\ phase = "lower" /\ exit = "running"
      /\ \/ phase' = "lower" /\ exit' = "ok" /\ cli.dump = "ir"
         \/ phase' = "lower" /\ exit' = "error"
         \/ phase' = "write_c" /\ exit' = "running" /\ cli.target = "c" /\ cli.dump # "ir"
         \/ phase' = "write_s" /\ exit' = "running" /\ cli.target = "la64" /\ cli.dump # "ir"
  BY DEF Lower, In, Proceed, Leave, lexVars
<1>2. DriverTypeOK' /\ TouchesOnlyProducts' /\ Progress'
  BY <1>1, SameDisk DEF FrontPhases
<1>3. cli.dump \in {"none", "tokens", "ast", "ir"}
  BY DEF DInv, DriverTypeOK, Invocation
<1>4. Order' /\ Options'
  BY <1>1, <1>3, SamePlaces DEF DInv, Order, Options, FrontPhases, CPhases, LA64Phases
<1> QED
  BY <1>2, <1>4 DEF DInv

-----------------------------------------------------------------------------
(* The backends change one of their products in each step.                  *)

BackPhases == CPhases \cup LA64Phases

LEMMA ProductStep ==
  ASSUME DInv, UNCHANGED <<cli, lexed, passed>>,
         NEW p \in Products, p \in Paths, NEW c \in Contents, Put(p, c),
         phase \in BackPhases, phase' \in BackPhases, exit' \in {"running", "ok", "error"},
         phase \in CPhases <=> phase' \in CPhases,
         phase' = phase \/ ~cli.emit_only
  PROVE  DriverTypeOK' /\ Order' /\ Options' /\ TouchesOnlyProducts'
<1>1. DriverTypeOK'
  BY DEF DInv, DriverTypeOK, BackPhases, Put
<1>2. Order'
  BY DEF DInv, Order, BackPhases, CPhases, LA64Phases
<1>3. Options'
  BY SamePlaces DEF DInv, Options, BackPhases, CPhases, LA64Phases, FrontPhases
<1>4. TouchesOnlyProducts'
  BY SamePlaces DEF DInv, TouchesOnlyProducts, Put, DriverTypeOK
<1> QED
  BY <1>1, <1>2, <1>3, <1>4

(* What a tool or a write does: its product, or an error and a wreck.       *)
LEMMA ToolStep ==
  ASSUME DInv, NEW p \in Paths, NEW c \in Contents, NEW next \in BackPhases,
         NEW inputs, RunTool(inputs, p, c, Proceed(next)), exit = "running"
  PROVE  /\ UNCHANGED <<cli, lexed, passed, undeleted>>
         /\ \E left \in Contents :
               /\ Put(p, left)
               /\ \/ left = c /\ phase' = next /\ exit' = "running"
                  \/ phase' = phase /\ exit' = "error"
<1>1. disk[p] \in Contents
  BY DEF DInv, DriverTypeOK
<1>2. QED
  BY <1>1 DEF RunTool, Proceed, Leave, lexVars, Contents

LEMMA WriteStep ==
  ASSUME DInv, NEW p \in Paths, NEW c \in Contents, NEW next \in BackPhases,
         Produce(p, c, Emitted(next)), exit = "running"
  PROVE  /\ UNCHANGED <<cli, lexed, passed, undeleted>>
         /\ \E left \in Contents :
               /\ Put(p, left)
               /\ \/ left = c /\ phase' = next /\ exit' = "running" /\ ~cli.emit_only
                  \/ left = c /\ phase' = phase /\ exit' = "ok" /\ cli.emit_only
                  \/ phase' = phase /\ exit' = "error"
<1>1. disk[p] \in Contents
  BY DEF DInv, DriverTypeOK
<1>2. cli.emit_only \in BOOLEAN
  BY DEF DInv, DriverTypeOK, Invocation
<1>3. QED
  BY <1>1, <1>2 DEF Produce, RunTool, Emitted, Proceed, Leave, lexVars, Contents

LEMMA BackProducts ==
  ASSUME DInv
  PROVE  /\ phase \in CPhases => CPath \in Products
         /\ phase \in LA64Phases => AsmPath \in Products
         /\ phase \in {"cc", "remove_c"} => BaseOut \in Products
         /\ phase \in LA64Phases \ {"write_s"} => {ObjPath, RtObj, BaseOut} \subseteq Products
  BY DEF DInv, Options, Products, Listing, Intermediates, CPhases, LA64Phases

LEMMA DInvPlaces ==
  DInv => /\ BaseOut \in Paths /\ CPath \in Paths /\ AsmPath \in Paths
          /\ ObjPath \in Paths /\ RtObj \in Paths
  BY Places DEF DInv, DriverTypeOK

LEMMA WriteCKeeps == DInv /\ WriteC => DInv'
<1> SUFFICES ASSUME DInv, WriteC PROVE DInv'
  OBVIOUS
<1>1. phase = "write_c" /\ exit = "running" /\ CPath \in Paths /\ CPath \in Products
  BY DInvPlaces, BackProducts DEF WriteC, In, CPhases
<1>2. /\ UNCHANGED <<cli, lexed, passed, undeleted>>
      /\ \E left \in Contents :
            /\ Put(CPath, left)
            /\ \/ left = "C" /\ phase' = "cc" /\ exit' = "running" /\ ~cli.emit_only
               \/ left = "C" /\ phase' = phase /\ exit' = "ok" /\ cli.emit_only
               \/ phase' = phase /\ exit' = "error"
  BY <1>1, WriteStep DEF WriteC, Contents, BackPhases, CPhases
<1>3. DriverTypeOK' /\ Order' /\ Options' /\ TouchesOnlyProducts'
  BY <1>1, <1>2, ProductStep DEF BackPhases, CPhases
<1>4. Progress'
  BY <1>1, <1>2, SamePlaces DEF DInv, DriverTypeOK, Progress, Put, FrontPhases
<1> QED
  BY <1>3, <1>4 DEF DInv

LEMMA RunCcKeeps == DInv /\ RunCc => DInv'
<1> SUFFICES ASSUME DInv, RunCc PROVE DInv'
  OBVIOUS
<1>1. phase = "cc" /\ exit = "running" /\ BaseOut \in Paths /\ BaseOut \in Products
  BY DInvPlaces, BackProducts DEF RunCc, In
<1>2. /\ UNCHANGED <<cli, lexed, passed, undeleted>>
      /\ \E left \in Contents :
            /\ Put(BaseOut, left)
            /\ \/ left = "program" /\ phase' = "remove_c" /\ exit' = "running"
               \/ phase' = phase /\ exit' = "error"
  BY <1>1, ToolStep DEF RunCc, Contents, BackPhases, CPhases
<1>3. ~cli.emit_only
  BY <1>1 DEF DInv, Options, CPhases
<1>4. DriverTypeOK' /\ Order' /\ Options' /\ TouchesOnlyProducts'
  BY <1>1, <1>2, <1>3, ProductStep DEF BackPhases, CPhases
<1>5. Progress'
  BY <1>1, <1>2, SamePlaces DEF DInv, DriverTypeOK, Progress, Put, FrontPhases
<1> QED
  BY <1>4, <1>5 DEF DInv

LEMMA WriteAsmKeeps == DInv /\ WriteAsm => DInv'
<1> SUFFICES ASSUME DInv, WriteAsm PROVE DInv'
  OBVIOUS
<1>1. phase = "write_s" /\ exit = "running" /\ AsmPath \in Paths /\ AsmPath \in Products
  BY DInvPlaces, BackProducts DEF WriteAsm, In, LA64Phases
<1>2. /\ UNCHANGED <<cli, lexed, passed, undeleted>>
      /\ \E left \in Contents :
            /\ Put(AsmPath, left)
            /\ \/ left = "assembly" /\ phase' = "runtime" /\ exit' = "running" /\ ~cli.emit_only
               \/ left = "assembly" /\ phase' = phase /\ exit' = "ok" /\ cli.emit_only
               \/ phase' = phase /\ exit' = "error"
  BY <1>1, WriteStep DEF WriteAsm, Contents, BackPhases, LA64Phases
<1>3. DriverTypeOK' /\ Order' /\ Options' /\ TouchesOnlyProducts'
  BY <1>1, <1>2, ProductStep DEF BackPhases, CPhases, LA64Phases
<1>4. Progress'
  BY <1>1, <1>2, SamePlaces DEF DInv, DriverTypeOK, Progress, Put, FrontPhases
<1> QED
  BY <1>3, <1>4 DEF DInv

LEMMA FindRuntimeKeeps == DInv /\ FindRuntime => DInv'
<1> SUFFICES ASSUME DInv, FindRuntime PROVE DInv'
  OBVIOUS
<1>1. /\ phase = "runtime" /\ exit = "running"
      /\ UNCHANGED <<cli, lexed, passed, disk, undeleted>>
      /\ \/ phase' = "as" /\ exit' = "running"
         \/ phase' = phase /\ exit' = "error"
  BY DEF FindRuntime, In, Proceed, Leave, lexVars
<1>2. DriverTypeOK' /\ TouchesOnlyProducts'
  BY <1>1, SamePlaces DEF DInv, DriverTypeOK, TouchesOnlyProducts, LA64Phases
<1>3. Order'
  BY <1>1 DEF DInv, Order, CPhases, LA64Phases
<1>4. Options'
  BY <1>1, SamePlaces DEF DInv, Options, CPhases, LA64Phases, FrontPhases
<1>5. Progress'
  BY <1>1, SamePlaces DEF DInv, Progress, FrontPhases
<1> QED
  BY <1>2, <1>3, <1>4, <1>5 DEF DInv

LEMMA AssembleKeeps == DInv /\ Assemble => DInv'
<1> SUFFICES ASSUME DInv, Assemble PROVE DInv'
  OBVIOUS
<1>1. phase = "as" /\ exit = "running" /\ ObjPath \in Paths /\ ObjPath \in Products
  BY DInvPlaces, BackProducts DEF Assemble, In, LA64Phases
<1>2. /\ UNCHANGED <<cli, lexed, passed, undeleted>>
      /\ \E left \in Contents :
            /\ Put(ObjPath, left)
            /\ \/ left = "object" /\ phase' = "as_rt" /\ exit' = "running"
               \/ phase' = phase /\ exit' = "error"
  BY <1>1, ToolStep DEF Assemble, Contents, BackPhases, LA64Phases
<1>3. ~cli.emit_only
  BY <1>1 DEF DInv, Options, LA64Phases
<1>4. DriverTypeOK' /\ Order' /\ Options' /\ TouchesOnlyProducts'
  BY <1>1, <1>2, <1>3, ProductStep DEF BackPhases, CPhases, LA64Phases
<1>5. Progress'
  BY <1>1, <1>2, SamePlaces DEF DInv, DriverTypeOK, Progress, Put, FrontPhases
<1> QED
  BY <1>4, <1>5 DEF DInv

LEMMA AssembleRuntimeKeeps == DInv /\ AssembleRuntime => DInv'
<1> SUFFICES ASSUME DInv, AssembleRuntime PROVE DInv'
  OBVIOUS
<1>1. phase = "as_rt" /\ exit = "running" /\ RtObj \in Paths /\ RtObj \in Products
  BY DInvPlaces, BackProducts DEF AssembleRuntime, In, LA64Phases
<1>2. /\ UNCHANGED <<cli, lexed, passed, undeleted>>
      /\ \E left \in Contents :
            /\ Put(RtObj, left)
            /\ \/ left = "runtime" /\ phase' = "ld" /\ exit' = "running"
               \/ phase' = phase /\ exit' = "error"
  BY <1>1, ToolStep DEF AssembleRuntime, Produce, Contents, BackPhases, LA64Phases
<1>3. ~cli.emit_only
  BY <1>1 DEF DInv, Options, LA64Phases
<1>4. DriverTypeOK' /\ Order' /\ Options' /\ TouchesOnlyProducts'
  BY <1>1, <1>2, <1>3, ProductStep DEF BackPhases, CPhases, LA64Phases
<1>5. Progress'
  BY <1>1, <1>2, SamePlaces DEF DInv, DriverTypeOK, Progress, Put, FrontPhases
<1> QED
  BY <1>4, <1>5 DEF DInv

LEMMA LinkKeeps == DInv /\ Link => DInv'
<1> SUFFICES ASSUME DInv, Link PROVE DInv'
  OBVIOUS
<1>1. phase = "ld" /\ exit = "running" /\ BaseOut \in Paths /\ BaseOut \in Products
  BY DInvPlaces, BackProducts DEF Link, In, LA64Phases
<1>2. /\ UNCHANGED <<cli, lexed, passed, undeleted>>
      /\ \E left \in Contents :
            /\ Put(BaseOut, left)
            /\ \/ left = "program" /\ phase' = "remove_o" /\ exit' = "running"
               \/ phase' = phase /\ exit' = "error"
  BY <1>1, ToolStep DEF Link, Contents, BackPhases, LA64Phases
<1>3. ~cli.emit_only
  BY <1>1 DEF DInv, Options, LA64Phases
<1>4. DriverTypeOK' /\ Order' /\ Options' /\ TouchesOnlyProducts'
  BY <1>1, <1>2, <1>3, ProductStep DEF BackPhases, CPhases, LA64Phases
<1>5. Progress'
  BY <1>1, <1>2, SamePlaces DEF DInv, DriverTypeOK, Progress, Put, FrontPhases
<1> QED
  BY <1>4, <1>5 DEF DInv

-----------------------------------------------------------------------------
(* The removals: a file that is removed stays so, and the program is not    *)
(* among them unless it is named like one.                                  *)

LEMMA RemovalKeeps ==
  ASSUME DInv, NEW p \in Paths, p \in Intermediates, p \in Products, exit = "running",
         phase \in {"remove_c", "remove_o", "remove_rt", "remove_s"},
         UNCHANGED <<cli, lexed, passed>>,
         \/ Put(p, "absent") /\ UNCHANGED undeleted
         \/ UNCHANGED disk /\ undeleted' = undeleted \cup {p}
  PROVE  /\ \A q \in Paths : Removed(q, undeleted, disk) => Removed(q, undeleted', disk')
         /\ Removed(p, undeleted', disk')
         /\ BaseOut \notin Intermediates => disk'[BaseOut] = "program"
         /\ \E c \in Contents : Put(p, c)
<1>1. disk \in [Paths -> Contents]
  BY DEF DInv, DriverTypeOK
<1>2. \A q \in Paths : Removed(q, undeleted, disk) => Removed(q, undeleted', disk')
  BY <1>1 DEF Removed, Put
<1>3. Removed(p, undeleted', disk')
  BY <1>1 DEF Removed, Put
<1>4. BaseOut \notin Intermediates => disk'[BaseOut] = "program"
  BY <1>1, DInvPlaces DEF DInv, Progress, Put
<1>5. \E c \in Contents : Put(p, c)
  <2>1. CASE Put(p, "absent")
    BY <2>1 DEF Contents
  <2>2. CASE UNCHANGED disk
    <3>1. Put(p, disk[p])
      BY <1>1, <2>2 DEF Put
    <3>2. QED
      BY <1>1, <3>1
  <2>3. QED
    BY <2>1, <2>2
<1> QED
  BY <1>2, <1>3, <1>4, <1>5

LEMMA RemoveCKeeps == DInv /\ RemoveC => DInv'
<1> SUFFICES ASSUME DInv, RemoveC PROVE DInv'
  OBVIOUS
<1>1. /\ phase = "remove_c" /\ exit = "running"
      /\ phase' = "remove_c" /\ exit' = "ok" /\ UNCHANGED <<cli, lexed, passed>>
      /\ \/ Put(CPath, "absent") /\ UNCHANGED undeleted
         \/ UNCHANGED disk /\ undeleted' = undeleted \cup {CPath}
  BY DEF RemoveC, RemoveFile, In, Proceed, Leave, lexVars
<1>2. CPath \in Paths /\ CPath \in Products /\ CPath \in Intermediates /\ ~cli.emit_only
  BY <1>1, DInvPlaces, BackProducts DEF DInv, Options, Intermediates, CPhases, LA64Phases
<1>3. /\ \A q \in Paths : Removed(q, undeleted, disk) => Removed(q, undeleted', disk')
      /\ Removed(CPath, undeleted', disk')
      /\ BaseOut \notin Intermediates => disk'[BaseOut] = "program"
      /\ \E c \in Contents : Put(CPath, c)
  BY <1>1, <1>2, RemovalKeeps
<1>4. DriverTypeOK' /\ Order' /\ Options' /\ TouchesOnlyProducts'
  BY <1>1, <1>2, <1>3, ProductStep DEF BackPhases, CPhases, LA64Phases
<1>5. Progress'
  BY <1>1, <1>3, DInvPlaces, SamePlaces DEF DInv, Progress, FrontPhases
<1> QED
  BY <1>4, <1>5 DEF DInv

LEMMA RemoveObjKeeps == DInv /\ RemoveObj => DInv'
<1> SUFFICES ASSUME DInv, RemoveObj PROVE DInv'
  OBVIOUS
<1>1. /\ phase = "remove_o" /\ exit = "running"
      /\ phase' = "remove_rt" /\ exit' = "running" /\ UNCHANGED <<cli, lexed, passed>>
      /\ \/ Put(ObjPath, "absent") /\ UNCHANGED undeleted
         \/ UNCHANGED disk /\ undeleted' = undeleted \cup {ObjPath}
  BY DEF RemoveObj, RemoveFile, In, Proceed, Leave, lexVars
<1>2. ObjPath \in Paths /\ ObjPath \in Products /\ ObjPath \in Intermediates /\ ~cli.emit_only
  BY <1>1, DInvPlaces, BackProducts DEF DInv, Options, Intermediates, CPhases, LA64Phases
<1>3. /\ \A q \in Paths : Removed(q, undeleted, disk) => Removed(q, undeleted', disk')
      /\ Removed(ObjPath, undeleted', disk')
      /\ BaseOut \notin Intermediates => disk'[BaseOut] = "program"
      /\ \E c \in Contents : Put(ObjPath, c)
  BY <1>1, <1>2, RemovalKeeps
<1>4. DriverTypeOK' /\ Order' /\ Options' /\ TouchesOnlyProducts'
  BY <1>1, <1>2, <1>3, ProductStep DEF BackPhases, CPhases, LA64Phases
<1>5. Progress'
  BY <1>1, <1>3, DInvPlaces, SamePlaces DEF DInv, Progress, FrontPhases
<1> QED
  BY <1>4, <1>5 DEF DInv

LEMMA RemoveRtKeeps == DInv /\ RemoveRt => DInv'
<1> SUFFICES ASSUME DInv, RemoveRt PROVE DInv'
  OBVIOUS
<1>1. /\ phase = "remove_rt" /\ exit = "running"
      /\ phase' = "remove_s" /\ exit' = "running" /\ UNCHANGED <<cli, lexed, passed>>
      /\ \/ Put(RtObj, "absent") /\ UNCHANGED undeleted
         \/ UNCHANGED disk /\ undeleted' = undeleted \cup {RtObj}
  BY DEF RemoveRt, RemoveFile, In, Proceed, Leave, lexVars
<1>2. RtObj \in Paths /\ RtObj \in Products /\ RtObj \in Intermediates /\ ~cli.emit_only
  BY <1>1, DInvPlaces, BackProducts DEF DInv, Options, Intermediates, CPhases, LA64Phases
<1>3. /\ \A q \in Paths : Removed(q, undeleted, disk) => Removed(q, undeleted', disk')
      /\ Removed(RtObj, undeleted', disk')
      /\ BaseOut \notin Intermediates => disk'[BaseOut] = "program"
      /\ \E c \in Contents : Put(RtObj, c)
  BY <1>1, <1>2, RemovalKeeps
<1>4. DriverTypeOK' /\ Order' /\ Options' /\ TouchesOnlyProducts'
  BY <1>1, <1>2, <1>3, ProductStep DEF BackPhases, CPhases, LA64Phases
<1>5. Progress'
  BY <1>1, <1>3, DInvPlaces, SamePlaces DEF DInv, Progress, FrontPhases
<1> QED
  BY <1>4, <1>5 DEF DInv

LEMMA RemoveAsmKeeps == DInv /\ RemoveAsm => DInv'
<1> SUFFICES ASSUME DInv, RemoveAsm PROVE DInv'
  OBVIOUS
<1>1. /\ phase = "remove_s" /\ exit = "running"
      /\ phase' = "remove_s" /\ exit' = "ok" /\ UNCHANGED <<cli, lexed, passed>>
      /\ \/ Put(AsmPath, "absent") /\ UNCHANGED undeleted
         \/ UNCHANGED disk /\ undeleted' = undeleted \cup {AsmPath}
  BY DEF RemoveAsm, RemoveFile, In, Proceed, Leave, lexVars
<1>2. AsmPath \in Paths /\ AsmPath \in Products /\ AsmPath \in Intermediates /\ ~cli.emit_only
  BY <1>1, DInvPlaces, BackProducts DEF DInv, Options, Intermediates, CPhases, LA64Phases
<1>3. /\ \A q \in Paths : Removed(q, undeleted, disk) => Removed(q, undeleted', disk')
      /\ Removed(AsmPath, undeleted', disk')
      /\ BaseOut \notin Intermediates => disk'[BaseOut] = "program"
      /\ \E c \in Contents : Put(AsmPath, c)
  BY <1>1, <1>2, RemovalKeeps
<1>4. DriverTypeOK' /\ Order' /\ Options' /\ TouchesOnlyProducts'
  BY <1>1, <1>2, <1>3, ProductStep DEF BackPhases, CPhases, LA64Phases
<1>5. Progress'
  BY <1>1, <1>3, DInvPlaces, SamePlaces DEF DInv, Progress, FrontPhases
<1> QED
  BY <1>4, <1>5 DEF DInv

-----------------------------------------------------------------------------
LEMMA DInvInductive == DInv /\ [DriverNext]_allVars => DInv'
<1> SUFFICES ASSUME DInv, [DriverNext]_allVars PROVE DInv'
  OBVIOUS
<1>1. CASE FrontEnd
  BY <1>1, ReadSourceKeeps, LexKeeps, EndLexKeeps, ParseKeeps, ResolveImportsKeeps,
     CheckKeeps, LowerKeeps DEF FrontEnd
<1>2. CASE WriteC \/ RunCc \/ RemoveC
  BY <1>2, WriteCKeeps, RunCcKeeps, RemoveCKeeps
<1>3. CASE WriteAsm \/ FindRuntime \/ Assemble \/ AssembleRuntime \/ Link
  BY <1>3, WriteAsmKeeps, FindRuntimeKeeps, AssembleKeeps, AssembleRuntimeKeeps, LinkKeeps
<1>4. CASE RemoveObj \/ RemoveRt \/ RemoveAsm
  BY <1>4, RemoveObjKeeps, RemoveRtKeeps, RemoveAsmKeeps
<1>5. CASE UNCHANGED allVars
  <2>1. UNCHANGED <<lexed, cli, phase, exit, disk, passed, undeleted>>
    BY <1>5 DEF allVars, lexVars, driverVars
  <2>2. DriverTypeOK' /\ Order' /\ Options'
    BY <2>1, SamePlaces DEF DInv, DriverTypeOK, Order, Options
  <2>3. TouchesOnlyProducts' /\ Progress'
    BY <2>1, SamePlaces DEF DInv, TouchesOnlyProducts, Progress
  <2> QED
    BY <2>2, <2>3 DEF DInv
<1> QED
  BY <1>1, <1>2, <1>3, <1>4, <1>5 DEF DriverNext, Backend

LEMMA DInvHolds == DriverSpec => []DInv
  BY DInvInit, DInvInductive, PTL DEF DriverSpec

(* However a run ends, with whatever tool failing half way, no file has     *)
(* changed but those it is asked to make.                                   *)
THEOREM OnlyProductsTouched == DriverSpec => []TouchesOnlyProducts
<1>1. DInv => TouchesOnlyProducts
  BY DEF DInv
<1> QED
  BY <1>1, DInvHolds, PTL

(* The disk changes only for a program that the lexer, the parser, import   *)
(* resolution and the type checker have accepted.                           *)
THEOREM AcceptedBeforeWritten == DriverSpec => []WritesOnlyAccepted
<1>1. DInv => WritesOnlyAccepted
  BY DEF DInv, DriverTypeOK, Order, Options, WritesOnlyAccepted,
         FrontPhases, CPhases, LA64Phases
<1> QED
  BY <1>1, DInvHolds, PTL

(* A run that reports success has delivered what was asked for, and what it *)
(* made in between is gone: no step that failed is overlooked on the way.   *)
THEOREM SuccessIsDelivery == DriverSpec => []SuccessDelivers
<1>1. DInv => SuccessDelivers
  <2> SUFFICES ASSUME DInv, exit = "ok"
               PROVE  IF cli.dump # "none" THEN disk = Before
                      ELSE IF cli.emit_only
                           THEN disk[Listing] = (IF cli.target = "c" THEN "C" ELSE "assembly")
                      ELSE /\ BaseOut \notin Intermediates => disk[BaseOut] = "program"
                           /\ \A p \in Intermediates \ undeleted : disk[p] = "absent"
    BY DEF SuccessDelivers
  <2>1. phase \in FrontPhases \cup {"write_c", "write_s", "remove_c", "remove_s"}
    BY DEF DInv, Progress
  <2>2. CASE phase \in FrontPhases
    BY <2>2 DEF DInv, Options
  <2>3. CASE phase = "write_c"
    BY <2>3 DEF DInv, Options, Progress, Listing, CPhases
  <2>4. CASE phase = "write_s"
    BY <2>4 DEF DInv, Options, Progress, Listing, LA64Phases
  <2>5. CASE phase = "remove_c"
    BY <2>5 DEF DInv, Options, Progress, Intermediates, Removed, CPhases
  <2>6. CASE phase = "remove_s"
    BY <2>6 DEF DInv, Options, Progress, Intermediates, Removed, LA64Phases
  <2> QED
    BY <2>1, <2>2, <2>3, <2>4, <2>5, <2>6
<1> QED
  BY <1>1, DInvHolds, PTL

-----------------------------------------------------------------------------
(* The lexer in a run of rymc.                                              *)

(* When the parser has taken the tokens there are none.                     *)
DLInv ==
    /\ DInv
    /\ LInv
    /\ phase \notin {"read", "lex", "parse"} => tokens = <<>> /\ pos = 0

LEMMA DLInvInit == DriverInit => DLInv
<1> SUFFICES ASSUME DriverInit PROVE DLInv
  OBVIOUS
<1>1. DInv
  BY DInvInit
<1>2. phase = "read" /\ src \in Seq(STRING) /\ pos = 0 /\ tokens = <<>> /\ lexed = "lexing"
  BY SourcesAssumption DEF DriverInit, LexInit
<1>3. LInv
  BY <1>2, NoTokens
<1> QED
  BY <1>1, <1>2, <1>3 DEF DLInv

(* What follows the type checker does not look at the lexer any more.       *)
LEMMA BackendLexes ==
  ASSUME DInv, Backend
  PROVE  /\ UNCHANGED lexVars
         /\ phase \notin {"read", "lex", "parse"} /\ phase' \notin {"read", "lex", "parse"}
<1>1. UNCHANGED lexVars
  BY DEF Backend, WriteC, RunCc, RemoveC, WriteAsm, FindRuntime, Assemble, AssembleRuntime,
         Link, RemoveObj, RemoveRt, RemoveAsm, Produce, RunTool, RemoveFile
<1>2. phase \notin {"read", "lex", "parse"}
  BY DEF Backend, WriteC, RunCc, RemoveC, WriteAsm, FindRuntime, Assemble, AssembleRuntime,
         Link, RemoveObj, RemoveRt, RemoveAsm, In
<1>3. phase' \notin {"read", "lex", "parse"}
  BY <1>2 DEF Backend, WriteC, RunCc, RemoveC, WriteAsm, FindRuntime, Assemble, AssembleRuntime,
         Link, RemoveObj, RemoveRt, RemoveAsm, Produce, RunTool, RemoveFile, Emitted,
         Proceed, Leave
<1> QED
  BY <1>1, <1>2, <1>3

LEMMA DLInvInductive == DLInv /\ [DriverNext]_allVars => DLInv'
<1> SUFFICES ASSUME DLInv, [DriverNext]_allVars PROVE DLInv'
  OBVIOUS
<1> DEFINE Taken == phase \notin {"read", "lex", "parse"} => tokens = <<>> /\ pos = 0
<1>1. DInv'
  BY DInvInductive DEF DLInv
<1>2. DInv /\ LInv /\ Taken
  BY DEF DLInv
<1>3. CASE Lex
  <2>1. LexNext /\ phase' = phase /\ phase = "lex"
    BY <1>3 DEF Lex, In, driverVars
  <2> QED
    BY <1>1, <1>2, <2>1, LexNextKeeps DEF DLInv
<1>4. CASE Parse
  <2>1. /\ src' = src /\ lexed' = lexed /\ tokens' = <<>> /\ pos' = 0
        /\ phase = "parse"
    BY <1>4 DEF Parse, In
  <2>2. lexed = "ok" /\ src \in Seq(STRING)
    BY <1>2, <2>1 DEF DInv, Order, LInv
  <2>3. LInv'
    BY <2>1, <2>2, NoTokensThen
  <2> QED
    BY <1>1, <2>1, <2>3 DEF DLInv
<1>5. CASE Check
  <2>1. /\ src' = <<>> /\ lexed' = lexed /\ tokens' = tokens /\ pos' = pos
        /\ phase = "check"
    BY <1>5 DEF Check, In
  <2>2. lexed = "ok" /\ tokens = <<>> /\ pos = 0
    BY <1>2, <2>1 DEF DInv, Order
  <2>3. LInv'
    BY <2>1, <2>2, NoTokensThen
  <2> QED
    BY <1>1, <2>1, <2>2, <2>3 DEF DLInv
<1>6. CASE ReadSource \/ EndLex \/ ResolveImports \/ Lower
  <2>1. UNCHANGED lexVars
    BY <1>6 DEF ReadSource, EndLex, ResolveImports, Lower
  <2>2. phase' \notin {"read", "lex", "parse"} => phase \notin {"read", "lex", "parse"}
    BY <1>6 DEF ReadSource, EndLex, ResolveImports, Lower, In, Accept, Proceed, Leave
  <2> QED
    BY <1>1, <1>2, <2>1, <2>2, LInvSame DEF DLInv, lexVars
<1>7. CASE Backend
  <2>1. UNCHANGED lexVars /\ phase \notin {"read", "lex", "parse"}
    BY <1>2, <1>7, BackendLexes
  <2> QED
    BY <1>1, <1>2, <2>1, LInvSame DEF DLInv, lexVars
<1>8. CASE UNCHANGED allVars
  <2>1. UNCHANGED lexVars /\ phase' = phase
    BY <1>8 DEF allVars, driverVars
  <2> QED
    BY <1>1, <1>2, <2>1, LInvSame DEF DLInv, lexVars
<1> QED
  BY <1>3, <1>4, <1>5, <1>6, <1>7, <1>8 DEF DriverNext, FrontEnd

LEMMA DLInvHolds == DriverSpec => []DLInv
  BY DLInvInit, DLInvInductive, PTL DEF DriverSpec

(* The tokens are the longest lexemes of their classes, whatever the file   *)
(* (lexer.rs).                                                              *)
THEOREM TokensAreLongest == DriverSpec => []LongestMatch
<1>1. DLInv => LongestMatch
  BY LInvSays DEF DLInv
<1> QED
  BY <1>1, DLInvHolds, PTL

(* And between them there are only blanks and comments, no end of a line    *)
(* among them (skip_whitespace_and_comments).                               *)
THEOREM NoTextIsLost == DriverSpec => []NothingLost
<1>1. DLInv => NothingLost
  BY LInvSays DEF DLInv
<1> QED
  BY <1>1, DLInvHolds, PTL

-----------------------------------------------------------------------------
(* Splices.                                                                 *)

(* The elements of two sequences put one behind the other. *)
LEMMA ConcatAt ==
  ASSUME NEW S, NEW s \in Seq(S), NEW t \in Seq(S)
  PROVE  /\ s \o t \in Seq(S) /\ Len(s \o t) = Len(s) + Len(t)
         /\ \A j \in 1..Len(s) : (s \o t)[j] = s[j]
         /\ \A j \in (Len(s) + 1)..(Len(s) + Len(t)) : (s \o t)[j] = t[j - Len(s)]
<1>1. s \o t \in Seq(S) /\ Len(s \o t) = Len(s) + Len(t)
  OBVIOUS
<1>2. \A j \in 1..Len(s) : (s \o t)[j] = s[j]
  OBVIOUS
<1>3. \A j \in (Len(s) + 1)..(Len(s) + Len(t)) : (s \o t)[j] = t[j - Len(s)]
  OBVIOUS
<1> QED
  BY <1>1, <1>2, <1>3

(* Replacing the item at i keeps what is before it, puts the new items next *)
(* and keeps what was behind it.                                            *)
LEMMA SpliceShape ==
  ASSUME NEW S, NEW z \in Seq(S), NEW i \in 1..Len(z), NEW t \in Seq(S)
  PROVE  /\ Splice(z, i, t) \in Seq(S)
         /\ Len(Splice(z, i, t)) = Len(z) + Len(t) - 1
         /\ \A j \in 1..(i - 1) : Splice(z, i, t)[j] = z[j]
         /\ \A j \in i..(i + Len(t) - 1) : Splice(z, i, t)[j] = t[j - i + 1]
         /\ \A j \in (i + Len(t))..(Len(z) + Len(t) - 1) :
               Splice(z, i, t)[j] = z[j - Len(t) + 1]
<1> DEFINE a == SubSeq(z, 1, i - 1)
           b == SubSeq(z, i + 1, Len(z))
<1>1. /\ a \in Seq(S) /\ Len(a) = i - 1
      /\ \A j \in 1..(i - 1) : a[j] = z[j]
  OBVIOUS
<1>2. /\ b \in Seq(S) /\ Len(b) = Len(z) - i
      /\ \A j \in 1..(Len(z) - i) : b[j] = z[i + j]
  OBVIOUS
<1>3. Splice(z, i, t) = (a \o t) \o b
  BY DEF Splice
<1> HIDE DEF a, b
<1>4. /\ a \o t \in Seq(S) /\ Len(a \o t) = i - 1 + Len(t)
      /\ \A j \in 1..(i - 1) : (a \o t)[j] = a[j]
      /\ \A j \in i..(i + Len(t) - 1) : (a \o t)[j] = t[j - i + 1]
  <2>1. Len(a) \in Nat /\ Len(t) \in Nat /\ i \in Nat /\ Len(a) + 1 = i
    BY <1>1
  <2>2. /\ \A j \in 1..Len(a) : (a \o t)[j] = a[j]
        /\ \A j \in (Len(a) + 1)..(Len(a) + Len(t)) : (a \o t)[j] = t[j - Len(a)]
    BY <1>1, ConcatAt
  <2>3. a \o t \in Seq(S) /\ Len(a \o t) = Len(a) + Len(t)
    BY <1>1, ConcatAt
  <2>4. /\ Len(a) = i - 1 /\ Len(a) + Len(t) = i + Len(t) - 1
        /\ Len(a) + Len(t) = i - 1 + Len(t)
        /\ \A j \in i..(i + Len(t) - 1) : j - Len(a) = j - i + 1
    BY <2>1
  <2> QED
    BY <2>1, <2>2, <2>3, <2>4
<1> DEFINE c == a \o t
<1>5. c \in Seq(S) /\ Len(c) = i - 1 + Len(t)
  BY <1>4
<1>6. /\ \A j \in 1..(i - 1) : c[j] = z[j]
      /\ \A j \in i..(i + Len(t) - 1) : c[j] = t[j - i + 1]
  BY <1>1, <1>4
<1> HIDE DEF c
<1>7. /\ c \o b \in Seq(S) /\ Len(c \o b) = Len(c) + Len(b)
      /\ \A j \in 1..Len(c) : (c \o b)[j] = c[j]
      /\ \A j \in (Len(c) + 1)..(Len(c) + Len(b)) : (c \o b)[j] = b[j - Len(c)]
  <2>1. c \in Seq(S) /\ b \in Seq(S)
    BY <1>2, <1>5
  <2> QED
    BY <2>1, ConcatAt
<1>8. Len(z) \in Nat /\ Len(t) \in Nat
  OBVIOUS
<1>9. \A j \in (i + Len(t))..(Len(z) + Len(t) - 1) : (c \o b)[j] = z[j - Len(t) + 1]
  <2>1. TAKE j \in (i + Len(t))..(Len(z) + Len(t) - 1)
  <2>2. /\ j \in (Len(c) + 1)..(Len(c) + Len(b))
        /\ j - Len(c) \in 1..(Len(z) - i)
        /\ i + (j - Len(c)) = j - Len(t) + 1
    BY <1>2, <1>5, <1>8
  <2>3. (c \o b)[j] = b[j - Len(c)]
    BY <1>7, <2>2
  <2>4. b[j - Len(c)] = z[i + (j - Len(c))]
    BY <1>2, <2>2
  <2> QED
    BY <2>2, <2>3, <2>4
<1>10. Len(c \o b) = Len(z) + Len(t) - 1
  BY <1>2, <1>5, <1>7, <1>8
<1>11. /\ \A j \in 1..(i - 1) : (c \o b)[j] = z[j]
       /\ \A j \in i..(i + Len(t) - 1) : (c \o b)[j] = t[j - i + 1]
  <2>1. /\ \A j \in 1..(i - 1) : j \in 1..Len(c)
        /\ \A j \in i..(i + Len(t) - 1) : j \in 1..Len(c)
    BY <1>5, <1>8
  <2> QED
    BY <1>6, <1>7, <2>1
<1>12. Splice(z, i, t) = c \o b
  BY <1>3 DEF c
<1> QED
  BY <1>7, <1>9, <1>10, <1>11, <1>12

(* A file as the parser returns it. *)
LEMMA ParsedType ==
  ASSUME shape \in [Files -> Shapes], NEW f \in Files
  PROVE  /\ Parsed(f) \in Seq(Item)
         /\ Activation(f) \in ActivationType
         /\ \A k \in DOMAIN Parsed(f) : Parsed(f)[k].kind = "def" => Parsed(f)[k].file = f
<1>1. shape[f] \in Seq(Files \cup {Def})
  BY ShapesAssumption
<1>2. \A k \in DOMAIN shape[f] : k \in Nat /\ shape[f][k] \in Files \cup {Def}
  BY <1>1
<1>3. \A k \in DOMAIN shape[f] :
         /\ Parsed(f)[k] \in Item
         /\ Parsed(f)[k].kind = "def" => Parsed(f)[k].file = f
  BY <1>2 DEF Parsed, Item
<1>4. /\ DOMAIN Parsed(f) = DOMAIN shape[f] /\ DOMAIN shape[f] = 1..Len(shape[f])
      /\ Len(shape[f]) \in Nat
  BY <1>1 DEF Parsed
<1>5. Parsed(f) \in [1..Len(shape[f]) -> Item]
  BY <1>3, <1>4 DEF Parsed
<1>6. Parsed(f) \in Seq(Item)
  BY <1>4, <1>5
<1> QED
  BY <1>3, <1>4, <1>6 DEF Activation, ActivationType

-----------------------------------------------------------------------------
(* The invariant, as predicates of a stack s and an assignment of rings r.  *)

(* Code of base files stays out of a when the root is safe. *)
Clean(r, f, z) ==
    r[Root] = "safe" =>
        /\ r[f] = "safe"
        /\ \A j \in 1..Len(z) : z[j].kind = "def" => r[z[j].file] = "safe"

Good(a, r) ==
    /\ a \in ActivationType
    /\ a.i <= Len(a.zone) + 1
    /\ \A j \in 1..(a.i - 1) : a.zone[j].kind = "def"
    /\ Clean(r, a.file, a.zone)

(* a waits for b to be resolved, at an import of it. *)
Waits(a, b) ==
    /\ a.i <= Len(a.zone)
    /\ a.zone[a.i].kind = "import"
    /\ a.zone[a.i].file = b.file

StackGood(s, r) ==
    /\ s \in Seq(ActivationType) /\ s # <<>>
    /\ \A k \in 1..Len(s) : Good(s[k], r)
    /\ \A k \in 1..(Len(s) - 1) : Waits(s[k], s[k + 1])

IInv == ImportsTypeOK /\ StackGood(stack, ring)

(* The innermost activation may be exchanged for another one of its file, *)
LEMMA GoodReplace ==
  ASSUME NEW s, NEW r, NEW a, StackGood(s, r), Good(a, r), a.file = s[Len(s)].file
  PROVE  StackGood([s EXCEPT ![Len(s)] = a], r)
<1> DEFINE t == [s EXCEPT ![Len(s)] = a]
<1>1. /\ s \in Seq(ActivationType) /\ Len(s) \in Nat \ {0}
      /\ a \in ActivationType
  BY DEF StackGood, Good
<1>2. /\ t \in Seq(ActivationType) /\ Len(t) = Len(s) /\ t[Len(s)] = a
      /\ \A k \in 1..(Len(s) - 1) : t[k] = s[k]
  BY <1>1
<1> HIDE DEF t
<1>3. t # <<>>
  BY <1>1, <1>2
<1>4. ASSUME NEW k \in 1..Len(t)
      PROVE  Good(t[k], r)
  <2>1. CASE k = Len(s)
    BY <1>2, <2>1
  <2>2. CASE k \in 1..(Len(s) - 1)
    <3>1. Good(s[k], r)
      BY <1>1, <2>2 DEF StackGood
    <3> QED
      BY <1>2, <2>2, <3>1
  <2> QED
    BY <1>1, <1>2, <2>1, <2>2
<1>5. ASSUME NEW k \in 1..(Len(t) - 1)
      PROVE  Waits(t[k], t[k + 1])
  <2>1. Waits(s[k], s[k + 1]) /\ t[k] = s[k]
    BY <1>1, <1>2 DEF StackGood
  <2>2. t[k + 1].file = s[k + 1].file
    BY <1>1, <1>2
  <2> QED
    BY <2>1, <2>2 DEF Waits
<1>6. StackGood(t, r)
  BY <1>2, <1>3, <1>4, <1>5 DEF StackGood
<1> QED
  BY <1>6 DEF t

(* a new one may be put above one that waits for it, *)
LEMMA GoodAppend ==
  ASSUME NEW s, NEW r, NEW a, StackGood(s, r), Good(a, r), Waits(s[Len(s)], a)
  PROVE  StackGood(Append(s, a), r)
<1> DEFINE t == Append(s, a)
<1>1. /\ s \in Seq(ActivationType) /\ Len(s) \in Nat \ {0}
      /\ a \in ActivationType
  BY DEF StackGood, Good
<1>2. /\ t \in Seq(ActivationType) /\ Len(t) = Len(s) + 1 /\ t[Len(s) + 1] = a
      /\ \A k \in 1..Len(s) : t[k] = s[k]
  BY <1>1
<1> HIDE DEF t
<1>3. t # <<>>
  BY <1>1, <1>2
<1>4. ASSUME NEW k \in 1..Len(t)
      PROVE  Good(t[k], r)
  <2>1. CASE k = Len(s) + 1
    BY <1>2, <2>1
  <2>2. CASE k \in 1..Len(s)
    <3>1. Good(s[k], r)
      BY <1>1, <2>2 DEF StackGood
    <3> QED
      BY <1>2, <2>2, <3>1
  <2> QED
    BY <1>1, <1>2, <2>1, <2>2
<1>5. ASSUME NEW k \in 1..(Len(t) - 1)
      PROVE  Waits(t[k], t[k + 1])
  <2>1. CASE k = Len(s)
    BY <1>1, <1>2, <2>1
  <2>2. CASE k \in 1..(Len(s) - 1)
    <3>1. Waits(s[k], s[k + 1]) /\ t[k] = s[k] /\ t[k + 1] = s[k + 1]
      BY <1>1, <1>2, <2>2 DEF StackGood
    <3> QED
      BY <3>1
  <2> QED
    BY <1>1, <1>2, <2>1, <2>2
<1>6. StackGood(t, r)
  BY <1>2, <1>3, <1>4, <1>5 DEF StackGood
<1> QED
  BY <1>6 DEF t

(* and without its innermost activation a stack is as good as before. *)
LEMMA GoodFront ==
  ASSUME NEW s, NEW r, StackGood(s, r), Len(s) > 1
  PROVE  StackGood(SubSeq(s, 1, Len(s) - 1), r)
<1> DEFINE t == SubSeq(s, 1, Len(s) - 1)
<1>1. s \in Seq(ActivationType) /\ Len(s) \in Nat \ {0}
  BY DEF StackGood
<1>2. /\ t \in Seq(ActivationType) /\ Len(t) = Len(s) - 1
      /\ \A k \in 1..(Len(s) - 1) : t[k] = s[k]
  BY <1>1
<1> HIDE DEF t
<1>3. t # <<>>
  BY <1>1, <1>2
<1>4. ASSUME NEW k \in 1..Len(t)
      PROVE  Good(t[k], r)
  <2>1. Good(s[k], r) /\ t[k] = s[k]
    BY <1>1, <1>2 DEF StackGood
  <2> QED
    BY <2>1
<1>5. ASSUME NEW k \in 1..(Len(t) - 1)
      PROVE  Waits(t[k], t[k + 1])
  <2>1. Waits(s[k], s[k + 1]) /\ t[k] = s[k] /\ t[k + 1] = s[k + 1]
    BY <1>1, <1>2 DEF StackGood
  <2> QED
    BY <2>1
<1>6. StackGood(t, r)
  BY <1>2, <1>3, <1>4, <1>5 DEF StackGood
<1> QED
  BY <1>6 DEF t
-----------------------------------------------------------------------------
(* The actions.                                                             *)

(* An activation whose zone and place have changed. *)
LEMMA MovedType ==
  ASSUME NEW a \in ActivationType, NEW z \in Seq(Item), NEW n \in Nat \ {0}
  PROVE  /\ Moved(a, z, n) \in ActivationType
         /\ Moved(a, z, n).file = a.file
         /\ Moved(a, z, n).zone = z
         /\ Moved(a, z, n).i = n
<1>1. Moved(a, z, n) \in ActivationType
  BY DEF Moved, ActivationType
<1>2. Moved(a, z, n).file = a.file
  BY DEF Moved, ActivationType
<1>3. Moved(a, z, n).zone = z
  BY DEF Moved, ActivationType
<1>4. Moved(a, z, n).i = n
  BY DEF Moved, ActivationType
<1> QED
  BY <1>1, <1>2, <1>3, <1>4

(* a with definitions of t in place of the import it stands at. *)
Resolved(a, t) == Moved(a, Splice(a.zone, a.i, t), After(a.i, t))

LEMMA GoodSplice ==
  ASSUME NEW r, NEW a, Good(a, r), a.i <= Len(a.zone),
         NEW t \in Seq(Item),
         \A j \in 1..Len(t) : t[j].kind = "def",
         Clean(r, a.file, t)
  PROVE  Good(Resolved(a, t), r)
<1> DEFINE z == a.zone
           i == a.i
           w == Splice(z, i, t)
<1>1. /\ a \in ActivationType /\ z \in Seq(Item) /\ i \in 1..Len(z)
      /\ Len(z) \in Nat /\ Len(t) \in Nat
  BY DEF Good, ActivationType
<1>2. /\ w \in Seq(Item)
      /\ Len(w) = Len(z) + Len(t) - 1
      /\ \A j \in 1..(i - 1) : w[j] = z[j]
      /\ \A j \in i..(i + Len(t) - 1) : w[j] = t[j - i + 1]
      /\ \A j \in (i + Len(t))..(Len(z) + Len(t) - 1) : w[j] = z[j - Len(t) + 1]
  <2>1. /\ z \in Seq(Item) /\ i \in 1..Len(z)
    BY <1>1
  <2> HIDE DEF z, i
  <2> QED
    BY <2>1, SpliceShape
<1>3. /\ \A j \in 1..(i - 1) : z[j].kind = "def"
      /\ Clean(r, a.file, z)
  BY DEF Good
<1>4. /\ Resolved(a, t) \in ActivationType
      /\ Resolved(a, t).file = a.file
      /\ Resolved(a, t).zone = w
      /\ Resolved(a, t).i = i + Len(t)
  <2>1. After(i, t) = i + Len(t) /\ i + Len(t) \in Nat \ {0}
    BY <1>1 DEF After
  <2>2. w \in Seq(Item) /\ a \in ActivationType
    BY <1>1, <1>2
  <2>3. Resolved(a, t) = Moved(a, w, i + Len(t))
    BY <2>1 DEF Resolved
  <2> HIDE DEF w, i
  <2> QED
    BY <2>1, <2>2, <2>3, MovedType
<1> HIDE DEF w, z, i
<1>5. Resolved(a, t).i <= Len(w) + 1
  BY <1>1, <1>2, <1>4
<1>6. \A j \in 1..(i + Len(t) - 1) : w[j].kind = "def"
  <2>1. TAKE j \in 1..(i + Len(t) - 1)
  <2>2. CASE j \in 1..(i - 1)
    BY <1>2, <1>3, <2>2
  <2>3. CASE j \in i..(i + Len(t) - 1)
    <3>1. j - i + 1 \in 1..Len(t)
      BY <1>1, <2>3
    <3> QED
      BY <1>2, <2>3, <3>1
  <2> QED
    BY <1>1, <2>2, <2>3
<1>7. Clean(r, a.file, w)
  <2> SUFFICES ASSUME r[Root] = "safe"
               PROVE  /\ r[a.file] = "safe"
                      /\ \A j \in 1..Len(w) : w[j].kind = "def" => r[w[j].file] = "safe"
    BY DEF Clean
  <2>1. /\ r[a.file] = "safe"
        /\ \A j \in 1..Len(z) : z[j].kind = "def" => r[z[j].file] = "safe"
        /\ \A j \in 1..Len(t) : t[j].kind = "def" => r[t[j].file] = "safe"
    BY <1>3 DEF Clean
  <2>2. ASSUME NEW j \in 1..Len(w), w[j].kind = "def"
        PROVE  r[w[j].file] = "safe"
    <3>1. CASE j \in 1..(i - 1)
      <4>1. j \in 1..Len(z) /\ w[j] = z[j]
        BY <1>1, <1>2, <3>1
      <4> QED
        BY <2>1, <2>2, <4>1
    <3>2. CASE j \in i..(i + Len(t) - 1)
      <4>1. j - i + 1 \in 1..Len(t) /\ w[j] = t[j - i + 1]
        BY <1>1, <1>2, <3>2
      <4> QED
        BY <2>1, <2>2, <4>1
    <3>3. CASE j \in (i + Len(t))..(Len(z) + Len(t) - 1)
      <4>1. j - Len(t) + 1 \in 1..Len(z) /\ w[j] = z[j - Len(t) + 1]
        BY <1>1, <1>2, <3>3
      <4> QED
        BY <2>1, <2>2, <4>1
    <3> QED
      BY <1>1, <1>2, <2>2, <3>1, <3>2, <3>3
  <2> QED
    BY <2>1, <2>2
<1> QED
  <2>1. Resolved(a, t).i - 1 = i + Len(t) - 1
    BY <1>1, <1>4
  <2> QED
    BY <1>4, <1>5, <1>6, <1>7, <2>1 DEF Good

LEMMA TopGood ==
  ASSUME IInv
  PROVE  /\ Len(stack) \in Nat \ {0}
         /\ Top \in ActivationType
         /\ Good(Top, ring)
<1>1. stack \in Seq(ActivationType) /\ stack # <<>>
  BY DEF IInv, StackGood
<1>2. Len(stack) \in Nat \ {0} /\ Len(stack) \in 1..Len(stack)
  BY <1>1
<1> QED
  BY <1>2 DEF IInv, StackGood, Good, Top

(* A stack that is good and the other variables of the type they had. *)
LEMMA IInvNext ==
  ASSUME IInv, UNCHANGED files, visited' \in SUBSET Files,
         outcome' \in {"running", "merged", "unreadable", "ring"},
         StackGood(stack', ring)
  PROVE  IInv'
<1>1. ring' = ring /\ shape' = shape /\ readable' = readable
  BY DEF files
<1>2. /\ stack' \in Seq(ActivationType) /\ stack' # <<>>
      /\ \A k \in DOMAIN stack' : stack'[k].i <= Len(stack'[k].zone) + 1
  BY DEF StackGood, Good
<1>3. ImportsTypeOK'
  BY <1>1, <1>2 DEF ImportsTypeOK, IInv
<1> QED
  BY <1>1, <1>3 DEF IInv

LEMMA ContinueIs ==
  ASSUME NEW zone, NEW i, Continue(zone, i)
  PROVE  stack' = [stack EXCEPT ![Len(stack)] = Moved(Top, zone, i)]
  BY DEF Continue, Top

LEMMA KeepDefKeeps ==
  ASSUME IInv, KeepDef
  PROVE  IInv'
<1> DEFINE a == Moved(Top, Top.zone, Top.i + 1)
<1>1. /\ Len(stack) \in Nat \ {0} /\ Top \in ActivationType /\ Good(Top, ring)
      /\ Top.i <= Len(Top.zone) /\ Top.zone[Top.i].kind = "def"
  BY TopGood DEF KeepDef, AtItem
<1>2. Top.i \in Nat \ {0} /\ Len(Top.zone) \in Nat /\ Top.zone \in Seq(Item)
  BY <1>1 DEF ActivationType
<1>3. /\ a \in ActivationType /\ a.file = Top.file /\ a.zone = Top.zone
      /\ a.i = Top.i + 1
  <2>1. Top.i + 1 \in Nat \ {0}
    BY <1>2
  <2>2. Top \in ActivationType /\ Top.zone \in Seq(Item)
    BY <1>1, <1>2
  <2> QED
    BY <2>1, <2>2, MovedType
<1>4. stack' = [stack EXCEPT ![Len(stack)] = a]
  <2>1. Continue(Top.zone, Top.i + 1)
    BY DEF KeepDef
  <2> QED
    BY <2>1, ContinueIs
<1> HIDE DEF a
<1>5. Good(a, ring)
  <2>1. \A j \in 1..Top.i : Top.zone[j].kind = "def"
    BY <1>1, <1>2 DEF Good
  <2>2. a.i <= Len(a.zone) + 1 /\ a.i - 1 = Top.i
    BY <1>1, <1>2, <1>3
  <2>3. Clean(ring, a.file, a.zone)
    BY <1>1, <1>3 DEF Good
  <2> QED
    BY <1>3, <2>1, <2>2, <2>3 DEF Good
<1>6. UNCHANGED files /\ visited' = visited /\ outcome' = outcome
  BY DEF KeepDef, Continue
<1>7. StackGood(stack', ring)
  BY <1>3, <1>4, <1>5, GoodReplace DEF IInv, Top
<1> QED
  BY <1>6, <1>7, IInvNext DEF IInv, ImportsTypeOK

LEMMA DropVisitedKeeps ==
  ASSUME IInv, DropVisited
  PROVE  IInv'
<1> DEFINE a == Resolved(Top, <<>>)
<1>1. /\ Len(stack) \in Nat \ {0} /\ Top \in ActivationType /\ Good(Top, ring)
      /\ Top.i <= Len(Top.zone)
  BY TopGood DEF DropVisited, AtItem
<1>2. Top.i \in Nat \ {0} /\ Len(Top.zone) \in Nat /\ Top.zone \in Seq(Item)
  BY <1>1 DEF ActivationType
<1>3. Clean(ring, Top.file, <<>>)
  BY <1>1 DEF Good, Clean
<1>4. /\ <<>> \in Seq(Item) /\ \A j \in 1..Len(<<>>) : <<>>[j].kind = "def"
      /\ After(Top.i, <<>>) = Top.i
  BY <1>2 DEF After
<1>5. Good(a, ring)
  BY <1>1, <1>3, <1>4, GoodSplice
<1>6. Splice(Top.zone, Top.i, <<>>) \in Seq(Item)
  <2>1. Top.i \in 1..Len(Top.zone)
    BY <1>1, <1>2
  <2> QED
    BY <1>2, <1>4, <2>1, SpliceShape
<1>7. a.file = Top.file
  <2> DEFINE w == Splice(Top.zone, Top.i, <<>>)
  <2>0. w \in Seq(Item)
    BY <1>6
  <2> HIDE DEF w
  <2>1. Top \in ActivationType /\ Top.i \in Nat \ {0}
    BY <1>1, <1>2
  <2>2. Moved(Top, w, Top.i) \in ActivationType /\ Moved(Top, w, Top.i).file = Top.file
    BY <2>0, <2>1, MovedType
  <2> QED
    BY <1>4, <2>2 DEF Resolved, w
<1>8. stack' = [stack EXCEPT ![Len(stack)] = a]
  BY <1>4, ContinueIs DEF DropVisited, Resolved
<1> HIDE DEF a
<1>9. UNCHANGED files /\ visited' = visited /\ outcome' = outcome
  BY DEF DropVisited, Continue
<1>10. StackGood(stack', ring)
  BY <1>5, <1>7, <1>8, GoodReplace DEF IInv, Top
<1> QED
  BY <1>9, <1>10, IInvNext DEF IInv, ImportsTypeOK

LEMMA TargetInFiles ==
  ASSUME IInv, AtItem("import")
  PROVE  Target \in Files
<1>1. Top \in ActivationType /\ Top.i <= Len(Top.zone)
  BY TopGood DEF AtItem
<1>2. Top.zone \in Seq(Item) /\ Top.i \in 1..Len(Top.zone)
  BY <1>1 DEF ActivationType
<1>3. Top.zone[Top.i] \in Item
  BY <1>2
<1> QED
  BY <1>3 DEF Target, Item

LEMMA FailKeeps ==
  ASSUME IInv, FailRead \/ FailRing
  PROVE  IInv'
<1>1. /\ UNCHANGED files /\ stack' = stack
      /\ visited' = visited \cup {Target} /\ AtItem("import")
      /\ outcome' \in {"unreadable", "ring"}
  BY DEF FailRead, FailRing, Visit, Stop
<1>2. visited' \in SUBSET Files
  BY <1>1, TargetInFiles DEF IInv, ImportsTypeOK
<1>3. StackGood(stack', ring)
  BY <1>1 DEF IInv
<1> QED
  BY <1>1, <1>2, <1>3, IInvNext

LEMMA DescendKeeps ==
  ASSUME IInv, Descend
  PROVE  IInv'
<1> DEFINE a == Activation(Target)
<1>1. /\ UNCHANGED files /\ outcome' = outcome /\ AtItem("import")
      /\ visited' = visited \cup {Target}
      /\ ~RingBroken(Top.file, Target)
      /\ stack' = Append(stack, a)
  BY DEF Descend, Visit
<1>2. Target \in Files /\ Good(Top, ring)
  BY <1>1, TargetInFiles, TopGood
<1>3. /\ a \in ActivationType /\ a.file = Target /\ a.zone = Parsed(Target) /\ a.i = 1
      /\ Parsed(Target) \in Seq(Item)
      /\ \A k \in DOMAIN Parsed(Target) :
            Parsed(Target)[k].kind = "def" => Parsed(Target)[k].file = Target
  <2>1. shape \in [Files -> Shapes]
    BY DEF IInv, ImportsTypeOK
  <2>2. a.file = Target /\ a.zone = Parsed(Target) /\ a.i = 1
    BY DEF Activation
  <2> QED
    BY <1>2, <2>1, <2>2, ParsedType
<1>4. Clean(ring, Target, Parsed(Target))
  <2>1. ring[Target] \in {"safe", "base"}
    BY <1>2 DEF IInv, ImportsTypeOK
  <2>2. ring[Root] = "safe" => ring[Top.file] = "safe"
    BY <1>2 DEF Good, Clean
  <2>3. ring[Root] = "safe" => ring[Target] = "safe"
    BY <1>1, <2>1, <2>2 DEF RingBroken
  <2>4. \A j \in 1..Len(Parsed(Target)) : j \in DOMAIN Parsed(Target)
    BY <1>3
  <2> HIDE DEF a
  <2> QED
    BY <1>3, <2>3, <2>4 DEF Clean
<1> HIDE DEF a
<1>5. Good(a, ring)
  <2>1. a.i <= Len(a.zone) + 1
    BY <1>3
  <2>2. \A j \in 1..(a.i - 1) : a.zone[j].kind = "def"
    BY <1>3
  <2> QED
    BY <1>3, <1>4, <2>1, <2>2 DEF Good
<1>6. Waits(stack[Len(stack)], a)
  BY <1>1, <1>3 DEF AtItem, Waits, Top, Target
<1>7. StackGood(stack', ring)
  BY <1>1, <1>5, <1>6, GoodAppend DEF IInv
<1> QED
  BY <1>1, <1>2, <1>7, IInvNext DEF IInv, ImportsTypeOK

LEMMA MergeKeeps ==
  ASSUME IInv, Merge
  PROVE  IInv'
<1> DEFINE callers == SubSeq(stack, 1, Len(stack) - 1)
           below == callers[Len(callers)]
           a == Resolved(below, Top.zone)
<1>1. /\ UNCHANGED files /\ outcome' = outcome /\ visited' = visited
      /\ Len(stack) > 1 /\ Top.i > Len(Top.zone)
      /\ stack' = [callers EXCEPT ![Len(callers)] = a]
  BY DEF Merge, AtEnd, Resolved
<1>2. /\ Len(stack) \in Nat \ {0} /\ Top \in ActivationType /\ Good(Top, ring)
  BY TopGood
<1>3. StackGood(callers, ring)
  BY <1>1, GoodFront DEF IInv
<1>4. below = stack[Len(stack) - 1] /\ Len(callers) = Len(stack) - 1
  BY <1>1, <1>2 DEF IInv, StackGood
<1> HIDE DEF callers
<1>5. Good(below, ring) /\ below \in ActivationType
  <2>1. Len(callers) \in 1..Len(callers)
    BY <1>1, <1>2, <1>4
  <2> QED
    BY <1>3, <2>1 DEF StackGood, Good
<1>6. Waits(below, Top)
  <2>1. Len(stack) - 1 \in 1..(Len(stack) - 1) /\ (Len(stack) - 1) + 1 = Len(stack)
    BY <1>1, <1>2
  <2> QED
    BY <1>4, <2>1 DEF IInv, StackGood, Top
<1> HIDE DEF below
<1>7. below.i <= Len(below.zone) /\ below.zone \in Seq(Item) /\ below.i \in 1..Len(below.zone)
  BY <1>5, <1>6 DEF Waits, ActivationType
<1>8. /\ Top.zone \in Seq(Item) /\ Len(Top.zone) \in Nat
      /\ \A j \in 1..Len(Top.zone) : Top.zone[j].kind = "def"
  BY <1>1, <1>2 DEF Good, ActivationType
<1>9. Clean(ring, below.file, Top.zone)
  BY <1>2, <1>5 DEF Good, Clean
<1>10. Good(a, ring)
  BY <1>5, <1>7, <1>8, <1>9, GoodSplice
<1>11. a.file = below.file
  <2>1. Splice(below.zone, below.i, Top.zone) \in Seq(Item)
    BY <1>7, <1>8, SpliceShape
  <2>2. After(below.i, Top.zone) \in Nat \ {0}
    BY <1>7, <1>8 DEF After
  <2> QED
    BY <1>5, <2>1, <2>2, MovedType DEF Resolved
<1> HIDE DEF a
<1>12. StackGood(stack', ring)
  BY <1>1, <1>3, <1>10, <1>11, GoodReplace DEF below
<1> QED
  BY <1>1, <1>12, IInvNext DEF IInv, ImportsTypeOK

LEMMA FinishKeeps ==
  ASSUME IInv, Finish
  PROVE  IInv'
<1>1. /\ UNCHANGED files /\ stack' = stack /\ visited' = visited
      /\ outcome' = "merged"
  BY DEF Finish
<1> QED
  BY <1>1, IInvNext DEF IInv, ImportsTypeOK

-----------------------------------------------------------------------------
(* The theorems.                                                            *)

LEMMA IInvInit == Init => IInv
<1> SUFFICES ASSUME Init
             PROVE  IInv
  OBVIOUS
<1> DEFINE a == Activation(Root)
<1>1. /\ shape \in [Files -> Shapes] /\ ring \in [Files -> {"safe", "base"}]
      /\ readable \in [Files -> BOOLEAN] /\ visited = {} /\ outcome = "running"
      /\ stack = <<a>>
  BY DEF Init
<1>2. /\ a \in ActivationType /\ a.file = Root /\ a.zone = Parsed(Root) /\ a.i = 1
      /\ Parsed(Root) \in Seq(Item)
      /\ \A k \in DOMAIN Parsed(Root) :
            Parsed(Root)[k].kind = "def" => Parsed(Root)[k].file = Root
  <2>1. a.file = Root /\ a.zone = Parsed(Root) /\ a.i = 1
    BY DEF Activation
  <2> QED
    BY <1>1, <2>1, ParsedType, RootAssumption
<1> HIDE DEF a
<1>3. Clean(ring, Root, Parsed(Root))
  <2>1. \A j \in 1..Len(Parsed(Root)) : j \in DOMAIN Parsed(Root)
    BY <1>2
  <2> QED
    BY <1>2, <2>1 DEF Clean
<1>4. Good(a, ring)
  <2>1. a.i <= Len(a.zone) + 1 /\ \A j \in 1..(a.i - 1) : a.zone[j].kind = "def"
    BY <1>2
  <2> QED
    BY <1>2, <1>3, <2>1 DEF Good
<1>5. /\ stack \in Seq(ActivationType) /\ stack # <<>> /\ Len(stack) = 1
      /\ stack[1] = a
  BY <1>1, <1>2
<1>6. StackGood(stack, ring)
  BY <1>4, <1>5 DEF StackGood
<1>7. ImportsTypeOK
  <2>1. \A k \in DOMAIN stack : stack[k] = a
    BY <1>1
  <2> QED
    BY <1>1, <1>4, <1>5, <2>1 DEF ImportsTypeOK, Good
<1> QED
  BY <1>6, <1>7 DEF IInv

LEMMA IInvInductive == IInv /\ [Next]_vars => IInv'
<1> SUFFICES ASSUME IInv, [Next]_vars
             PROVE  IInv'
  OBVIOUS
<1>1. CASE KeepDef
  BY <1>1, KeepDefKeeps
<1>2. CASE DropVisited
  BY <1>2, DropVisitedKeeps
<1>3. CASE FailRead \/ FailRing
  BY <1>3, FailKeeps
<1>4. CASE Descend
  BY <1>4, DescendKeeps
<1>5. CASE Merge
  BY <1>5, MergeKeeps
<1>6. CASE Finish
  BY <1>6, FinishKeeps
<1>7. CASE UNCHANGED vars
  BY <1>7 DEF vars, files, IInv, ImportsTypeOK
<1> QED
  BY <1>1, <1>2, <1>3, <1>4, <1>5, <1>6, <1>7 DEF Next

LEMMA IInvHolds == Spec => []IInv
BY IInvInit, IInvInductive, PTL DEF Spec

(* Every activation is at an item of its def zone or just behind it, and    *)
(* holds items of known files.                                              *)
THEOREM ImportsTypeCorrect == Spec => []ImportsTypeOK
<1>1. IInv => ImportsTypeOK
  BY DEF IInv
<1> QED
  BY <1>1, IInvHolds, PTL

(* A recursive call always returns to the import it was made for, with only *)
(* definitions before it, so its splice replaces that import and nothing    *)
(* else, whatever the import graph is (cycles included).                    *)
THEOREM AlwaysOpened == Spec => []Opened
<1>1. IInv => Opened
  <2> SUFFICES ASSUME IInv, NEW k \in DOMAIN stack
               PROVE  /\ \A j \in 1..(stack[k].i - 1) : stack[k].zone[j].kind = "def"
                      /\ k < Len(stack) =>
                            /\ stack[k].i <= Len(stack[k].zone)
                            /\ stack[k].zone[stack[k].i].kind = "import"
                            /\ stack[k].zone[stack[k].i].file = stack[k + 1].file
    BY DEF Opened
  <2>1. stack \in Seq(ActivationType) /\ k \in 1..Len(stack)
    BY DEF IInv, StackGood
  <2>2. Good(stack[k], ring)
    BY <2>1 DEF IInv, StackGood
  <2>3. k < Len(stack) => Waits(stack[k], stack[k + 1])
    BY <2>1 DEF IInv, StackGood
  <2> QED
    BY <2>2, <2>3 DEF Good, Waits
<1> QED
  BY <1>1, IInvHolds, PTL

(* No code of a base file is merged into a safe root, over import chains of *)
(* any length: each import is compared with the file it stands in, and that *)
(* file is safe already.                                                    *)
THEOREM SafeStaysSafe == Spec => []SafeRootStaysSafe
<1>1. IInv => SafeRootStaysSafe
  <2> SUFFICES ASSUME IInv, ring[Root] = "safe", NEW k \in DOMAIN stack
               PROVE  /\ ring[stack[k].file] = "safe"
                      /\ \A j \in DOMAIN stack[k].zone :
                            stack[k].zone[j].kind = "def"
                               => ring[stack[k].zone[j].file] = "safe"
    BY DEF SafeRootStaysSafe
  <2>1. stack \in Seq(ActivationType) /\ k \in 1..Len(stack)
    BY DEF IInv, StackGood
  <2>2. Good(stack[k], ring) /\ stack[k] \in ActivationType
    BY <2>1 DEF IInv, StackGood
  <2>3. DOMAIN stack[k].zone = 1..Len(stack[k].zone)
    BY <2>2 DEF ActivationType
  <2> QED
    BY <2>2, <2>3 DEF Good, Clean
<1> QED
  BY <1>1, IInvHolds, PTL

-----------------------------------------------------------------------------
(* Places.  An item is at a place: an activation and an index of its zone.  *)

Stands(s, k, p) == k \in 1..Len(s) /\ p \in 1..Len(s[k].zone)
It(s, k, p) == s[k].zone[p]
DefAt(s, k, p, f, n) ==
    Stands(s, k, p) /\ It(s, k, p).kind = "def" /\ It(s, k, p).file = f /\ It(s, k, p).n = n
ImportAt(s, k, p, g) == Stands(s, k, p) /\ It(s, k, p).kind = "import" /\ It(s, k, p).file = g

(* The order the items will have when everything is merged: what an inner   *)
(* activation holds takes the place of the item its caller waits at.        *)
Precedes(s, k, p, l, q) ==
    \/ k = l /\ p < q
    \/ k < l /\ p < s[k].i
    \/ k > l /\ q > s[l].i

(* Where an item goes when n items take the place of the item at i of the   *)
(* m-th activation, those of the activation above it if there is one.       *)
Goes(m, i, n, k, p, l, q) ==
    \/ k < m /\ l = k /\ q = p
    \/ k = m /\ l = m /\ p < i /\ q = p
    \/ k = m /\ l = m /\ p > i /\ q = p + n - 1
    \/ k = m + 1 /\ l = m /\ q = p + i - 1

InOrder(s, t, m, i, n) ==
    \A k, p, l, q, a, b, c, d \in Nat :
        (/\ Stands(s, k, p) /\ Stands(s, a, b) /\ Precedes(s, k, p, a, b)
         /\ Goes(m, i, n, k, p, l, q) /\ Goes(m, i, n, a, b, c, d))
        => Precedes(t, l, q, c, d)

(* t is s with every item but the one at m and i where Goes says, and in    *)
(* the same order; what is still to be resolved in t was so in s.           *)
Carried(s, t, m, i, n) ==
    /\ \A k, p \in Nat : Stands(s, k, p) /\ ~(k = m /\ p = i)
                         => \E l, q \in Nat : Goes(m, i, n, k, p, l, q)
    /\ \A k, p, l, q \in Nat : Stands(s, k, p) /\ Goes(m, i, n, k, p, l, q) =>
            Stands(t, l, q) /\ It(t, l, q) = It(s, k, p)
    /\ \A l, q \in Nat : Stands(t, l, q)
                         => \E k, p \in Nat : Stands(s, k, p) /\ Goes(m, i, n, k, p, l, q)
    /\ InOrder(s, t, m, i, n)
    /\ \A k, p, l, q \in Nat :
            Stands(s, k, p) /\ Goes(m, i, n, k, p, l, q) /\ q >= t[l].i => l = k /\ p >= s[k].i

(* t is s with the item an activation stands at replaced: by nothing, or by *)
(* what the activation above it holds.                                      *)
Spliced(s, t, m, items) ==
    /\ s \in Seq(ActivationType) /\ t \in Seq(ActivationType) /\ items \in Seq(Item)
    /\ m \in 1..Len(s) /\ Len(t) = m
    /\ \A k \in 1..(m - 1) : t[k] = s[k]
    /\ s[m].i \in 1..Len(s[m].zone)
    /\ t[m].zone = Splice(s[m].zone, s[m].i, items)
    /\ t[m].i = s[m].i + Len(items)
    /\ \/ m = Len(s) /\ Len(items) = 0
       \/ m + 1 = Len(s) /\ items = s[m + 1].zone /\ s[m + 1].i > Len(items)

LEMMA SplicedZone ==
  ASSUME NEW s, NEW t, NEW m, NEW items, Spliced(s, t, m, items)
  PROVE  LET z == s[m].zone
             w == t[m].zone
             i == s[m].i
             n == Len(items)
         IN  /\ z \in Seq(Item) /\ Len(z) \in Nat /\ n \in Nat /\ i \in 1..Len(z)
             /\ Len(w) = Len(z) + n - 1
             /\ \A j \in 1..(i - 1) : w[j] = z[j]
             /\ \A j \in i..(i + n - 1) : w[j] = items[j - i + 1]
             /\ \A j \in (i + n)..(Len(z) + n - 1) : w[j] = z[j - n + 1]
             /\ m \in Nat \ {0} /\ Len(s) \in Nat /\ m <= Len(s) /\ Len(s) <= m + 1
<1> DEFINE z == s[m].zone
           i == s[m].i
<1>1. z \in Seq(Item) /\ i \in 1..Len(z) /\ items \in Seq(Item)
  <2>1. s \in Seq(ActivationType) /\ m \in 1..Len(s) /\ i \in 1..Len(z) /\ items \in Seq(Item)
    BY DEF Spliced
  <2>2. s[m] \in ActivationType
    BY <2>1
  <2> QED
    BY <2>1, <2>2 DEF ActivationType
<1>2. t[m].zone = Splice(z, i, items)
  BY DEF Spliced
<1>3. m \in Nat \ {0} /\ Len(s) \in Nat /\ m <= Len(s) /\ Len(s) <= m + 1
  <2>1. s \in Seq(ActivationType) /\ m \in 1..Len(s) /\ (m = Len(s) \/ m + 1 = Len(s))
    BY DEF Spliced
  <2>2. Len(s) \in Nat
    BY <2>1
  <2> QED
    BY <2>1, <2>2
<1>4. Len(z) \in Nat /\ Len(items) \in Nat
  BY <1>1
<1> HIDE DEF z, i
<1>5. /\ Len(t[m].zone) = Len(z) + Len(items) - 1
      /\ \A j \in 1..(i - 1) : t[m].zone[j] = z[j]
      /\ \A j \in i..(i + Len(items) - 1) : t[m].zone[j] = items[j - i + 1]
      /\ \A j \in (i + Len(items))..(Len(z) + Len(items) - 1) :
            t[m].zone[j] = z[j - Len(items) + 1]
  BY <1>1, <1>2, SpliceShape
<1> QED
  BY <1>1, <1>3, <1>4, <1>5 DEF z, i

LEMMA SplicedMoves ==
  ASSUME NEW s, NEW t, NEW m, NEW items, Spliced(s, t, m, items),
         NEW k \in Nat, NEW p \in Nat, NEW l \in Nat, NEW q \in Nat,
         Stands(s, k, p), Goes(m, s[m].i, Len(items), k, p, l, q)
  PROVE  /\ Stands(t, l, q) /\ It(t, l, q) = It(s, k, p)
         /\ q >= t[l].i => l = k /\ p >= s[k].i
<1> DEFINE z == s[m].zone
           w == t[m].zone
           i == s[m].i
           n == Len(items)
<1>1. /\ z \in Seq(Item) /\ Len(z) \in Nat /\ n \in Nat /\ i \in 1..Len(z)
      /\ Len(w) = Len(z) + n - 1
      /\ \A j \in 1..(i - 1) : w[j] = z[j]
      /\ \A j \in i..(i + n - 1) : w[j] = items[j - i + 1]
      /\ \A j \in (i + n)..(Len(z) + n - 1) : w[j] = z[j - n + 1]
      /\ m \in Nat \ {0} /\ Len(s) \in Nat /\ m <= Len(s) /\ Len(s) <= m + 1
  BY SplicedZone
<1>2. k \in 1..Len(s) /\ p \in 1..Len(s[k].zone) /\ Len(t) = m
      /\ t[m].i = i + n /\ (k < m => t[k] = s[k])
  BY <1>1 DEF Stands, Spliced
<1>3. k = m + 1 => s[k].zone = items /\ Len(s[k].zone) = n
  BY <1>1, <1>2 DEF Spliced
<1> DEFINE lz == Len(z)
           lw == Len(w)
<1>9. /\ lz \in Nat /\ n \in Nat /\ i \in 1..lz /\ lw = lz + n - 1
      /\ k = m => p \in 1..lz
      /\ k = m + 1 => p \in 1..n
  BY <1>1, <1>2, <1>3
<1> HIDE DEF z, w, i, n, lz, lw
<1>4. CASE k < m /\ l = k /\ q = p
  BY <1>1, <1>2, <1>4 DEF Stands, It
<1>5. CASE k = m /\ l = m /\ p < i /\ q = p
  <2>1. p \in 1..(i - 1) /\ q \in 1..lw /\ ~(q >= i + n)
    BY <1>5, <1>9
  <2>2. w[q] = z[p]
    BY <1>1, <1>5, <2>1
  <2>3. Stands(t, l, q)
    BY <1>1, <1>2, <1>5, <2>1 DEF Stands, w, lw
  <2>4. It(t, l, q) = It(s, k, p)
    BY <1>5, <2>2 DEF It, z, w
  <2>5. ~(q >= t[l].i)
    BY <1>2, <1>5, <2>1
  <2> QED
    BY <2>3, <2>4, <2>5
<1>6. CASE k = m /\ l = m /\ p > i /\ q = p + n - 1
  <2>1. q \in (i + n)..(lz + n - 1) /\ q \in 1..lw /\ q - n + 1 = p /\ p >= i
    BY <1>6, <1>9
  <2>2. w[q] = z[q - n + 1]
    BY <1>1, <2>1 DEF lz
  <2>3. w[q] = z[p]
    BY <2>1, <2>2
  <2> QED
    BY <1>1, <1>2, <1>6, <2>1, <2>3 DEF Stands, It, z, w, i, lw
<1>7. CASE k = m + 1 /\ l = m /\ q = p + i - 1
  <2>1. q \in i..(i + n - 1) /\ q \in 1..lw /\ q - i + 1 = p /\ ~(q >= i + n)
    BY <1>7, <1>9
  <2>2. w[q] = items[q - i + 1]
    BY <1>1, <2>1
  <2>3. w[q] = items[p]
    BY <2>1, <2>2
  <2> QED
    BY <1>1, <1>2, <1>3, <1>7, <2>1, <2>3 DEF Stands, It, w, lw
<1>8. Goes(m, i, n, k, p, l, q)
  BY DEF i, n
<1> QED
  BY <1>4, <1>5, <1>6, <1>7, <1>8 DEF Goes

LEMMA SplicedFrom ==
  ASSUME NEW s, NEW t, NEW m, NEW items, Spliced(s, t, m, items),
         NEW l \in Nat, NEW q \in Nat, Stands(t, l, q)
  PROVE  \E k, p \in Nat : Stands(s, k, p) /\ Goes(m, s[m].i, Len(items), k, p, l, q)
<1> DEFINE z == s[m].zone
           w == t[m].zone
           i == s[m].i
           n == Len(items)
<1>1. /\ Len(z) \in Nat /\ n \in Nat /\ i \in 1..Len(z)
      /\ Len(w) = Len(z) + n - 1
      /\ m \in Nat \ {0} /\ Len(s) \in Nat /\ m <= Len(s) /\ Len(s) <= m + 1
  BY SplicedZone
<1>2. l \in 1..m /\ q \in 1..Len(t[l].zone) /\ (l < m => t[l] = s[l])
  <2>1. l \in 1..m /\ q \in 1..Len(t[l].zone)
    BY DEF Stands, Spliced
  <2>2. l < m => l \in 1..(m - 1)
    BY <1>1, <2>1
  <2> QED
    BY <2>1, <2>2 DEF Spliced
<1>3. n > 0 => m + 1 = Len(s) /\ Len(s[m + 1].zone) = n
  BY <1>1 DEF Spliced
<1> DEFINE lz == Len(z)
           lw == Len(w)
<1>9. /\ lz \in Nat /\ n \in Nat /\ i \in 1..lz /\ lw = lz + n - 1
      /\ l = m => q \in 1..lw
  BY <1>1, <1>2
<1> HIDE DEF z, w, i, n, lz, lw
<1>4. CASE l < m
  <2>1. l \in 1..Len(s) /\ q \in 1..Len(s[l].zone)
    BY <1>1, <1>2, <1>4
  <2> QED
    BY <1>1, <1>4, <2>1 DEF Stands, Goes
<1>5. CASE l = m /\ q < i
  <2>1. m \in 1..Len(s) /\ q \in 1..Len(s[m].zone)
    BY <1>1, <1>2, <1>5 DEF z
  <2> QED
    BY <1>1, <1>5, <2>1 DEF Stands, Goes, i
<1>6. CASE l = m /\ q >= i + n
  <2>1. q - n + 1 \in Nat /\ q - n + 1 > i /\ (q - n + 1) + n - 1 = q
    BY <1>1, <1>6
  <2>2. m \in 1..Len(s) /\ q - n + 1 \in 1..lz
    BY <1>1, <1>6, <1>9
  <2>3. Stands(s, m, q - n + 1)
    BY <2>2 DEF Stands, lz, z
  <2>4. Goes(m, i, n, m, q - n + 1, l, q)
    BY <1>6, <2>1 DEF Goes
  <2> QED
    BY <1>1, <2>1, <2>3, <2>4 DEF i, n
<1>7. CASE l = m /\ q >= i /\ q < i + n
  <2>1. q - i + 1 \in 1..n /\ (q - i + 1) + i - 1 = q /\ n > 0 /\ q - i + 1 \in Nat
    BY <1>1, <1>7
  <2>2. m + 1 \in 1..Len(s) /\ q - i + 1 \in 1..Len(s[m + 1].zone)
    BY <1>1, <1>3, <2>1
  <2>3. Stands(s, m + 1, q - i + 1)
    BY <2>2 DEF Stands
  <2>4. Goes(m, i, n, m + 1, q - i + 1, l, q)
    BY <1>7, <2>1 DEF Goes
  <2> QED
    BY <1>1, <2>1, <2>3, <2>4 DEF i, n
<1>8. l < m \/ (l = m /\ q < i) \/ (l = m /\ q >= i + n) \/ (l = m /\ q >= i /\ q < i + n)
  BY <1>1, <1>2, <1>9
<1> QED
  BY <1>4, <1>5, <1>6, <1>7, <1>8

LEMMA SplicedTo ==
  ASSUME NEW s, NEW t, NEW m, NEW items, Spliced(s, t, m, items),
         NEW k \in Nat, NEW p \in Nat, Stands(s, k, p), ~(k = m /\ p = s[m].i)
  PROVE  \E l, q \in Nat : Goes(m, s[m].i, Len(items), k, p, l, q)
<1> DEFINE i == s[m].i
           n == Len(items)
<1>1. /\ n \in Nat /\ i \in Nat \ {0}
      /\ m \in Nat \ {0} /\ Len(s) \in Nat /\ m <= Len(s) /\ Len(s) <= m + 1
  BY SplicedZone
<1>2. k \in 1..Len(s) /\ p \in Nat \ {0}
  BY <1>1 DEF Stands
<1> HIDE DEF i, n
<1>3. k < m \/ (k = m /\ p < i) \/ (k = m /\ p > i) \/ k = m + 1
  BY <1>1, <1>2 DEF i
<1>4. p + n - 1 \in Nat /\ p + i - 1 \in Nat
  BY <1>1, <1>2
<1>5. \E l, q \in Nat : Goes(m, i, n, k, p, l, q)
  BY <1>1, <1>3, <1>4 DEF Goes
<1> QED
  BY <1>5 DEF i, n

LEMMA SplicedOrder ==
  ASSUME NEW s, NEW t, NEW m, NEW items, Spliced(s, t, m, items)
  PROVE  InOrder(s, t, m, s[m].i, Len(items))
<1> USE DEF InOrder
<1> TAKE k, p, l, q, a, b, c, d \in Nat
<1> HAVE /\ Stands(s, k, p) /\ Stands(s, a, b) /\ Precedes(s, k, p, a, b)
         /\ Goes(m, s[m].i, Len(items), k, p, l, q) /\ Goes(m, s[m].i, Len(items), a, b, c, d)
<1> DEFINE i == s[m].i
           n == Len(items)
<1>1. /\ n \in Nat /\ i \in Nat \ {0}
      /\ m \in Nat \ {0} /\ Len(s) \in Nat /\ m <= Len(s) /\ Len(s) <= m + 1
  BY SplicedZone
<1>2. /\ k \in 1..Len(s) /\ p \in Nat \ {0} /\ (k = m + 1 => p \in 1..n)
      /\ a \in 1..Len(s) /\ b \in Nat \ {0} /\ (a = m + 1 => b \in 1..n)
  <2>1. m + 1 \in 1..Len(s) => Len(s[m + 1].zone) = n
    <3>1. m + 1 \in 1..Len(s) => m # Len(s)
      BY <1>1
    <3>2. m # Len(s) => items = s[m + 1].zone
      BY DEF Spliced
    <3> QED
      BY <3>1, <3>2
  <2>2. k \in 1..Len(s) /\ p \in 1..Len(s[k].zone) /\ a \in 1..Len(s) /\ b \in 1..Len(s[a].zone)
    BY DEF Stands
  <2>3. k = m + 1 => p \in 1..n
    BY <2>1, <2>2
  <2>4. a = m + 1 => b \in 1..n
    BY <2>1, <2>2
  <2>5. p \in Nat \ {0} /\ b \in Nat \ {0}
    BY ONLY <2>2, p \in Nat, b \in Nat
  <2> QED
    BY <2>2, <2>3, <2>4, <2>5
<1>3. \A j \in Nat : j \in 1..(m - 1) => t[j].i = s[j].i
  BY DEF Spliced
<1>4. Goes(m, i, n, k, p, l, q) /\ Goes(m, i, n, a, b, c, d)
  OBVIOUS
<1>5. (k < m => t[k].i = s[k].i) /\ (a < m => t[a].i = s[a].i)
  <2>1. (k < m => k \in 1..(m - 1)) /\ (a < m => a \in 1..(m - 1))
    BY ONLY k \in Nat, a \in Nat, <1>1, <1>2
  <2> QED
    BY ONLY <2>1, <1>3, k \in Nat, a \in Nat
<1>6. Precedes(s, k, p, a, b) /\ s[m].i = i
  OBVIOUS
<1> HIDE DEF i, n
<1> DEFINE sk == s[k].i
           sa == s[a].i
<1>7. \/ k = a /\ p < b
      \/ k < a /\ p < sk
      \/ k > a /\ b > sa
  BY <1>6 DEF Precedes
<1>8. (k = m => sk = i) /\ (a = m => sa = i)
  BY <1>6
<1> HIDE DEF sk, sa
<1>9. \/ l = c /\ q < d
      \/ l < c /\ l = k /\ k < m /\ q < sk
      \/ l > c /\ c = a /\ a < m /\ d > sa
  BY <1>1, <1>2, <1>4, <1>7, <1>8 DEF Goes
<1> QED
  BY <1>5, <1>9 DEF Precedes, sk, sa

LEMMA SplicedCarries ==
  ASSUME NEW s, NEW t, NEW m, NEW items, Spliced(s, t, m, items)
  PROVE  Carried(s, t, m, s[m].i, Len(items))
<1>1. \A k, p \in Nat : Stands(s, k, p) /\ ~(k = m /\ p = s[m].i) =>
         \E l, q \in Nat : Goes(m, s[m].i, Len(items), k, p, l, q)
  BY SplicedTo
<1>2. \A k, p, l, q \in Nat : Stands(s, k, p) /\ Goes(m, s[m].i, Len(items), k, p, l, q) =>
         /\ Stands(t, l, q) /\ It(t, l, q) = It(s, k, p)
         /\ q >= t[l].i => l = k /\ p >= s[k].i
  BY SplicedMoves
<1>3. \A l, q \in Nat : Stands(t, l, q) =>
         \E k, p \in Nat : Stands(s, k, p) /\ Goes(m, s[m].i, Len(items), k, p, l, q)
  BY SplicedFrom
<1> DEFINE i == s[m].i
           n == Len(items)
<1>4. InOrder(s, t, m, i, n)
  BY SplicedOrder
<1>5. \A k, p \in Nat : Stands(s, k, p) /\ ~(k = m /\ p = i) =>
         \E l, q \in Nat : Goes(m, i, n, k, p, l, q)
  BY <1>1
<1>6. \A k, p, l, q \in Nat : Stands(s, k, p) /\ Goes(m, i, n, k, p, l, q) =>
         Stands(t, l, q) /\ It(t, l, q) = It(s, k, p)
  BY <1>2
<1>7. \A k, p, l, q \in Nat :
         Stands(s, k, p) /\ Goes(m, i, n, k, p, l, q) /\ q >= t[l].i => l = k /\ p >= s[k].i
  BY <1>2
<1>8. \A l, q \in Nat : Stands(t, l, q) =>
         \E k, p \in Nat : Stands(s, k, p) /\ Goes(m, i, n, k, p, l, q)
  BY <1>3
<1> HIDE DEF i, n
<1>9. Carried(s, t, m, i, n)
  BY <1>4, <1>5, <1>6, <1>7, <1>8 DEF Carried
<1> QED
  BY <1>9 DEF i, n

(* An activation that steps over a definition moves nothing.                *)
LEMMA StayCarries ==
  ASSUME NEW s \in Seq(ActivationType), NEW t, Len(s) \in Nat \ {0}, Len(t) = Len(s),
         \A k \in 1..Len(s) : t[k].zone = s[k].zone,
         \A k \in 1..(Len(s) - 1) : t[k].i = s[k].i,
         t[Len(s)].i = s[Len(s)].i + 1
  PROVE  Carried(s, t, Len(s) + 1, 1, 0)
<1> DEFINE m == Len(s) + 1
<1>1. m \in Nat /\ Len(s) \in Nat /\ \A k \in Nat : k \in 1..Len(s) => k < m
  OBVIOUS
<1>2. \A k, p \in Nat : Stands(s, k, p) <=> Stands(t, k, p)
  BY DEF Stands
<1>3. \A k, p \in Nat : Stands(s, k, p) => It(t, k, p) = It(s, k, p) /\ k < m
  BY <1>1 DEF Stands, It
<1>0. \A k \in 1..Len(s) : s[k].i \in Nat
  <2> SUFFICES ASSUME NEW k \in 1..Len(s) PROVE s[k].i \in Nat
    OBVIOUS
  <2>1. s[k] \in ActivationType
    OBVIOUS
  <2> QED
    BY <2>1 DEF ActivationType
<1>4. \A k \in 1..Len(s) : t[k].i >= s[k].i
  <2> SUFFICES ASSUME NEW k \in 1..Len(s) PROVE t[k].i >= s[k].i
    OBVIOUS
  <2>1. s[k].i \in Nat
    BY <1>0
  <2>2. k \in 1..(Len(s) - 1) \/ k = Len(s)
    OBVIOUS
  <2> QED
    BY <2>1, <2>2
<1>5. \A k, l \in Nat : k \in 1..Len(s) /\ l \in 1..Len(s) /\ k < l => t[k].i = s[k].i
  <2> SUFFICES ASSUME NEW k \in Nat, NEW l \in Nat, k \in 1..Len(s), l \in 1..Len(s), k < l
               PROVE  t[k].i = s[k].i
    OBVIOUS
  <2>1. k \in 1..(Len(s) - 1)
    OBVIOUS
  <2> QED
    BY <2>1
<1>10. \A k, p, l, q \in Nat : Stands(s, k, p) => (Goes(m, 1, 0, k, p, l, q) <=> l = k /\ q = p)
  BY <1>1, <1>3 DEF Goes
<1>6. InOrder(s, t, m, 1, 0)
  <2> USE DEF InOrder
  <2> TAKE k, p, l, q, a, b, c, d \in Nat
  <2> HAVE /\ Stands(s, k, p) /\ Stands(s, a, b) /\ Precedes(s, k, p, a, b)
           /\ Goes(m, 1, 0, k, p, l, q) /\ Goes(m, 1, 0, a, b, c, d)
  <2>1. l = k /\ q = p /\ c = a /\ d = b
    BY <1>10
  <2>2. k \in 1..Len(s) /\ a \in 1..Len(s)
    BY DEF Stands
  <2>3. (k < a => t[k].i = s[k].i) /\ (a < k => t[a].i = s[a].i)
    BY <1>5, <2>2
  <2>4. Precedes(t, k, p, a, b)
    BY <2>3 DEF Precedes
  <2> QED
    BY <2>1, <2>4
<1> HIDE DEF m
<1>7. \A k, p \in Nat : Stands(s, k, p) => \E l, q \in Nat : Goes(m, 1, 0, k, p, l, q)
  BY <1>10
<1>8. \A l, q \in Nat :
         Stands(t, l, q) => \E k, p \in Nat : Stands(s, k, p) /\ Goes(m, 1, 0, k, p, l, q)
  BY <1>2, <1>10
<1>9. \A k, p, l, q \in Nat : Stands(s, k, p) /\ Goes(m, 1, 0, k, p, l, q) =>
         Stands(t, l, q) /\ It(t, l, q) = It(s, k, p)
  <2> SUFFICES ASSUME NEW k \in Nat, NEW p \in Nat, Stands(s, k, p)
               PROVE  Stands(t, k, p) /\ It(t, k, p) = It(s, k, p)
    BY <1>10
  <2> QED
    BY <1>2, <1>3
<1>11. \A k, p, l, q \in Nat :
         Stands(s, k, p) /\ Goes(m, 1, 0, k, p, l, q) /\ q >= t[l].i => l = k /\ p >= s[k].i
  <2> SUFFICES ASSUME NEW k \in Nat, NEW p \in Nat, Stands(s, k, p), p >= t[k].i
               PROVE  p >= s[k].i
    BY <1>10
  <2>1. k \in 1..Len(s) /\ t[k].i >= s[k].i
    BY <1>4 DEF Stands
  <2>2. s[k].i \in Nat /\ t[k].i \in Nat
    <3>1. s[k].i \in Nat
      BY <1>0, <2>1
    <3>2. k \in 1..(Len(s) - 1) \/ k = Len(s)
      BY <2>1
    <3> QED
      BY <3>1, <3>2
  <2> QED
    BY <2>1, <2>2
<1>12. Carried(s, t, m, 1, 0)
  BY <1>6, <1>7, <1>8, <1>9, <1>11 DEF Carried
<1> QED
  BY <1>12 DEF m

LEMMA GoesOnce ==
  ASSUME NEW m, NEW i, NEW n, NEW k \in Nat, NEW p \in Nat, NEW l \in Nat, NEW q \in Nat,
         NEW c \in Nat, NEW d \in Nat, m \in Nat, i \in Nat, n \in Nat,
         Goes(m, i, n, k, p, l, q), Goes(m, i, n, k, p, c, d)
  PROVE  l = c /\ q = d
  BY DEF Goes

(* What is carried, and what must have been there.                          *)
LEMMA DefFrom ==
  ASSUME NEW s, NEW t, NEW m, NEW i, NEW n, Carried(s, t, m, i, n),
         NEW l \in Nat, NEW q \in Nat, NEW f, NEW d, DefAt(t, l, q, f, d)
  PROVE  \E k, p \in Nat : DefAt(s, k, p, f, d) /\ Goes(m, i, n, k, p, l, q)
<1>1. PICK k \in Nat, p \in Nat : Stands(s, k, p) /\ Goes(m, i, n, k, p, l, q)
  BY DEF Carried, DefAt
<1>2. It(t, l, q) = It(s, k, p)
  BY <1>1 DEF Carried
<1> QED
  BY <1>1, <1>2 DEF DefAt

LEMMA DefTo ==
  ASSUME NEW s, NEW t, NEW m, NEW i, NEW n, Carried(s, t, m, i, n),
         NEW k \in Nat, NEW p \in Nat, NEW f, NEW d, DefAt(s, k, p, f, d),
         Stands(s, m, i) => It(s, m, i).kind = "import"
  PROVE  \E l, q \in Nat : DefAt(t, l, q, f, d) /\ Goes(m, i, n, k, p, l, q)
<1>1. Stands(s, k, p) /\ ~(k = m /\ p = i)
  BY DEF DefAt
<1>2. PICK l \in Nat, q \in Nat : Goes(m, i, n, k, p, l, q)
  BY <1>1 DEF Carried
<1>3. Stands(t, l, q) /\ It(t, l, q) = It(s, k, p)
  BY <1>1, <1>2 DEF Carried
<1> QED
  BY <1>2, <1>3 DEF DefAt

LEMMA ImportTo ==
  ASSUME NEW s, NEW t, NEW m, NEW i, NEW n, Carried(s, t, m, i, n),
         NEW k \in Nat, NEW p \in Nat, NEW g, ImportAt(s, k, p, g), ~(k = m /\ p = i)
  PROVE  \E l, q \in Nat : ImportAt(t, l, q, g) /\ Goes(m, i, n, k, p, l, q)
<1>1. PICK l \in Nat, q \in Nat : Goes(m, i, n, k, p, l, q)
  BY DEF Carried, ImportAt
<1>2. Stands(t, l, q) /\ It(t, l, q) = It(s, k, p)
  BY <1>1 DEF Carried, ImportAt
<1> QED
  BY <1>1, <1>2 DEF ImportAt

-----------------------------------------------------------------------------
(* Nothing is lost and nothing comes twice.                                 *)

LEMMA ClosureFacts ==
  ASSUME shape \in [Files -> Shapes], NEW S, S \subseteq Files
  PROVE  /\ S \subseteq Closure(S) /\ Closure(S) \subseteq Files /\ Closed(Closure(S))
         /\ \A T \in SUBSET Files : S \subseteq T /\ Closed(T) => Closure(S) \subseteq T
<1>1. S \subseteq Closure(S) /\ Closure(S) \subseteq Files
  BY DEF Closure
<1>2. \A T \in SUBSET Files : S \subseteq T /\ Closed(T) => Closure(S) \subseteq T
  BY DEF Closure
<1>3. ASSUME NEW f \in Closure(S), NEW g \in Imports(f) PROVE g \in Closure(S)
  <2>1. \A T \in SUBSET Files : S \subseteq T /\ Closed(T) => f \in T
    BY DEF Closure
  <2>2. \A T \in SUBSET Files : S \subseteq T /\ Closed(T) => g \in T
    BY <2>1 DEF Closed
  <2>3. g \in Files
    BY DEF Imports
  <2> QED
    BY <2>2, <2>3 DEF Closure
<1> QED
  BY <1>1, <1>2, <1>3 DEF Closed

(* The files that have been started: v is visited.                          *)
Seen(v) == v \cup {Root}

FilesKnown(s, v) ==
    /\ v \subseteq Reachable
    /\ s[1].file = Root
    /\ \A k \in 1..Len(s) : k # 1 => s[k].file \in v

ItemsKnown(s, v) ==
    \A k, p \in Nat : Stands(s, k, p) =>
        /\ It(s, k, p).file \in Reachable
        /\ It(s, k, p).kind = "def" => It(s, k, p).file \in Seen(v)

(* An import is resolved or still there,                                    *)
Pending(s, v) ==
    \A f \in Seen(v) : \A g \in Imports(f) : g \in v \/ \E k, p \in Nat : ImportAt(s, k, p, g)

(* and a definition is there,                                               *)
Present(s, v) ==
    \A f \in Seen(v) : \A n \in Defs(f) : \E k, p \in Nat : DefAt(s, k, p, f, n)

(* once; that of the root once more if it is imported.                      *)
Once(s, f, n) ==
    \A k, p, l, q \in Nat : DefAt(s, k, p, f, n) /\ DefAt(s, l, q, f, n) => k = l /\ p = q

Twice(s, f, n) ==
    \A k, p, l, q, a, b \in Nat :
        DefAt(s, k, p, f, n) /\ DefAt(s, l, q, f, n) /\ DefAt(s, a, b, f, n) =>
            (k = l /\ p = q) \/ (k = a /\ p = b) \/ (l = a /\ q = b)

Few(s, v) ==
    \A f \in Files, n \in Nat : /\ f # Root \/ Root \notin v => Once(s, f, n)
                                /\ Twice(s, f, n)

Whole(s, v) ==
    FilesKnown(s, v) /\ ItemsKnown(s, v) /\ Pending(s, v) /\ Present(s, v) /\ Few(s, v)

MInv ==
    /\ outcome \in {"running", "merged"} => Whole(stack, visited)
    /\ Done => Len(stack) = 1 /\ stack[1].i > Len(stack[1].zone)

LEMMA OnceOn ==
  ASSUME NEW s, NEW t, NEW m \in Nat, NEW i \in Nat, NEW n \in Nat, Carried(s, t, m, i, n),
         NEW f, NEW d, Once(s, f, d)
  PROVE  Once(t, f, d)
<1> USE DEF Once
<1> TAKE k, p, l, q \in Nat
<1> HAVE DefAt(t, k, p, f, d) /\ DefAt(t, l, q, f, d)
<1>1. PICK k1 \in Nat, p1 \in Nat : DefAt(s, k1, p1, f, d) /\ Goes(m, i, n, k1, p1, k, p)
  BY DefFrom
<1>2. PICK l1 \in Nat, q1 \in Nat : DefAt(s, l1, q1, f, d) /\ Goes(m, i, n, l1, q1, l, q)
  BY DefFrom
<1>3. k1 = l1 /\ p1 = q1
  BY <1>1, <1>2
<1> QED
  BY <1>1, <1>2, <1>3, GoesOnce

LEMMA TwiceOn ==
  ASSUME NEW s, NEW t, NEW m \in Nat, NEW i \in Nat, NEW n \in Nat, Carried(s, t, m, i, n),
         NEW f, NEW d, Twice(s, f, d)
  PROVE  Twice(t, f, d)
<1> USE DEF Twice
<1> TAKE k, p, l, q, a, b \in Nat
<1> HAVE DefAt(t, k, p, f, d) /\ DefAt(t, l, q, f, d) /\ DefAt(t, a, b, f, d)
<1> HIDE DEF Twice
<1>1. PICK k1 \in Nat, p1 \in Nat : DefAt(s, k1, p1, f, d) /\ Goes(m, i, n, k1, p1, k, p)
  BY DefFrom
<1>2. PICK l1 \in Nat, q1 \in Nat : DefAt(s, l1, q1, f, d) /\ Goes(m, i, n, l1, q1, l, q)
  BY DefFrom
<1>3. PICK a1 \in Nat, b1 \in Nat : DefAt(s, a1, b1, f, d) /\ Goes(m, i, n, a1, b1, a, b)
  BY DefFrom
<1>4. (k1 = l1 /\ p1 = q1) \/ (k1 = a1 /\ p1 = b1) \/ (l1 = a1 /\ q1 = b1)
  BY <1>1, <1>2, <1>3 DEF Twice
<1>5. CASE k1 = l1 /\ p1 = q1
  BY <1>1, <1>2, <1>5, GoesOnce
<1>6. CASE k1 = a1 /\ p1 = b1
  BY <1>1, <1>3, <1>6, GoesOnce
<1>7. CASE l1 = a1 /\ q1 = b1
  BY <1>2, <1>3, <1>7, GoesOnce
<1> QED
  BY <1>4, <1>5, <1>6, <1>7

(* A step within the files that are open.                                   *)
LEMMA WholeOn ==
  ASSUME NEW s, NEW t, NEW v, NEW m \in Nat, NEW i \in Nat, NEW n \in Nat,
         Carried(s, t, m, i, n), Whole(s, v),
         Stands(s, m, i) => It(s, m, i).kind = "import" /\ It(s, m, i).file \in v,
         Len(t) \in 1..Len(s), Len(s) \in Nat,
         \A k \in 1..Len(t) : t[k].file = s[k].file
  PROVE  Whole(t, v)
<1>1. FilesKnown(t, v)
  BY DEF Whole, FilesKnown
<1>2. ItemsKnown(t, v)
  <2> SUFFICES ASSUME NEW l \in Nat, NEW q \in Nat, Stands(t, l, q)
               PROVE  /\ It(t, l, q).file \in Reachable
                      /\ It(t, l, q).kind = "def" => It(t, l, q).file \in Seen(v)
    BY DEF ItemsKnown
  <2>1. PICK k \in Nat, p \in Nat : Stands(s, k, p) /\ Goes(m, i, n, k, p, l, q)
    BY DEF Carried
  <2>2. It(t, l, q) = It(s, k, p)
    BY <2>1 DEF Carried
  <2> QED
    BY <2>1, <2>2 DEF Whole, ItemsKnown
<1>3. Pending(t, v)
  <2> SUFFICES ASSUME NEW f \in Seen(v), NEW g \in Imports(f), g \notin v
               PROVE  \E l, q \in Nat : ImportAt(t, l, q, g)
    BY DEF Pending
  <2>1. PICK k \in Nat, p \in Nat : ImportAt(s, k, p, g)
    BY DEF Whole, Pending
  <2>2. ~(k = m /\ p = i)
    BY <2>1 DEF ImportAt
  <2> QED
    BY <2>1, <2>2, ImportTo
<1>4. Present(t, v)
  <2> SUFFICES ASSUME NEW f \in Seen(v), NEW d \in Defs(f)
               PROVE  \E l, q \in Nat : DefAt(t, l, q, f, d)
    BY DEF Present
  <2>1. PICK k \in Nat, p \in Nat : DefAt(s, k, p, f, d)
    BY DEF Whole, Present
  <2> QED
    BY <2>1, DefTo
<1>5. Few(t, v)
  BY OnceOn, TwiceOn DEF Whole, Few
<1> QED
  BY <1>1, <1>2, <1>3, <1>4, <1>5 DEF Whole

(* The steps within the files that are open: each is a Carried one that     *)
(* takes nothing away but an import of a file seen before.                  *)
Within(s, t, v, m, i, n) ==
    /\ m \in Nat /\ i \in Nat /\ n \in Nat /\ Carried(s, t, m, i, n)
    /\ Stands(s, m, i) => /\ It(s, m, i).kind = "import" /\ It(s, m, i).file \in v
                       /\ m = Len(t) /\ Len(s) <= m + 1 /\ i = s[m].i
    /\ Len(s) \in Nat /\ Len(t) \in 1..Len(s) /\ \A k \in 1..Len(t) : t[k].file = s[k].file

LEMMA KeepDefWithin ==
  ASSUME IInv, KeepDef
  PROVE  Within(stack, stack', visited, Len(stack) + 1, 1, 0)
<1> DEFINE a == Moved(Top, Top.zone, Top.i + 1)
           h == Len(stack)
<1>1. /\ h \in Nat \ {0} /\ Top \in ActivationType /\ stack \in Seq(ActivationType)
      /\ Top.i \in Nat \ {0} /\ Top.zone \in Seq(Item) /\ Top = stack[h]
  <2>1. h \in Nat \ {0} /\ Top \in ActivationType /\ stack \in Seq(ActivationType)
    BY TopGood DEF IInv, StackGood
  <2> QED
    BY <2>1 DEF ActivationType, Top
<1>2. a.file = Top.file /\ a.zone = Top.zone /\ a.i = Top.i + 1
  <2> DEFINE x == Top.i + 1
             z == Top.zone
  <2>1. x \in Nat \ {0} /\ z \in Seq(Item) /\ Top \in ActivationType
    BY <1>1
  <2> HIDE DEF x, z
  <2>2. Moved(Top, z, x).file = Top.file /\ Moved(Top, z, x).zone = z /\ Moved(Top, z, x).i = x
    BY <2>1, MovedType
  <2> QED
    BY <2>2 DEF x, z
<1>3. stack' = [stack EXCEPT ![h] = a]
  <2>1. Continue(Top.zone, Top.i + 1)
    BY DEF KeepDef
  <2> QED
    BY <2>1, ContinueIs
<1> HIDE DEF a
<1>4. Len(stack') = h /\ stack'[h] = a /\ \A k \in 1..(h - 1) : stack'[k] = stack[k]
  BY <1>1, <1>3
<1>5. \A k \in 1..h : k \in 1..(h - 1) \/ k = h
  BY <1>1
<1>6. \A k \in 1..h : stack'[k].zone = stack[k].zone /\ stack'[k].file = stack[k].file
  BY <1>1, <1>2, <1>4, <1>5
<1>7. Carried(stack, stack', h + 1, 1, 0)
  <2>1. stack'[h].i = stack[h].i + 1 /\ \A k \in 1..(h - 1) : stack'[k].i = stack[k].i
    BY <1>1, <1>2, <1>4
  <2> QED
    BY <1>1, <1>4, <1>6, <2>1, StayCarries
<1>8. ~Stands(stack, h + 1, 1)
  BY <1>1 DEF Stands
<1> QED
  BY <1>1, <1>4, <1>6, <1>7, <1>8 DEF Within

(* The stack behind a splice into its m-th activation; u are the first m.   *)
Replaced(s, t, m, items, u) ==
    /\ s \in Seq(ActivationType) /\ m \in 1..Len(s) /\ items \in Seq(Item)
    /\ u \in Seq(ActivationType) /\ Len(u) = m /\ \A k \in 1..m : u[k] = s[k]
    /\ s[m].i \in 1..Len(s[m].zone)
    /\ t = [u EXCEPT ![m] = Resolved(s[m], items)]
    /\ \/ m = Len(s) /\ Len(items) = 0
       \/ m + 1 = Len(s) /\ items = s[m + 1].zone /\ s[m + 1].i > Len(items)

LEMMA SplicedStack ==
  ASSUME NEW s, NEW t, NEW m, NEW items, NEW u, Replaced(s, t, m, items, u)
  PROVE  /\ Spliced(s, t, m, items)
         /\ \A k \in 1..m : t[k].file = s[k].file
<1> DEFINE a == Resolved(s[m], items)
           z == s[m].zone
           i == s[m].i
<1>0. /\ s \in Seq(ActivationType) /\ m \in 1..Len(s) /\ items \in Seq(Item)
      /\ u \in Seq(ActivationType) /\ Len(u) = m /\ \A k \in 1..m : u[k] = s[k]
      /\ s[m].i \in 1..Len(s[m].zone)
      /\ t = [u EXCEPT ![m] = Resolved(s[m], items)]
      /\ \/ m = Len(s) /\ Len(items) = 0
         \/ m + 1 = Len(s) /\ items = s[m + 1].zone /\ s[m + 1].i > Len(items)
  BY DEF Replaced
<1>1. s[m] \in ActivationType /\ m \in Nat \ {0} /\ Len(s) \in Nat
  BY <1>0
<1>2. z \in Seq(Item) /\ i \in 1..Len(z) /\ Len(z) \in Nat /\ Len(items) \in Nat
  <2>1. z \in Seq(Item)
    BY <1>1 DEF ActivationType
  <2>2. i \in 1..Len(z) /\ items \in Seq(Item)
    BY <1>0
  <2> HIDE DEF z, i
  <2> QED
    BY <2>1, <2>2
<1>3. /\ a \in ActivationType /\ a.file = s[m].file /\ a.zone = Splice(z, i, items)
      /\ a.i = i + Len(items)
  <2>1. Splice(z, i, items) \in Seq(Item)
    <3>1. items \in Seq(Item)
      BY <1>0
    <3> HIDE DEF z, i
    <3> QED
      BY <1>2, <3>1, SpliceShape
  <2>2. After(i, items) = i + Len(items) /\ i + Len(items) \in Nat \ {0}
    BY <1>2 DEF After
  <2>3. a = Moved(s[m], Splice(z, i, items), i + Len(items))
    BY <2>2 DEF Resolved
  <2> DEFINE w == Splice(z, i, items)
             x == i + Len(items)
  <2>4. w \in Seq(Item) /\ x \in Nat \ {0} /\ a = Moved(s[m], w, x)
    BY <2>1, <2>2, <2>3
  <2> HIDE DEF w, x, a
  <2>5. a \in ActivationType /\ a.file = s[m].file /\ a.zone = w /\ a.i = x
    BY <1>1, <2>4, MovedType
  <2> QED
    BY <2>5 DEF w, x
<1> HIDE DEF a
<1>4. t \in Seq(ActivationType) /\ Len(t) = m /\ t[m] = a /\ \A k \in 1..(m - 1) : t[k] = u[k]
  <2>1. t = [u EXCEPT ![m] = a]
    BY <1>0 DEF a
  <2> QED
    BY <1>0, <1>1, <1>3, <2>1
<1>5. \A k \in 1..(m - 1) : t[k] = s[k]
  BY <1>0, <1>1, <1>4
<1>6. Spliced(s, t, m, items)
  BY <1>0, <1>1, <1>2, <1>3, <1>4, <1>5 DEF Spliced
<1>7. \A k \in 1..m : k \in 1..(m - 1) \/ k = m
  BY <1>1
<1> QED
  BY <1>3, <1>4, <1>5, <1>6, <1>7

LEMMA SplicedWithin ==
  ASSUME NEW s, NEW t, NEW v, NEW m \in Nat, NEW items, Spliced(s, t, m, items),
         \A k \in 1..m : t[k].file = s[k].file,
         It(s, m, s[m].i).kind = "import", It(s, m, s[m].i).file \in v
  PROVE  Within(s, t, v, m, s[m].i, Len(items))
<1>1. /\ Len(items) \in Nat /\ s[m].i \in Nat /\ Len(s) \in Nat
      /\ m \in Nat \ {0} /\ m <= Len(s) /\ Len(s) <= m + 1
  BY SplicedZone
<1>2. Carried(s, t, m, s[m].i, Len(items)) /\ Len(t) = m
  BY SplicedCarries DEF Spliced
<1> QED
  BY <1>1, <1>2 DEF Within

LEMMA DropVisitedWithin ==
  ASSUME IInv, DropVisited
  PROVE  Within(stack, stack', visited, Len(stack), Top.i, 0)
<1> DEFINE h == Len(stack)
<1>1. /\ h \in Nat \ {0} /\ stack \in Seq(ActivationType)
      /\ Top.i \in 1..Len(Top.zone) /\ Top = stack[h]
      /\ Top.zone[Top.i].kind = "import" /\ Top.zone[Top.i].file \in visited
  <2>1. h \in Nat \ {0} /\ Top \in ActivationType /\ stack \in Seq(ActivationType)
    BY TopGood DEF IInv, StackGood
  <2>2. Top.i \in Nat \ {0} /\ Top.zone \in Seq(Item)
    BY <2>1 DEF ActivationType
  <2> QED
    BY <2>1, <2>2 DEF DropVisited, AtItem, Target, Top
<1>2. stack' = [stack EXCEPT ![h] = Resolved(Top, <<>>)]
  <2>1. Continue(Splice(Top.zone, Top.i, <<>>), Top.i) /\ After(Top.i, <<>>) = Top.i
    BY <1>1 DEF DropVisited, After
  <2> QED
    BY <2>1, ContinueIs DEF Resolved
<1>3. <<>> \in Seq(Item) /\ Len(<<>>) = 0
  OBVIOUS
<1>4. /\ Spliced(stack, stack', h, <<>>)
      /\ \A k \in 1..h : stack'[k].file = stack[k].file
  <2>1. h \in 1..Len(stack) /\ Len(stack) = h /\ \A k \in 1..h : stack[k] = stack[k]
    BY <1>1
  <2>2. /\ stack[h].i \in 1..Len(stack[h].zone)
        /\ stack' = [stack EXCEPT ![h] = Resolved(stack[h], <<>>)]
    BY <1>1, <1>2
  <2> DEFINE e == <<>>
  <2>3. e \in Seq(Item) /\ Len(e) = 0 /\ stack' = [stack EXCEPT ![h] = Resolved(stack[h], e)]
    BY <1>3, <2>2
  <2> HIDE DEF h, e
  <2>4. Replaced(stack, stack', h, e, stack)
    BY <1>1, <2>1, <2>2, <2>3 DEF Replaced
  <2>5. Spliced(stack, stack', h, e) /\ \A k \in 1..h : stack'[k].file = stack[k].file
    BY <2>4, SplicedStack
  <2> QED
    BY <2>5 DEF e
<1>5. It(stack, h, stack[h].i).kind = "import" /\ It(stack, h, stack[h].i).file \in visited
  BY <1>1 DEF It
<1> QED
  BY <1>1, <1>3, <1>4, <1>5, SplicedWithin

LEMMA MergeWithin ==
  ASSUME IInv, Merge, FilesKnown(stack, visited)
  PROVE  LET m == Len(stack) - 1
         IN  Within(stack, stack', visited, m, stack[m].i, Len(Top.zone))
<1> DEFINE h == Len(stack)
           m == h - 1
           callers == SubSeq(stack, 1, m)
<1>1. /\ h \in Nat \ {0} /\ stack \in Seq(ActivationType) /\ Top = stack[h] /\ h > 1
      /\ Top.i > Len(Top.zone) /\ Top \in ActivationType
  BY TopGood DEF IInv, StackGood, Merge, AtEnd, Top
<1>2. Top.zone \in Seq(Item) /\ m \in 1..h /\ m + 1 = h /\ m \in Nat
  BY <1>1 DEF ActivationType
<1>3. callers \in Seq(ActivationType) /\ Len(callers) = m /\ \A k \in 1..m : callers[k] = stack[k]
  BY <1>1
<1>4. /\ stack[m].i \in 1..Len(stack[m].zone)
      /\ It(stack, m, stack[m].i).kind = "import"
      /\ It(stack, m, stack[m].i).file = Top.file
  <2>1. Waits(stack[m], stack[m + 1]) /\ stack[m] \in ActivationType
    BY <1>1, <1>2 DEF IInv, StackGood
  <2>2. stack[m].i \in Nat \ {0} /\ stack[m].zone \in Seq(Item)
    BY <2>1 DEF ActivationType
  <2> QED
    BY <1>1, <1>2, <2>1, <2>2 DEF Waits, It
<1>5. Top.file \in visited
  <2>1. h \in 1..h /\ h # 1
    BY <1>1
  <2> QED
    BY <1>1, <2>1 DEF FilesKnown
<1>6. stack' = [callers EXCEPT ![m] = Resolved(stack[m], Top.zone)]
  <2>1. stack' = [callers EXCEPT ![Len(callers)] = Resolved(callers[Len(callers)], Top.zone)]
    BY DEF Merge, Resolved
  <2>2. callers[m] = stack[m]
    BY <1>2, <1>3
  <2> HIDE DEF callers
  <2> QED
    BY <1>3, <2>1, <2>2
<1> HIDE DEF callers
<1>7. /\ Spliced(stack, stack', m, Top.zone)
      /\ \A k \in 1..m : stack'[k].file = stack[k].file
  <2>1. m + 1 = Len(stack) /\ Top.zone = stack[m + 1].zone /\ stack[m + 1].i > Len(Top.zone)
    BY <1>1, <1>2
  <2> HIDE DEF h, m
  <2>2. m \in 1..Len(stack)
    BY <1>2 DEF h
  <2>3. Replaced(stack, stack', m, Top.zone, callers)
    BY <1>1, <1>2, <1>3, <1>4, <1>6, <2>1, <2>2 DEF Replaced
  <2> QED
    BY <2>3, SplicedStack
<1> QED
  BY <1>2, <1>4, <1>5, <1>7, SplicedWithin

(* A file that is opened: its items come on top, the others stay.           *)
LEMMA ParsedAt ==
  ASSUME shape \in [Files -> Shapes], NEW g \in Files
  PROVE  /\ \A p \in 1..Len(Parsed(g)) :
               \/ /\ p \in Defs(g)
                  /\ Parsed(g)[p].kind = "def" /\ Parsed(g)[p].file = g /\ Parsed(g)[p].n = p
               \/ /\ shape[g][p] \in Imports(g)
                  /\ Parsed(g)[p].kind = "import" /\ Parsed(g)[p].file = shape[g][p]
         /\ \A n \in Defs(g) : n \in 1..Len(Parsed(g)) /\ n \in Nat
                               /\ Parsed(g)[n].kind = "def" /\ Parsed(g)[n].file = g /\ Parsed(g)[n].n = n
         /\ \A h \in Imports(g) : \E p \in 1..Len(Parsed(g)) :
               p \in Nat /\ Parsed(g)[p].kind = "import" /\ Parsed(g)[p].file = h
<1>1. shape[g] \in Seq(Files \cup {Def})
  BY ShapesAssumption
<1>2. /\ DOMAIN shape[g] \subseteq Nat
      /\ \A p \in DOMAIN shape[g] : shape[g][p] \in Files \cup {Def}
  BY <1>1
<1>3. Parsed(g) \in Seq(Item)
  BY ParsedType
<1>4. DOMAIN Parsed(g) = DOMAIN shape[g] /\ DOMAIN Parsed(g) = 1..Len(Parsed(g))
  <2>1. DOMAIN Parsed(g) = 1..Len(Parsed(g))
    BY <1>3
  <2> QED
    BY <2>1 DEF Parsed
<1>5. \A p \in DOMAIN shape[g] :
         Parsed(g)[p] = IF shape[g][p] = Def THEN [kind |-> "def", file |-> g, n |-> p]
                        ELSE [kind |-> "import", file |-> shape[g][p], n |-> p]
  BY DEF Parsed
<1>6. \A p \in DOMAIN shape[g] :
         /\ shape[g][p] = Def => Parsed(g)[p].kind = "def" /\ Parsed(g)[p].file = g /\ Parsed(g)[p].n = p
         /\ shape[g][p] # Def => Parsed(g)[p].kind = "import" /\ Parsed(g)[p].file = shape[g][p]
  <2> TAKE p \in DOMAIN shape[g]
  <2> DEFINE x == Parsed(g)[p]
  <2>1. /\ shape[g][p] = Def => x = [kind |-> "def", file |-> g, n |-> p]
        /\ shape[g][p] # Def => x = [kind |-> "import", file |-> shape[g][p], n |-> p]
    BY <1>5
  <2> HIDE DEF x
  <2>2. /\ shape[g][p] = Def => x.kind = "def" /\ x.file = g /\ x.n = p
        /\ shape[g][p] # Def => x.kind = "import" /\ x.file = shape[g][p]
    BY <2>1
  <2> QED
    BY <2>2 DEF x
<1>7. \A h \in Imports(g) : h # Def
  BY DefAssumption DEF Imports
<1> QED
  BY <1>2, <1>4, <1>6, <1>7 DEF Defs, Imports

Opens(s, t, g) ==
    /\ Len(s) \in Nat \ {0} /\ Len(t) = Len(s) + 1
    /\ \A k \in 1..Len(s) : t[k] = s[k]
    /\ t[Len(s) + 1] = Activation(g)

LEMMA OpensPlaces ==
  ASSUME shape \in [Files -> Shapes], NEW s, NEW t, NEW g \in Files, Opens(s, t, g)
  PROVE  /\ \A k, p \in Nat : Stands(s, k, p) => Stands(t, k, p) /\ It(t, k, p) = It(s, k, p)
         /\ \A k, p \in Nat : Stands(t, k, p) <=>
               Stands(s, k, p) \/ (k = Len(s) + 1 /\ p \in 1..Len(Parsed(g)))
         /\ \A p : It(t, Len(s) + 1, p) = Parsed(g)[p]
         /\ \A p : ~Stands(s, Len(s) + 1, p)
<1>1. /\ Len(s) \in Nat \ {0} /\ Len(t) = Len(s) + 1
      /\ \A k \in 1..Len(s) : t[k] = s[k]
      /\ t[Len(s) + 1].zone = Parsed(g)
  BY DEF Opens, Activation
<1>2. \A k \in Nat : k \in 1..Len(t) <=> k \in 1..Len(s) \/ k = Len(s) + 1
  BY <1>1
<1>3. Len(s) + 1 \notin 1..Len(s)
  BY <1>1
<1> QED
  BY <1>1, <1>2, <1>3 DEF Stands, It

LEMMA OpensDefs ==
  ASSUME shape \in [Files -> Shapes], NEW s, NEW t, NEW g \in Files, Opens(s, t, g),
         NEW f, NEW n
  PROVE  /\ \A k, p \in Nat : DefAt(t, k, p, f, n) <=>
               \/ DefAt(s, k, p, f, n)
               \/ f = g /\ n \in Defs(g) /\ k = Len(s) + 1 /\ p = n
         /\ \A k, p \in Nat : ImportAt(s, k, p, f) => ImportAt(t, k, p, f)
<1>1. \A k, p \in Nat : DefAt(t, k, p, f, n) <=>
         \/ DefAt(s, k, p, f, n)
         \/ f = g /\ n \in Defs(g) /\ k = Len(s) + 1 /\ p = n
  <2> TAKE k, p \in Nat
  <2>1. DefAt(s, k, p, f, n) => DefAt(t, k, p, f, n)
    BY OpensPlaces DEF DefAt
  <2>2. ASSUME f = g, n \in Defs(g), k = Len(s) + 1, p = n
        PROVE  DefAt(t, k, p, f, n)
    <3>1. It(t, k, p) = Parsed(g)[p] /\ p \in 1..Len(Parsed(g))
      BY <2>2, OpensPlaces, ParsedAt
    <3> QED
      BY <2>2, <3>1, OpensPlaces, ParsedAt DEF DefAt
  <2>3. ASSUME DefAt(t, k, p, f, n), ~DefAt(s, k, p, f, n)
        PROVE  f = g /\ n \in Defs(g) /\ k = Len(s) + 1 /\ p = n
    <3>1. ~Stands(s, k, p) /\ Stands(t, k, p)
      <4>1. Stands(s, k, p) => It(t, k, p) = It(s, k, p)
        BY OpensPlaces
      <4> QED
        BY <2>3, <4>1 DEF DefAt
    <3>2. k = Len(s) + 1 /\ p \in 1..Len(Parsed(g)) /\ It(t, k, p) = Parsed(g)[p]
      BY <3>1, OpensPlaces
    <3> QED
      BY <2>3, <3>2, ParsedAt DEF DefAt
  <2> QED
    BY <2>1, <2>2, <2>3
<1>2. \A k, p \in Nat : ImportAt(s, k, p, f) => ImportAt(t, k, p, f)
  BY OpensPlaces DEF ImportAt
<1> QED
  BY <1>1, <1>2

LEMMA OpensAll ==
  ASSUME shape \in [Files -> Shapes], NEW s, NEW t, NEW g \in Files, Opens(s, t, g)
  PROVE  /\ \A f, n : \A k, p \in Nat : DefAt(t, k, p, f, n) <=>
               DefAt(s, k, p, f, n) \/ (f = g /\ n \in Defs(g) /\ k = Len(s) + 1 /\ p = n)
         /\ \A f : \A k, p \in Nat : ImportAt(s, k, p, f) => ImportAt(t, k, p, f)
<1>1. ASSUME NEW f, NEW n
      PROVE  \A k, p \in Nat : DefAt(t, k, p, f, n) <=>
                DefAt(s, k, p, f, n) \/ (f = g /\ n \in Defs(g) /\ k = Len(s) + 1 /\ p = n)
  BY OpensDefs
<1>2. ASSUME NEW f
      PROVE  \A k, p \in Nat : ImportAt(s, k, p, f) => ImportAt(t, k, p, f)
  BY OpensDefs
<1> QED
  BY <1>1, <1>2

LEMMA WholeOpens ==
  ASSUME shape \in [Files -> Shapes], NEW s, NEW t, NEW v, NEW g \in Files, Opens(s, t, g),
         Whole(s, v), g \in Reachable, g \notin v
  PROVE  Whole(t, v \cup {g})
<1> DEFINE w == v \cup {g}
           h == Len(s) + 1
<1>0. h \in Nat /\ Len(s) \in Nat \ {0} /\ Len(t) = h /\ Reachable \subseteq Files
  <2>1. Root \in Files
    BY RootAssumption
  <2> QED
    BY <2>1, ClosureFacts DEF Opens, Reachable
<1>6. \A f, n : \A k, p \in Nat : DefAt(t, k, p, f, n) <=>
         DefAt(s, k, p, f, n) \/ (f = g /\ n \in Defs(g) /\ k = h /\ p = n)
  BY OpensAll
<1>7. \A f : \A k, p \in Nat : ImportAt(s, k, p, f) => ImportAt(t, k, p, f)
  BY OpensAll
<1>1. FilesKnown(t, w)
  <2>1. t[1] = s[1] /\ t[h].file = g /\ \A k \in 1..Len(s) : t[k] = s[k]
    BY DEF Opens, Activation
  <2>2. \A k \in 1..Len(t) : k = h \/ k \in 1..Len(s)
    BY <1>0
  <2> QED
    BY <2>1, <2>2 DEF Whole, FilesKnown
<1>2. ItemsKnown(t, w)
  <2> SUFFICES ASSUME NEW k \in Nat, NEW p \in Nat, Stands(t, k, p)
               PROVE  /\ It(t, k, p).file \in Reachable
                      /\ It(t, k, p).kind = "def" => It(t, k, p).file \in Seen(w)
    BY DEF ItemsKnown
  <2>1. CASE Stands(s, k, p)
    <3>1. It(t, k, p) = It(s, k, p)
      BY <2>1, OpensPlaces
    <3> QED
      BY <2>1, <3>1 DEF Whole, ItemsKnown, Seen
  <2>2. CASE k = h /\ p \in 1..Len(Parsed(g))
    <3>1. It(t, k, p) = Parsed(g)[p]
      BY <2>2, OpensPlaces
    <3>2. Imports(g) \subseteq Reachable
      <4>1. {Root} \subseteq Files
        BY RootAssumption
      <4> QED
        BY <4>1, ClosureFacts DEF Reachable, Closed
    <3> QED
      BY <2>2, <3>1, <3>2, ParsedAt DEF Seen
  <2> QED
    BY <2>1, <2>2, OpensPlaces
<1>3. Pending(t, w)
  <2> SUFFICES ASSUME NEW f \in Seen(w), NEW e \in Imports(f), e \notin w
               PROVE  \E k, p \in Nat : ImportAt(t, k, p, e)
    BY DEF Pending
  <2>1. CASE f \in Seen(v)
    <3>1. PICK k \in Nat, p \in Nat : ImportAt(s, k, p, e)
      BY <2>1 DEF Whole, Pending
    <3> QED
      BY <1>7, <3>1
  <2>2. CASE f = g
    <3>1. PICK p \in 1..Len(Parsed(g)) :
             p \in Nat /\ Parsed(g)[p].kind = "import" /\ Parsed(g)[p].file = e
      BY <2>2, ParsedAt
    <3>2. Stands(t, h, p) /\ It(t, h, p) = Parsed(g)[p]
      BY <1>0, <3>1, OpensPlaces
    <3>3. ImportAt(t, h, p, e)
      BY <3>1, <3>2 DEF ImportAt
    <3> QED
      BY <1>0, <3>1, <3>3
  <2> QED
    BY <2>1, <2>2 DEF Seen
<1>4. Present(t, w)
  <2> SUFFICES ASSUME NEW f \in Seen(w), NEW n \in Defs(f)
               PROVE  \E k, p \in Nat : DefAt(t, k, p, f, n)
    BY DEF Present
  <2>1. CASE f \in Seen(v)
    <3>1. PICK k \in Nat, p \in Nat : DefAt(s, k, p, f, n)
      BY <2>1 DEF Whole, Present
    <3> QED
      BY <1>6, <3>1
  <2>2. CASE f = g
    <3>1. n \in Nat
      BY <2>2, ParsedAt
    <3> QED
      BY <1>0, <1>6, <2>2, <3>1
  <2> QED
    BY <2>1, <2>2 DEF Seen
<1>5. Few(t, w)
  <2> SUFFICES ASSUME NEW f \in Files, NEW n \in Nat
               PROVE  (f # Root \/ Root \notin w => Once(t, f, n)) /\ Twice(t, f, n)
    BY DEF Few
  <2>1. /\ f # Root \/ Root \notin v => Once(s, f, n)
        /\ Twice(s, f, n)
    BY DEF Whole, Few
  <2>2. CASE f # g
    <3>1. \A k, p \in Nat : DefAt(t, k, p, f, n) <=> DefAt(s, k, p, f, n)
      BY <1>6, <2>2
    <3>2. Once(s, f, n) => Once(t, f, n)
      BY <3>1 DEF Once
    <3>3. Twice(t, f, n)
      BY <2>1, <3>1 DEF Twice
    <3> QED
      BY <2>1, <3>2, <3>3
  <2>3. CASE f = g /\ g # Root
    <3>1. \A k, p \in Nat : ~DefAt(s, k, p, f, n)
      BY <2>3 DEF Whole, ItemsKnown, DefAt, Seen
    <3>2. \A k, p \in Nat : DefAt(t, k, p, f, n) => k = h /\ p = n
      BY <1>6, <3>1
    <3>3. Once(t, f, n) /\ Twice(t, f, n)
      BY <3>2 DEF Once, Twice
    <3> QED
      BY <3>3
  <2>4. CASE f = g /\ g = Root
    <3>1. Once(s, f, n)
      BY <2>1, <2>4
    <3>2. \A k, p \in Nat : DefAt(t, k, p, f, n) => DefAt(s, k, p, f, n) \/ (k = h /\ p = n)
      BY <1>6
    <3>3. Twice(t, f, n)
      <4> USE DEF Twice
      <4> TAKE k, p, l, q, a, b \in Nat
      <4> HAVE DefAt(t, k, p, f, n) /\ DefAt(t, l, q, f, n) /\ DefAt(t, a, b, f, n)
      <4> HIDE DEF Twice
      <4>1. DefAt(s, k, p, f, n) \/ (k = h /\ p = n)
        BY <3>2
      <4>2. DefAt(s, l, q, f, n) \/ (l = h /\ q = n)
        BY <3>2
      <4>3. DefAt(s, a, b, f, n) \/ (a = h /\ b = n)
        BY <3>2
      <4> HIDE DEF h
      <4> QED
        BY <3>1, <4>1, <4>2, <4>3 DEF Once
    <3> QED
      BY <2>4, <3>3
  <2> QED
    BY <2>2, <2>3, <2>4
<1> QED
  BY <1>1, <1>2, <1>3, <1>4, <1>5 DEF Whole

-----------------------------------------------------------------------------
LEMMA WholePrimed ==
  ASSUME shape' = shape, Whole(stack', visited')
  PROVE  Whole(stack, visited)'
<1>1. \A f : (Imports(f))' = Imports(f) /\ (Defs(f))' = Defs(f)
  BY DEF Imports, Defs
<1>2. Reachable' = Reachable
  <2>1. \A T : (Closed(T))' <=> Closed(T)
    BY <1>1 DEF Closed
  <2> QED
    BY <2>1 DEF Reachable, Closure
<1>3. FilesKnown(stack, visited)' /\ ItemsKnown(stack, visited)' /\ Few(stack, visited)'
  BY <1>2 DEF Whole, FilesKnown, ItemsKnown, Few
<1>4. Pending(stack, visited)' /\ Present(stack, visited)'
  BY <1>1 DEF Whole, Pending, Present
<1> QED
  BY <1>3, <1>4 DEF Whole

LEMMA WithinWhole ==
  ASSUME NEW s, NEW t, NEW v, NEW m, NEW i, NEW n, Within(s, t, v, m, i, n), Whole(s, v)
  PROVE  Whole(t, v)
BY WholeOn DEF Within

(* What opening a file means for the places.                                *)
LEMMA DescendOpens ==
  ASSUME IInv, Descend, Whole(stack, visited)
  PROVE  /\ Opens(stack, stack', Target)
         /\ Target \in Files /\ Target \in Reachable /\ Target \notin visited
         /\ visited' = visited \cup {Target} /\ UNCHANGED files /\ outcome' = outcome
         /\ ImportAt(stack, Len(stack), Top.i, Target)
         /\ Len(stack) \in Nat /\ Top.i \in Nat
<1>1. /\ UNCHANGED files /\ outcome' = outcome /\ AtItem("import")
      /\ visited' = visited \cup {Target} /\ Target \notin visited
      /\ stack' = Append(stack, Activation(Target))
  BY DEF Descend, Visit
<1>2. Target \in Files
  BY <1>1, TargetInFiles
<1>3. Len(stack) \in Nat \ {0} /\ Top \in ActivationType /\ stack \in Seq(ActivationType)
  BY TopGood DEF IInv, StackGood
<1>4. Opens(stack, stack', Target)
  <2> DEFINE a == Activation(Target)
  <2>1. stack' = Append(stack, a)
    BY <1>1
  <2> HIDE DEF a
  <2>2. Len(stack') = Len(stack) + 1 /\ stack'[Len(stack) + 1] = a
        /\ \A k \in 1..Len(stack) : stack'[k] = stack[k]
    BY <1>3, <2>1
  <2> QED
    BY <1>3, <2>2 DEF Opens, a
<1>5. Top.i \in Nat /\ Top.i \in 1..Len(Top.zone)
  <2>1. Top.i \in Nat \ {0} /\ Top.zone \in Seq(Item) /\ Top.i <= Len(Top.zone)
    BY <1>1, <1>3 DEF ActivationType, AtItem
  <2> QED
    BY <2>1
<1>6. ImportAt(stack, Len(stack), Top.i, Target)
  BY <1>1, <1>3, <1>5 DEF ImportAt, Stands, It, AtItem, Target, Top
<1>7. Target \in Reachable
  BY <1>3, <1>5, <1>6 DEF ImportAt, Whole, ItemsKnown
<1> QED
  BY <1>1, <1>2, <1>3, <1>4, <1>5, <1>6, <1>7

LEMMA MInvInit == Init => MInv
<1> SUFFICES ASSUME Init
             PROVE  MInv
  OBVIOUS
<1>1. /\ shape \in [Files -> Shapes] /\ visited = {} /\ outcome = "running"
      /\ stack = <<Activation(Root)>> /\ Root \in Files
  BY RootAssumption DEF Init
<1> DEFINE a == Activation(Root)
<1>2. /\ Len(stack) = 1 /\ stack[1].file = Root /\ stack[1].zone = Parsed(Root)
  BY <1>1 DEF Activation
<1>3. \A k, p \in Nat : Stands(stack, k, p) <=> k = 1 /\ p \in 1..Len(Parsed(Root))
  BY <1>2 DEF Stands
<1>4. \A p : It(stack, 1, p) = Parsed(Root)[p]
  BY <1>2 DEF It
<1>5. /\ Root \in Reachable /\ Imports(Root) \subseteq Reachable
  <2>1. {Root} \subseteq Files
    BY <1>1
  <2> QED
    BY <1>1, <2>1, ClosureFacts DEF Reachable, Closed
<1>6. Seen(visited) = {Root}
  BY <1>1 DEF Seen
<1>7. FilesKnown(stack, visited)
  <2>1. \A k \in 1..Len(stack) : k = 1
    BY <1>2
  <2> QED
    BY <1>1, <1>2, <2>1 DEF FilesKnown
<1>8. ItemsKnown(stack, visited)
  <2> SUFFICES ASSUME NEW k \in Nat, NEW p \in Nat, Stands(stack, k, p)
               PROVE  /\ It(stack, k, p).file \in Reachable
                      /\ It(stack, k, p).kind = "def" => It(stack, k, p).file \in Seen(visited)
    BY DEF ItemsKnown
  <2>1. It(stack, k, p) = Parsed(Root)[p] /\ p \in 1..Len(Parsed(Root))
    BY <1>3, <1>4
  <2> QED
    BY <1>1, <1>5, <1>6, <2>1, ParsedAt
<1>9. Pending(stack, visited)
  <2> SUFFICES ASSUME NEW e \in Imports(Root)
               PROVE  \E k, p \in Nat : ImportAt(stack, k, p, e)
    BY <1>6 DEF Pending
  <2>1. PICK p \in 1..Len(Parsed(Root)) :
           p \in Nat /\ Parsed(Root)[p].kind = "import" /\ Parsed(Root)[p].file = e
    BY <1>1, ParsedAt
  <2>2. 1 \in Nat /\ Stands(stack, 1, p) /\ It(stack, 1, p) = Parsed(Root)[p]
    BY <1>3, <1>4, <2>1
  <2>3. ImportAt(stack, 1, p, e)
    BY <2>1, <2>2 DEF ImportAt
  <2> QED
    BY <2>1, <2>2, <2>3
<1>10. Present(stack, visited)
  <2> SUFFICES ASSUME NEW n \in Defs(Root)
               PROVE  \E k, p \in Nat : DefAt(stack, k, p, Root, n)
    BY <1>6 DEF Present
  <2>1. n \in 1..Len(Parsed(Root)) /\ n \in Nat
        /\ Parsed(Root)[n].kind = "def" /\ Parsed(Root)[n].file = Root /\ Parsed(Root)[n].n = n
    BY <1>1, ParsedAt
  <2>2. DefAt(stack, 1, n, Root, n)
    BY <1>3, <1>4, <2>1 DEF DefAt
  <2> QED
    BY <2>1, <2>2
<1>11. Few(stack, visited)
  <2> SUFFICES ASSUME NEW f \in Files, NEW n \in Nat
               PROVE  Once(stack, f, n) /\ Twice(stack, f, n)
    BY DEF Few
  <2>1. \A k, p \in Nat : DefAt(stack, k, p, f, n) => k = 1 /\ p = n
    <3> SUFFICES ASSUME NEW k \in Nat, NEW p \in Nat, DefAt(stack, k, p, f, n)
                 PROVE  k = 1 /\ p = n
      OBVIOUS
    <3>1. k = 1 /\ p \in 1..Len(Parsed(Root)) /\ It(stack, k, p) = Parsed(Root)[p]
      BY <1>3, <1>4 DEF DefAt
    <3>2. Parsed(Root)[p].kind = "def" /\ Parsed(Root)[p].n = n
      BY <3>1 DEF DefAt
    <3>3. Parsed(Root)[p].n = p
      BY <1>1, <3>1, <3>2, ParsedAt
    <3> QED
      BY <3>1, <3>2, <3>3
  <2> QED
    BY <2>1 DEF Once, Twice
<1> QED
  BY <1>1, <1>7, <1>8, <1>9, <1>10, <1>11 DEF MInv, Whole, Done

LEMMA MInvInductive == IInv /\ MInv /\ [Next]_vars => MInv'
<1> SUFFICES ASSUME IInv, MInv, [Next]_vars
             PROVE  MInv'
  OBVIOUS
<1>1. CASE KeepDef \/ DropVisited \/ Merge
  <2>1. UNCHANGED files /\ visited' = visited /\ outcome' = outcome /\ outcome = "running"
    BY <1>1 DEF KeepDef, DropVisited, Merge, Continue, AtItem, AtEnd, Running
  <2>2. Whole(stack, visited)
    BY <2>1 DEF MInv
  <2>3. \E m, i, n : Within(stack, stack', visited, m, i, n)
    <3>1. CASE KeepDef
      BY <3>1, KeepDefWithin
    <3>2. CASE DropVisited
      BY <3>2, DropVisitedWithin
    <3>3. CASE Merge
      BY <2>2, <3>3, MergeWithin DEF Whole
    <3> QED
      BY <1>1, <3>1, <3>2, <3>3
  <2>4. Whole(stack', visited')
    BY <2>1, <2>2, <2>3, WithinWhole
  <2>5. Whole(stack, visited)'
    BY <2>1, <2>4, WholePrimed DEF files
  <2> QED
    BY <2>1, <2>5 DEF MInv, Done
<1>2. CASE FailRead \/ FailRing
  <2>1. outcome' \in {"unreadable", "ring"}
    BY <1>2 DEF FailRead, FailRing, Stop
  <2> QED
    BY <2>1 DEF MInv, Done
<1>3. CASE Descend
  <2>1. outcome = "running" /\ Whole(stack, visited)
    BY <1>3 DEF Descend, Visit, AtItem, Running, MInv
  <2>2. /\ Opens(stack, stack', Target)
        /\ Target \in Files /\ Target \in Reachable /\ Target \notin visited
        /\ visited' = visited \cup {Target} /\ UNCHANGED files /\ outcome' = outcome
    BY <1>3, <2>1, DescendOpens
  <2>3. Whole(stack', visited')
    BY <2>1, <2>2, WholeOpens DEF IInv, ImportsTypeOK
  <2>4. Whole(stack, visited)'
    BY <2>2, <2>3, WholePrimed DEF files
  <2> QED
    BY <2>1, <2>2, <2>4 DEF MInv, Done
<1>4. CASE Finish
  <2>1. /\ UNCHANGED files /\ visited' = visited /\ stack' = stack /\ outcome = "running"
        /\ Top.i > Len(Top.zone) /\ Len(stack) = 1
    BY <1>4 DEF Finish, AtEnd, Running
  <2>2. Whole(stack', visited')
    BY <2>1 DEF MInv
  <2>3. Whole(stack, visited)'
    BY <2>1, <2>2, WholePrimed DEF files
  <2> QED
    BY <2>1, <2>3 DEF MInv, Top
<1>5. CASE UNCHANGED vars
  <2>1. UNCHANGED files /\ visited' = visited /\ stack' = stack /\ outcome' = outcome
    BY <1>5 DEF vars, files
  <2>2. Whole(stack, visited) => Whole(stack, visited)'
    BY <2>1, WholePrimed DEF files
  <2> QED
    BY <2>1, <2>2 DEF MInv, Done
<1> QED
  BY <1>1, <1>2, <1>3, <1>4, <1>5 DEF Next

LEMMA MInvHolds == Spec => [](IInv /\ MInv)
<1>1. Init => IInv /\ MInv
  BY IInvInit, MInvInit
<1>2. IInv /\ MInv /\ [Next]_vars => (IInv /\ MInv)'
  BY IInvInductive, MInvInductive
<1> QED
  BY <1>1, <1>2, PTL DEF Spec

(* When everything is merged there are only definitions left, in one zone.  *)
LEMMA AllDone ==
  ASSUME IInv, MInv, Done
  PROVE  /\ Whole(stack, visited) /\ Len(stack) = 1
         /\ DOMAIN Merged = 1..Len(Merged) /\ Len(Merged) \in Nat
         /\ \A p \in DOMAIN Merged : Merged[p].kind = "def" /\ Merged[p].file \in Reachable
         /\ \A f, n : \A p \in Nat :
               DefAt(stack, 1, p, f, n) <=> p \in Position(f, n)
         /\ \A g : \A k, p \in Nat : ~ImportAt(stack, k, p, g)
         /\ Reachable \subseteq Seen(visited)
<1>1. /\ Whole(stack, visited) /\ Len(stack) = 1 /\ stack[1].i > Len(stack[1].zone)
  BY DEF MInv, Done
<1>2. Good(stack[1], ring) /\ stack[1] \in ActivationType
  <2>1. 1 \in 1..Len(stack)
    BY <1>1
  <2> QED
    BY <2>1 DEF IInv, StackGood, Good
<1>3. /\ Merged \in Seq(Item) /\ stack[1].i \in Nat \ {0} /\ stack[1].zone = Merged
  BY <1>2 DEF ActivationType, Merged
<1>4. DOMAIN Merged = 1..Len(Merged) /\ Len(Merged) \in Nat
  BY <1>3
<1>5. \A p \in 1..Len(Merged) : Merged[p].kind = "def"
  <2>1. \A p \in 1..(stack[1].i - 1) : Merged[p].kind = "def"
    BY <1>2, <1>3 DEF Good
  <2>2. \A p \in 1..Len(Merged) : p \in 1..(stack[1].i - 1)
    BY <1>1, <1>3, <1>4
  <2> QED
    BY <2>1, <2>2
<1>6. \A k, p \in Nat : Stands(stack, k, p) <=> k = 1 /\ p \in 1..Len(Merged)
  BY <1>1, <1>3 DEF Stands
<1>7. \A p : It(stack, 1, p) = Merged[p]
  BY <1>3 DEF It
<1>8. \A p \in 1..Len(Merged) : Merged[p].file \in Reachable
  <2> TAKE p \in 1..Len(Merged)
  <2>1. p \in Nat /\ 1 \in Nat /\ Stands(stack, 1, p) /\ It(stack, 1, p) = Merged[p]
    BY <1>4, <1>6, <1>7
  <2> QED
    BY <1>1, <2>1 DEF Whole, ItemsKnown
<1>9. \A f, n : \A p \in Nat : DefAt(stack, 1, p, f, n) <=> p \in Position(f, n)
  BY <1>4, <1>5, <1>6, <1>7 DEF DefAt, Position
<1>10. \A g : \A k, p \in Nat : ~ImportAt(stack, k, p, g)
  <2> SUFFICES ASSUME NEW g, NEW k \in Nat, NEW p \in Nat, ImportAt(stack, k, p, g)
               PROVE  FALSE
    OBVIOUS
  <2>1. k = 1 /\ p \in 1..Len(Merged) /\ It(stack, k, p).kind = "import"
    BY <1>6 DEF ImportAt
  <2>2. Merged[p].kind = "import"
    BY <1>7, <2>1
  <2> QED
    BY <1>5, <2>1, <2>2
<1>11. Reachable \subseteq Seen(visited)
  <2>1. {Root} \subseteq Files /\ shape \in [Files -> Shapes]
    BY RootAssumption DEF IInv, ImportsTypeOK
  <2>2. Seen(visited) \in SUBSET Files /\ {Root} \subseteq Seen(visited)
    BY <2>1 DEF IInv, ImportsTypeOK, Seen
  <2>3. Closed(Seen(visited))
    BY <1>1, <1>10 DEF Whole, Pending, Closed, Seen
  <2> QED
    BY <2>1, <2>2, <2>3, ClosureFacts DEF Reachable
<1> QED
  BY <1>1, <1>4, <1>5, <1>8, <1>9, <1>10, <1>11

(* Whatever the files import, cycles and repeated imports included: when    *)
(* resolution succeeds, every definition of every file the root reaches is  *)
(* in the merged zone, once (the root's own twice if it is imported back),  *)
(* and nothing else is: no import is lost or resolved twice.                *)
THEOREM EverythingMerged == Spec => []MergesAll
<1>1. IInv /\ MInv => MergesAll
  <2> SUFFICES ASSUME IInv, MInv, Done
               PROVE  /\ \A p \in DOMAIN Merged :
                            Merged[p].kind = "def" /\ Merged[p].file \in Reachable
                      /\ \A f \in Reachable : \A n \in Defs(f) :
                            Cardinality(Position(f, n)) \in (IF f = Root THEN {1, 2} ELSE {1})
    BY DEF MergesAll
  <2>1. \A p \in DOMAIN Merged : Merged[p].kind = "def" /\ Merged[p].file \in Reachable
    BY AllDone
  <2>2. ASSUME NEW f \in Reachable, NEW n \in Defs(f)
        PROVE  Cardinality(Position(f, n)) \in (IF f = Root THEN {1, 2} ELSE {1})
    <3>1. Whole(stack, visited) /\ f \in Seen(visited) /\ Len(stack) = 1
      BY AllDone
    <3>2. shape \in [Files -> Shapes] /\ f \in Files
      <4>1. shape \in [Files -> Shapes] /\ {Root} \subseteq Files
        BY RootAssumption DEF IInv, ImportsTypeOK
      <4> QED
        BY <4>1, ClosureFacts DEF Reachable
    <3>3. n \in Nat
      BY <3>2, ParsedAt
    <3>4. PICK k \in Nat, p \in Nat : DefAt(stack, k, p, f, n)
      BY <3>1 DEF Whole, Present
    <3>5. k = 1
      BY <3>1, <3>4 DEF DefAt, Stands
    <3>6. \A q : q \in Position(f, n) <=> q \in Nat /\ DefAt(stack, 1, q, f, n)
      <4>1. \A q \in Position(f, n) : q \in Nat
        BY AllDone DEF Position
      <4> QED
        BY <4>1, AllDone
    <3>7. p \in Position(f, n)
      BY <3>4, <3>5, <3>6
    <3>8. (f # Root => Once(stack, f, n)) /\ Twice(stack, f, n)
      BY <3>1, <3>2, <3>3 DEF Whole, Few
    <3>9. CASE Position(f, n) = {p}
      BY <3>9, FS_Singleton
    <3>10. CASE Position(f, n) # {p}
      <4>1. PICK q \in Position(f, n) : q # p
        BY <3>7, <3>10
      <4>2. f = Root
        BY <3>4, <3>5, <3>6, <3>8, <4>1 DEF Once
      <4>3. \A a \in Position(f, n) : a = p \/ a = q
        <5> SUFFICES ASSUME NEW a \in Position(f, n)
                     PROVE  a = p \/ a = q
          OBVIOUS
        <5>1. /\ DefAt(stack, 1, p, f, n) /\ DefAt(stack, 1, q, f, n) /\ DefAt(stack, 1, a, f, n)
              /\ p \in Nat /\ q \in Nat /\ a \in Nat /\ 1 \in Nat
          BY <3>4, <3>5, <3>6, <4>1
        <5> QED
          BY <3>8, <4>1, <5>1 DEF Twice
      <4>4. Position(f, n) = {p} \cup {q} /\ q \notin {p}
        BY <3>7, <4>1, <4>3
      <4>5. Cardinality(Position(f, n)) = 2
        <5>1. IsFiniteSet({p}) /\ Cardinality({p}) = 1
          BY FS_Singleton
        <5>2. Cardinality({p} \cup {q}) = Cardinality({p}) + 1
          BY <4>4, <5>1, FS_AddElement
        <5> QED
          BY <4>4, <5>1, <5>2
      <4> QED
        BY <4>2, <4>5
    <3> QED
      BY <3>9, <3>10
  <2> QED
    BY <2>1, <2>2
<1> QED
  BY <1>1, MInvHolds, PTL

-----------------------------------------------------------------------------
(* The order of what is merged, when no file reaches itself.                *)

(* What an activation has not come to yet is its own file's.                *)
Owned(s) ==
    \A k, p \in Nat : Stands(s, k, p) /\ p >= s[k].i =>
        /\ It(s, k, p).kind = "def" => It(s, k, p).file = s[k].file
        /\ It(s, k, p).kind = "import" => It(s, k, p).file \in Imports(s[k].file)

(* A file is imported, directly or not, by those below it.                  *)
Chained(s) ==
    \A j, k \in 1..Len(s) : j < k => s[k].file \in Closure(Imports(s[j].file))

Open(s) == {s[k].file : k \in 1..Len(s)}

(* An import is resolved, all of it, or still stands in its file.           *)
Completed(s, v) ==
    \A f \in Seen(v) : \A g \in Imports(f) :
        \/ g \in v /\ g \notin Open(s)
        \/ \E k, p \in Nat : s[k].file = f /\ ImportAt(s, k, p, g)

(* The definition at (l, q) comes after an import of e,                     *)
Awaits(s, l, q, e) == \E p \in Nat : ImportAt(s, l, p, e) /\ p < q

(* or after all that e brought in.                                          *)
Behind(s, v, l, q, e) ==
    \A g \in Closure({e}) :
        g \in v /\ \A d, a, b \in Nat : DefAt(s, a, b, g, d) => Precedes(s, a, b, l, q)

Ordered(s, v) ==
    \A f \in Files : \A k \in DOMAIN shape[f] : \A n, l, q \in Nat :
        (k < n /\ shape[f][k] # Def /\ DefAt(s, l, q, f, n)) =>
            Awaits(s, l, q, shape[f][k]) \/ Behind(s, v, l, q, shape[f][k])

(* Imports are never behind the place an activation has come to.            *)
Ahead(s) == \A k, p \in Nat : \A g : ImportAt(s, k, p, g) => p >= s[k].i

Layered(s, v) == Owned(s) /\ Chained(s) /\ Completed(s, v) /\ Ordered(s, v)

CInv == (Acyclic /\ outcome \in {"running", "merged"}) => Layered(stack, visited)

LEMMA AheadHolds ==
  ASSUME NEW s, NEW r, StackGood(s, r)
  PROVE  Ahead(s)
<1> SUFFICES ASSUME NEW k \in Nat, NEW p \in Nat, NEW g, ImportAt(s, k, p, g)
             PROVE  p >= s[k].i
  BY DEF Ahead
<1>1. k \in 1..Len(s) /\ p \in 1..Len(s[k].zone) /\ s[k].zone[p].kind = "import"
  BY DEF ImportAt, Stands, It
<1>2. Good(s[k], r) /\ s[k] \in ActivationType
  BY <1>1 DEF StackGood, Good
<1>3. s[k].i \in Nat \ {0} /\ \A j \in 1..(s[k].i - 1) : s[k].zone[j].kind = "def"
  BY <1>2 DEF Good, ActivationType
<1>4. p \notin 1..(s[k].i - 1)
  BY <1>1, <1>3
<1> QED
  BY <1>1, <1>3, <1>4

(* An import stays where it is while files are merged.                      *)
LEMMA ImportStays ==
  ASSUME NEW s, NEW t, NEW v, NEW m, NEW i, NEW n, Within(s, t, v, m, i, n), Ahead(t),
         NEW k \in Nat, NEW p \in Nat, NEW g, ImportAt(s, k, p, g), ~(k = m /\ p = i)
  PROVE  \E q \in Nat : ImportAt(t, k, q, g) /\ Goes(m, i, n, k, p, k, q)
<1>1. Carried(s, t, m, i, n)
  BY DEF Within
<1>2. PICK l \in Nat, q \in Nat : ImportAt(t, l, q, g) /\ Goes(m, i, n, k, p, l, q)
  BY <1>1, ImportTo
<1>3. q >= t[l].i /\ Stands(s, k, p)
  BY <1>2 DEF Ahead, ImportAt
<1>4. l = k
  BY <1>1, <1>2, <1>3 DEF Carried
<1> QED
  BY <1>2, <1>4

(* The import a step takes away is of a file that is not open any more.     *)
LEMMA DroppedClosed ==
  ASSUME Acyclic, shape \in [Files -> Shapes],
         NEW s, NEW t, NEW v, NEW m, NEW i, NEW n, Within(s, t, v, m, i, n),
         Owned(s), Chained(s), Stands(s, m, i), v \subseteq Files,
         \A k \in 1..Len(s) : s[k].file \in Files /\ s[k].i \in Nat
  PROVE  It(s, m, i).file \notin Open(t)
<1> DEFINE e == It(s, m, i).file
<1>1. /\ m \in Nat /\ i \in Nat /\ i = s[m].i /\ m = Len(t) /\ e \in v
      /\ It(s, m, i).kind = "import" /\ m \in 1..Len(s) /\ Len(s) \in Nat
      /\ Len(t) \in 1..Len(s) /\ \A k \in 1..Len(t) : t[k].file = s[k].file
  BY DEF Within, Stands
<1>2. e \in Imports(s[m].file)
  <2>1. i >= s[m].i
    BY <1>1
  <2> QED
    BY <1>1, <2>1 DEF Owned
<1>3. ASSUME NEW j \in 1..Len(t), t[j].file = e
      PROVE  FALSE
  <2>1. j \in 1..Len(s) /\ s[j].file = e /\ e \in Files /\ j <= m
    BY <1>1, <1>3
  <2> DEFINE C == Closure(Imports(e))
  <2>2. Imports(e) \subseteq C /\ Closed(C)
    <3>1. Imports(e) \subseteq Files
      BY DEF Imports
    <3> QED
      BY <3>1, ClosureFacts
  <2>3. e \notin C
    BY <2>1 DEF Acyclic
  <2> HIDE DEF C
  <2>4. CASE j = m
    BY <1>2, <2>1, <2>2, <2>3, <2>4
  <2>5. CASE j < m
    <3>1. s[m].file \in C
      BY <1>1, <2>1, <2>5 DEF Chained, C
    <3> QED
      BY <1>2, <2>2, <2>3, <3>1 DEF Closed
  <2> QED
    BY <1>1, <2>1, <2>4, <2>5
<1> QED
  BY <1>3 DEF Open

LEMMA LayeredWithin ==
  ASSUME Acyclic, shape \in [Files -> Shapes],
         NEW s, NEW t, NEW v, NEW m, NEW i, NEW n, Within(s, t, v, m, i, n),
         Layered(s, v), Ahead(t), v \subseteq Files,
         \A k \in 1..Len(s) : s[k].file \in Files /\ s[k].i \in Nat
  PROVE  Layered(t, v)
<1>1. /\ m \in Nat /\ i \in Nat /\ n \in Nat /\ Carried(s, t, m, i, n)
      /\ Stands(s, m, i) => /\ It(s, m, i).kind = "import" /\ It(s, m, i).file \in v
                         /\ m = Len(t) /\ Len(s) <= m + 1 /\ i = s[m].i
      /\ Len(s) \in Nat /\ Len(t) \in 1..Len(s) /\ \A k \in 1..Len(t) : t[k].file = s[k].file
  BY DEF Within
<1>2. Owned(s) /\ Chained(s) /\ Completed(s, v) /\ Ordered(s, v)
  BY DEF Layered
<1>3. Stands(s, m, i) => It(s, m, i).file \notin Open(t)
  BY <1>2, DroppedClosed
<1>4. Owned(t)
  <2> SUFFICES ASSUME NEW l \in Nat, NEW q \in Nat, Stands(t, l, q), q >= t[l].i
               PROVE  /\ It(t, l, q).kind = "def" => It(t, l, q).file = t[l].file
                      /\ It(t, l, q).kind = "import" => It(t, l, q).file \in Imports(t[l].file)
    BY DEF Owned
  <2>1. PICK k \in Nat, p \in Nat : Stands(s, k, p) /\ Goes(m, i, n, k, p, l, q)
    BY <1>1 DEF Carried
  <2>2. It(t, l, q) = It(s, k, p) /\ l = k /\ p >= s[k].i
    BY <1>1, <2>1 DEF Carried
  <2>3. t[l].file = s[l].file
    BY <1>1 DEF Stands
  <2> QED
    BY <1>2, <2>1, <2>2, <2>3 DEF Owned
<1>5. Chained(t)
  <2>1. \A k \in 1..Len(t) : k \in 1..Len(s)
    BY <1>1
  <2> QED
    BY <1>1, <1>2, <2>1 DEF Chained
<1>6. Open(t) \subseteq Open(s)
  <2>1. \A k \in 1..Len(t) : k \in 1..Len(s)
    BY <1>1
  <2> QED
    BY <1>1, <2>1 DEF Open
<1>7. Completed(t, v)
  <2> SUFFICES ASSUME NEW f \in Seen(v), NEW g \in Imports(f), ~(g \in v /\ g \notin Open(t))
               PROVE  \E k, q \in Nat : t[k].file = f /\ ImportAt(t, k, q, g)
    BY DEF Completed
  <2>1. ~(g \in v /\ g \notin Open(s))
    BY <1>6
  <2>2. PICK k \in Nat, p \in Nat : s[k].file = f /\ ImportAt(s, k, p, g)
    BY <1>2, <2>1 DEF Completed
  <2>3. ~(k = m /\ p = i)
    BY <1>1, <1>3, <2>2 DEF ImportAt
  <2>4. PICK q \in Nat : ImportAt(t, k, q, g)
    BY <2>2, <2>3, ImportStays
  <2>5. t[k].file = s[k].file
    BY <1>1, <2>4 DEF ImportAt, Stands
  <2> QED
    BY <2>2, <2>4, <2>5
(* What the import that is taken away brought in is closed, so it is passed. *)
<1>8. ASSUME Stands(s, m, i), NEW q \in Nat, q > i
      PROVE  Behind(s, v, m, q, It(s, m, i).file)
  <2> DEFINE e == It(s, m, i).file
             X == {x \in v : x \notin Open(t)}
  <2>1. e \in X /\ X \subseteq Files
    BY <1>1, <1>3, <1>8
  <2>2. Closed(X)
    <3> SUFFICES ASSUME NEW f \in X, NEW g \in Imports(f)
                 PROVE  g \in X
      BY DEF Closed
    <3>1. \A k, p \in Nat : ~(t[k].file = f /\ ImportAt(t, k, p, g))
      BY DEF Open, ImportAt, Stands
    <3>2. f \in Seen(v)
      BY DEF Seen
    <3> QED
      BY <1>7, <3>1, <3>2 DEF Completed
  <2>3. Closure({e}) \subseteq X
    <3>1. {e} \subseteq Files /\ {e} \subseteq X /\ X \in SUBSET Files
      BY <2>1
    <3> HIDE DEF X, e
    <3> QED
      BY <2>2, <3>1, ClosureFacts
  <2> SUFFICES ASSUME NEW g \in X
               PROVE  /\ g \in v
                      /\ \A d, a, b \in Nat : DefAt(s, a, b, g, d) => Precedes(s, a, b, m, q)
    BY <2>3 DEF Behind
  <2>4. ASSUME NEW d \in Nat, NEW a \in Nat, NEW b \in Nat, DefAt(s, a, b, g, d)
        PROVE  Precedes(s, a, b, m, q)
    <3>1. a \in 1..Len(s) /\ Stands(s, a, b)
      BY <2>4 DEF DefAt, Stands
    <3>2. i = s[m].i /\ m = Len(t) /\ (a \in 1..m \/ a = m + 1)
      BY <1>1, <1>8, <3>1
    <3>3. CASE a \in 1..m
      <4>1. s[a].file # g
        BY <1>1, <3>2, <3>3 DEF Open
      <4>2. ~(b >= s[a].i)
        BY <1>2, <2>4, <3>1, <4>1 DEF Owned, DefAt
      <4>3. s[a].i \in Nat
        BY <3>1
      <4>4. b < s[a].i
        BY <4>2, <4>3
      <4>5. a < m \/ a = m
        BY <1>1, <3>3
      <4>6. a = m => b < q
        BY <1>8, <3>2, <4>4, <1>1
      <4> QED
        BY <4>4, <4>5, <4>6 DEF Precedes
    <3>4. CASE a = m + 1
      <4>1. a > m /\ q > s[m].i
        BY <1>1, <1>8, <3>2, <3>4
      <4> QED
        BY <4>1 DEF Precedes
    <3> QED
      BY <3>2, <3>3, <3>4
  <2> QED
    BY <2>4
<1>9. Ordered(t, v)
  <2> SUFFICES ASSUME NEW f \in Files, NEW k \in DOMAIN shape[f],
                      NEW d \in Nat, NEW c \in Nat, NEW r \in Nat,
                      k < d, shape[f][k] # Def, DefAt(t, c, r, f, d)
               PROVE  Awaits(t, c, r, shape[f][k]) \/ Behind(t, v, c, r, shape[f][k])
    BY DEF Ordered
  <2> DEFINE e == shape[f][k]
  <2>1. PICK l \in Nat, q \in Nat : DefAt(s, l, q, f, d) /\ Goes(m, i, n, l, q, c, r)
    BY <1>1, DefFrom
  <2>2. Awaits(s, l, q, e) \/ Behind(s, v, l, q, e)
    BY <1>2, <2>1 DEF Ordered
  <2> HIDE DEF e
  <2>3. ASSUME Behind(s, v, l, q, e)
        PROVE  Behind(t, v, c, r, e)
    <3> SUFFICES ASSUME NEW g \in Closure({e})
                 PROVE  /\ g \in v
                        /\ \A x, a, b \in Nat : DefAt(t, a, b, g, x) => Precedes(t, a, b, c, r)
      BY DEF Behind
    <3>1. g \in v
      BY <2>3 DEF Behind
    <3>2. ASSUME NEW x \in Nat, NEW a \in Nat, NEW b \in Nat, DefAt(t, a, b, g, x)
          PROVE  Precedes(t, a, b, c, r)
      <4>1. PICK a1 \in Nat, b1 \in Nat : DefAt(s, a1, b1, g, x) /\ Goes(m, i, n, a1, b1, a, b)
        BY <1>1, <3>2, DefFrom
      <4>2. Precedes(s, a1, b1, l, q)
        BY <2>3, <4>1 DEF Behind
      <4>3. Stands(s, a1, b1) /\ Stands(s, l, q) /\ InOrder(s, t, m, i, n)
        BY <1>1, <2>1, <4>1 DEF DefAt, Carried
      <4> QED
        BY <2>1, <4>1, <4>2, <4>3 DEF InOrder
    <3> QED
      BY <3>1, <3>2
  <2>4. ASSUME NEW p \in Nat, ImportAt(s, l, p, e), p < q
        PROVE  Awaits(t, c, r, e) \/ Behind(t, v, c, r, e)
    <3>1. CASE l = m /\ p = i
      <4>1. Stands(s, m, i) /\ It(s, m, i).file = e /\ q > i
        BY <2>4, <3>1 DEF ImportAt
      <4>2. Behind(s, v, m, q, e)
        BY <1>8, <4>1
      <4> QED
        BY <2>3, <3>1, <4>2
    <3>2. CASE ~(l = m /\ p = i)
      <4>1. PICK z \in Nat : ImportAt(t, l, z, e) /\ Goes(m, i, n, l, p, l, z)
        BY <2>4, <3>2, ImportStays
      <4>2. Precedes(s, l, p, l, q)
        BY <2>4 DEF Precedes
      <4>3. Stands(s, l, p) /\ Stands(s, l, q) /\ InOrder(s, t, m, i, n)
        BY <1>1, <2>1, <2>4 DEF DefAt, ImportAt, Carried
      <4>4. Precedes(t, l, z, c, r)
        BY <2>1, <4>1, <4>2, <4>3 DEF InOrder
      <4>5. l = c
        BY <1>1, <2>1, <4>1 DEF Goes
      <4>6. z < r
        BY <4>4, <4>5 DEF Precedes
      <4> QED
        BY <4>1, <4>5, <4>6 DEF Awaits
    <3> QED
      BY <3>1, <3>2
  <2>5. Awaits(t, c, r, e) \/ Behind(t, v, c, r, e)
    BY <2>2, <2>3, <2>4 DEF Awaits
  <2> QED
    BY <2>5 DEF e
<1> QED
  BY <1>4, <1>5, <1>7, <1>9 DEF Layered

LEMMA LayeredOpens ==
  ASSUME shape \in [Files -> Shapes], NEW s, NEW t, NEW v, NEW g \in Files, Opens(s, t, g),
         Layered(s, v), g \notin v, g \in Imports(s[Len(s)].file),
         \A k \in 1..Len(s) : s[k].file \in Files
  PROVE  Layered(t, v \cup {g})
<1> DEFINE w == v \cup {g}
           h == Len(s) + 1
<1>0. /\ h \in Nat /\ Len(s) \in Nat \ {0} /\ Len(t) = h
      /\ t[h].file = g /\ t[h].i = 1 /\ t[h].zone = Parsed(g)
      /\ \A k \in 1..Len(s) : t[k] = s[k]
      /\ \A k \in 1..h : k \in 1..Len(s) \/ k = h
  BY DEF Opens, Activation
<1>1. Owned(s) /\ Chained(s) /\ Completed(s, v) /\ Ordered(s, v)
  BY DEF Layered
<1>2. /\ \A k, p \in Nat : Stands(s, k, p) => Stands(t, k, p) /\ It(t, k, p) = It(s, k, p)
      /\ \A k, p \in Nat : Stands(t, k, p) <=> Stands(s, k, p) \/ (k = h /\ p \in 1..Len(Parsed(g)))
      /\ \A p : It(t, h, p) = Parsed(g)[p]
  BY OpensPlaces
<1>3. \A f, n : \A k, p \in Nat : DefAt(t, k, p, f, n) <=>
         DefAt(s, k, p, f, n) \/ (f = g /\ n \in Defs(g) /\ k = h /\ p = n)
  BY OpensAll
<1>4. \A f : \A k, p \in Nat : ImportAt(s, k, p, f) => ImportAt(t, k, p, f)
  BY OpensAll
<1>5. \A e \in Imports(g) : \A p \in 1..Len(Parsed(g)) : p \in Nat =>
         (Parsed(g)[p].kind = "import" /\ Parsed(g)[p].file = e => ImportAt(t, h, p, e))
  BY <1>0, <1>2 DEF ImportAt
<1>6. Owned(t)
  <2> SUFFICES ASSUME NEW l \in Nat, NEW q \in Nat, Stands(t, l, q), q >= t[l].i
               PROVE  /\ It(t, l, q).kind = "def" => It(t, l, q).file = t[l].file
                      /\ It(t, l, q).kind = "import" => It(t, l, q).file \in Imports(t[l].file)
    BY DEF Owned
  <2>1. CASE Stands(s, l, q)
    <3>1. It(t, l, q) = It(s, l, q) /\ t[l] = s[l]
      BY <1>0, <1>2, <2>1 DEF Stands
    <3> QED
      BY <1>1, <2>1, <3>1 DEF Owned
  <2>2. CASE l = h /\ q \in 1..Len(Parsed(g))
    <3>1. It(t, l, q) = Parsed(g)[q] /\ t[l].file = g
      BY <1>0, <1>2, <2>2
    <3> QED
      BY <2>2, <3>1, ParsedAt
  <2> QED
    BY <1>2, <2>1, <2>2
<1>7. Chained(t)
  <2> SUFFICES ASSUME NEW j \in 1..Len(t), NEW k \in 1..Len(t), j < k
               PROVE  t[k].file \in Closure(Imports(t[j].file))
    BY DEF Chained
  <2>1. j \in 1..Len(s) /\ t[j] = s[j] /\ s[j].file \in Files
    BY <1>0
  <2>2. CASE k \in 1..Len(s)
    BY <1>0, <1>1, <2>1, <2>2 DEF Chained
  <2>3. CASE k = h
    <3> DEFINE C == Closure(Imports(s[j].file))
    <3>1. Imports(s[j].file) \subseteq C /\ Closed(C)
      <4>1. Imports(s[j].file) \subseteq Files
        BY DEF Imports
      <4> QED
        BY <4>1, ClosureFacts
    <3>2. j = Len(s) \/ (j < Len(s) /\ Len(s) \in 1..Len(s))
      BY <1>0, <2>1
    <3>3. j < Len(s) => s[Len(s)].file \in C
      BY <1>1, <2>1, <3>2 DEF Chained
    <3> HIDE DEF C
    <3>4. g \in C
      BY <3>1, <3>2, <3>3 DEF Closed
    <3> QED
      BY <1>0, <2>1, <2>3, <3>4 DEF C
  <2> QED
    BY <1>0, <2>2, <2>3
<1>8. Completed(t, w)
  <2> SUFFICES ASSUME NEW f \in Seen(w), NEW e \in Imports(f), ~(e \in w /\ e \notin Open(t))
               PROVE  \E k, p \in Nat : t[k].file = f /\ ImportAt(t, k, p, e)
    BY DEF Completed
  <2>1. CASE f \in Seen(v)
    <3>1. ~(e \in v /\ e \notin Open(s))
      <4>1. Open(t) \subseteq Open(s) \cup {g}
        BY <1>0 DEF Open
      <4> QED
        BY <4>1
    <3>2. PICK k \in Nat, p \in Nat : s[k].file = f /\ ImportAt(s, k, p, e)
      BY <1>1, <2>1, <3>1 DEF Completed
    <3>3. ImportAt(t, k, p, e)
      BY <1>4, <3>2
    <3>4. t[k] = s[k]
      BY <1>0, <3>2 DEF ImportAt, Stands
    <3> QED
      BY <3>2, <3>3, <3>4
  <2>2. CASE f = g
    <3>1. PICK p \in 1..Len(Parsed(g)) :
             p \in Nat /\ Parsed(g)[p].kind = "import" /\ Parsed(g)[p].file = e
      BY <2>2, ParsedAt
    <3>2. ImportAt(t, h, p, e)
      BY <1>5, <2>2, <3>1
    <3> QED
      BY <1>0, <2>2, <3>1, <3>2
  <2> QED
    BY <2>1, <2>2 DEF Seen
<1>9. Ordered(t, w)
  <2> SUFFICES ASSUME NEW f \in Files, NEW k \in DOMAIN shape[f],
                      NEW d \in Nat, NEW c \in Nat, NEW r \in Nat,
                      k < d, shape[f][k] # Def, DefAt(t, c, r, f, d)
               PROVE  Awaits(t, c, r, shape[f][k]) \/ Behind(t, w, c, r, shape[f][k])
    BY DEF Ordered
  <2> DEFINE e == shape[f][k]
  <2>1. CASE DefAt(s, c, r, f, d)
    <3>1. Awaits(s, c, r, e) \/ Behind(s, v, c, r, e)
      BY <1>1, <2>1 DEF Ordered
    <3> HIDE DEF e
    <3>2. Awaits(s, c, r, e) => Awaits(t, c, r, e)
      BY <1>4 DEF Awaits
    <3>3. ASSUME Behind(s, v, c, r, e)
          PROVE  Behind(t, w, c, r, e)
      <4> SUFFICES ASSUME NEW y \in Closure({e})
                   PROVE  /\ y \in w
                          /\ \A x, a, b \in Nat : DefAt(t, a, b, y, x) => Precedes(t, a, b, c, r)
        BY DEF Behind
      <4>1. y \in v
        BY <3>3 DEF Behind
      <4>2. ASSUME NEW x \in Nat, NEW a \in Nat, NEW b \in Nat, DefAt(t, a, b, y, x)
            PROVE  Precedes(t, a, b, c, r)
        <5>1. DefAt(s, a, b, y, x)
          BY <1>3, <4>1, <4>2
        <5>2. Precedes(s, a, b, c, r)
          BY <3>3, <5>1 DEF Behind
        <5>3. t[a] = s[a] /\ t[c] = s[c]
          BY <1>0, <2>1, <5>1 DEF DefAt, Stands
        <5> QED
          BY <5>2, <5>3 DEF Precedes
      <4> QED
        BY <4>1, <4>2
    <3>4. Awaits(t, c, r, e) \/ Behind(t, w, c, r, e)
      BY <3>1, <3>2, <3>3
    <3> QED
      BY <3>4 DEF e
  <2>2. CASE f = g /\ c = h /\ r = d
    <3>1. DOMAIN Parsed(g) = DOMAIN shape[g] /\ DOMAIN Parsed(g) = 1..Len(Parsed(g))
      <4>1. Parsed(g) \in Seq(Item)
        BY ParsedType
      <4> QED
        BY <4>1 DEF Parsed
    <3>2. k \in 1..Len(Parsed(g)) /\ k \in Nat
      BY <2>2, <3>1
    <3>3. Parsed(g)[k].kind = "import" /\ Parsed(g)[k].file = e /\ e \in Imports(g)
      BY <2>2, <3>2, ParsedAt DEF Defs
    <3>4. ImportAt(t, c, k, e)
      BY <1>5, <2>2, <3>2, <3>3
    <3> QED
      BY <2>2, <3>2, <3>4 DEF Awaits
  <2> QED
    BY <1>3, <2>1, <2>2
<1> QED
  BY <1>6, <1>7, <1>8, <1>9 DEF Layered

LEMMA LayeredPrimed ==
  ASSUME shape' = shape
  PROVE  /\ Acyclic' <=> Acyclic
         /\ Layered(stack', visited') => Layered(stack, visited)'
<1>1. \A f : (Imports(f))' = Imports(f)
  BY DEF Imports
<1>2. \A S : (Closure(S))' = Closure(S)
  <2>1. \A T : (Closed(T))' <=> Closed(T)
    BY <1>1 DEF Closed
  <2> QED
    BY <2>1 DEF Closure
<1>3. Acyclic' <=> Acyclic
  BY <1>1, <1>2 DEF Acyclic
<1> SUFFICES ASSUME Layered(stack', visited')
             PROVE  Layered(stack, visited)'
  BY <1>3
<1>4. Owned(stack)' /\ Chained(stack)' /\ Completed(stack, visited)'
  BY <1>1, <1>2 DEF Layered, Owned, Chained, Completed
<1>5. Ordered(stack, visited)'
  <2>1. \A l, q, e : Behind(stack', visited', l, q, e) <=> Behind(stack, visited, l, q, e)'
    BY <1>2 DEF Behind
  <2>2. Ordered(stack', visited')
    BY DEF Layered
  <2> QED
    BY <2>1, <2>2 DEF Ordered
<1> QED
  BY <1>4, <1>5 DEF Layered

LEMMA CInvInit == Init => CInv
<1> SUFFICES ASSUME Init
             PROVE  Layered(stack, visited)
  BY DEF CInv
<1>1. /\ shape \in [Files -> Shapes] /\ visited = {} /\ Root \in Files
      /\ Len(stack) = 1 /\ stack[1].file = Root /\ stack[1].zone = Parsed(Root)
  BY RootAssumption DEF Init, Activation
<1>2. \A k, p \in Nat : Stands(stack, k, p) <=> k = 1 /\ p \in 1..Len(Parsed(Root))
  BY <1>1 DEF Stands
<1>3. \A p : It(stack, 1, p) = Parsed(Root)[p]
  BY <1>1 DEF It
<1>4. Owned(stack)
  <2> SUFFICES ASSUME NEW k \in Nat, NEW p \in Nat, Stands(stack, k, p)
               PROVE  /\ It(stack, k, p).kind = "def" => It(stack, k, p).file = stack[k].file
                      /\ It(stack, k, p).kind = "import" =>
                            It(stack, k, p).file \in Imports(stack[k].file)
    BY DEF Owned
  <2>1. k = 1 /\ It(stack, k, p) = Parsed(Root)[p] /\ p \in 1..Len(Parsed(Root))
    BY <1>2, <1>3
  <2> QED
    BY <1>1, <2>1, ParsedAt
<1>5. Chained(stack)
  <2>1. \A j, k \in 1..Len(stack) : ~(j < k)
    BY <1>1
  <2> QED
    BY <2>1 DEF Chained
<1>6. \A e : \A p \in 1..Len(Parsed(Root)) : p \in Nat =>
         (Parsed(Root)[p].kind = "import" /\ Parsed(Root)[p].file = e => ImportAt(stack, 1, p, e))
  BY <1>2, <1>3 DEF ImportAt
<1>7. Completed(stack, visited)
  <2> SUFFICES ASSUME NEW e \in Imports(Root)
               PROVE  \E k, p \in Nat : stack[k].file = Root /\ ImportAt(stack, k, p, e)
    BY <1>1 DEF Completed, Seen
  <2>1. PICK p \in 1..Len(Parsed(Root)) :
           p \in Nat /\ Parsed(Root)[p].kind = "import" /\ Parsed(Root)[p].file = e
    BY <1>1, ParsedAt
  <2>2. ImportAt(stack, 1, p, e) /\ 1 \in Nat
    BY <1>6, <2>1
  <2> QED
    BY <1>1, <2>1, <2>2
<1>8. Ordered(stack, visited)
  <2> SUFFICES ASSUME NEW f \in Files, NEW k \in DOMAIN shape[f],
                      NEW d \in Nat, NEW c \in Nat, NEW r \in Nat,
                      k < d, shape[f][k] # Def, DefAt(stack, c, r, f, d)
               PROVE  Awaits(stack, c, r, shape[f][k])
    BY DEF Ordered
  <2>1. /\ c = 1 /\ r \in 1..Len(Parsed(Root))
        /\ Parsed(Root)[r].kind = "def" /\ Parsed(Root)[r].file = f /\ Parsed(Root)[r].n = d
    BY <1>2, <1>3 DEF DefAt
  <2>2. f = Root /\ r = d
    BY <1>1, <2>1, ParsedAt
  <2>3. DOMAIN Parsed(Root) = DOMAIN shape[Root] /\ DOMAIN Parsed(Root) = 1..Len(Parsed(Root))
    <3>1. Parsed(Root) \in Seq(Item)
      BY <1>1, ParsedType
    <3> QED
      BY <3>1 DEF Parsed
  <2>4. k \in 1..Len(Parsed(Root)) /\ k \in Nat
    BY <2>2, <2>3
  <2>5. Parsed(Root)[k].kind = "import" /\ Parsed(Root)[k].file = shape[f][k]
    BY <1>1, <2>2, <2>4, ParsedAt DEF Defs
  <2>6. ImportAt(stack, c, k, shape[f][k])
    BY <1>6, <2>1, <2>4, <2>5
  <2> QED
    BY <2>2, <2>4, <2>6 DEF Awaits
<1> QED
  BY <1>4, <1>5, <1>7, <1>8 DEF Layered

LEMMA CInvInductive == IInv /\ IInv' /\ MInv /\ CInv /\ [Next]_vars => CInv'
<1> SUFFICES ASSUME IInv, IInv', MInv, CInv, [Next]_vars
             PROVE  CInv'
  OBVIOUS
<1>1. /\ shape \in [Files -> Shapes] /\ visited \subseteq Files
      /\ \A k \in 1..Len(stack) : stack[k].file \in Files /\ stack[k].i \in Nat
  <2>1. stack \in Seq(ActivationType)
    BY DEF IInv, StackGood
  <2>2. \A k \in 1..Len(stack) : stack[k] \in ActivationType
    BY <2>1
  <2> QED
    BY <2>2 DEF IInv, ImportsTypeOK, ActivationType
<1>2. Ahead(stack')
  <2>1. StackGood(stack', ring')
    BY DEF IInv
  <2> QED
    BY <2>1, AheadHolds
<1>3. CASE KeepDef \/ DropVisited \/ Merge
  <2>1. UNCHANGED files /\ visited' = visited /\ outcome' = outcome /\ outcome = "running"
    BY <1>3 DEF KeepDef, DropVisited, Merge, Continue, AtItem, AtEnd, Running
  <2>2. Whole(stack, visited)
    BY <2>1 DEF MInv
  <2>3. \E m, i, n : Within(stack, stack', visited, m, i, n)
    <3>1. CASE KeepDef
      BY <3>1, KeepDefWithin
    <3>2. CASE DropVisited
      BY <3>2, DropVisitedWithin
    <3>3. CASE Merge
      BY <2>2, <3>3, MergeWithin DEF Whole
    <3> QED
      BY <1>3, <3>1, <3>2, <3>3
  <2> SUFFICES ASSUME Acyclic
               PROVE  Layered(stack, visited)'
    BY <2>1, LayeredPrimed DEF CInv, files
  <2>4. Layered(stack, visited)
    BY <2>1 DEF CInv
  <2>5. Layered(stack', visited')
    BY <1>1, <1>2, <2>1, <2>3, <2>4, LayeredWithin
  <2> QED
    BY <2>1, <2>5, LayeredPrimed DEF files
<1>4. CASE FailRead \/ FailRing
  <2>1. outcome' \in {"unreadable", "ring"}
    BY <1>4 DEF FailRead, FailRing, Stop
  <2> QED
    BY <2>1 DEF CInv
<1>5. CASE Descend
  <2>1. outcome = "running" /\ Whole(stack, visited)
    BY <1>5 DEF Descend, Visit, AtItem, Running, MInv
  <2>2. /\ Opens(stack, stack', Target)
        /\ Target \in Files /\ Target \notin visited
        /\ visited' = visited \cup {Target} /\ UNCHANGED files /\ outcome' = outcome
        /\ ImportAt(stack, Len(stack), Top.i, Target)
        /\ Len(stack) \in Nat /\ Top.i \in Nat
    BY <1>5, <2>1, DescendOpens
  <2> SUFFICES ASSUME Acyclic
               PROVE  Layered(stack, visited)'
    BY <2>2, LayeredPrimed DEF CInv, files
  <2>3. Layered(stack, visited)
    BY <2>1 DEF CInv
  <2>4. Target \in Imports(stack[Len(stack)].file)
    <3>1. Top.i >= stack[Len(stack)].i
      BY <2>2 DEF Top
    <3> QED
      BY <2>2, <2>3, <3>1 DEF Layered, Owned, ImportAt
  <2>5. Layered(stack', visited')
    BY <1>1, <2>2, <2>3, <2>4, LayeredOpens
  <2> QED
    BY <2>2, <2>5, LayeredPrimed DEF files
<1>6. CASE Finish \/ UNCHANGED vars
  <2>1. /\ UNCHANGED files /\ visited' = visited /\ stack' = stack
        /\ outcome' \in {"running", "merged"} => outcome \in {"running", "merged"}
    BY <1>6 DEF Finish, AtEnd, Running, vars, files
  <2> SUFFICES ASSUME Acyclic, outcome \in {"running", "merged"}
               PROVE  Layered(stack, visited)'
    BY <2>1, LayeredPrimed DEF CInv, files
  <2>2. Layered(stack', visited')
    BY <2>1 DEF CInv
  <2> QED
    BY <2>1, <2>2, LayeredPrimed DEF files
<1> QED
  BY <1>3, <1>4, <1>5, <1>6 DEF Next

LEMMA CInvHolds == Spec => [](IInv /\ MInv /\ CInv)
<1>1. Init => IInv /\ MInv /\ CInv
  BY IInvInit, MInvInit, CInvInit
<1>2. (IInv /\ MInv /\ CInv) /\ [Next]_vars => (IInv /\ MInv /\ CInv)'
  BY IInvInductive, MInvInductive, CInvInductive
<1> QED
  BY <1>1, <1>2, PTL DEF Spec

(* When no file reaches itself, a definition of the merged zone comes after *)
(* everything that the imports above it bring in, directly or through other *)
(* files, even where the file was resolved before for another import: so an *)
(* enum is lowered before the functions that use it.                        *)
THEOREM ImportsAreFirst == Spec => []ImportsComeFirst
<1>1. IInv /\ MInv /\ CInv => ImportsComeFirst
  <2> SUFFICES ASSUME IInv, MInv, CInv, Done, Acyclic,
                      NEW f \in Reachable, NEW n \in Defs(f), NEW k \in DOMAIN shape[f],
                      k < n, shape[f][k] # Def,
                      NEW g \in Closure({shape[f][k]}), NEW d \in Defs(g),
                      NEW p \in Position(g, d), NEW q \in Position(f, n)
               PROVE  p < q
    BY DEF ImportsComeFirst
  <2> DEFINE e == shape[f][k]
  <2>1. Ordered(stack, visited)
    BY DEF CInv, Done, Layered
  <2>2. f \in Files /\ g \in Files /\ shape \in [Files -> Shapes]
    <3>1. {Root} \subseteq Files /\ shape \in [Files -> Shapes]
      BY RootAssumption DEF IInv, ImportsTypeOK
    <3>2. f \in Files
      BY <3>1, ClosureFacts DEF Reachable
    <3> QED
      BY <3>1, <3>2 DEF Closure
  <2>3. n \in Nat /\ d \in Nat
    BY <2>2, ParsedAt
  <2>4. /\ p \in Nat /\ q \in Nat /\ 1 \in Nat
        /\ DefAt(stack, 1, q, f, n) /\ DefAt(stack, 1, p, g, d)
    <3>1. p \in Nat /\ q \in Nat
      BY AllDone DEF Position
    <3> QED
      BY <3>1, AllDone
  <2>5. Awaits(stack, 1, q, e) \/ Behind(stack, visited, 1, q, e)
    BY <2>1, <2>2, <2>3, <2>4 DEF Ordered
  <2>6. ~Awaits(stack, 1, q, e)
    BY AllDone DEF Awaits
  <2>7. Precedes(stack, 1, p, 1, q)
    BY <2>3, <2>4, <2>5, <2>6 DEF Behind
  <2> QED
    BY <2>7 DEF Precedes
<1> QED
  BY <1>1, CInvHolds, PTL
=============================================================================
