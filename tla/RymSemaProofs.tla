--------------------------- MODULE RymSemaProofs ---------------------------
(****************************************************************************)
(* Proofs about the ownership checker (RymSema).                            *)
(*                                                                          *)
(* What a recursive function of the model computes is known from its runs:  *)
(* a function on 0..n, each value made from the one before (Walk, Iterates; *)
(* both by a least counterexample, Least).                                  *)
(*                                                                          *)
(*   1. Grows: inferring an expression adds errors and marks, and moves no  *)
(*      binding.  With it TInv, the types and the shape of the scopes, is   *)
(*      inductive (TypesStep): SemaTypesCorrect.                            *)
(*   2. Sound: a name is found by the checker where the source has it, or  *)
(*      behind the payload of an earlier arm; a binding whose value the     *)
(*      checker saw go is marked; and nothing accepted so far used one.  An *)
(*      expression, every argument in its turn, keeps that (ExprSound).     *)
(*   3. SInv: the same of a state between statements, also for what was     *)
(*      gone where the open blocks began, since the checker has one set of  *)
(*      marks and the source one for every path.  Fine says how the scopes  *)
(*      of the two correspond; it and the marks survive every change of the *)
(*      scopes: ScopesAreBalanced, AcceptedIsSafe.                          *)
(****************************************************************************)
EXTENDS RymSema, WellFoundedInduction, TLAPS

-----------------------------------------------------------------------------
(* Induction on the natural numbers, in the form the proofs below use it.   *)

(* A set of natural numbers has a least member. *)
LEMMA Least ==
  ASSUME NEW T, T \subseteq Nat, T # {}
  PROVE  \E x \in T : \A y \in T : x <= y
<1>1. IsWellFoundedOn(OpToRel(<, Nat), Nat)
  BY NatLessThanWellFounded
<1> DEFINE R == OpToRel(<, Nat)
<1>2. \A x, y \in Nat : <<x, y>> \in R <=> x < y
  BY DEF OpToRel
<1>3. IsWellFoundedOn(R, Nat)
  BY <1>1
<1> HIDE DEF R
<1>4. PICK x \in T : \A y \in T : ~(<<y, x>> \in R)
  BY <1>3, WFMin
<1>5. \A y \in T : y \in Nat /\ x \in Nat /\ ~(y < x)
  BY <1>2, <1>4
<1>6. \A y \in T : x <= y
  BY <1>5
<1> QED
  BY <1>6

(* A bounded one has a greatest member. *)
LEMMA Greatest ==
  ASSUME NEW n \in Nat, NEW T, T \subseteq 1..n, T # {}
  PROVE  \E x \in T : \A y \in T : y <= x
<1> DEFINE D == {n - x : x \in T}
<1>1. D \subseteq Nat /\ D # {}
  <2>1. ASSUME NEW x \in T PROVE n - x \in Nat
    <3>1. x \in Int /\ x <= n
      OBVIOUS
    <3> QED
      BY <3>1
  <2> QED
    BY <2>1
<1>2. PICK d \in D : \A y \in D : d <= y
  <2> HIDE DEF D
  <2> QED
    BY <1>1, Least
<1>3. PICK x \in T : d = n - x
  OBVIOUS
<1>4. ASSUME NEW y \in T PROVE y <= x
  <2>1. n - x <= n - y
    BY <1>2, <1>3
  <2> QED
    BY <2>1
<1> QED
  BY <1>3, <1>4

(* Along an interval. *)
LEMMA Walk ==
  ASSUME NEW n \in Nat, NEW S, 0 \in S, \A i \in 1..n : i - 1 \in S => i \in S
  PROVE  \A i \in 0..n : i \in S
<1> SUFFICES ASSUME NEW m \in 0..n, m \notin S
             PROVE  FALSE
  OBVIOUS
<1> DEFINE T == (0..n) \ S
<1>1. T \subseteq Nat /\ T # {}
  OBVIOUS
<1>2. PICK x \in T : \A y \in T : x <= y
  <2> HIDE DEF T
  <2> QED
    BY <1>1, Least
<1>3. x \in 1..n /\ x - 1 \in 0..n /\ ~(x <= x - 1)
  BY <1>2
<1>4. x - 1 \in S
  BY <1>2, <1>3
<1> QED
  BY <1>2, <1>3, <1>4

(* Steps that stay in X can be taken one after the other. *)
CanStep(step, c, n, X) == n \in Nat /\ c \in X /\ step \in [1..n -> [X -> X]]
Taken(f, step, c, n, X) ==
    f \in [0..n -> X] /\ f[0] = c /\ \A i \in 1..n : f[i] = step[i][f[i - 1]]

LEMMA Iterates ==
  ASSUME NEW n, NEW X, NEW c, NEW step, CanStep(step, c, n, X)
  PROVE  \E f : Taken(f, step, c, n, X)
<1>0. n \in Nat /\ c \in X /\ step \in [1..n -> [X -> X]]
  BY DEF CanStep
<1> DEFINE Good(m, f) == f[0] = c /\ \A i \in 1..m : f[i] = step[i][f[i - 1]]
<1> DEFINE S == {m \in 0..n : \E f \in [0..m -> X] : Good(m, f)}
<1>1. 0 \in S
  <2> DEFINE g == [i \in 0..0 |-> c]
  <2>1. g \in [0..0 -> X] /\ g[0] = c
    BY <1>0
  <2>2. 0 \in 0..n
    BY <1>0
  <2> HIDE DEF g
  <2>3. Good(0, g)
    BY <2>1
  <2> HIDE DEF Good
  <2> QED
    BY <2>1, <2>2, <2>3
<1>2. ASSUME NEW i \in 1..n, i - 1 \in S PROVE i \in S
  <2>1. PICK f \in [0..(i - 1) -> X] : Good(i - 1, f)
    BY <1>2
  <2>2. i - 1 \in 0..(i - 1)
    OBVIOUS
  <2>3. f[i - 1] \in X
    BY <2>2
  <2>4. step[i][f[i - 1]] \in X
    BY <1>0, <2>3
  <2> DEFINE g == [j \in 0..i |-> IF j = i THEN step[i][f[i - 1]] ELSE f[j]]
  <2>5. ASSUME NEW j \in 0..i PROVE g[j] \in X
    <3>1. CASE j = i
      BY <2>4, <3>1
    <3>2. CASE j # i
      <4>1. j \in 0..(i - 1)
        BY <3>2
      <4> QED
        BY <3>2, <4>1
    <3> QED
      BY <3>1, <3>2
  <2>6. g \in [0..i -> X]
    BY <2>5
  <2>7. g[0] = c
    <3>1. 0 # i /\ 0 \in 0..i
      OBVIOUS
    <3> QED
      BY <2>1, <3>1
  <2>8. ASSUME NEW j \in 1..i PROVE g[j] = step[j][g[j - 1]]
    <3>1. CASE j = i
      <4>1. i - 1 # i /\ i - 1 \in 0..i /\ i \in 0..i
        OBVIOUS
      <4>2. g[j] = step[i][f[i - 1]] /\ g[j - 1] = f[i - 1]
        BY <3>1, <4>1
      <4> QED
        BY <3>1, <4>2
    <3>2. CASE j # i
      <4>1. j \in 1..(i - 1) /\ j \in 0..i /\ j - 1 \in 0..i /\ j - 1 # i
        BY <3>2
      <4>2. g[j] = f[j] /\ g[j - 1] = f[j - 1]
        BY <3>2, <4>1
      <4>3. f[j] = step[j][f[j - 1]]
        BY <2>1, <4>1
      <4> QED
        BY <4>2, <4>3
    <3> QED
      BY <3>1, <3>2
  <2>9. Good(i, g)
    BY <2>7, <2>8
  <2> HIDE DEF g, Good
  <2> QED
    BY <2>6, <2>9
<1> HIDE DEF S
<1>3. \A i \in 0..n : i \in S
  BY <1>0, <1>1, <1>2, Walk
<1>4. n \in S
  BY <1>0, <1>3
<1> QED
  BY <1>4 DEF S, Taken

-----------------------------------------------------------------------------
(* Types.                                                                   *)

AllNames == Names \cup Payloads
Maps(V) == UNION {[D -> V] : D \in SUBSET AllNames}
Frame == Maps(BindingType)
Scope == Maps(Int)

ErrorKinds == {"Undefined", "UseAfterMove", "MoveOfReadBinding", "MutateImmutable",
               "OwnershipModeMismatch", "ArgCountMismatch", "PipeOwnershipConflict"}
Checker == [frames : Seq(Frame), errors : SUBSET ErrorKinds]

(* gs has the bindings of fs, and none is marked as moved less. *)
SameShape(fs, gs) ==
    /\ Len(gs) = Len(fs)
    /\ \A i \in DOMAIN fs :
          /\ DOMAIN gs[i] = DOMAIN fs[i]
          /\ \A n \in DOMAIN fs[i] :
                gs[i][n].id = fs[i][n].id /\ (fs[i][n].moved => gs[i][n].moved)

(* What checking does to the state: errors and marks are only added. *)
Grows(c, d) ==
    d \in Checker /\ c.errors \subseteq d.errors /\ SameShape(c.frames, d.frames)

LEMMA MapsAre ==
  ASSUME NEW V, NEW f \in Maps(V)
  PROVE  /\ DOMAIN f \subseteq AllNames
         /\ f = [n \in DOMAIN f |-> f[n]]
         /\ \A n \in DOMAIN f : f[n] \in V
<1>1. PICK D \in SUBSET AllNames : f \in [D -> V]
  BY DEF Maps
<1> QED
  BY <1>1

LEMMA MapsIntro ==
  ASSUME NEW V, NEW f, f = [n \in DOMAIN f |-> f[n]], DOMAIN f \subseteq AllNames,
         \A n \in DOMAIN f : f[n] \in V
  PROVE  f \in Maps(V)
<1>1. f \in [DOMAIN f -> V]
  OBVIOUS
<1> QED
  BY <1>1 DEF Maps

LEMMA SeqFacts ==
  ASSUME NEW V, NEW s \in Seq(V)
  PROVE  Len(s) \in Nat /\ DOMAIN s = 1..Len(s) /\ \A i \in DOMAIN s : s[i] \in V
OBVIOUS

LEMMA FramesAre ==
  ASSUME NEW fs \in Seq(Frame), NEW i \in DOMAIN fs
  PROVE  /\ DOMAIN fs[i] \subseteq AllNames
         /\ fs[i] = [n \in DOMAIN fs[i] |-> fs[i][n]]
         /\ \A n \in DOMAIN fs[i] : fs[i][n] \in BindingType
<1>1. fs[i] \in Maps(BindingType)
  BY DEF Frame
<1> QED
  BY <1>1, MapsAre

(* The innermost scope that binds a name. *)
LEMMA FrameOfIs ==
  ASSUME NEW V, NEW fs \in Seq(V), NEW n, Bound(fs, n)
  PROVE  /\ FrameOf(fs, n) \in DOMAIN fs
         /\ n \in DOMAIN fs[FrameOf(fs, n)]
         /\ \A j \in DOMAIN fs : n \in DOMAIN fs[j] => j <= FrameOf(fs, n)
<1> DEFINE T == Holders(fs, n)
<1>1. T \subseteq 1..Len(fs) /\ T # {} /\ Len(fs) \in Nat
  BY DEF Holders, Bound
<1>2. \E x \in T : \A y \in T : y <= x
  <2> HIDE DEF T
  <2> QED
    BY <1>1, Greatest
<1>3. FrameOf(fs, n) \in T /\ \A y \in T : y <= FrameOf(fs, n)
  BY <1>2 DEF FrameOf
<1> QED
  BY <1>3 DEF Holders

(* There is one such scope. *)
LEMMA FrameOfUnique ==
  ASSUME NEW V, NEW fs \in Seq(V), NEW n, NEW i \in DOMAIN fs, n \in DOMAIN fs[i],
         \A j \in DOMAIN fs : n \in DOMAIN fs[j] => j <= i
  PROVE  Bound(fs, n) /\ FrameOf(fs, n) = i
<1>1. Bound(fs, n)
  BY DEF Bound, Holders
<1>2. FrameOf(fs, n) \in DOMAIN fs /\ n \in DOMAIN fs[FrameOf(fs, n)] /\ i <= FrameOf(fs, n)
  BY <1>1, FrameOfIs
<1>3. FrameOf(fs, n) <= i
  BY <1>2
<1> QED
  BY <1>1, <1>2, <1>3

(* It depends on which names are bound, not on how. *)
LEMMA FrameOfSame ==
  ASSUME NEW fs, NEW gs, DOMAIN gs = DOMAIN fs, NEW n,
         \A i \in DOMAIN fs : n \in DOMAIN gs[i] <=> n \in DOMAIN fs[i]
  PROVE  FrameOf(gs, n) = FrameOf(fs, n) /\ (Bound(gs, n) <=> Bound(fs, n))
<1>1. Holders(gs, n) = Holders(fs, n)
  BY DEF Holders
<1> QED
  BY <1>1 DEF FrameOf, Bound

-----------------------------------------------------------------------------
(* What the parts of an inference do to the checker's state.                *)

LEMMA GrowsSelf ==
  ASSUME NEW c \in Checker
  PROVE  Grows(c, c)
<1>1. c.frames \in Seq(Frame)
  BY DEF Checker
<1> QED
  BY <1>1 DEF Grows, SameShape

LEMMA GrowsFurther ==
  ASSUME NEW c \in Checker, NEW d, NEW e, Grows(c, d), Grows(d, e)
  PROVE  Grows(c, e)
<1>1. c.frames \in Seq(Frame) /\ d.frames \in Seq(Frame) /\ e.frames \in Seq(Frame)
  BY DEF Checker, Grows
<1> DEFINE f == c.frames  g == d.frames  h == e.frames
<1>2. DOMAIN f = DOMAIN g /\ Len(h) = Len(f)
  <2>1. Len(g) = Len(f) /\ Len(h) = Len(g)
    BY DEF Grows, SameShape
  <2> QED
    BY <1>1, <2>1
<1>3. ASSUME NEW i \in DOMAIN f
      PROVE  /\ DOMAIN h[i] = DOMAIN f[i]
             /\ \A n \in DOMAIN f[i] : h[i][n].id = f[i][n].id /\ (f[i][n].moved => h[i][n].moved)
  <2>1. /\ DOMAIN g[i] = DOMAIN f[i]
        /\ \A n \in DOMAIN f[i] : g[i][n].id = f[i][n].id /\ (f[i][n].moved => g[i][n].moved)
    BY DEF Grows, SameShape
  <2>2. i \in DOMAIN g
    BY <1>2
  <2>3. /\ DOMAIN h[i] = DOMAIN g[i]
        /\ \A n \in DOMAIN g[i] : h[i][n].id = g[i][n].id /\ (g[i][n].moved => h[i][n].moved)
    BY <2>2 DEF Grows, SameShape
  <2> QED
    BY <2>1, <2>3
<1>4. SameShape(f, h)
  BY <1>2, <1>3 DEF SameShape
<1>5. c.errors \subseteq e.errors /\ e \in Checker
  BY DEF Grows
<1> QED
  BY <1>4, <1>5 DEF Grows

LEMMA FailGrows ==
  ASSUME NEW c \in Checker, NEW error \in ErrorKinds, NEW bad
  PROVE  /\ Grows(c, Fail(c, error, bad))
         /\ Fail(c, error, bad).frames = c.frames
         /\ bad => Fail(c, error, bad).errors # {}
         /\ c.errors # {} => Fail(c, error, bad).errors # {}
<1>1. CASE bad
  <2>1. Fail(c, error, bad) = [c EXCEPT !.errors = @ \cup {error}]
    BY <1>1 DEF Fail
  <2>2. [c EXCEPT !.errors = @ \cup {error}] = [frames |-> c.frames, errors |-> c.errors \cup {error}]
    <3>1. c = [frames |-> c.frames, errors |-> c.errors]
      BY DEF Checker
    <3> DEFINE more == c.errors \cup {error}
    <3> HIDE DEF more
    <3>2. [c EXCEPT !.errors = more] = [frames |-> c.frames, errors |-> more]
      BY <3>1
    <3> QED
      BY <3>2 DEF more
  <2>3. c.frames \in Seq(Frame) /\ c.errors \subseteq ErrorKinds
    BY DEF Checker
  <2>4. Fail(c, error, bad) \in Checker
    BY <2>1, <2>2, <2>3 DEF Checker
  <2> QED
    BY <2>1, <2>2, <2>3, <2>4 DEF Grows, SameShape
<1>2. CASE ~bad
  BY <1>2, GrowsSelf DEF Fail
<1> QED
  BY <1>1, <1>2

LEMMA MarkMovedGrows ==
  ASSUME NEW fs \in Seq(Frame), NEW n
  PROVE  /\ MarkMoved(fs, n) \in Seq(Frame)
         /\ SameShape(fs, MarkMoved(fs, n))
         /\ Bound(fs, n) => MarkMoved(fs, n)[FrameOf(fs, n)][n].moved
<1>1. CASE ~Bound(fs, n)
  BY <1>1 DEF MarkMoved, SameShape
<1>2. CASE Bound(fs, n)
  <2> DEFINE k == FrameOf(fs, n)
  <2>1. k \in DOMAIN fs /\ n \in DOMAIN fs[k]
    BY <1>2, FrameOfIs
  <2> HIDE DEF k
  <2> DEFINE g == [fs[k] EXCEPT ![n].moved = TRUE]
  <2> DEFINE b == [fs[k][n] EXCEPT !.moved = TRUE]
  <2>2. MarkMoved(fs, n) = [fs EXCEPT ![k] = g]
    BY <1>2 DEF MarkMoved, k
  <2>3. fs[k][n] \in BindingType
    BY <2>1, FramesAre
  <2>4. b \in BindingType /\ b.moved /\ b.id = fs[k][n].id
    BY <2>3 DEF BindingType
  <2>5. /\ DOMAIN fs[k] \subseteq AllNames
        /\ fs[k] = [x \in DOMAIN fs[k] |-> fs[k][x]]
        /\ \A x \in DOMAIN fs[k] : fs[k][x] \in BindingType
    BY <2>1, FramesAre
  <2>6. g = [x \in DOMAIN fs[k] |-> IF x = n THEN b ELSE fs[k][x]]
    BY <2>5
  <2> HIDE DEF b, g
  <2>7. DOMAIN g = DOMAIN fs[k] /\ \A x \in DOMAIN g : g[x] \in BindingType
    BY <2>4, <2>5, <2>6
  <2>8. g \in Frame
    <3>1. g = [x \in DOMAIN g |-> g[x]]
      BY <2>6
    <3> QED
      BY <2>5, <2>7, <3>1, MapsIntro DEF Frame
  <2>9. [fs EXCEPT ![k] = g] \in Seq(Frame)
    BY <2>1, <2>8
  <2>10. SameShape(fs, [fs EXCEPT ![k] = g])
    <3>1. Len([fs EXCEPT ![k] = g]) = Len(fs)
      OBVIOUS
    <3>2. ASSUME NEW i \in DOMAIN fs
          PROVE  /\ DOMAIN [fs EXCEPT ![k] = g][i] = DOMAIN fs[i]
                 /\ \A x \in DOMAIN fs[i] :
                      /\ [fs EXCEPT ![k] = g][i][x].id = fs[i][x].id
                      /\ fs[i][x].moved => [fs EXCEPT ![k] = g][i][x].moved
      <4>1. CASE i = k
        <5>1. [fs EXCEPT ![k] = g][i] = g
          BY <4>1
        <5> QED
          BY <2>4, <2>6, <2>7, <4>1, <5>1
      <4>2. CASE i # k
        BY <4>2
      <4> QED
        BY <4>1, <4>2
    <3> QED
      BY <3>1, <3>2 DEF SameShape
  <2>11. [fs EXCEPT ![k] = g][k][n].moved
    <3>1. [fs EXCEPT ![k] = g][k] = g
      BY <2>1
    <3>2. g[n].moved
      BY <2>1, <2>4, <2>6
    <3> QED
      BY <3>1, <3>2
  <2> QED
    BY <2>2, <2>9, <2>10, <2>11 DEF k
<1> QED
  BY <1>1, <1>2

(* A use that is accepted is of a binding that is not marked, or has the    *)
(* name of an enum.                                                         *)
LEMMA InferIdentGrows ==
  ASSUME NEW c \in Checker, NEW n
  PROVE  /\ Grows(c, InferIdent(c, n))
         /\ InferIdent(c, n).frames = c.frames
         /\ InferIdent(c, n).errors = {} => c.errors = {} /\ (n \notin Enums => ~IsMoved(c, n))
<1> DEFINE d == Fail(c, "Undefined", ~Bound(c.frames, n))
<1> DEFINE e == Fail(d, "UseAfterMove", IsMoved(c, n))
<1>1. "Undefined" \in ErrorKinds /\ "UseAfterMove" \in ErrorKinds
  BY DEF ErrorKinds
<1>2. Grows(c, d) /\ d.frames = c.frames /\ (c.errors # {} => d.errors # {})
  BY <1>1, FailGrows
<1>3. d \in Checker
  BY <1>2 DEF Grows
<1>4. InferIdent(c, n) = IF n \in Enums THEN c ELSE e
  BY DEF InferIdent
<1> HIDE DEF d
<1>5. /\ Grows(d, e) /\ e.frames = d.frames /\ (d.errors # {} => e.errors # {})
      /\ (IsMoved(c, n) => e.errors # {})
  BY <1>1, <1>3, FailGrows
<1> HIDE DEF e
<1>6. Grows(c, e)
  BY <1>2, <1>5, GrowsFurther
<1>7. Grows(c, c)
  BY GrowsSelf
<1> QED
  BY <1>2, <1>4, <1>5, <1>6, <1>7

(* A move that is accepted is of a binding that is not marked, and marks it. *)
LEMMA MoveOutGrows ==
  ASSUME NEW c \in Checker, NEW n
  PROVE  /\ Grows(c, MoveOut(c, n))
         /\ MoveOut(c, n).errors = {} => c.errors = {} /\ ~IsMoved(c, n)
         /\ Bound(c.frames, n) => MoveOut(c, n).frames[FrameOf(c.frames, n)][n].moved
<1> DEFINE bad == /\ Bound(c.frames, n) /\ ~IsMoved(c, n)
                  /\ Lookup(c.frames, n).mode = "read"
<1> DEFINE d == Fail(c, "UseAfterMove", IsMoved(c, n))
<1> DEFINE e == Fail(d, "MoveOfReadBinding", bad)
<1> DEFINE f == [e EXCEPT !.frames = MarkMoved(@, n)]
<1>1. "MoveOfReadBinding" \in ErrorKinds /\ "UseAfterMove" \in ErrorKinds
  BY DEF ErrorKinds
<1>2. MoveOut(c, n) = f
  BY DEF MoveOut
<1>3. /\ Grows(c, d) /\ d.frames = c.frames /\ (c.errors # {} => d.errors # {})
      /\ (IsMoved(c, n) => d.errors # {})
  BY <1>1, FailGrows
<1>4. d \in Checker
  BY <1>3 DEF Grows
<1> HIDE DEF d, bad
<1>5. Grows(d, e) /\ e.frames = d.frames /\ (d.errors # {} => e.errors # {})
  BY <1>1, <1>4, FailGrows
<1>6. e \in Checker
  BY <1>5 DEF Grows
<1> HIDE DEF e
<1>7. f = [frames |-> MarkMoved(e.frames, n), errors |-> e.errors]
  BY <1>6 DEF Checker
<1>8. c.frames \in Seq(Frame) /\ e.frames = c.frames /\ e.errors \subseteq ErrorKinds
  BY <1>3, <1>5, <1>6 DEF Checker
<1> HIDE DEF f
<1>9. /\ MarkMoved(c.frames, n) \in Seq(Frame)
      /\ SameShape(c.frames, MarkMoved(c.frames, n))
      /\ Bound(c.frames, n) => MarkMoved(c.frames, n)[FrameOf(c.frames, n)][n].moved
  BY <1>8, MarkMovedGrows
<1>10. f \in Checker /\ f.frames = MarkMoved(c.frames, n) /\ f.errors = e.errors
  BY <1>7, <1>8, <1>9 DEF Checker
<1>11. c.errors \subseteq e.errors
  BY <1>3, <1>5 DEF Grows
<1>12. Grows(c, f)
  BY <1>9, <1>10, <1>11 DEF Grows
<1> QED
  BY <1>2, <1>3, <1>5, <1>9, <1>10, <1>12

LEMMA CheckArgGrows ==
  ASSUME NEW c \in Checker, NEW arg, NEW mode
  PROVE  /\ Grows(c, CheckArg(c, arg, mode))
         /\ CheckArg(c, arg, mode).errors = {} => c.errors = {}
         /\ arg.mode = "move" /\ arg.whole =>
              /\ CheckArg(c, arg, mode).errors = {} => c.errors = {} /\ ~IsMoved(c, arg.name)
              /\ Bound(c.frames, arg.name) =>
                   CheckArg(c, arg, mode).frames[FrameOf(c.frames, arg.name)][arg.name].moved
<1> DEFINE d == Fail(c, "OwnershipModeMismatch", arg.mode # "inferred" /\ arg.mode # mode)
<1>1. "OwnershipModeMismatch" \in ErrorKinds
  BY DEF ErrorKinds
<1>2. Grows(c, d) /\ d.frames = c.frames /\ (c.errors # {} => d.errors # {})
  BY <1>1, FailGrows
<1>3. d \in Checker
  BY <1>2 DEF Grows
<1>4. CheckArg(c, arg, mode) = IF arg.mode = "move" /\ arg.whole THEN MoveOut(d, arg.name) ELSE d
  BY DEF CheckArg
<1> HIDE DEF d
<1>5. CASE arg.mode = "move" /\ arg.whole
  <2>1. /\ Grows(d, MoveOut(d, arg.name))
        /\ MoveOut(d, arg.name).errors = {} => d.errors = {} /\ ~IsMoved(d, arg.name)
        /\ Bound(d.frames, arg.name) =>
             MoveOut(d, arg.name).frames[FrameOf(d.frames, arg.name)][arg.name].moved
    BY <1>3, MoveOutGrows
  <2>2. Grows(c, MoveOut(d, arg.name))
    BY <1>2, <2>1, GrowsFurther
  <2>3. IsMoved(d, arg.name) = IsMoved(c, arg.name)
    BY <1>2 DEF IsMoved
  <2> QED
    BY <1>2, <1>4, <1>5, <2>1, <2>2, <2>3
<1>6. CASE ~(arg.mode = "move" /\ arg.whole)
  BY <1>2, <1>4, <1>6
<1> QED
  BY <1>5, <1>6

(* A walk along the arguments only adds.                                    *)
LEMMA RunGrows ==
  ASSUME NEW n \in Nat, NEW f, f[0] \in Checker,
         \A i \in 1..n : f[i - 1] \in Checker => Grows(f[i - 1], f[i])
  PROVE  \A i \in 0..n : Grows(f[0], f[i])
<1> DEFINE S == {i \in 0..n : Grows(f[0], f[i])}
<1>1. 0 \in S
  BY GrowsSelf
<1>2. ASSUME NEW i \in 1..n, i - 1 \in S PROVE i \in S
  <2>1. Grows(f[0], f[i - 1])
    BY <1>2
  <2>2. f[i - 1] \in Checker
    BY <2>1 DEF Grows
  <2>3. Grows(f[i - 1], f[i])
    BY <2>2
  <2>4. Grows(f[0], f[i])
    BY <2>1, <2>3, GrowsFurther
  <2> QED
    BY <2>4
<1>3. \A i \in 0..n : i \in S
  <2> HIDE DEF S
  <2> QED
    BY <1>1, <1>2, Walk
<1> QED
  BY <1>3

(* The states along the arguments of a pipe or an unknown function ...      *)
ArgsRun(f, c, args) ==
    f = [i \in 0..Len(args) |-> IF i = 0 THEN c ELSE InferIdent(f[i - 1], args[i].name)]

LEMMA ArgsRunIs ==
  ASSUME NEW c \in Checker, NEW args, Len(args) \in Nat
  PROVE  \E f : ArgsRun(f, c, args) /\ InferArgs(c, args) = f[Len(args)]
<1> DEFINE n == Len(args)
<1> DEFINE step == [i \in 1..n |-> [d \in Checker |-> InferIdent(d, args[i].name)]]
<1>1. ASSUME NEW d \in Checker, NEW i \in 1..n
      PROVE  step[i][d] = InferIdent(d, args[i].name) /\ step[i][d] \in Checker
  <2>1. step[i][d] = InferIdent(d, args[i].name)
    OBVIOUS
  <2>2. Grows(d, InferIdent(d, args[i].name))
    BY InferIdentGrows
  <2> QED
    BY <2>1, <2>2 DEF Grows
<1>2. step \in [1..n -> [Checker -> Checker]]
  <2>1. ASSUME NEW i \in 1..n, NEW d \in Checker PROVE InferIdent(d, args[i].name) \in Checker
    BY <1>1
  <2> QED
    BY <2>1
<1> HIDE DEF step
<1>3. PICK f : f \in [0..n -> Checker] /\ f[0] = c /\ \A i \in 1..n : f[i] = step[i][f[i - 1]]
  <2>1. CanStep(step, c, n, Checker)
    BY <1>2 DEF CanStep
  <2> QED
    BY <2>1, Iterates DEF Taken
<1>11. f = [i \in 0..n |-> f[i]] /\ \A i \in 0..n : f[i] \in Checker
  BY <1>3
<1>4. ASSUME NEW i \in 1..n PROVE f[i] = InferIdent(f[i - 1], args[i].name)
  <2>1. i - 1 \in 0..n
    OBVIOUS
  <2>2. f[i - 1] \in Checker
    BY <1>11, <2>1
  <2> QED
    BY <1>1, <1>3, <2>2
<1>5. ASSUME NEW i \in 0..n
      PROVE  f[i] = IF i = 0 THEN c ELSE InferIdent(f[i - 1], args[i].name)
  <2>1. i = 0 \/ i \in 1..n
    OBVIOUS
  <2> QED
    BY <1>3, <1>4, <2>1
<1>6. ArgsRun(f, c, args)
  BY <1>5, <1>11 DEF ArgsRun
<1>7. InferArgs(c, args) = (CHOOSE g : ArgsRun(g, c, args))[n]
  BY DEF InferArgs, ArgsRun
<1>8. PICK h : h = CHOOSE g : ArgsRun(g, c, args)
  OBVIOUS
<1>9. ArgsRun(h, c, args)
  BY <1>6, <1>8, Zenon
<1> QED
  BY <1>7, <1>8, <1>9

(* ... and of a known one, as far as the signature goes.                    *)
Compared(e) == IF Len(Sigs[e.fn]) < Len(e.args) THEN Len(Sigs[e.fn]) ELSE Len(e.args)

CallRun(f, c, e) ==
    f = [i \in 0..Compared(e) |->
           IF i = 0 THEN Fail(c, "ArgCountMismatch", Len(e.args) # Len(Sigs[e.fn]))
           ELSE CheckArg(f[i - 1], e.args[i], Sigs[e.fn][i])]

LEMMA CallRunIs ==
  ASSUME NEW c \in Checker, NEW e, Len(e.args) \in Nat, Len(Sigs[e.fn]) \in Nat
  PROVE  \E f : CallRun(f, c, e) /\ InferCall(c, e) = f[Compared(e)]
<1> DEFINE n == Compared(e)
           sig == Sigs[e.fn]
           start == Fail(c, "ArgCountMismatch", Len(e.args) # Len(Sigs[e.fn]))
<1>0. n \in Nat
  BY DEF Compared
<1>10. start \in Checker
  <2>1. "ArgCountMismatch" \in ErrorKinds
    BY DEF ErrorKinds
  <2> QED
    BY <2>1, FailGrows DEF Grows
<1> DEFINE step == [i \in 1..n |-> [d \in Checker |-> CheckArg(d, e.args[i], sig[i])]]
<1>1. ASSUME NEW d \in Checker, NEW i \in 1..n
      PROVE  step[i][d] = CheckArg(d, e.args[i], sig[i])
  OBVIOUS
<1>2. step \in [1..n -> [Checker -> Checker]]
  <2>1. ASSUME NEW i \in 1..n, NEW d \in Checker PROVE CheckArg(d, e.args[i], sig[i]) \in Checker
    BY CheckArgGrows DEF Grows
  <2> QED
    BY <2>1
<1> HIDE DEF step, start, n
<1>3. PICK f : f \in [0..n -> Checker] /\ f[0] = start /\ \A i \in 1..n : f[i] = step[i][f[i - 1]]
  <2>1. CanStep(step, start, n, Checker)
    BY <1>0, <1>2, <1>10 DEF CanStep
  <2> QED
    BY <2>1, Iterates DEF Taken
<1>11. f = [i \in 0..n |-> f[i]] /\ \A i \in 0..n : f[i] \in Checker
  BY <1>3
<1>4. ASSUME NEW i \in 1..n PROVE f[i] = CheckArg(f[i - 1], e.args[i], sig[i])
  <2>1. i - 1 \in 0..n
    BY <1>0
  <2>2. f[i - 1] \in Checker
    BY <1>11, <2>1
  <2> QED
    BY <1>1, <1>3, <2>2
<1>5. ASSUME NEW i \in 0..n
      PROVE  f[i] = IF i = 0 THEN start ELSE CheckArg(f[i - 1], e.args[i], sig[i])
  <2>1. i = 0 \/ i \in 1..n
    BY <1>0
  <2> QED
    BY <1>3, <1>4, <2>1
<1>6. CallRun(f, c, e)
  BY <1>5, <1>11 DEF CallRun, start, n
<1>7. InferCall(c, e) = (CHOOSE g : CallRun(g, c, e))[n]
  BY DEF InferCall, CallRun, Compared, n
<1>8. PICK h : h = CHOOSE g : CallRun(g, c, e)
  OBVIOUS
<1>9. CallRun(h, c, e)
  BY <1>6, <1>8, Zenon
<1> QED
  BY <1>7, <1>8, <1>9 DEF n

-----------------------------------------------------------------------------
(* Inference only adds errors and marks.                                    *)

LEMMA ExprIs ==
  ASSUME NEW e \in Exprs
  PROVE  /\ e.args \in Seq(Arg)
         /\ Len(e.args) \in Nat
         /\ e.fn \in DOMAIN Sigs => Sigs[e.fn] \in Seq(Modes) /\ Len(Sigs[e.fn]) \in Nat
<1>1. e.args \in Seq(Arg)
  BY ExprsAssumption DEF IsExpr
<1>2. e.fn \in DOMAIN Sigs => Sigs[e.fn] \in Seq(Modes)
  BY SigsAssumption
<1> HIDE DEF Arg, Modes
<1> QED
  BY <1>1, <1>2

LEMMA ArgsRunGrows ==
  ASSUME NEW c \in Checker, NEW f, NEW args, Len(args) \in Nat, ArgsRun(f, c, args)
  PROVE  /\ f[0] = c
         /\ \A i \in 0..Len(args) : Grows(c, f[i])
         /\ \A i \in 1..Len(args) : f[i] = InferIdent(f[i - 1], args[i].name)
<1> DEFINE n == Len(args)
<1>1. f[0] = c /\ \A i \in 1..n : f[i] = InferIdent(f[i - 1], args[i].name)
  BY DEF ArgsRun
<1>2. \A i \in 1..n : f[i - 1] \in Checker => Grows(f[i - 1], f[i])
  BY <1>1, InferIdentGrows
<1>3. \A i \in 0..n : Grows(f[0], f[i])
  BY <1>1, <1>2, RunGrows
<1> QED
  BY <1>1, <1>3

LEMMA InferArgsGrows ==
  ASSUME NEW c \in Checker, NEW args, Len(args) \in Nat
  PROVE  Grows(c, InferArgs(c, args))
<1>1. PICK f : ArgsRun(f, c, args) /\ InferArgs(c, args) = f[Len(args)]
  BY ArgsRunIs
<1>2. \A i \in 0..Len(args) : Grows(c, f[i])
  BY <1>1, ArgsRunGrows
<1> QED
  BY <1>1, <1>2

LEMMA CallRunGrows ==
  ASSUME NEW c \in Checker, NEW f, NEW e, Len(e.args) \in Nat, Len(Sigs[e.fn]) \in Nat,
         CallRun(f, c, e)
  PROVE  /\ f[0] = Fail(c, "ArgCountMismatch", Len(e.args) # Len(Sigs[e.fn]))
         /\ \A i \in 0..Compared(e) : Grows(c, f[i]) /\ Grows(f[0], f[i])
         /\ \A i \in 1..Compared(e) : f[i] = CheckArg(f[i - 1], e.args[i], Sigs[e.fn][i])
<1> DEFINE n == Compared(e)
<1>0. n \in Nat
  BY DEF Compared
<1>1. /\ f[0] = Fail(c, "ArgCountMismatch", Len(e.args) # Len(Sigs[e.fn]))
      /\ \A i \in 1..n : f[i] = CheckArg(f[i - 1], e.args[i], Sigs[e.fn][i])
  BY <1>0 DEF CallRun
<1> HIDE DEF n
<1>2. Grows(c, f[0])
  <2>1. "ArgCountMismatch" \in ErrorKinds
    BY DEF ErrorKinds
  <2> QED
    BY <1>1, <2>1, FailGrows
<1>3. \A i \in 1..n : f[i - 1] \in Checker => Grows(f[i - 1], f[i])
  BY <1>1, CheckArgGrows
<1>4. f[0] \in Checker
  BY <1>2 DEF Grows
<1>5. \A i \in 0..n : Grows(f[0], f[i])
  BY <1>0, <1>3, <1>4, RunGrows
<1>6. \A i \in 0..n : Grows(c, f[i])
  BY <1>2, <1>5, GrowsFurther
<1> QED
  BY <1>1, <1>5, <1>6 DEF n

LEMMA InferCallGrows ==
  ASSUME NEW c \in Checker, NEW e, Len(e.args) \in Nat, Len(Sigs[e.fn]) \in Nat
  PROVE  Grows(c, InferCall(c, e))
<1>1. PICK f : CallRun(f, c, e) /\ InferCall(c, e) = f[Compared(e)]
  BY CallRunIs
<1>2. \A i \in 0..Compared(e) : Grows(c, f[i])
  BY <1>1, CallRunGrows
<1>3. Compared(e) \in 0..Compared(e)
  BY DEF Compared
<1> QED
  BY <1>1, <1>2, <1>3

(* What stands before the arguments of a pipe.                              *)
PipeStart(c, e) ==
    Fail(InferIdent(Fail(c, "PipeOwnershipConflict", PipeConflict(c, e)), e.pipe),
         "ArgCountMismatch", WrongPipeArity(e))

LEMMA PipeStartGrows ==
  ASSUME NEW c \in Checker, NEW e
  PROVE  /\ Grows(c, PipeStart(c, e))
         /\ PipeStart(c, e).frames = c.frames
         /\ PipeStart(c, e).errors = {} => c.errors = {} /\ (e.pipe \notin Enums => ~IsMoved(c, e.pipe))
<1> DEFINE d == Fail(c, "PipeOwnershipConflict", PipeConflict(c, e))
           f == InferIdent(d, e.pipe)
           g == Fail(f, "ArgCountMismatch", WrongPipeArity(e))
<1>1. "PipeOwnershipConflict" \in ErrorKinds /\ "ArgCountMismatch" \in ErrorKinds
  BY DEF ErrorKinds
<1>2. Grows(c, d) /\ d.frames = c.frames /\ (c.errors # {} => d.errors # {})
  BY <1>1, FailGrows
<1>3. d \in Checker
  BY <1>2 DEF Grows
<1>4. PipeStart(c, e) = g
  BY DEF PipeStart
<1> HIDE DEF d
<1>5. /\ Grows(d, f) /\ f.frames = d.frames
      /\ f.errors = {} => d.errors = {} /\ (e.pipe \notin Enums => ~IsMoved(d, e.pipe))
  BY <1>3, InferIdentGrows
<1>6. f \in Checker
  BY <1>5 DEF Grows
<1> HIDE DEF f
<1>7. Grows(f, g) /\ g.frames = f.frames /\ (f.errors # {} => g.errors # {})
  BY <1>1, <1>6, FailGrows
<1> HIDE DEF g
<1>8. Grows(c, f)
  BY <1>2, <1>5, GrowsFurther
<1>9. Grows(c, g)
  BY <1>7, <1>8, GrowsFurther
<1>10. IsMoved(d, e.pipe) = IsMoved(c, e.pipe)
  BY <1>2 DEF IsMoved
<1> QED
  BY <1>2, <1>4, <1>5, <1>7, <1>9, <1>10

LEMMA InferPipeIs ==
  ASSUME NEW c, NEW e
  PROVE  InferPipe(c, e) = InferArgs(PipeStart(c, e), e.args)
BY DEF InferPipe, PipeStart

LEMMA InferGrows ==
  ASSUME NEW c \in Checker, NEW e \in Exprs
  PROVE  Grows(c, Infer(c, e))
<1>1. Len(e.args) \in Nat
  BY ExprIs
<1>2. CASE e.pipe # NoName
  <2>1. Grows(c, PipeStart(c, e))
    BY PipeStartGrows
  <2>2. PipeStart(c, e) \in Checker
    BY <2>1 DEF Grows
  <2>3. Grows(PipeStart(c, e), InferArgs(PipeStart(c, e), e.args))
    BY <1>1, <2>2, InferArgsGrows
  <2>4. Infer(c, e) = InferArgs(PipeStart(c, e), e.args)
    BY <1>2, InferPipeIs DEF Infer
  <2> QED
    BY <2>1, <2>3, <2>4, GrowsFurther
<1>3. CASE e.pipe = NoName /\ e.fn \in DOMAIN Sigs
  <2>1. Len(Sigs[e.fn]) \in Nat
    BY <1>3, ExprIs
  <2> QED
    BY <1>1, <1>3, <2>1, InferCallGrows DEF Infer
<1>4. CASE e.pipe = NoName /\ e.fn \notin DOMAIN Sigs
  BY <1>1, <1>4, InferArgsGrows DEF Infer
<1> QED
  BY <1>2, <1>3, <1>4

-----------------------------------------------------------------------------
(* What an expression means.                                                *)

Paths == [gone : SUBSET Int, lost : SUBSET Int, due : SUBSET Int]
Meanings == [path : Paths, misused : SUBSET Ways]
Places == Visited \cup Unvisited

LEMMA DenotesIds ==
  ASSUME NEW sc \in Seq(Scope), NEW n
  PROVE  Denotes(sc, n) \in SUBSET Int
<1>1. CASE Bound(sc, n)
  <2> DEFINE k == FrameOf(sc, n)
  <2>1. k \in DOMAIN sc /\ n \in DOMAIN sc[k]
    BY <1>1, FrameOfIs
  <2>2. sc[k] \in Maps(Int)
    BY <2>1 DEF Scope
  <2>3. sc[k][n] \in Int
    BY <2>1, <2>2, MapsAre
  <2>4. Denotes(sc, n) = {sc[k][n]}
    BY <1>1 DEF Denotes, Lookup
  <2> QED
    BY <2>3, <2>4
<1>2. CASE ~Bound(sc, n)
  BY <1>2 DEF Denotes
<1> QED
  BY <1>1, <1>2

LEMMA WayIs ==
  ASSUME NEW v, NEW n, NEW at \in Places
  PROVE  /\ Way(v, n, at) \in Ways
         /\ Way(v, n, at) = "followed" =>
              at \in Visited /\ ~Hidden(v, n) /\ ~(at = "inferred" /\ n \in Enums)
<1>1. CASE at \in Unvisited
  BY <1>1 DEF Way, Ways, Unvisited, Visited
<1>2. CASE at \notin Unvisited
  <2>1. at \in Visited
    BY <1>2 DEF Places
  <2> QED
    BY <1>2, <2>1 DEF Way, Ways
<1> QED
  BY <1>1, <1>2

LEMMA NotedIs ==
  ASSUME NEW m \in Meanings, NEW way \in Ways, NEW holds \in BOOLEAN
  PROVE  /\ Noted(m, way, holds) \in Meanings
         /\ Noted(m, way, holds).path = m.path
         /\ "followed" \in Noted(m, way, holds).misused =>
              "followed" \in m.misused \/ (holds /\ way = "followed")
<1>1. CASE ~holds
  BY <1>1 DEF Noted
<1>2. CASE holds
  <2> DEFINE more == m.misused \cup {way}
  <2>1. Noted(m, way, holds) = [m EXCEPT !.misused = more]
    BY <1>2 DEF Noted
  <2>2. m.path \in Paths /\ more \subseteq Ways /\ m = [path |-> m.path, misused |-> m.misused]
    BY DEF Meanings
  <2>3. "followed" \in more => "followed" \in m.misused \/ way = "followed"
    OBVIOUS
  <2> HIDE DEF more
  <2>4. Noted(m, way, holds) = [path |-> m.path, misused |-> more]
    BY <2>1, <2>2
  <2>5. Noted(m, way, holds) \in Meanings
    BY <2>2, <2>4 DEF Meanings
  <2>6. Noted(m, way, holds).path = m.path /\ Noted(m, way, holds).misused = more
    BY <2>4
  <2> QED
    BY <1>2, <2>3, <2>5, <2>6
<1> QED
  BY <1>1, <1>2

(* The followed use of a value that is gone.                                *)
Followed(v, m, n, at) == Way(v, n, at) = "followed" /\ Denotes(v.env, n) \cap m.path.gone # {}

LEMMA UseIs ==
  ASSUME NEW v, v.env \in Seq(Scope), NEW m \in Meanings, NEW n, NEW at \in Places
  PROVE  /\ Use(v, m, n, at) \in Meanings
         /\ Use(v, m, n, at).path = m.path
         /\ "followed" \in Use(v, m, n, at).misused =>
              "followed" \in m.misused \/ Followed(v, m, n, at)
<1> DEFINE ids == Denotes(v.env, n)
           k == Noted(m, Way(v, n, at), ids \cap m.path.gone # {})
<1>1. Way(v, n, at) \in Ways
  BY WayIs
<1>2. "unmarked" \in Ways /\ "unmarked" # "followed"
  BY DEF Ways
<1>3. /\ k \in Meanings /\ k.path = m.path
      /\ "followed" \in k.misused => "followed" \in m.misused \/ Followed(v, m, n, at)
  BY <1>1, NotedIs DEF Followed
<1>4. Use(v, m, n, at) = Noted(k, "unmarked", ids \cap m.path.lost # {})
  BY DEF Use
<1> DEFINE lost == ids \cap m.path.lost # {}
<1> HIDE DEF k
<1>5. lost \in BOOLEAN /\ Use(v, m, n, at) = Noted(k, "unmarked", lost)
  BY <1>4
<1> HIDE DEF lost
<1>6. /\ Noted(k, "unmarked", lost) \in Meanings /\ Noted(k, "unmarked", lost).path = k.path
      /\ "followed" \in Noted(k, "unmarked", lost).misused => "followed" \in k.misused
  BY <1>2, <1>3, <1>5, NotedIs
<1> QED
  BY <1>3, <1>5, <1>6

LEMMA WithPath ==
  ASSUME NEW m \in Meanings, NEW S
  PROVE  /\ m = [path |-> m.path, misused |-> m.misused]
         /\ m.path = [gone |-> m.path.gone, lost |-> m.path.lost, due |-> m.path.due]
         /\ [m EXCEPT !.path.gone = S] =
              [path |-> [gone |-> S, lost |-> m.path.lost, due |-> m.path.due],
               misused |-> m.misused]
         /\ [m EXCEPT !.path.lost = S] =
              [path |-> [gone |-> m.path.gone, lost |-> S, due |-> m.path.due],
               misused |-> m.misused]
         /\ [m EXCEPT !.path.due = S] =
              [path |-> [gone |-> m.path.gone, lost |-> m.path.lost, due |-> S],
               misused |-> m.misused]
<1>1. m = [path |-> m.path, misused |-> m.misused] /\ m.path \in Paths
  BY DEF Meanings
<1>2. m.path = [gone |-> m.path.gone, lost |-> m.path.lost, due |-> m.path.due]
  BY <1>1 DEF Paths
<1>3. ASSUME NEW p
      PROVE  [m EXCEPT !.path = p] = [path |-> p, misused |-> m.misused]
  BY <1>1
<1>4. /\ [m.path EXCEPT !.gone = S] = [gone |-> S, lost |-> m.path.lost, due |-> m.path.due]
      /\ [m.path EXCEPT !.lost = S] = [gone |-> m.path.gone, lost |-> S, due |-> m.path.due]
      /\ [m.path EXCEPT !.due = S] = [gone |-> m.path.gone, lost |-> m.path.lost, due |-> S]
  BY <1>2
<1>5. /\ [m EXCEPT !.path.gone = S] = [m EXCEPT !.path = [m.path EXCEPT !.gone = S]]
      /\ [m EXCEPT !.path.lost = S] = [m EXCEPT !.path = [m.path EXCEPT !.lost = S]]
      /\ [m EXCEPT !.path.due = S] = [m EXCEPT !.path = [m.path EXCEPT !.due = S]]
  OBVIOUS
<1> QED
  BY <1>1, <1>2, <1>3, <1>4, <1>5

LEMMA GiveIs ==
  ASSUME NEW v, v.env \in Seq(Scope), NEW m \in Meanings, NEW n, NEW at \in Places
  PROVE  /\ Give(v, m, n, at) \in Meanings
         /\ Give(v, m, n, at).path.gone =
              IF at = "moved" /\ ~Hidden(v, n) THEN m.path.gone \cup Denotes(v.env, n)
              ELSE m.path.gone
         /\ "followed" \in Give(v, m, n, at).misused =>
              "followed" \in m.misused \/ Followed(v, m, n, at)
<1> DEFINE k == Use(v, m, n, at)  ids == Denotes(v.env, n)
<1>1. /\ k \in Meanings /\ k.path = m.path
      /\ "followed" \in k.misused => "followed" \in m.misused \/ Followed(v, m, n, at)
  BY UseIs
<1>2. Give(v, m, n, at) = IF at = "moved" /\ ~Hidden(v, n)
                          THEN [k EXCEPT !.path.gone = @ \cup ids]
                          ELSE [k EXCEPT !.path.lost = @ \cup ids]
  BY DEF Give
<1>3. ids \subseteq Int
  BY DenotesIds
<1> HIDE DEF k, ids
<1>4. /\ k.path \in Paths
      /\ k = [path |-> k.path, misused |-> k.misused] /\ k.misused \subseteq Ways
  BY <1>1 DEF Meanings
<1>5. /\ k.path = [gone |-> k.path.gone, lost |-> k.path.lost, due |-> k.path.due]
      /\ k.path.gone \subseteq Int /\ k.path.lost \subseteq Int /\ k.path.due \subseteq Int
  BY <1>4 DEF Paths
<1>10. k \in Meanings
  BY <1>1
<1>6. [k EXCEPT !.path.gone = @ \cup ids] =
        [path |-> [gone |-> k.path.gone \cup ids, lost |-> k.path.lost, due |-> k.path.due],
         misused |-> k.misused]
  BY <1>10, WithPath
<1>7. [k EXCEPT !.path.lost = @ \cup ids] =
        [path |-> [gone |-> k.path.gone, lost |-> k.path.lost \cup ids, due |-> k.path.due],
         misused |-> k.misused]
  BY <1>10, WithPath
<1>8. CASE at = "moved" /\ ~Hidden(v, n)
  <2>1. Give(v, m, n, at) \in Meanings
    <3> DEFINE gone == k.path.gone \cup ids
    <3>1. gone \subseteq Int
      BY <1>3, <1>5
    <3>2. Give(v, m, n, at) =
            [path |-> [gone |-> gone, lost |-> k.path.lost, due |-> k.path.due],
             misused |-> k.misused]
      BY <1>2, <1>6, <1>8
    <3> HIDE DEF gone
    <3> QED
      BY <1>4, <1>5, <3>1, <3>2 DEF Meanings, Paths
  <2> QED
    BY <1>1, <1>2, <1>6, <1>8, <2>1 DEF ids
<1>9. CASE ~(at = "moved" /\ ~Hidden(v, n))
  <2>1. Give(v, m, n, at) \in Meanings
    <3> DEFINE lost == k.path.lost \cup ids
    <3>1. lost \subseteq Int
      BY <1>3, <1>5
    <3>2. Give(v, m, n, at) =
            [path |-> [gone |-> k.path.gone, lost |-> lost, due |-> k.path.due],
             misused |-> k.misused]
      BY <1>2, <1>7, <1>9
    <3> HIDE DEF lost
    <3> QED
      BY <1>4, <1>5, <3>1, <3>2 DEF Meanings, Paths
  <2> QED
    BY <1>1, <1>2, <1>7, <1>9, <2>1
<1> QED
  BY <1>8, <1>9

LEMMA MeanArgIs ==
  ASSUME NEW v, NEW m, NEW e, NEW i
  PROVE  \/ MeanArg(v, m, e, i) = Give(v, m, e.args[i].name, ArgAt(e, i))
         \/ /\ MeanArg(v, m, e, i) = Use(v, m, e.args[i].name, ArgAt(e, i))
            /\ e.args[i].mode # "move"
BY DEF MeanArg

LEMMA ArgAtIs ==
  ASSUME NEW e, NEW i
  PROVE  /\ ArgAt(e, i) \in Places
         /\ ArgAt(e, i) =
              IF e.pipe # NoName \/ e.fn \notin DOMAIN Sigs THEN "inferred"
              ELSE IF e.args[i].mode = "move" /\ e.args[i].whole /\ i <= Len(Sigs[e.fn])
                   THEN "moved" ELSE "argument"
<1>1. CASE e.pipe # NoName \/ e.fn \notin DOMAIN Sigs
  BY <1>1 DEF ArgAt, Places, Visited, Unvisited
<1>2. CASE ~(e.pipe # NoName \/ e.fn \notin DOMAIN Sigs)
  BY <1>2 DEF ArgAt, Places, Visited, Unvisited
<1> QED
  BY <1>1, <1>2

LEMMA MeanArgTypes ==
  ASSUME NEW v, v.env \in Seq(Scope), NEW m \in Meanings, NEW e, NEW i
  PROVE  MeanArg(v, m, e, i) \in Meanings
<1>1. ArgAt(e, i) \in Places
  BY ArgAtIs
<1>2. /\ Give(v, m, e.args[i].name, ArgAt(e, i)) \in Meanings
      /\ Use(v, m, e.args[i].name, ArgAt(e, i)) \in Meanings
  BY <1>1, UseIs, GiveIs
<1> QED
  BY <1>2, MeanArgIs

(* The meanings along the arguments.                                        *)
MeanStart(v, m, e) == MeanBase(v, MeanLeft(v, m, e), e)

MeanRun(g, v, m, e) ==
    g = [i \in 0..Len(e.args) |->
           IF i = 0 THEN MeanStart(v, m, e) ELSE MeanArg(v, g[i - 1], e, i)]

LEMMA MeanLeftIs ==
  ASSUME NEW v, NEW m, NEW e
  PROVE  \/ MeanLeft(v, m, e) = m /\ e.pipe = NoName
         \/ MeanLeft(v, m, e) = Give(v, m, e.pipe, "inferred") /\ e.pipe # NoName
         \/ MeanLeft(v, m, e) = Use(v, m, e.pipe, "inferred") /\ e.pipe # NoName
<1>1. CASE e.pipe = NoName
  BY <1>1 DEF MeanLeft
<1>2. CASE e.pipe # NoName /\ ParamMode(e, 1) = "move"
  BY <1>2 DEF MeanLeft
<1>3. CASE e.pipe # NoName /\ ParamMode(e, 1) # "move"
  BY <1>3 DEF MeanLeft
<1> QED
  BY <1>1, <1>2, <1>3

LEMMA MeanBaseIs ==
  ASSUME NEW v, NEW m, NEW e
  PROVE  MeanBase(v, m, e) = m \/ MeanBase(v, m, e) = Use(v, m, e.base, "callee")
BY DEF MeanBase

LEMMA MeanStartTypes ==
  ASSUME NEW v, v.env \in Seq(Scope), NEW m \in Meanings, NEW e
  PROVE  MeanStart(v, m, e) \in Meanings
<1>1. "inferred" \in Places /\ "callee" \in Places
  BY DEF Places, Visited, Unvisited
<1>2. /\ Give(v, m, e.pipe, "inferred") \in Meanings
      /\ Use(v, m, e.pipe, "inferred") \in Meanings
  BY <1>1, UseIs, GiveIs
<1> DEFINE k == MeanLeft(v, m, e)
<1>3. k \in Meanings
  BY <1>2, MeanLeftIs
<1> HIDE DEF k
<1>4. Use(v, k, e.base, "callee") \in Meanings
  BY <1>1, <1>3, UseIs
<1>5. MeanBase(v, k, e) \in Meanings
  BY <1>3, <1>4, MeanBaseIs
<1> QED
  BY <1>5 DEF MeanStart, k

LEMMA MeanRunIs ==
  ASSUME NEW v, v.env \in Seq(Scope), NEW m \in Meanings, NEW e, Len(e.args) \in Nat
  PROVE  \E g : /\ Mean(v, m, e) = g[Len(e.args)]
                /\ g[0] = MeanStart(v, m, e)
                /\ \A i \in 0..Len(e.args) : g[i] \in Meanings
                /\ \A i \in 1..Len(e.args) : g[i] = MeanArg(v, g[i - 1], e, i)
<1> DEFINE n == Len(e.args)
           start == MeanStart(v, m, e)
           step == [i \in 1..n |-> [d \in Meanings |-> MeanArg(v, d, e, i)]]
<1>1. ASSUME NEW d \in Meanings, NEW i \in 1..n
      PROVE  step[i][d] = MeanArg(v, d, e, i) /\ MeanArg(v, d, e, i) \in Meanings
  BY MeanArgTypes
<1>2. step \in [1..n -> [Meanings -> Meanings]]
  BY <1>1
<1>10. start \in Meanings
  BY MeanStartTypes
<1> HIDE DEF step, start
<1>3. PICK f : f \in [0..n -> Meanings] /\ f[0] = start /\ \A i \in 1..n : f[i] = step[i][f[i - 1]]
  <2>1. CanStep(step, start, n, Meanings)
    BY <1>2, <1>10 DEF CanStep
  <2> QED
    BY <2>1, Iterates DEF Taken
<1>11. f = [i \in 0..n |-> f[i]] /\ \A i \in 0..n : f[i] \in Meanings
  BY <1>3
<1>4. ASSUME NEW i \in 1..n PROVE f[i] = MeanArg(v, f[i - 1], e, i)
  <2>1. i - 1 \in 0..n
    OBVIOUS
  <2>2. f[i - 1] \in Meanings
    BY <1>11, <2>1
  <2> QED
    BY <1>1, <1>3, <2>2
<1>5. ASSUME NEW i \in 0..n
      PROVE  f[i] = IF i = 0 THEN start ELSE MeanArg(v, f[i - 1], e, i)
  <2>1. i = 0 \/ i \in 1..n
    OBVIOUS
  <2> QED
    BY <1>3, <1>4, <2>1
<1>6. MeanRun(f, v, m, e)
  BY <1>5, <1>11 DEF MeanRun, start
<1>7. Mean(v, m, e) = (CHOOSE g : MeanRun(g, v, m, e))[n]
  BY DEF Mean, MeanRun, MeanStart
<1>8. PICK h : h = CHOOSE g : MeanRun(g, v, m, e)
  OBVIOUS
<1>9. MeanRun(h, v, m, e)
  BY <1>6, <1>8, Zenon
<1>12. /\ h[0] = start /\ \A i \in 1..n : h[i] = MeanArg(v, h[i - 1], e, i)
  BY <1>9 DEF MeanRun, start
<1> DEFINE S == {i \in 0..n : h[i] \in Meanings}
<1>13. 0 \in S
  BY <1>10, <1>12
<1>14. ASSUME NEW i \in 1..n, i - 1 \in S PROVE i \in S
  BY <1>12, <1>14, MeanArgTypes
<1>15. \A i \in 0..n : i \in S
  <2> HIDE DEF S
  <2> QED
    BY <1>13, <1>14, Walk
<1> QED
  BY <1>7, <1>8, <1>12, <1>15 DEF start

LEMMA MeanTypes ==
  ASSUME NEW v, v.env \in Seq(Scope), NEW m \in Meanings, NEW e \in Exprs
  PROVE  Mean(v, m, e) \in Meanings
<1>1. Len(e.args) \in Nat
  BY ExprIs
<1> QED
  BY <1>1, MeanRunIs

-----------------------------------------------------------------------------
(* An expression that is accepted uses nothing the checker saw go.          *)

Below(S, b) == \A id \in S : id \in Int /\ id < b

IdsBelow(fs, b) == \A i \in DOMAIN fs : \A n \in DOMAIN fs[i] : fs[i][n].id < b

(* No binding is in two places.                                             *)
Separate(fs) ==
    \A i, j \in DOMAIN fs : \A n \in DOMAIN fs[i], k \in DOMAIN fs[j] :
        fs[i][n].id = fs[j][k].id => i = j /\ n = k

(* What has gone is marked.                                                 *)
Known(fs, S) == \A i \in DOMAIN fs : \A n \in DOMAIN fs[i] : fs[i][n].id \in S => fs[i][n].moved

Marked(fs, S, b) == Known(fs, S) /\ Below(S, b)

(* A name means the same to the checker, but where it is hidden.            *)
Agree(v) == \A n : Hidden(v, n) \/ Found(v.frames, n) = Denotes(v.env, n)

Sound(v, c, m, b) ==
    /\ Agree(v)
    /\ SameShape(v.frames, c.frames)
    /\ Separate(c.frames) /\ IdsBelow(c.frames, b)
    /\ Marked(c.frames, m.path.gone, b)
    /\ c.errors = {} => "followed" \notin m.misused

LEMMA MarkedSame ==
  ASSUME NEW fs \in Seq(Frame), NEW gs \in Seq(Frame), SameShape(fs, gs), NEW S, NEW b,
         Marked(fs, S, b)
  PROVE  Marked(gs, S, b)
<1> SUFFICES ASSUME NEW i \in DOMAIN gs, NEW n \in DOMAIN gs[i], gs[i][n].id \in S
             PROVE  gs[i][n].moved
  BY DEF Marked, Known
<1>1. i \in DOMAIN fs
  BY DEF SameShape
<1>2. n \in DOMAIN fs[i] /\ fs[i][n].id = gs[i][n].id /\ (fs[i][n].moved => gs[i][n].moved)
  BY <1>1 DEF SameShape
<1> QED
  BY <1>1, <1>2 DEF Marked, Known

LEMMA IdsSame ==
  ASSUME NEW fs \in Seq(Frame), NEW gs \in Seq(Frame), SameShape(fs, gs), NEW b,
         Separate(fs), IdsBelow(fs, b)
  PROVE  Separate(gs) /\ IdsBelow(gs, b)
<1>1. ASSUME NEW i \in DOMAIN gs, NEW n \in DOMAIN gs[i]
      PROVE  i \in DOMAIN fs /\ n \in DOMAIN fs[i] /\ fs[i][n].id = gs[i][n].id
  <2>1. i \in DOMAIN fs
    BY DEF SameShape
  <2> QED
    BY <2>1 DEF SameShape
<1>2. IdsBelow(gs, b)
  BY <1>1 DEF IdsBelow
<1>3. Separate(gs)
  <2> SUFFICES ASSUME NEW i \in DOMAIN gs, NEW j \in DOMAIN gs, NEW n \in DOMAIN gs[i],
                      NEW k \in DOMAIN gs[j], gs[i][n].id = gs[j][k].id
               PROVE  i = j /\ n = k
    BY DEF Separate
  <2>1. /\ i \in DOMAIN fs /\ n \in DOMAIN fs[i] /\ fs[i][n].id = gs[i][n].id
        /\ j \in DOMAIN fs /\ k \in DOMAIN fs[j] /\ fs[j][k].id = gs[j][k].id
    BY <1>1
  <2> QED
    BY <2>1 DEF Separate
<1> QED
  BY <1>2, <1>3

LEMMA ShapeFurther ==
  ASSUME NEW fs \in Seq(Frame), NEW gs \in Seq(Frame), NEW hs \in Seq(Frame),
         SameShape(fs, gs), SameShape(gs, hs)
  PROVE  SameShape(fs, hs)
<1>1. Len(gs) = Len(fs) /\ Len(hs) = Len(fs) /\ DOMAIN gs = DOMAIN fs
  BY DEF SameShape
<1>2. ASSUME NEW i \in DOMAIN fs
      PROVE  /\ DOMAIN hs[i] = DOMAIN fs[i]
             /\ \A n \in DOMAIN fs[i] :
                   hs[i][n].id = fs[i][n].id /\ (fs[i][n].moved => hs[i][n].moved)
  <2>1. /\ DOMAIN gs[i] = DOMAIN fs[i]
        /\ \A n \in DOMAIN fs[i] :
              gs[i][n].id = fs[i][n].id /\ (fs[i][n].moved => gs[i][n].moved)
    BY DEF SameShape
  <2>2. /\ DOMAIN hs[i] = DOMAIN gs[i]
        /\ \A n \in DOMAIN gs[i] :
              hs[i][n].id = gs[i][n].id /\ (gs[i][n].moved => hs[i][n].moved)
    BY <1>1 DEF SameShape
  <2> QED
    BY <2>1, <2>2
<1> QED
  BY <1>1, <1>2 DEF SameShape

(* Checking on keeps what is sound.                                         *)
LEMMA SoundGrows ==
  ASSUME NEW v, v.frames \in Seq(Frame), NEW c \in Checker, NEW d, NEW m, NEW b,
         Sound(v, c, m, b), Grows(c, d)
  PROVE  Sound(v, d, m, b)
<1>1. c.frames \in Seq(Frame) /\ d.frames \in Seq(Frame) /\ SameShape(c.frames, d.frames)
  BY DEF Grows, Checker
<1>2. /\ Agree(v) /\ SameShape(v.frames, c.frames)
      /\ Separate(c.frames) /\ IdsBelow(c.frames, b) /\ Marked(c.frames, m.path.gone, b)
      /\ c.errors = {} => "followed" \notin m.misused
  BY DEF Sound
<1>3. SameShape(v.frames, d.frames)
  BY <1>1, <1>2, ShapeFurther
<1>4. Separate(d.frames) /\ IdsBelow(d.frames, b)
  BY <1>1, <1>2, IdsSame
<1>5. Marked(d.frames, m.path.gone, b)
  BY <1>1, <1>2, MarkedSame
<1>6. d.errors = {} => "followed" \notin m.misused
  BY <1>2 DEF Grows
<1> QED
  BY <1>2, <1>3, <1>4, <1>5, <1>6 DEF Sound

(* A name that is not hidden is what the checker finds.                     *)
LEMMA FoundIs ==
  ASSUME NEW v, v.frames \in Seq(Frame), NEW c \in Checker, NEW m, NEW b,
         Sound(v, c, m, b), NEW n, ~Hidden(v, n), NEW id \in Denotes(v.env, n)
  PROVE  /\ Bound(c.frames, n)
         /\ FrameOf(c.frames, n) \in DOMAIN c.frames
         /\ n \in DOMAIN c.frames[FrameOf(c.frames, n)]
         /\ c.frames[FrameOf(c.frames, n)][n].id = id
<1> DEFINE fs == v.frames  gs == c.frames  k == FrameOf(gs, n)
<1>1. fs \in Seq(Frame) /\ gs \in Seq(Frame) /\ SameShape(fs, gs)
  BY DEF Checker, Sound
<1>2. Found(fs, n) = Denotes(v.env, n)
  BY DEF Sound, Agree
<1>3. Bound(fs, n) /\ Lookup(fs, n).id = id
  BY <1>2 DEF Found
<1>4. DOMAIN gs = DOMAIN fs /\ \A i \in DOMAIN fs : n \in DOMAIN gs[i] <=> n \in DOMAIN fs[i]
  BY <1>1 DEF SameShape
<1> HIDE DEF fs, gs
<1>5. FrameOf(gs, n) = FrameOf(fs, n) /\ Bound(gs, n)
  BY <1>3, <1>4, FrameOfSame
<1>6. FrameOf(fs, n) \in DOMAIN fs /\ n \in DOMAIN fs[FrameOf(fs, n)]
  BY <1>1, <1>3, FrameOfIs
<1>7. gs[FrameOf(fs, n)][n].id = fs[FrameOf(fs, n)][n].id
  BY <1>1, <1>6 DEF SameShape
<1>8. fs[FrameOf(fs, n)][n].id = id
  BY <1>3 DEF Lookup
<1> QED
  BY <1>4, <1>5, <1>6, <1>7, <1>8 DEF gs

(* No use of what is gone is accepted where the checker follows it.         *)
LEMMA UnmarkedIsThere ==
  ASSUME NEW v, v.frames \in Seq(Frame), NEW c \in Checker, NEW m, NEW b,
         Sound(v, c, m, b), NEW n, NEW at \in Places,
         at \in Visited /\ ~(at = "inferred" /\ n \in Enums) => ~IsMoved(c, n)
  PROVE  ~Followed(v, m, n, at)
<1> SUFFICES ASSUME Followed(v, m, n, at) PROVE FALSE
  OBVIOUS
<1>1. at \in Visited /\ ~Hidden(v, n) /\ ~(at = "inferred" /\ n \in Enums)
  BY WayIs DEF Followed
<1>2. PICK id \in Denotes(v.env, n) : id \in m.path.gone
  BY DEF Followed
<1>3. /\ Bound(c.frames, n)
      /\ FrameOf(c.frames, n) \in DOMAIN c.frames
      /\ n \in DOMAIN c.frames[FrameOf(c.frames, n)]
      /\ c.frames[FrameOf(c.frames, n)][n].id = id
  BY <1>1, FoundIs
<1>4. Lookup(c.frames, n).moved
  BY <1>2, <1>3 DEF Sound, Marked, Known, Lookup
<1> QED
  BY <1>1, <1>3, <1>4 DEF IsMoved

LEMMA UseSound ==
  ASSUME NEW v, v.frames \in Seq(Frame), v.env \in Seq(Scope),
         NEW c \in Checker, NEW m \in Meanings, NEW b, Sound(v, c, m, b),
         NEW n, NEW at \in Places, NEW d, Grows(c, d),
         d.errors = {} /\ at \in Visited /\ ~(at = "inferred" /\ n \in Enums) => ~IsMoved(c, n)
  PROVE  Sound(v, d, Use(v, m, n, at), b)
<1>1. Sound(v, d, m, b)
  BY SoundGrows
<1>2. /\ Use(v, m, n, at).path = m.path
      /\ "followed" \in Use(v, m, n, at).misused =>
           "followed" \in m.misused \/ Followed(v, m, n, at)
  BY UseIs
<1>3. ASSUME d.errors = {} PROVE "followed" \notin Use(v, m, n, at).misused
  <2>1. ~Followed(v, m, n, at)
    BY <1>3, UnmarkedIsThere
  <2>2. "followed" \notin m.misused
    BY <1>1, <1>3 DEF Sound
  <2> QED
    BY <1>2, <2>1, <2>2
<1> QED
  BY <1>1, <1>2, <1>3 DEF Sound

LEMMA GiveSound ==
  ASSUME NEW v, v.frames \in Seq(Frame), v.env \in Seq(Scope),
         NEW c \in Checker, NEW m \in Meanings, NEW b, Sound(v, c, m, b),
         NEW n, NEW at \in Places, NEW d, Grows(c, d),
         d.errors = {} /\ at \in Visited /\ ~(at = "inferred" /\ n \in Enums) => ~IsMoved(c, n),
         at = "moved" /\ Bound(c.frames, n) => d.frames[FrameOf(c.frames, n)][n].moved
  PROVE  Sound(v, d, Give(v, m, n, at), b)
<1> DEFINE k == Give(v, m, n, at)  ids == Denotes(v.env, n)
<1>1. Sound(v, d, m, b)
  BY SoundGrows
<1>2. /\ k.path.gone = IF at = "moved" /\ ~Hidden(v, n) THEN m.path.gone \cup ids
                       ELSE m.path.gone
      /\ "followed" \in k.misused => "followed" \in m.misused \/ Followed(v, m, n, at)
  BY GiveIs
<1>3. ASSUME d.errors = {} PROVE "followed" \notin k.misused
  <2>1. ~Followed(v, m, n, at)
    BY <1>3, UnmarkedIsThere
  <2>2. "followed" \notin m.misused
    BY <1>1, <1>3 DEF Sound
  <2> QED
    BY <1>2, <2>1, <2>2
<1>4. Marked(d.frames, k.path.gone, b)
  <2>1. CASE ~(at = "moved" /\ ~Hidden(v, n))
    BY <1>1, <1>2, <2>1 DEF Sound
  <2>2. CASE at = "moved" /\ ~Hidden(v, n)
    <3>1. ASSUME NEW id \in ids
          PROVE  /\ id \in Int /\ id < b
                 /\ \A i \in DOMAIN d.frames : \A x \in DOMAIN d.frames[i] :
                       d.frames[i][x].id = id => d.frames[i][x].moved
      <4> DEFINE f == FrameOf(c.frames, n)
      <4>1. /\ Bound(c.frames, n) /\ f \in DOMAIN c.frames
            /\ n \in DOMAIN c.frames[f] /\ c.frames[f][n].id = id
        BY <2>2, <3>1, FoundIs
      <4>2. d.frames[f][n].moved
        BY <2>2, <4>1
      <4>3. c.frames \in Seq(Frame) /\ d.frames \in Seq(Frame) /\ SameShape(c.frames, d.frames)
        BY DEF Grows, Checker
      <4>4. f \in DOMAIN d.frames /\ n \in DOMAIN d.frames[f] /\ d.frames[f][n].id = id
        BY <4>1, <4>3 DEF SameShape
      <4> HIDE DEF f
      <4>5. id < b /\ id \in Int
        BY <3>1, <4>1, DenotesIds DEF Sound, IdsBelow
      <4>6. ASSUME NEW i \in DOMAIN d.frames, NEW x \in DOMAIN d.frames[i],
                   d.frames[i][x].id = id
            PROVE  d.frames[i][x].moved
        <5>1. i = f /\ x = n
          BY <1>1, <4>4, <4>6 DEF Sound, Separate
        <5> QED
          BY <4>2, <5>1
      <4> QED
        BY <4>5, <4>6
    <3>2. k.path.gone = m.path.gone \cup ids
      BY <1>2, <2>2
    <3>3. Known(d.frames, m.path.gone) /\ Below(m.path.gone, b)
      BY <1>1 DEF Sound, Marked
    <3> HIDE DEF ids, k
    <3> QED
      BY <3>1, <3>2, <3>3 DEF Marked, Known, Below
  <2> QED
    BY <2>1, <2>2
<1> QED
  BY <1>1, <1>3, <1>4 DEF Sound

LEMMA ArgIs ==
  ASSUME NEW e \in Exprs, NEW i \in 1..Len(e.args)
  PROVE  i \in DOMAIN e.args /\ e.args[i].whole \in BOOLEAN
<1>1. e.args \in Seq(Arg)
  BY ExprIs
<1>2. i \in DOMAIN e.args /\ e.args[i] \in Arg
  <2> HIDE DEF Arg
  <2> QED
    BY <1>1
<1> QED
  BY <1>2 DEF Arg

(* One argument: d is what the checker makes of it.                         *)
LEMMA MeanArgSound ==
  ASSUME NEW v, v.frames \in Seq(Frame), v.env \in Seq(Scope),
         NEW c \in Checker, NEW m \in Meanings, NEW b, Sound(v, c, m, b),
         NEW e \in Exprs, NEW i \in 1..Len(e.args), NEW d, Grows(c, d),
         LET n == e.args[i].name IN
           /\ d.errors = {} /\ ArgAt(e, i) \in Visited
                            /\ ~(ArgAt(e, i) = "inferred" /\ n \in Enums) => ~IsMoved(c, n)
           /\ ArgAt(e, i) = "moved" /\ Bound(c.frames, n) =>
                d.frames[FrameOf(c.frames, n)][n].moved
  PROVE  Sound(v, d, MeanArg(v, m, e, i), b)
<1> DEFINE n == e.args[i].name  at == ArgAt(e, i)
<1>1. at \in Places
  BY ArgAtIs
<1>2. d.errors = {} /\ at \in Visited /\ ~(at = "inferred" /\ n \in Enums) => ~IsMoved(c, n)
  OBVIOUS
<1>3. at = "moved" /\ Bound(c.frames, n) => d.frames[FrameOf(c.frames, n)][n].moved
  OBVIOUS
<1>4. MeanArg(v, m, e, i) \in {Give(v, m, n, at), Use(v, m, n, at)}
  BY MeanArgIs
<1> HIDE DEF n, at
<1>5. Sound(v, d, Use(v, m, n, at), b)
  BY <1>1, <1>2, UseSound
<1>6. Sound(v, d, Give(v, m, n, at), b)
  BY <1>1, <1>2, <1>3, GiveSound
<1> QED
  BY <1>4, <1>5, <1>6

(* Arguments that are inferred.                                             *)
LEMMA PlainArgsSound ==
  ASSUME NEW v, v.frames \in Seq(Frame), v.env \in Seq(Scope), NEW b,
         NEW c \in Checker, NEW e \in Exprs, e.pipe # NoName \/ e.fn \notin DOMAIN Sigs,
         NEW g, \A i \in 0..Len(e.args) : g[i] \in Meanings,
         \A i \in 1..Len(e.args) : g[i] = MeanArg(v, g[i - 1], e, i),
         Sound(v, c, g[0], b)
  PROVE  Sound(v, InferArgs(c, e.args), g[Len(e.args)], b)
<1> DEFINE n == Len(e.args)
<1>0. n \in Nat
  BY ExprIs
<1>1. PICK f : ArgsRun(f, c, e.args) /\ InferArgs(c, e.args) = f[n]
  BY <1>0, ArgsRunIs
<1>2. /\ f[0] = c
      /\ \A i \in 0..n : Grows(c, f[i])
      /\ \A i \in 1..n : f[i] = InferIdent(f[i - 1], e.args[i].name)
  BY <1>0, <1>1, ArgsRunGrows
<1> DEFINE S == {i \in 0..n : Sound(v, f[i], g[i], b)}
<1>3. 0 \in S
  BY <1>0, <1>2
<1>4. ASSUME NEW i \in 1..n, i - 1 \in S PROVE i \in S
  <2> DEFINE x == e.args[i].name  d == f[i - 1]  m == g[i - 1]
  <2>1. i - 1 \in 0..n
    BY <1>0
  <2>2. d \in Checker /\ m \in Meanings
    BY <1>2, <2>1 DEF Grows
  <2>3. f[i] = InferIdent(d, x) /\ g[i] = MeanArg(v, m, e, i)
    BY <1>2
  <2>4. Sound(v, d, m, b)
    BY <1>4
  <2>5. ArgAt(e, i) = "inferred"
    BY ArgAtIs
  <2> HIDE DEF d, m, S
  <2>6. /\ Grows(d, f[i])
        /\ f[i].errors = {} => (x \notin Enums => ~IsMoved(d, x))
    BY <2>2, <2>3, InferIdentGrows
  <2>7. Sound(v, f[i], MeanArg(v, m, e, i), b)
    BY <2>2, <2>4, <2>5, <2>6, MeanArgSound
  <2> QED
    BY <2>3, <2>7 DEF S
<1>5. \A i \in 0..n : i \in S
  <2> HIDE DEF S
  <2> QED
    BY <1>0, <1>3, <1>4, Walk
<1> QED
  BY <1>0, <1>1, <1>5

(* The call of a known function; what is beyond its parameters is not       *)
(* looked at.                                                               *)
LEMMA CallSound ==
  ASSUME NEW v, v.frames \in Seq(Frame), v.env \in Seq(Scope), NEW b,
         NEW c \in Checker, NEW e \in Exprs, e.pipe = NoName, e.fn \in DOMAIN Sigs,
         NEW g, \A i \in 0..Len(e.args) : g[i] \in Meanings,
         \A i \in 1..Len(e.args) : g[i] = MeanArg(v, g[i - 1], e, i),
         Sound(v, c, g[0], b)
  PROVE  Sound(v, InferCall(c, e), g[Len(e.args)], b)
<1> DEFINE n == Len(e.args)  l == Compared(e)
           h == [i \in 0..n |-> IF i <= l THEN i ELSE l]
<1>0. n \in Nat /\ Len(Sigs[e.fn]) \in Nat
  BY ExprIs
<1>1. l \in 0..n /\ \A i \in 1..n : i <= l <=> i <= Len(Sigs[e.fn])
  BY <1>0 DEF Compared
<1>2. PICK f : CallRun(f, c, e) /\ InferCall(c, e) = f[l]
  BY <1>0, CallRunIs
<1>3. /\ \A i \in 0..l : Grows(c, f[i])
      /\ \A i \in 1..l : f[i] = CheckArg(f[i - 1], e.args[i], Sigs[e.fn][i])
  BY <1>0, <1>2, CallRunGrows
<1> HIDE DEF l
<1>4. h[0] = 0 /\ h[n] = l
  BY <1>0, <1>1
<1>5. ASSUME NEW i \in 1..n
      PROVE  /\ h[i - 1] \in 0..l
             /\ i <= l => h[i] = i /\ h[i - 1] = i - 1 /\ i \in 1..l
             /\ ~(i <= l) => h[i] = h[i - 1]
  <2>1. i - 1 \in 0..n /\ i \in 0..n
    BY <1>0
  <2> QED
    BY <1>0, <1>1, <2>1
<1> HIDE DEF h
<1> DEFINE S == {i \in 0..n : Sound(v, f[h[i]], g[i], b)}
<1>6. 0 \in S
  <2>1. Grows(c, f[0])
    BY <1>1, <1>3
  <2>2. Sound(v, f[0], g[0], b)
    BY <2>1, SoundGrows
  <2> QED
    BY <1>0, <1>4, <2>2
<1>7. ASSUME NEW i \in 1..n, i - 1 \in S PROVE i \in S
  <2> DEFINE a == e.args[i]  d == f[h[i - 1]]  m == g[i - 1]
  <2>1. i - 1 \in 0..n
    BY <1>0
  <2>2. d \in Checker /\ m \in Meanings
    BY <1>3, <1>5, <2>1 DEF Grows
  <2>3. g[i] = MeanArg(v, m, e, i)
    OBVIOUS
  <2>4. Sound(v, d, m, b)
    BY <1>7
  <2>5. ArgAt(e, i) = IF a.mode = "move" /\ a.whole /\ i <= Len(Sigs[e.fn])
                      THEN "moved" ELSE "argument"
    BY ArgAtIs
  <2> HIDE DEF d, m, S
  <2>6. CASE i <= l
    <3>1. f[h[i]] = CheckArg(d, a, Sigs[e.fn][i])
      BY <1>3, <1>5, <2>6 DEF d
    <3> DEFINE k == f[h[i]]
    <3>2. Grows(d, k)
      BY <2>2, <3>1, CheckArgGrows
    <3>3. /\ k.errors = {} /\ ArgAt(e, i) \in Visited => ~IsMoved(d, a.name)
          /\ ArgAt(e, i) = "moved" /\ Bound(d.frames, a.name) =>
               k.frames[FrameOf(d.frames, a.name)][a.name].moved
      <4>1. CASE a.mode = "move" /\ a.whole
        BY <2>2, <3>1, <4>1, CheckArgGrows
      <4>2. CASE ~(a.mode = "move" /\ a.whole)
        BY <2>5, <4>2 DEF Visited
      <4> QED
        BY <4>1, <4>2
    <3> HIDE DEF k
    <3>4. Sound(v, k, MeanArg(v, m, e, i), b)
      BY <2>2, <2>4, <3>2, <3>3, MeanArgSound
    <3> QED
      BY <1>0, <2>3, <3>4 DEF S, k
  <2>7. CASE ~(i <= l)
    <3>1. ArgAt(e, i) = "argument"
      BY <1>1, <2>5, <2>7
    <3>2. f[h[i]] = d /\ Grows(d, d)
      BY <1>5, <2>2, <2>7, GrowsSelf DEF d
    <3>3. ArgAt(e, i) \notin Visited /\ ArgAt(e, i) # "moved"
      BY <3>1 DEF Visited
    <3>4. Sound(v, d, MeanArg(v, m, e, i), b)
      BY <2>2, <2>4, <3>2, <3>3, MeanArgSound
    <3> QED
      BY <1>0, <2>3, <3>2, <3>4 DEF S
  <2> QED
    BY <2>6, <2>7
<1>8. \A i \in 0..n : i \in S
  <2> HIDE DEF S
  <2> QED
    BY <1>0, <1>6, <1>7, Walk
<1> QED
  BY <1>0, <1>2, <1>4, <1>8

(* What stands before the arguments.                                        *)
LEMMA BaseSound ==
  ASSUME NEW v, v.frames \in Seq(Frame), v.env \in Seq(Scope),
         NEW c \in Checker, NEW m \in Meanings, NEW b, Sound(v, c, m, b), NEW e
  PROVE  Sound(v, c, MeanBase(v, m, e), b)
<1>1. "callee" \in Places /\ "callee" \notin Visited
  BY DEF Places, Visited, Unvisited
<1>2. Grows(c, c)
  BY GrowsSelf
<1>3. Sound(v, c, Use(v, m, e.base, "callee"), b)
  BY <1>1, <1>2, UseSound
<1> QED
  BY <1>3, MeanBaseIs

LEMMA LeftSound ==
  ASSUME NEW v, v.frames \in Seq(Frame), v.env \in Seq(Scope),
         NEW c \in Checker, NEW m \in Meanings, NEW b, Sound(v, c, m, b), NEW e, e.pipe # NoName
  PROVE  /\ Sound(v, PipeStart(c, e), MeanLeft(v, m, e), b)
         /\ PipeStart(c, e) \in Checker /\ MeanLeft(v, m, e) \in Meanings
<1> DEFINE d == PipeStart(c, e)
<1>1. "inferred" \in Places
  BY DEF Places, Visited
<1>2. Grows(c, d) /\ (d.errors = {} => (e.pipe \notin Enums => ~IsMoved(c, e.pipe)))
  BY PipeStartGrows
<1>3. d \in Checker
  BY <1>2 DEF Grows
<1> HIDE DEF d
<1>4. /\ Sound(v, d, Use(v, m, e.pipe, "inferred"), b)
      /\ Use(v, m, e.pipe, "inferred") \in Meanings
  BY <1>1, <1>2, UseSound, UseIs
<1>5. /\ Sound(v, d, Give(v, m, e.pipe, "inferred"), b)
      /\ Give(v, m, e.pipe, "inferred") \in Meanings
  BY <1>1, <1>2, GiveSound, GiveIs
<1> QED
  BY <1>3, <1>4, <1>5, MeanLeftIs DEF d

LEMMA ExprSound ==
  ASSUME NEW v, v.frames \in Seq(Frame), v.env \in Seq(Scope),
         NEW c \in Checker, NEW m \in Meanings, NEW b, Sound(v, c, m, b), NEW e \in Exprs
  PROVE  /\ Sound(v, Infer(c, e), Mean(v, m, e), b)
         /\ Grows(c, Infer(c, e)) /\ Mean(v, m, e) \in Meanings
<1> DEFINE n == Len(e.args)
<1>0. n \in Nat
  BY ExprIs
<1> SUFFICES Sound(v, Infer(c, e), Mean(v, m, e), b)
  BY InferGrows, MeanTypes
<1>1. PICK g : /\ Mean(v, m, e) = g[n]
               /\ g[0] = MeanStart(v, m, e)
               /\ \A i \in 0..n : g[i] \in Meanings
               /\ \A i \in 1..n : g[i] = MeanArg(v, g[i - 1], e, i)
  BY <1>0, MeanRunIs
<1>2. CASE e.pipe # NoName
  <2> DEFINE d == PipeStart(c, e)  k == MeanLeft(v, m, e)
  <2>1. Infer(c, e) = InferArgs(d, e.args)
    BY <1>2, InferPipeIs DEF Infer
  <2>2. Sound(v, d, k, b) /\ d \in Checker /\ k \in Meanings
    BY <1>2, LeftSound
  <2>3. g[0] = MeanBase(v, k, e)
    BY <1>1 DEF MeanStart
  <2> HIDE DEF d, k
  <2>4. Sound(v, d, g[0], b)
    BY <2>2, <2>3, BaseSound
  <2>5. Sound(v, InferArgs(d, e.args), g[n], b)
    BY <1>1, <1>2, <2>2, <2>4, PlainArgsSound
  <2> QED
    BY <1>1, <2>1, <2>5
<1>3. CASE e.pipe = NoName
  <2>1. MeanLeft(v, m, e) = m
    BY <1>3 DEF MeanLeft
  <2>2. g[0] = MeanBase(v, m, e)
    BY <1>1, <2>1 DEF MeanStart
  <2>3. Sound(v, c, g[0], b)
    BY <2>2, BaseSound
  <2>4. CASE e.fn \in DOMAIN Sigs
    <3>1. Infer(c, e) = InferCall(c, e)
      BY <1>3, <2>4 DEF Infer
    <3> QED
      BY <1>1, <1>3, <2>3, <2>4, <3>1, CallSound
  <2>5. CASE e.fn \notin DOMAIN Sigs
    <3>1. Infer(c, e) = InferArgs(c, e.args)
      BY <1>3, <2>5 DEF Infer
    <3> QED
      BY <1>1, <2>3, <2>5, <3>1, PlainArgsSound
  <2> QED
    BY <2>4, <2>5
<1> QED
  BY <1>2, <1>3
-----------------------------------------------------------------------------
(* The types and the scopes.                                                *)

OpenType == [kind : BlockKinds, outer : Int, before : Paths]

(* A function is not nested in anything.                                    *)
FnsOutside == \A i \in DOMAIN open : open[i].kind = "fn" => i = 1

TInv ==
    /\ FnsOutside
    /\ zone \in {"def", "alg"}
    /\ open \in Seq(OpenType)
    /\ frames \in Seq(Frame) /\ Len(frames) = Len(open) + 1
    /\ env \in Seq(Scope) /\ Len(env) = Len(open) + 1
    /\ zone = "def" => frames[1] = NoBindings
    /\ errors \subseteq ErrorKinds
    /\ last \subseteq Exprs
    /\ nextId \in Nat
    /\ path \in Paths /\ misused \subseteq Ways /\ leftover \subseteq Int

LEMMA FrontIs ==
  ASSUME NEW V, NEW s \in Seq(V), s # <<>>
  PROVE  /\ Front(s) \in Seq(V) /\ Len(Front(s)) = Len(s) - 1
         /\ \A i \in 1..(Len(s) - 1) : i \in DOMAIN s /\ Front(s)[i] = s[i]
         /\ Last(s) \in V /\ Last(s) = s[Len(s)] /\ Len(s) \in DOMAIN s
<1>1. Len(s) \in Nat /\ Len(s) > 0 /\ DOMAIN s = 1..Len(s)
  OBVIOUS
<1>2. Front(s) = SubSeq(s, 1, Len(s) - 1)
  BY DEF Front
<1>3. SubSeq(s, 1, Len(s) - 1) \in Seq(V)
  BY <1>1
<1>4. Len(SubSeq(s, 1, Len(s) - 1)) = Len(s) - 1
  BY <1>1
<1>5. \A i \in 1..(Len(s) - 1) : SubSeq(s, 1, Len(s) - 1)[i] = s[i]
  BY <1>1
<1>6. Last(s) \in V /\ Last(s) = s[Len(s)] /\ Len(s) \in DOMAIN s
  BY <1>1 DEF Last
<1>7. \A i \in 1..(Len(s) - 1) : i \in DOMAIN s
  BY <1>1
<1> QED
  BY <1>2, <1>3, <1>4, <1>5, <1>6, <1>7

LEMMA AppendIs ==
  ASSUME NEW V, NEW s \in Seq(V), NEW x \in V
  PROVE  /\ Append(s, x) \in Seq(V) /\ Len(Append(s, x)) = Len(s) + 1
         /\ \A i \in DOMAIN s : Append(s, x)[i] = s[i]
         /\ Append(s, x)[Len(s) + 1] = x
OBVIOUS

LEMMA DefineIs ==
  ASSUME NEW V, NEW fs \in Seq(Maps(V)), fs # <<>>, NEW n \in AllNames, NEW b \in V
  PROVE  /\ Define(fs, n, b) \in Seq(Maps(V)) /\ Len(Define(fs, n, b)) = Len(fs)
         /\ \A i \in DOMAIN fs : i # Len(fs) => Define(fs, n, b)[i] = fs[i]
         /\ Len(fs) \in DOMAIN fs
         /\ DOMAIN Define(fs, n, b)[Len(fs)] = {n} \cup DOMAIN fs[Len(fs)]
         /\ Define(fs, n, b)[Len(fs)][n] = b
         /\ \A k \in DOMAIN fs[Len(fs)] : k # n => Define(fs, n, b)[Len(fs)][k] = fs[Len(fs)][k]
<1> DEFINE l == Len(fs)
           f == fs[l]
           g == [k \in {n} \cup DOMAIN f |-> IF k = n THEN b ELSE f[k]]
<1>1. l \in DOMAIN fs
  BY DEF Maps
<1>2. f \in Maps(V)
  BY <1>1 DEF Maps
<1>3. DOMAIN f \subseteq AllNames /\ \A k \in DOMAIN f : f[k] \in V
  BY <1>2, MapsAre
<1> HIDE DEF f
<1>4. /\ DOMAIN g = {n} \cup DOMAIN f /\ g[n] = b
      /\ \A k \in DOMAIN f : k # n => g[k] = f[k]
  OBVIOUS
<1>5. g = [k \in DOMAIN g |-> g[k]]
  OBVIOUS
<1>6. Define(fs, n, b) = [fs EXCEPT ![l] = g]
  BY DEF Define, f
<1> HIDE DEF g
<1>7. g \in Maps(V)
  BY <1>3, <1>4, <1>5, MapsIntro
<1>8. [fs EXCEPT ![l] = g] \in Seq(Maps(V)) /\ Len([fs EXCEPT ![l] = g]) = l
  <2> DEFINE W == Maps(V)
  <2>1. fs \in Seq(W) /\ g \in W
    BY <1>7
  <2> HIDE DEF W
  <2>2. [fs EXCEPT ![l] = g] \in Seq(W) /\ Len([fs EXCEPT ![l] = g]) = l
    BY <1>1, <2>1
  <2> QED
    BY <2>2 DEF W
<1>9. [fs EXCEPT ![l] = g][l] = g /\ \A i \in DOMAIN fs : i # l => [fs EXCEPT ![l] = g][i] = fs[i]
  BY <1>1
<1> QED
  BY <1>1, <1>4, <1>6, <1>8, <1>9 DEF f

LEMMA NoBindingsIs ==
  NoBindings \in Frame /\ NoBindings \in Scope /\ DOMAIN NoBindings = {}
<1>1. NoBindings = [n \in DOMAIN NoBindings |-> NoBindings[n]] /\ DOMAIN NoBindings = {}
  BY DEF NoBindings
<1> QED
  BY <1>1, MapsIntro DEF Frame, Scope

(* Checking an expression binds nothing in the outermost scope.             *)
LEMMA StaysEmpty ==
  ASSUME NEW c \in Checker, NEW d, Grows(c, d), Len(c.frames) >= 1, c.frames[1] = NoBindings
  PROVE  d.frames[1] = NoBindings
<1>1. c.frames \in Seq(Frame) /\ d.frames \in Seq(Frame) /\ Len(d.frames) = Len(c.frames)
  BY DEF Grows, SameShape, Checker
<1>2. 1 \in DOMAIN c.frames /\ 1 \in DOMAIN d.frames
  BY <1>1
<1>3. DOMAIN d.frames[1] = {}
  BY <1>2, NoBindingsIs DEF Grows, SameShape
<1>4. d.frames[1] = [n \in DOMAIN d.frames[1] |-> d.frames[1][n]]
  BY <1>1, <1>2, FramesAre
<1> QED
  BY <1>3, <1>4 DEF NoBindings

LEMMA BindingIs ==
  ASSUME NEW mode \in Modes, NEW id \in Int
  PROVE  /\ Binding(mode, id) \in BindingType
         /\ Binding(mode, id).id = id /\ ~Binding(mode, id).moved
BY DEF Binding, BindingType

LEMMA ParamOfIs ==
  ASSUME NEW ps \in Params, NEW n \in {ps[i].name : i \in DOMAIN ps}
  PROVE  /\ ParamOf(ps, n) \in 1..Len(ps)
         /\ ps[ParamOf(ps, n)].name = n
         /\ n \in Names /\ ps[ParamOf(ps, n)].mode \in Modes
<1> DEFINE P == [name : Names, mode : Modes]
           T == {i \in DOMAIN ps : ps[i].name = n}
<1>1. ps \in Seq(P)
  BY ParamsAssumption
<1>2. Len(ps) \in Nat /\ DOMAIN ps = 1..Len(ps) /\ \A i \in DOMAIN ps : ps[i] \in P
  <2> HIDE DEF P
  <2> QED
    BY <1>1
<1>3. \E x \in T : \A y \in T : y <= x
  <2>1. T \subseteq 1..Len(ps) /\ T # {}
    BY <1>2
  <2> HIDE DEF T
  <2> QED
    BY <1>2, <2>1, Greatest
<1>4. ParamOf(ps, n) = CHOOSE i \in DOMAIN ps :
                          ps[i].name = n /\ \A j \in DOMAIN ps : ps[j].name = n => j <= i
  BY DEF ParamOf
<1>5. \E i \in DOMAIN ps : ps[i].name = n /\ \A j \in DOMAIN ps : ps[j].name = n => j <= i
  BY <1>3
<1>6. ParamOf(ps, n) \in DOMAIN ps /\ ps[ParamOf(ps, n)].name = n
  BY <1>4, <1>5
<1> QED
  BY <1>2, <1>6

LEMMA InitTypes == Init => TInv
<1> SUFFICES ASSUME Init PROVE TInv
  OBVIOUS
<1>1. <<NoBindings>> \in Seq(Frame) /\ <<NoBindings>> \in Seq(Scope)
  BY NoBindingsIs
<1>2. <<NoBindings>>[1] = NoBindings /\ Len(<<NoBindings>>) = 1
  OBVIOUS
<1>3. open \in Seq(OpenType) /\ Len(open) = 0
  BY DEF Init
<1>4. frames \in Seq(Frame) /\ Len(frames) = 1 /\ frames[1] = NoBindings
  BY <1>1, <1>2 DEF Init
<1>5. env \in Seq(Scope) /\ Len(env) = 1
  BY <1>1, <1>2 DEF Init
<1>6. /\ zone \in {"def", "alg"} /\ errors \subseteq ErrorKinds /\ last \subseteq Exprs
      /\ nextId \in Nat /\ leftover \subseteq Int /\ misused \subseteq Ways
  BY DEF Init
<1>7. path \in Paths
  BY DEF Init, NoPath, Paths
<1>8. FnsOutside
  BY DEF Init, FnsOutside
<1> QED
  BY <1>8, <1>3, <1>4, <1>5, <1>6, <1>7 DEF TInv

(* The state as the arguments of inference.                                 *)
LEMMA NowIs ==
  ASSUME TInv
  PROVE  /\ Now \in Checker /\ Now.frames = frames /\ Now.errors = errors
         /\ Meaning \in Meanings /\ Meaning.path = path /\ Meaning.misused = misused
BY DEF TInv, Now, Meaning, Checker, Meanings

LEMMA ViewIs ==
  ASSUME TInv
  PROVE  /\ View.frames = frames /\ View.frames \in Seq(Frame)
         /\ View.env = env /\ View.env \in Seq(Scope) /\ View.leftover = leftover
BY DEF TInv, View

LEMMA InferNow ==
  ASSUME TInv, NEW e \in Exprs, NEW c, Grows(Now, c)
  PROVE  /\ Grows(Now, Infer(c, e))
         /\ Infer(c, e) \in Checker
<1>1. c \in Checker /\ Now \in Checker
  BY NowIs DEF Grows
<1>2. Grows(c, Infer(c, e))
  BY <1>1, InferGrows
<1> QED
  BY <1>1, <1>2, GrowsFurther DEF Grows

(* What it leaves of the frames.                                            *)
LEMMA InferredFrames ==
  ASSUME TInv, NEW c, Grows(Now, c)
  PROVE  /\ c.frames \in Seq(Frame) /\ Len(c.frames) = Len(frames) /\ c.frames # <<>>
         /\ c.errors \subseteq ErrorKinds /\ errors \subseteq c.errors
         /\ zone = "def" => c.frames[1] = NoBindings
<1>1. Now \in Checker /\ Now.frames = frames /\ Now.errors = errors
  BY NowIs
<1>2. /\ c.frames \in Seq(Frame) /\ Len(c.frames) = Len(frames)
      /\ c.errors \subseteq ErrorKinds /\ errors \subseteq c.errors
  BY <1>1 DEF Grows, Checker, SameShape
<1>3. frames \in Seq(Frame) /\ open \in Seq(OpenType) /\ Len(frames) = Len(open) + 1
  BY DEF TInv
<1>4. Len(frames) >= 1
  <2> HIDE DEF OpenType
  <2> QED
    BY <1>3
<1>5. c.frames # <<>>
  BY <1>2, <1>4
<1>6. zone = "def" => c.frames[1] = NoBindings
  BY <1>1, <1>4, StaysEmpty DEF TInv
<1> QED
  BY <1>2, <1>5, <1>6

LEMMA Sizes ==
  ASSUME TInv
  PROVE  /\ Len(open) \in Nat /\ DOMAIN open = 1..Len(open)
         /\ DOMAIN frames = 1..(Len(open) + 1) /\ DOMAIN env = 1..(Len(open) + 1)
         /\ frames # <<>> /\ env # <<>>
         /\ open # <<>> => Len(open) >= 1
<1>1. /\ open \in Seq(OpenType)
      /\ frames \in Seq(Frame) /\ Len(frames) = Len(open) + 1
      /\ env \in Seq(Scope) /\ Len(env) = Len(open) + 1
  BY DEF TInv
<1> HIDE DEF OpenType, Frame, Scope
<1> QED
  BY <1>1

(* A statement leaves the number of scopes alone.                           *)
LEMMA StmtTypes ==
  ASSUME TInv, AtStmt, UNCHANGED open,
         frames' \in Seq(Frame), Len(frames') = Len(frames),
         zone = "def" => frames'[1] = NoBindings,
         env' \in Seq(Scope), Len(env') = Len(env),
         errors' \subseteq ErrorKinds, last' \subseteq Exprs, nextId' \in Nat,
         path' \in Paths, misused' \subseteq Ways, leftover' \subseteq Int
  PROVE  TInv'
BY DEF TInv, AtStmt, FnsOutside

LEMMA MeansTypes ==
  ASSUME NEW m \in Meanings, Means(m)
  PROVE  path' \in Paths /\ misused' \subseteq Ways
BY DEF Means, Meanings

(* The name bound by a statement is not in the outermost frame of a         *)
(* function.                                                                *)
LEMMA DefinedFrames ==
  ASSUME TInv, InBody, NEW fs \in Seq(Frame), Len(fs) = Len(frames),
         zone = "def" => fs[1] = NoBindings, NEW n \in AllNames, NEW b \in BindingType
  PROVE  /\ Define(fs, n, b) \in Seq(Frame) /\ Len(Define(fs, n, b)) = Len(frames)
         /\ zone = "def" => Define(fs, n, b)[1] = NoBindings
<1>1. fs # <<>> /\ DOMAIN fs = DOMAIN frames
  BY Sizes DEF TInv
<1>2. /\ Define(fs, n, b) \in Seq(Frame) /\ Len(Define(fs, n, b)) = Len(fs)
      /\ \A i \in DOMAIN fs : i # Len(fs) => Define(fs, n, b)[i] = fs[i]
  BY <1>1, DefineIs DEF Frame
<1>3. ASSUME zone = "def" PROVE 1 \in DOMAIN fs /\ 1 # Len(fs)
  <2>1. open # <<>> /\ Len(fs) = Len(open) + 1
    BY <1>3 DEF InBody, TInv
  <2> QED
    BY <1>1, <2>1, Sizes
<1> QED
  BY <1>2, <1>3

(* The checker's state with other frames.                                   *)
LEMMA WithFrames ==
  ASSUME NEW c \in Checker, NEW fs
  PROVE  /\ [c EXCEPT !.frames = fs].frames = fs
         /\ [c EXCEPT !.frames = fs].errors = c.errors
BY DEF Checker

LEMMA BindTypes ==
  ASSUME TInv, NEW n \in Names, NEW mode \in Modes, NEW e \in Exprs, Bind(n, mode, e)
  PROVE  TInv'
<1> DEFINE c == Infer(Now, e)  fs == Define(c.frames, n, Binding(mode, nextId))
           m == Mean(View, Meaning, e)
<1>1. Grows(Now, c) /\ c \in Checker
  BY NowIs, InferGrows DEF Grows
<1>2. m \in Meanings
  BY NowIs, ViewIs, MeanTypes
<1>3. frames' = fs /\ errors' = c.errors /\ Means(m) /\ AtStmt
  BY <1>1, WithFrames DEF Bind, Becomes
<1> HIDE DEF c, m
<1>4. n \in AllNames /\ Binding(mode, nextId) \in BindingType /\ InBody
  <2>1. nextId \in Int
    BY DEF TInv
  <2> QED
    BY <1>3, <2>1, BindingIs DEF AllNames, AtStmt
<1>5. /\ fs \in Seq(Frame) /\ Len(fs) = Len(frames)
      /\ zone = "def" => fs[1] = NoBindings
  BY <1>1, <1>4, InferredFrames, DefinedFrames
<1>6. env' \in Seq(Scope) /\ Len(env') = Len(env)
  <2>1. env' = Define(env, n, nextId) /\ nextId \in Int /\ env \in Seq(Maps(Int))
    BY DEF Bind, TInv, Scope
  <2> QED
    BY <1>4, <2>1, Sizes, DefineIs DEF Scope
<1>7. errors' \subseteq ErrorKinds
  BY <1>1, <1>3, InferredFrames
<1>8. path' \in Paths /\ misused' \subseteq Ways
  BY <1>2, <1>3, MeansTypes
<1>9. nextId' \in Nat /\ last' \subseteq Exprs /\ UNCHANGED open /\ leftover' \subseteq Int
  BY DEF Bind, TInv
<1> HIDE DEF fs
<1> QED
  BY <1>3, <1>5, <1>6, <1>7, <1>8, <1>9, StmtTypes

LEMMA RestoreIs ==
  ASSUME NEW m \in Meanings, NEW n
  PROVE  /\ Restore(m, n) \in Meanings
         /\ Restore(m, n).path.gone \subseteq m.path.gone
         /\ Restore(m, n).misused = m.misused
<1> DEFINE gone == m.path.gone \ Denotes(env, n)
           lost == m.path.lost \ Denotes(env, n)
           p == [gone |-> gone, lost |-> lost, due |-> m.path.due]
<1>1. m.path \in Paths /\ m.misused \subseteq Ways
  BY DEF Meanings
<1>2. p \in Paths /\ p.gone \subseteq m.path.gone
  BY <1>1 DEF Paths
<1>3. Restore(m, n) = [m EXCEPT !.path = p]
  BY DEF Restore
<1> HIDE DEF p
<1>4. Restore(m, n) = [path |-> p, misused |-> m.misused]
  <2>1. m = [path |-> m.path, misused |-> m.misused]
    BY WithPath
  <2> QED
    BY <1>3, <2>1
<1> QED
  BY <1>1, <1>2, <1>4 DEF Meanings

LEMMA AssignTypes ==
  ASSUME TInv, NEW n \in Names, NEW e \in Exprs, Assign(n, e)
  PROVE  TInv'
<1> DEFINE d == Fail(Now, "MutateImmutable", Bound(frames, n) /\ ~Lookup(frames, n).mutable)
           c == Infer(d, e)
           m == Mean(View, Meaning, e)
           k == Restore(m, n)
<1>1. Grows(Now, d)
  <2>1. "MutateImmutable" \in ErrorKinds
    BY DEF ErrorKinds
  <2> QED
    BY <2>1, NowIs, FailGrows
<1>2. m \in Meanings
  BY NowIs, ViewIs, MeanTypes
<1>3. frames' = c.frames /\ errors' = c.errors /\ Means(k) /\ AtStmt
  BY DEF Assign, Becomes
<1> HIDE DEF d
<1>4. Grows(Now, c)
  BY <1>1, InferNow
<1>5. k \in Meanings
  <2> HIDE DEF m
  <2> QED
    BY <1>2, RestoreIs
<1> HIDE DEF c, k
<1>6. path' \in Paths /\ misused' \subseteq Ways
  BY <1>3, <1>5, MeansTypes
<1>7. /\ UNCHANGED <<open, env, nextId, leftover>> /\ last' = {}
  BY DEF Assign
<1>8. env' \in Seq(Scope) /\ Len(env') = Len(env) /\ nextId' \in Nat /\ last' \subseteq Exprs
      /\ leftover' \subseteq Int
  BY <1>7 DEF TInv
<1>9. /\ c.frames \in Seq(Frame) /\ Len(c.frames) = Len(frames)
      /\ c.errors \subseteq ErrorKinds /\ (zone = "def" => c.frames[1] = NoBindings)
  BY <1>4, InferredFrames
<1> QED
  BY <1>3, <1>6, <1>7, <1>8, <1>9, StmtTypes

LEMMA AssignToTypes ==
  ASSUME TInv, NEW n \in Names, NEW e \in Exprs, AssignTo(n, e)
  PROVE  TInv'
<1> DEFINE c == Infer(Now, e)  m == Mean(View, Meaning, e)  k == Use(View, m, n, "target")
<1>1. Grows(Now, c)
  BY NowIs, InferGrows
<1>2. m \in Meanings
  BY NowIs, ViewIs, MeanTypes
<1>3. frames' = c.frames /\ errors' = c.errors /\ Means(k) /\ AtStmt
  BY DEF AssignTo, Becomes
<1> HIDE DEF c, m
<1>4. path' \in Paths /\ misused' \subseteq Ways
  <2>1. "target" \in Places
    BY DEF Places, Unvisited
  <2>2. k \in Meanings
    BY <1>2, <2>1, ViewIs, UseIs
  <2> HIDE DEF k
  <2> QED
    BY <1>3, <2>2, MeansTypes
<1>5. /\ UNCHANGED <<open, env, nextId, leftover>> /\ last' = {}
  BY DEF AssignTo
<1>6. env' \in Seq(Scope) /\ Len(env') = Len(env) /\ nextId' \in Nat /\ last' \subseteq Exprs
      /\ leftover' \subseteq Int
  BY <1>5 DEF TInv
<1>7. /\ c.frames \in Seq(Frame) /\ Len(c.frames) = Len(frames)
      /\ c.errors \subseteq ErrorKinds /\ (zone = "def" => c.frames[1] = NoBindings)
  BY <1>1, InferredFrames
<1> QED
  BY <1>3, <1>4, <1>5, <1>6, <1>7, StmtTypes

(* The end of a function, and what is put off to it.                        *)
LEMMA EndingIs ==
  ASSUME NEW m \in Meanings
  PROVE  /\ Ending(m) \in Meanings /\ Ending(m).path = m.path
         /\ "followed" \in Ending(m).misused => "followed" \in m.misused
<1> DEFINE late == m.path.due \cap Given(m.path) # {}
<1>1. "deferred" \in Ways /\ "deferred" # "followed"
  BY DEF Ways
<1>2. late \in BOOLEAN /\ Ending(m) = Noted(m, "deferred", late)
  BY DEF Ending
<1> HIDE DEF late
<1>3. /\ Noted(m, "deferred", late) \in Meanings /\ Noted(m, "deferred", late).path = m.path
      /\ "followed" \in Noted(m, "deferred", late).misused => "followed" \in m.misused
  BY <1>1, <1>2, NotedIs
<1> QED
  BY <1>2, <1>3

LEMMA DeferIs ==
  ASSUME env \in Seq(Scope), NEW m \in Meanings, NEW e
  PROVE  /\ Defer(m, e) \in Meanings /\ Defer(m, e).path.gone = m.path.gone
         /\ Defer(m, e).misused = m.misused
<1> DEFINE due == m.path.due \cup (UNION {Denotes(env, n) : n \in UsedBy(e)} \ Given(m.path))
<1>1. m.path \in Paths /\ m.misused \subseteq Ways
  BY DEF Meanings
<1>2. \A n \in UsedBy(e) : Denotes(env, n) \subseteq Int
  BY DenotesIds
<1>3. m.path.gone \subseteq Int /\ m.path.lost \subseteq Int /\ m.path.due \subseteq Int
  BY <1>1 DEF Paths
<1>4. due \subseteq Int
  BY <1>2, <1>3
<1>5. Defer(m, e) = [m EXCEPT !.path.due = due]
  BY DEF Defer
<1> HIDE DEF due
<1>6. Defer(m, e) = [path |-> [gone |-> m.path.gone, lost |-> m.path.lost, due |-> due],
                     misused |-> m.misused]
  BY <1>5, WithPath
<1> QED
  BY <1>1, <1>3, <1>4, <1>6 DEF Meanings, Paths

LEMMA EvaluateTypes ==
  ASSUME TInv, NEW e \in Exprs, NEW how \in {"expr", "defer", "return"}, Evaluate(e, how)
  PROVE  TInv'
<1> DEFINE c == Infer(Now, e)  m == Mean(View, Meaning, e)
<1>1. Grows(Now, c)
  BY NowIs, InferGrows
<1>2. m \in Meanings
  BY NowIs, ViewIs, MeanTypes
<1>3. /\ frames' = c.frames /\ errors' = c.errors /\ AtStmt
      /\ Means(m) \/ Means(Defer(m, e)) \/ Means(Ending(m))
  BY DEF Evaluate, Becomes
<1> HIDE DEF c, m
<1>4. path' \in Paths /\ misused' \subseteq Ways
  <2>1. Defer(m, e) \in Meanings /\ Ending(m) \in Meanings
    BY <1>2, DeferIs, EndingIs DEF TInv
  <2> QED
    BY <1>2, <1>3, <2>1, MeansTypes
<1>5. /\ UNCHANGED <<open, env, nextId, leftover>> /\ last' \subseteq Exprs
  BY DEF Evaluate
<1>6. env' \in Seq(Scope) /\ Len(env') = Len(env) /\ nextId' \in Nat /\ leftover' \subseteq Int
  BY <1>5 DEF TInv
<1>7. /\ c.frames \in Seq(Frame) /\ Len(c.frames) = Len(frames)
      /\ c.errors \subseteq ErrorKinds /\ (zone = "def" => c.frames[1] = NoBindings)
  BY <1>1, InferredFrames
<1> QED
  BY <1>3, <1>4, <1>5, <1>6, <1>7, StmtTypes

(* The scope of an arm, with its payload.                                   *)
LEMMA ArmScope ==
  ASSUME TInv, NEW n \in AllNames
  PROVE  /\ [k \in {n} |-> nextId] \in Scope
         /\ Append(env, [k \in {n} |-> nextId]) \in Seq(Scope)
         /\ Len(Append(env, [k \in {n} |-> nextId])) = Len(env) + 1
<1> DEFINE s == [k \in {n} |-> nextId]
<1>1. s \in Maps(Int)
  <2>1. s = [k \in DOMAIN s |-> s[k]] /\ DOMAIN s = {n} /\ s[n] = nextId
    OBVIOUS
  <2>2. nextId \in Int
    BY DEF TInv
  <2> HIDE DEF s
  <2> QED
    BY <2>1, <2>2, MapsIntro
<1>2. env \in Seq(Scope)
  BY DEF TInv
<1> HIDE DEF s
<1>3. s \in Scope
  BY <1>1 DEF Scope
<1> QED
  BY <1>2, <1>3, AppendIs DEF s

LEMMA MatchTypes ==
  ASSUME TInv, NEW e \in Exprs, NEW n \in Payloads, NEW body \in Exprs, Match(e, n, body)
  PROVE  TInv'
<1> DEFINE c == Infer(Now, e)
           fs == Define(c.frames, n, Binding("read", nextId))
           d == [c EXCEPT !.frames = fs]
           f == Infer(d, body)
           m == Mean(View, Meaning, e)
           arm == Append(env, [k \in {n} |-> nextId])
           v == [View EXCEPT !.frames = d.frames, !.env = Append(@, [k \in {n} |-> nextId])]
           l == Mean(v, m, body)
<1>0. n \in AllNames /\ "read" \in Modes
  BY DEF AllNames, Modes
<1>1. Grows(Now, c) /\ c \in Checker
  BY NowIs, InferGrows DEF Grows
<1>2. m \in Meanings
  BY NowIs, ViewIs, MeanTypes
<1>3. l \in Meanings
  <2> HIDE DEF m
  <2>1. arm \in Seq(Scope)
    BY <1>0, ArmScope
  <2>2. v.env = arm
    BY DEF View
  <2> HIDE DEF arm, v
  <2> QED
    BY <1>2, <2>1, <2>2, MeanTypes
<1>4. frames' = f.frames /\ errors' = f.errors /\ Means(l) /\ AtStmt
  BY DEF Match, Becomes
<1> HIDE DEF c, l
<1>13. nextId \in Int
  BY DEF TInv
<1>5. /\ fs \in Seq(Frame) /\ Len(fs) = Len(frames)
      /\ zone = "def" => fs[1] = NoBindings
  <2>1. Binding("read", nextId) \in BindingType /\ InBody
    BY <1>0, <1>4, <1>13, BindingIs DEF AtStmt
  <2> QED
    BY <1>0, <1>1, <2>1, InferredFrames, DefinedFrames
<1> HIDE DEF fs
<1>6. d \in Checker /\ d.frames = fs
  <2>1. d = [frames |-> fs, errors |-> c.errors]
    BY <1>1 DEF Checker
  <2> QED
    BY <1>1, <1>5, <2>1 DEF Checker
<1> HIDE DEF d
<1>7. Grows(d, f)
  BY <1>6, InferGrows
<1> HIDE DEF f
<1>8. /\ f.frames \in Seq(Frame) /\ Len(f.frames) = Len(frames) /\ f.errors \subseteq ErrorKinds
  BY <1>5, <1>6, <1>7 DEF Grows, Checker, SameShape
<1>9. zone = "def" => f.frames[1] = NoBindings
  <2>1. Len(d.frames) >= 1
    BY <1>5, <1>6, Sizes DEF TInv
  <2> QED
    BY <1>5, <1>6, <1>7, <2>1, StaysEmpty
<1>10. path' \in Paths /\ misused' \subseteq Ways
  BY <1>3, <1>4, MeansTypes
<1>11. /\ UNCHANGED <<open, env>> /\ last' \subseteq Exprs /\ nextId' = nextId + 1
       /\ leftover' = leftover \cup {nextId}
  BY DEF Match
<1>12. env' \in Seq(Scope) /\ Len(env') = Len(env) /\ nextId' \in Nat /\ leftover' \subseteq Int
  BY <1>11 DEF TInv
<1> QED
  BY <1>4, <1>8, <1>9, <1>10, <1>11, <1>12, StmtTypes

(* A scope is opened.                                                       *)
LEMMA EnteredIs ==
  ASSUME NEW ids \in Scope, NEW modes, \A n \in DOMAIN ids : modes[n] \in Modes
  PROVE  /\ [n \in DOMAIN ids |-> Binding(modes[n], ids[n])] \in Frame
         /\ \A n \in DOMAIN ids :
               /\ [k \in DOMAIN ids |-> Binding(modes[k], ids[k])][n].id = ids[n]
               /\ ~[k \in DOMAIN ids |-> Binding(modes[k], ids[k])][n].moved
<1> DEFINE f == [n \in DOMAIN ids |-> Binding(modes[n], ids[n])]
<1>1. DOMAIN ids \subseteq AllNames /\ \A n \in DOMAIN ids : ids[n] \in Int
  BY MapsAre DEF Scope
<1>2. ASSUME NEW n \in DOMAIN ids
      PROVE  f[n] \in BindingType /\ f[n].id = ids[n] /\ ~f[n].moved
  BY <1>1, BindingIs
<1>3. f = [n \in DOMAIN f |-> f[n]] /\ DOMAIN f = DOMAIN ids
  OBVIOUS
<1> HIDE DEF f
<1>4. f \in Frame
  BY <1>1, <1>2, <1>3, MapsIntro DEF Frame
<1> QED
  BY <1>2, <1>4 DEF f

LEMMA EnterTypes ==
  ASSUME TInv, NEW kind \in BlockKinds, NEW modes, NEW ids \in Scope,
         \A n \in DOMAIN ids : modes[n] \in Modes,
         NEW fs \in Seq(Frame), Len(fs) = Len(frames), zone = "def" => fs[1] = NoBindings,
         NEW before \in Paths, Enter(kind, modes, ids, fs, before),
         kind = "fn" => open = <<>>, UNCHANGED zone,
         errors' \subseteq ErrorKinds, last' \subseteq Exprs, nextId' \in Nat,
         path' \in Paths, misused' \subseteq Ways, leftover' \subseteq Int
  PROVE  TInv'
<1> DEFINE o == [kind |-> kind, outer |-> nextId, before |-> before]
           bound == [n \in DOMAIN ids |-> Binding(modes[n], ids[n])]
<1>1. o \in OpenType
  BY DEF OpenType, TInv
<1>2. frames' = Append(fs, bound) /\ env' = Append(env, ids) /\ open' = Append(open, o)
  BY DEF Enter
<1>11. o.kind = kind
  OBVIOUS
<1>13. bound \in Frame
  BY EnteredIs
<1> HIDE DEF o, bound
<1>3. /\ open \in Seq(OpenType) /\ env \in Seq(Scope)
      /\ Len(frames) = Len(open) + 1 /\ Len(env) = Len(open) + 1
  BY DEF TInv
<1>4. open' \in Seq(OpenType) /\ Len(open') = Len(open) + 1
  BY <1>1, <1>2, <1>3, AppendIs
<1>5. frames' \in Seq(Frame) /\ Len(frames') = Len(frames) + 1
      /\ \A i \in DOMAIN fs : frames'[i] = fs[i]
  BY <1>2, <1>13, AppendIs
<1>6. env' \in Seq(Scope) /\ Len(env') = Len(env) + 1
  BY <1>2, <1>3, AppendIs
<1>7. 1 \in DOMAIN fs
  <2>1. DOMAIN fs = 1..Len(fs)
    BY SeqFacts
  <2> QED
    BY <2>1, <1>3, Sizes
<1>8. zone' = "def" => frames'[1] = NoBindings
  BY <1>5, <1>7
<1>9. zone' \in {"def", "alg"}
  BY DEF TInv
<1>10. Len(frames') = Len(open') + 1 /\ Len(env') = Len(open') + 1
  BY <1>3, <1>4, <1>5, <1>6
<1>12. FnsOutside'
  <2> SUFFICES ASSUME NEW i \in DOMAIN open', open'[i].kind = "fn" PROVE i = 1
    BY DEF FnsOutside
  <2>1. DOMAIN open' = 1..(Len(open) + 1) /\ DOMAIN open = 1..Len(open) /\ Len(open) \in Nat
    BY <1>4, Sizes, SeqFacts
  <2>2. CASE i \in DOMAIN open
    <3>1. open'[i] = open[i]
      BY <1>1, <1>2, <1>3, <2>2, AppendIs
    <3> QED
      BY <2>2, <3>1 DEF TInv, FnsOutside
  <2>3. CASE i \notin DOMAIN open
    <3>1. i = Len(open) + 1
      BY <2>1, <2>3
    <3>2. open'[i] = o
      BY <1>1, <1>2, <1>3, <3>1, AppendIs
    <3>3. Len(open) = 0
      BY <1>11, <3>2
    <3> QED
      BY <3>1, <3>3
  <2> QED
    BY <2>2, <2>3
<1> QED
  BY <1>4, <1>5, <1>6, <1>8, <1>9, <1>10, <1>12 DEF TInv

(* The innermost one is closed.                                             *)
LEMMA LeaveTypes ==
  ASSUME TInv, open # <<>>,
         NEW fs \in Seq(Frame), Len(fs) = Len(frames), zone = "def" => fs[1] = NoBindings,
         frames' = Front(fs), env' = Front(env), open' = Front(open), UNCHANGED zone,
         errors' \subseteq ErrorKinds, last' \subseteq Exprs, nextId' \in Nat,
         path' \in Paths, misused' \subseteq Ways, leftover' \subseteq Int
  PROVE  TInv'
<1>1. /\ open \in Seq(OpenType) /\ env \in Seq(Scope)
      /\ Len(frames) = Len(open) + 1 /\ Len(env) = Len(open) + 1
  BY DEF TInv
<1>2. /\ Len(open) \in Nat /\ Len(open) >= 1 /\ env # <<>> /\ fs # <<>>
  <2>1. Len(open) \in Nat /\ Len(open) >= 1 /\ env # <<>>
    BY Sizes
  <2>2. Len(fs) = Len(open) + 1
    BY <1>1
  <2> QED
    BY <2>1, <2>2
<1>3. open' \in Seq(OpenType) /\ Len(open') = Len(open) - 1
  BY <1>1, FrontIs
<1>4. /\ frames' \in Seq(Frame) /\ Len(frames') = Len(fs) - 1
      /\ \A i \in 1..(Len(fs) - 1) : frames'[i] = fs[i]
  BY <1>2, FrontIs
<1>5. env' \in Seq(Scope) /\ Len(env') = Len(env) - 1
  BY <1>1, <1>2, FrontIs
<1>6. zone' = "def" => frames'[1] = NoBindings
  <2>1. 1 \in 1..(Len(fs) - 1)
    BY <1>1, <1>2
  <2> QED
    BY <1>4, <2>1
<1>7. zone' \in {"def", "alg"}
  BY DEF TInv
<1>8. Len(frames') = Len(open') + 1 /\ Len(env') = Len(open') + 1
  BY <1>1, <1>2, <1>3, <1>4, <1>5
<1>9. FnsOutside'
  <2>1. /\ DOMAIN open' = 1..(Len(open) - 1)
        /\ \A i \in 1..(Len(open) - 1) : i \in DOMAIN open /\ open'[i] = open[i]
    BY <1>1, <1>3, FrontIs, SeqFacts
  <2> QED
    BY <2>1 DEF TInv, FnsOutside
<1> QED
  BY <1>3, <1>4, <1>5, <1>6, <1>7, <1>8, <1>9 DEF TInv

LEMMA TopIsOpen ==
  ASSUME TInv, open # <<>>
  PROVE  Last(open) \in OpenType /\ Last(open).before \in Paths
<1>1. open \in Seq(OpenType)
  BY DEF TInv
<1>2. Last(open) \in OpenType
  <2> HIDE DEF OpenType
  <2> QED
    BY <1>1, FrontIs
<1> QED
  BY <1>2 DEF OpenType

LEMMA OpenFnIds ==
  ASSUME TInv, NEW ps \in Params
  PROVE  LET names == {ps[i].name : i \in DOMAIN ps}
             ids == [n \in names |-> nextId + ParamOf(ps, n)]
             modes == [n \in names |-> ps[ParamOf(ps, n)].mode]
         IN  /\ ids \in Scope /\ DOMAIN ids = names
             /\ \A n \in names : /\ modes[n] \in Modes
                                 /\ ids[n] = nextId + ParamOf(ps, n)
                                 /\ ParamOf(ps, n) \in 1..Len(ps)
                                 /\ ps[ParamOf(ps, n)].name = n
             /\ Len(ps) \in Nat
<1> DEFINE names == {ps[i].name : i \in DOMAIN ps}
           ids == [n \in names |-> nextId + ParamOf(ps, n)]
           modes == [n \in names |-> ps[ParamOf(ps, n)].mode]
<1>1. ASSUME NEW n \in names
      PROVE  /\ n \in AllNames /\ modes[n] \in Modes /\ ids[n] = nextId + ParamOf(ps, n)
             /\ ids[n] \in Int /\ ParamOf(ps, n) \in 1..Len(ps) /\ ps[ParamOf(ps, n)].name = n
  <2>1. /\ n \in Names /\ ps[ParamOf(ps, n)].mode \in Modes /\ ParamOf(ps, n) \in 1..Len(ps)
        /\ ps[ParamOf(ps, n)].name = n
    BY ParamOfIs
  <2>2. nextId \in Nat /\ ParamOf(ps, n) \in Int
    BY <2>1 DEF TInv
  <2>3. modes[n] = ps[ParamOf(ps, n)].mode /\ ids[n] = nextId + ParamOf(ps, n)
    OBVIOUS
  <2> QED
    BY <2>1, <2>2, <2>3 DEF AllNames
<1>2. DOMAIN ids = names /\ ids = [n \in DOMAIN ids |-> ids[n]]
  OBVIOUS
<1>3. Len(ps) \in Nat
  BY ParamsAssumption
<1> HIDE DEF names, ids, modes
<1>4. names \subseteq AllNames
  BY <1>1
<1>5. ids \in Scope
  BY <1>1, <1>2, <1>4, MapsIntro DEF Scope
<1> QED
  BY <1>1, <1>2, <1>3, <1>5 DEF names, ids, modes

LEMMA OpenFnTypes ==
  ASSUME TInv, NEW ps \in Params, OpenFn(ps)
  PROVE  TInv'
<1> DEFINE names == {ps[i].name : i \in DOMAIN ps}
           ids == [n \in names |-> nextId + ParamOf(ps, n)]
           modes == [n \in names |-> ps[ParamOf(ps, n)].mode]
<1>1. /\ Enter("fn", modes, ids, frames, path)
      /\ nextId' = nextId + Len(ps) + 1 /\ last' = {} /\ open = <<>>
      /\ path' = [path EXCEPT !.due = {}]
      /\ UNCHANGED <<zone, errors, leftover, misused>>
  BY DEF OpenFn
<1>2. /\ ids \in Scope /\ Len(ps) \in Nat
      /\ \A n \in DOMAIN ids : modes[n] \in Modes
  BY OpenFnIds
<1> HIDE DEF ids, modes
<1>3. nextId' \in Nat /\ "fn" \in BlockKinds
  BY <1>1, <1>2 DEF TInv, BlockKinds
<1>4. path \in Paths /\ path' \in Paths
  BY <1>1 DEF TInv, Paths
<1>5. /\ frames \in Seq(Frame) /\ (zone = "def" => frames[1] = NoBindings)
      /\ errors' \subseteq ErrorKinds /\ misused' \subseteq Ways /\ leftover' \subseteq Int
      /\ UNCHANGED zone /\ last' \subseteq Exprs
  BY <1>1 DEF TInv
<1> QED
  BY <1>1, <1>2, <1>3, <1>4, <1>5, EnterTypes

(* What is checked at the end of a function.                                *)
Again == IF last = {} THEN Now ELSE Infer(Now, CHOOSE e \in last : TRUE)

LEMMA AgainGrows ==
  ASSUME TInv
  PROVE  Grows(Now, Again)
<1>1. CASE last = {}
  BY <1>1, NowIs, GrowsSelf DEF Again
<1>2. CASE last # {}
  <2>1. (CHOOSE e \in last : TRUE) \in Exprs
    BY <1>2 DEF TInv
  <2> QED
    BY <1>2, <2>1, NowIs, InferGrows DEF Again
<1> QED
  BY <1>1, <1>2

LEMMA CloseFnIs ==
  ASSUME TInv, CloseFn
  PROVE  /\ open # <<>> /\ open' = Front(open) /\ env' = Front(env) /\ frames' = Front(Again.frames)
         /\ errors' = Again.errors /\ last' = {}
         /\ UNCHANGED <<zone, nextId, leftover>> /\ Means(Ending(Meaning))
<1>1. /\ open # <<>> /\ Last(open).kind = "fn" /\ open' = <<>> /\ env' = Front(env) /\ last' = {}
      /\ frames' = Front(Again.frames) /\ errors' = Again.errors
      /\ UNCHANGED <<zone, nextId, leftover>> /\ Means(Ending(Meaning))
  BY DEF CloseFn, TopIs, Again
<1>2. Len(open) \in DOMAIN open /\ open[Len(open)].kind = "fn"
  BY <1>1, Sizes DEF Last
<1>3. Len(open) = 1
  BY <1>2 DEF TInv, FnsOutside
<1>4. Front(open) = <<>>
  BY <1>3 DEF Front
<1> QED
  BY <1>1, <1>4

LEMMA CloseFnTypes == ASSUME TInv, CloseFn PROVE TInv'
<1>1. /\ open # <<>> /\ open' = Front(open) /\ env' = Front(env) /\ frames' = Front(Again.frames)
      /\ errors' = Again.errors /\ last' = {}
      /\ UNCHANGED <<zone, nextId, leftover>> /\ Means(Ending(Meaning))
  BY CloseFnIs
<1>2. /\ Again.frames \in Seq(Frame) /\ Len(Again.frames) = Len(frames)
      /\ Again.errors \subseteq ErrorKinds
      /\ zone = "def" => Again.frames[1] = NoBindings
  BY AgainGrows, InferredFrames
<1>4. Ending(Meaning) \in Meanings
  BY NowIs, EndingIs
<1>3. errors' \subseteq ErrorKinds /\ last' \subseteq Exprs /\ nextId' \in Nat
      /\ path' \in Paths /\ misused' \subseteq Ways /\ UNCHANGED zone /\ leftover' \subseteq Int
  BY <1>1, <1>2, <1>4, MeansTypes DEF TInv
<1> QED
  BY <1>1, <1>2, <1>3, LeaveTypes

(* The block of a loop or a branch begins after an expression.              *)
LEMMA AfterExpr ==
  ASSUME TInv, NEW e \in Exprs, NEW c, c = Infer(Now, e), Means(Mean(View, Meaning, e))
  PROVE  /\ c.frames \in Seq(Frame) /\ Len(c.frames) = Len(frames)
         /\ c.errors \subseteq ErrorKinds
         /\ zone = "def" => c.frames[1] = NoBindings
         /\ path' \in Paths /\ misused' \subseteq Ways
<1>1. Grows(Now, c)
  BY NowIs, InferGrows
<1>2. Mean(View, Meaning, e) \in Meanings
  BY NowIs, ViewIs, MeanTypes
<1> QED
  BY <1>1, <1>2, InferredFrames, MeansTypes

LEMMA OneIds ==
  ASSUME TInv, NEW S \in SUBSET Names
  PROVE  /\ [n \in S |-> nextId] \in Scope
         /\ \A n \in S : [k \in S |-> "read"][n] \in Modes
<1> DEFINE ids == [n \in S |-> nextId]
<1>1. DOMAIN ids = S /\ ids = [n \in DOMAIN ids |-> ids[n]] /\ \A n \in S : ids[n] = nextId
  OBVIOUS
<1>2. S \subseteq AllNames /\ nextId \in Int
  BY DEF AllNames, TInv
<1> HIDE DEF ids
<1>3. ids \in Scope
  BY <1>1, <1>2, MapsIntro DEF Scope
<1> QED
  BY <1>3 DEF ids, Modes

LEMMA OpenLoopTypes ==
  ASSUME TInv, NEW e \in Exprs, NEW S \in SUBSET Names, OpenLoop(S, e)
  PROVE  TInv'
<1> DEFINE c == Infer(Now, e)
           modes == [n \in S |-> "read"]
           ids == [n \in S |-> nextId]
           before == IF S = {} THEN path ELSE path'
<1>1. /\ Means(Mean(View, Meaning, e)) /\ errors' = c.errors
      /\ Enter("loop", modes, ids, c.frames, before)
      /\ nextId' = nextId + 1 /\ last' = {} /\ UNCHANGED <<zone, leftover>>
  BY DEF OpenLoop, AtStmt
<1>2. /\ c.frames \in Seq(Frame) /\ Len(c.frames) = Len(frames)
      /\ c.errors \subseteq ErrorKinds
      /\ zone = "def" => c.frames[1] = NoBindings
      /\ path' \in Paths /\ misused' \subseteq Ways
  BY <1>1, AfterExpr
<1> HIDE DEF c
<1>3. DOMAIN ids = S
  OBVIOUS
<1>4. ids \in Scope /\ \A n \in DOMAIN ids : modes[n] \in Modes
  BY <1>3, OneIds
<1> HIDE DEF modes, ids
<1>5. /\ "loop" \in BlockKinds /\ before \in Paths /\ nextId' \in Nat /\ last' \subseteq Exprs
      /\ errors' \subseteq ErrorKinds /\ leftover' \subseteq Int
  BY <1>1, <1>2 DEF BlockKinds, TInv
<1>6. UNCHANGED zone
  BY <1>1
<1> HIDE DEF before
<1> QED
  BY <1>1, <1>2, <1>4, <1>5, <1>6, EnterTypes

LEMMA OpenThenTypes == ASSUME TInv, NEW e \in Exprs, OpenThen(e) PROVE TInv'
<1> DEFINE c == Infer(Now, e)
<1>1. /\ Means(Mean(View, Meaning, e)) /\ errors' = c.errors
      /\ Enter("then", NoBindings, NoBindings, c.frames, path')
      /\ nextId' = nextId + 1 /\ last' = {} /\ UNCHANGED <<zone, leftover>>
  BY DEF OpenThen, AtStmt
<1>2. /\ c.frames \in Seq(Frame) /\ Len(c.frames) = Len(frames)
      /\ c.errors \subseteq ErrorKinds
      /\ zone = "def" => c.frames[1] = NoBindings
      /\ path' \in Paths /\ misused' \subseteq Ways
  BY <1>1, AfterExpr
<1> HIDE DEF c
<1>3. /\ "then" \in BlockKinds /\ nextId' \in Nat /\ last' \subseteq Exprs
      /\ errors' \subseteq ErrorKinds /\ UNCHANGED zone /\ leftover' \subseteq Int
  BY <1>1, <1>2 DEF BlockKinds, TInv
<1>4. \A n \in DOMAIN NoBindings : NoBindings[n] \in Modes
  BY NoBindingsIs
<1> QED
  BY <1>1, <1>2, <1>3, <1>4, NoBindingsIs, EnterTypes

LEMMA CloseLoopTypes == ASSUME TInv, CloseLoop PROVE TInv'
<1> DEFINE again == MovedAgain # {}
<1>1. /\ open # <<>> /\ frames' = Front(frames) /\ env' = Front(env) /\ open' = Front(open)
      /\ last' = {} /\ UNCHANGED <<zone, errors, nextId, leftover>>
      /\ Means(Noted(Meaning, "turn", again))
  BY DEF CloseLoop, TopIs, Leave
<1>2. again \in BOOLEAN /\ "turn" \in Ways
  BY DEF Ways
<1> HIDE DEF again
<1>3. path' \in Paths /\ misused' \subseteq Ways
  BY <1>1, <1>2, NowIs, NotedIs, MeansTypes
<1>4. /\ frames \in Seq(Frame) /\ (zone = "def" => frames[1] = NoBindings)
      /\ errors' \subseteq ErrorKinds /\ last' \subseteq Exprs /\ nextId' \in Nat
      /\ leftover' \subseteq Int
  BY <1>1 DEF TInv
<1> QED
  BY <1>1, <1>3, <1>4, LeaveTypes

LEMMA CloseIfTypes == ASSUME TInv, CloseIf PROVE TInv'
<1>1. /\ open # <<>> /\ frames' = Front(frames) /\ env' = Front(env) /\ open' = Front(open)
      /\ last' = {} /\ UNCHANGED <<zone, errors, nextId, leftover, misused>>
      /\ path' = Either(path, Last(open).before)
  BY DEF CloseIf, TopIs, Leave
<1>2. /\ frames \in Seq(Frame) /\ (zone = "def" => frames[1] = NoBindings)
      /\ errors' \subseteq ErrorKinds /\ last' \subseteq Exprs /\ nextId' \in Nat
      /\ misused' \subseteq Ways /\ leftover' \subseteq Int /\ path \in Paths
  BY <1>1 DEF TInv
<1>3. Last(open).before \in Paths
  BY <1>1, TopIsOpen
<1>4. path' \in Paths
  BY <1>1, <1>2, <1>3 DEF Either, Paths
<1> QED
  BY <1>1, <1>2, <1>4, LeaveTypes

(* The branches of an if follow each other in one place.                    *)
LEMMA OpenElseIs ==
  ASSUME TInv, OpenElse
  PROVE  /\ open # <<>> /\ Len(open) \in DOMAIN open
         /\ Len(open') = Len(open) /\ Len(frames') = Len(frames) /\ Len(env') = Len(env)
         /\ open' \in Seq(OpenType) /\ frames' \in Seq(Frame) /\ env' \in Seq(Scope)
         /\ \A i \in 1..(Len(open) - 1) : open'[i] = open[i]
         /\ \A i \in 1..Len(open) : frames'[i] = frames[i] /\ env'[i] = env[i]
         /\ frames'[Len(frames)] = NoBindings /\ env'[Len(env)] = NoBindings
         /\ open'[Len(open)].before = path /\ open'[Len(open)].kind = "else"
         /\ path' = open[Len(open)].before
         /\ UNCHANGED <<zone, errors, last, nextId, leftover, misused>>
<1> DEFINE o == [Last(open) EXCEPT !.kind = "else", !.before = path]
<1>1. /\ open # <<>> /\ open' = Append(Front(open), o) /\ path' = Last(open).before
      /\ frames' = Append(Front(frames), NoBindings)
      /\ env' = Append(Front(env), NoBindings)
      /\ UNCHANGED <<zone, errors, last, nextId, leftover, misused>>
  BY DEF OpenElse, TopIs
<1>2. Last(open) \in OpenType /\ Last(open) = open[Len(open)]
  BY <1>1, TopIsOpen DEF Last
<1>3. o \in OpenType /\ o.before = path /\ o.kind = "else"
  <2>1. path \in Paths /\ "else" \in BlockKinds
    BY DEF TInv, BlockKinds
  <2> QED
    BY <1>2, <2>1 DEF OpenType
<1> HIDE DEF o
<1>4. /\ open \in Seq(OpenType) /\ frames \in Seq(Frame) /\ env \in Seq(Scope)
      /\ Len(frames) = Len(open) + 1 /\ Len(env) = Len(open) + 1
  BY DEF TInv
<1>5. /\ Len(open) \in Nat /\ Len(open) >= 1 /\ frames # <<>> /\ env # <<>>
      /\ Len(open) \in DOMAIN open
  BY <1>1, Sizes
<1>6. /\ Front(open) \in Seq(OpenType) /\ Len(Front(open)) = Len(open) - 1
      /\ \A i \in 1..(Len(open) - 1) : Front(open)[i] = open[i]
  BY <1>1, <1>4, FrontIs
<1>7. /\ Front(frames) \in Seq(Frame) /\ Len(Front(frames)) = Len(open)
      /\ \A i \in 1..Len(open) : Front(frames)[i] = frames[i]
  <2>1. Len(frames) - 1 = Len(open)
    BY <1>4, <1>5
  <2> QED
    BY <1>4, <1>5, <2>1, FrontIs
<1>8. /\ Front(env) \in Seq(Scope) /\ Len(Front(env)) = Len(open)
      /\ \A i \in 1..Len(open) : Front(env)[i] = env[i]
  <2>1. Len(env) - 1 = Len(open)
    BY <1>4, <1>5
  <2> QED
    BY <1>4, <1>5, <2>1, FrontIs
<1>9. /\ open' \in Seq(OpenType) /\ Len(open') = Len(open) /\ open'[Len(open)] = o
      /\ \A i \in 1..(Len(open) - 1) : open'[i] = open[i]
  <2>1. DOMAIN Front(open) = 1..(Len(open) - 1) /\ Len(open) - 1 + 1 = Len(open)
    BY <1>5, <1>6, SeqFacts
  <2> QED
    BY <1>1, <1>3, <1>6, <2>1, AppendIs
<1>10. /\ frames' \in Seq(Frame) /\ Len(frames') = Len(frames)
       /\ frames'[Len(frames)] = NoBindings
       /\ \A i \in 1..Len(open) : frames'[i] = frames[i]
  <2>1. DOMAIN Front(frames) = 1..Len(open)
    BY <1>7, SeqFacts
  <2> QED
    BY <1>1, <1>4, <1>7, <2>1, AppendIs, NoBindingsIs
<1>11. /\ env' \in Seq(Scope) /\ Len(env') = Len(env)
       /\ env'[Len(env)] = NoBindings
       /\ \A i \in 1..Len(open) : env'[i] = env[i]
  <2>1. DOMAIN Front(env) = 1..Len(open)
    BY <1>8, SeqFacts
  <2> QED
    BY <1>1, <1>4, <1>8, <2>1, AppendIs, NoBindingsIs
<1> QED
  BY <1>1, <1>2, <1>3, <1>5, <1>9, <1>10, <1>11

LEMMA OpenElseTypes == ASSUME TInv, OpenElse PROVE TInv'
<1>1. /\ open # <<>> /\ Len(open) \in DOMAIN open
      /\ Len(open') = Len(open) /\ Len(frames') = Len(frames) /\ Len(env') = Len(env)
      /\ open' \in Seq(OpenType) /\ frames' \in Seq(Frame) /\ env' \in Seq(Scope)
      /\ \A i \in 1..(Len(open) - 1) : open'[i] = open[i]
      /\ \A i \in 1..Len(open) : frames'[i] = frames[i]
      /\ open'[Len(open)].before = path /\ open'[Len(open)].kind = "else"
      /\ path' = open[Len(open)].before
      /\ UNCHANGED <<zone, errors, last, nextId, leftover, misused>>
  BY OpenElseIs
<1>2. Len(open) \in Nat /\ Len(open) >= 1 /\ DOMAIN open = 1..Len(open)
  BY <1>1, Sizes
<1>3. zone' = "def" => frames'[1] = NoBindings
  BY <1>1, <1>2 DEF TInv
<1>4. FnsOutside'
  <2> SUFFICES ASSUME NEW i \in DOMAIN open', open'[i].kind = "fn" PROVE i = 1
    BY DEF FnsOutside
  <2>1. DOMAIN open' = 1..Len(open)
    BY <1>1, SeqFacts
  <2>2. i # Len(open)
    BY <1>1
  <2>3. i \in 1..(Len(open) - 1)
    BY <1>2, <2>1, <2>2
  <2> QED
    BY <1>1, <1>2, <2>1, <2>3 DEF TInv, FnsOutside
<1>5. path' \in Paths
  <2>1. open[Len(open)].before \in Paths
    BY <1>1, TopIsOpen DEF Last
  <2> QED
    BY <1>1, <2>1
<1> QED
  BY <1>1, <1>3, <1>4, <1>5 DEF TInv

LEMMA TypesStep == TInv /\ [Next]_vars => TInv'
<1> SUFFICES ASSUME TInv, [Next]_vars PROVE TInv'
  OBVIOUS
<1>1. CASE \E n \in Names, e \in Exprs : Let(n, e) \/ Var(n, e) \/ Assign(n, e) \/ AssignTo(n, e)
  <2>1. "read" \in Modes /\ "mut" \in Modes
    BY DEF Modes
  <2> QED
    BY <1>1, <2>1, BindTypes, AssignTypes, AssignToTypes DEF Let, Var
<1>2. CASE \E e \in Exprs, how \in {"expr", "defer", "return"} : Evaluate(e, how)
  BY <1>2, EvaluateTypes
<1>3. CASE \E e, body \in Exprs, n \in Payloads : Match(e, n, body)
  BY <1>3, MatchTypes
<1>4. CASE \E ps \in Params : OpenFn(ps)
  BY <1>4, OpenFnTypes
<1>5. CASE \E e \in Exprs, n \in Names, for \in BOOLEAN : OpenLoop(IF for THEN {n} ELSE {}, e)
  <2>1. PICK e \in Exprs, n \in Names, for \in BOOLEAN : OpenLoop(IF for THEN {n} ELSE {}, e)
    BY <1>5
  <2> DEFINE S == IF for THEN {n} ELSE {}
  <2>2. S \in SUBSET Names /\ OpenLoop(S, e)
    BY <2>1
  <2> HIDE DEF S
  <2> QED
    BY <2>2, OpenLoopTypes
<1>6. CASE \E e \in Exprs : OpenThen(e)
  BY <1>6, OpenThenTypes
<1>7. CASE CloseFn
  BY <1>7, CloseFnTypes
<1>8. CASE CloseLoop
  BY <1>8, CloseLoopTypes
<1>9. CASE OpenElse
  BY <1>9, OpenElseTypes
<1>10. CASE CloseIf
  BY <1>10, CloseIfTypes
<1>11. CASE EndDefs
  BY <1>11 DEF EndDefs, TInv, FnsOutside, checker, meaning
<1>12. CASE UNCHANGED vars
  BY <1>12 DEF vars, TInv, FnsOutside
<1> QED
  BY <1>1, <1>2, <1>3, <1>4, <1>5, <1>6, <1>7, <1>8, <1>9, <1>10, <1>11, <1>12
     DEF Next, Stmt, Scoping

LEMMA TypesHold == TInv => SemaTypeOK
<1> SUFFICES ASSUME TInv PROVE SemaTypeOK
  OBVIOUS
<1>1. \A i \in DOMAIN open : open[i].kind \in BlockKinds
  <2> TAKE i \in DOMAIN open
  <2>1. open \in Seq(OpenType)
    BY DEF TInv
  <2>2. open[i] \in OpenType
    <3> HIDE DEF OpenType
    <3> QED
      BY <2>1, SeqFacts
  <2> QED
    BY <2>2 DEF OpenType
<1>2. \A i \in DOMAIN frames : IsFrame(frames[i])
  BY FramesAre DEF TInv, IsFrame, AllNames
<1>3. errors \subseteq {"Undefined", "UseAfterMove", "MoveOfReadBinding", "MutateImmutable",
                        "OwnershipModeMismatch", "ArgCountMismatch", "PipeOwnershipConflict"}
  BY DEF TInv, ErrorKinds
<1> QED
  BY <1>1, <1>2, <1>3 DEF SemaTypeOK, TInv

(* The types of the checker's state, and that what may be assigned to is    *)
(* what was declared mut, in every file (SemaTypeOK).                       *)
THEOREM SemaTypesCorrect == Spec => []SemaTypeOK
BY InitTypes, TypesStep, TypesHold, PTL DEF Spec

-----------------------------------------------------------------------------
(* The invariant.                                                           *)

(* In the frame of a block the checker has what the source binds there, and *)
(* payloads that were left over.                                            *)
Linked(fs, sc, L) ==
    /\ Len(sc) = Len(fs)
    /\ \A i \in DOMAIN fs :
          /\ DOMAIN sc[i] \subseteq DOMAIN fs[i]
          /\ \A n \in DOMAIN fs[i] :
                fs[i][n].id \in L \/ (n \in DOMAIN sc[i] /\ sc[i][n] = fs[i][n].id)

Fine(fs, sc, L, b) == Linked(fs, sc, L) /\ Separate(fs) /\ IdsBelow(fs, b) /\ Below(L, b)

Holds(fs, sc, L, b, Sets) == Fine(fs, sc, L, b) /\ \A S \in Sets : Marked(fs, S, b)

(* What is gone on the paths that the checker may still follow.             *)
Gones(p, o) == {p.gone} \cup {o[i].before.gone : i \in DOMAIN o}

SInv ==
    /\ Holds(frames, env, leftover, nextId, Gones(path, open))
    /\ AcceptedNeverUsesMoved

(* gs has of fs what it has, and new bindings numbered from b below d.      *)
Old(fs, gs, i, n) == i \in DOMAIN fs /\ n \in DOMAIN fs[i] /\ gs[i][n] = fs[i][n]

ExtendedTo(fs, gs, b, d) ==
    /\ \A i \in DOMAIN gs : \A n \in DOMAIN gs[i] :
          Old(fs, gs, i, n) \/ (gs[i][n].id \in b..(d - 1) /\ ~gs[i][n].moved)
    /\ \A i, j \in DOMAIN gs : \A n \in DOMAIN gs[i], k \in DOMAIN gs[j] :
          ~Old(fs, gs, i, n) /\ ~Old(fs, gs, j, k) /\ gs[i][n].id = gs[j][k].id => i = j /\ n = k

LEMMA ExtendedMarks ==
  ASSUME NEW fs, NEW gs, NEW b \in Int, NEW d \in Int, b <= d, ExtendedTo(fs, gs, b, d),
         NEW S, Marked(fs, S, b)
  PROVE  Marked(gs, S, d)
<1>1. ASSUME NEW i \in DOMAIN gs, NEW n \in DOMAIN gs[i], gs[i][n].id \in S
      PROVE  gs[i][n].moved
  <2>1. gs[i][n].id \in Int /\ gs[i][n].id < b
    BY <1>1 DEF Marked, Below
  <2>2. gs[i][n].id \notin b..(d - 1)
    BY <2>1
  <2>3. Old(fs, gs, i, n)
    BY <2>2 DEF ExtendedTo
  <2> QED
    BY <1>1, <2>3 DEF Marked, Known, Old
<1>2. ASSUME NEW id \in S PROVE id \in Int /\ id < d
  <2>1. id \in Int /\ id < b
    BY DEF Marked, Below
  <2> QED
    BY <2>1
<1> QED
  BY <1>1, <1>2 DEF Marked, Known, Below

LEMMA ExtendedIds ==
  ASSUME NEW fs \in Seq(Frame), NEW gs, NEW b \in Int, NEW d \in Int, b <= d,
         ExtendedTo(fs, gs, b, d), Separate(fs), IdsBelow(fs, b)
  PROVE  Separate(gs) /\ IdsBelow(gs, d)
<1>1. ASSUME NEW i \in DOMAIN gs, NEW n \in DOMAIN gs[i]
      PROVE  /\ gs[i][n].id \in Int /\ gs[i][n].id < d
             /\ gs[i][n].id < b <=> Old(fs, gs, i, n)
  <2>1. CASE Old(fs, gs, i, n)
    <3>1. i \in DOMAIN fs /\ n \in DOMAIN fs[i] /\ gs[i][n] = fs[i][n]
      BY <2>1 DEF Old
    <3>2. fs[i][n] \in BindingType /\ fs[i][n].id < b
      BY <3>1, FramesAre DEF IdsBelow
    <3>3. fs[i][n].id \in Int
      BY <3>2 DEF BindingType
    <3> QED
      BY <2>1, <3>1, <3>2, <3>3
  <2>2. CASE ~Old(fs, gs, i, n)
    <3>1. gs[i][n].id \in b..(d - 1)
      BY <2>2 DEF ExtendedTo
    <3> QED
      BY <2>2, <3>1
  <2> QED
    BY <2>1, <2>2
<1>2. IdsBelow(gs, d)
  BY <1>1 DEF IdsBelow
<1>3. ASSUME NEW i \in DOMAIN gs, NEW j \in DOMAIN gs, NEW n \in DOMAIN gs[i],
             NEW k \in DOMAIN gs[j], gs[i][n].id = gs[j][k].id
      PROVE  i = j /\ n = k
  <2>1. Old(fs, gs, i, n) <=> Old(fs, gs, j, k)
    BY <1>1, <1>3
  <2>2. CASE Old(fs, gs, i, n)
    BY <1>3, <2>1, <2>2 DEF Old, Separate
  <2>3. CASE ~Old(fs, gs, i, n)
    BY <1>3, <2>1, <2>3 DEF ExtendedTo
  <2> QED
    BY <2>2, <2>3
<1>4. Separate(gs)
  BY <1>3 DEF Separate
<1> QED
  BY <1>2, <1>4

(* What is left to show of a change of the scopes.                          *)
LEMMA HoldsExtended ==
  ASSUME NEW fs \in Seq(Frame), NEW gs, NEW sc, NEW rc, NEW L, NEW M,
         NEW b \in Int, NEW d \in Int, b <= d, NEW Sets, Holds(fs, sc, L, b, Sets),
         ExtendedTo(fs, gs, b, d), Linked(gs, rc, M), Below(M, d)
  PROVE  Holds(gs, rc, M, d, Sets)
<1>1. Separate(fs) /\ IdsBelow(fs, b) /\ \A S \in Sets : Marked(fs, S, b)
  BY DEF Holds, Fine
<1>2. Separate(gs) /\ IdsBelow(gs, d)
  BY <1>1, ExtendedIds
<1>3. \A S \in Sets : Marked(gs, S, d)
  BY <1>1, ExtendedMarks
<1> QED
  BY <1>2, <1>3 DEF Holds, Fine

LEMMA HoldsSame ==
  ASSUME NEW fs \in Seq(Frame), NEW gs \in Seq(Frame), SameShape(fs, gs), NEW sc, NEW L, NEW b,
         NEW Sets, Holds(fs, sc, L, b, Sets)
  PROVE  Holds(gs, sc, L, b, Sets)
<1>1. Linked(fs, sc, L) /\ Separate(fs) /\ IdsBelow(fs, b) /\ Below(L, b)
  BY DEF Holds, Fine
<1>2. Separate(gs) /\ IdsBelow(gs, b)
  BY <1>1, IdsSame
<1>3. Linked(gs, sc, L)
  <2>1. Len(sc) = Len(gs) /\ DOMAIN gs = DOMAIN fs
    BY <1>1 DEF Linked, SameShape
  <2>2. ASSUME NEW i \in DOMAIN gs
        PROVE  /\ DOMAIN sc[i] \subseteq DOMAIN gs[i]
               /\ \A n \in DOMAIN gs[i] :
                     gs[i][n].id \in L \/ (n \in DOMAIN sc[i] /\ sc[i][n] = gs[i][n].id)
    <3>1. DOMAIN gs[i] = DOMAIN fs[i] /\ \A n \in DOMAIN fs[i] : gs[i][n].id = fs[i][n].id
      BY <2>1 DEF SameShape
    <3> QED
      BY <1>1, <2>1, <3>1 DEF Linked
  <2> QED
    BY <2>1, <2>2 DEF Linked
<1>4. \A S \in Sets : Marked(gs, S, b)
  BY MarkedSame DEF Holds
<1> QED
  BY <1>1, <1>2, <1>3, <1>4 DEF Holds, Fine

(* Each of the other sets is within two of these.                           *)
LEMMA HoldsWithin ==
  ASSUME NEW fs, NEW sc, NEW L, NEW b, NEW Sets, Holds(fs, sc, L, b, Sets), NEW Others,
         \A T \in Others : \E R, S \in Sets : T \subseteq R \cup S
  PROVE  Holds(fs, sc, L, b, Others)
<1>1. ASSUME NEW T \in Others PROVE Marked(fs, T, b)
  <2>1. PICK R \in Sets, S \in Sets : T \subseteq R \cup S
    OBVIOUS
  <2>2. Marked(fs, R, b) /\ Marked(fs, S, b)
    BY DEF Holds
  <2>3. Known(fs, T)
    BY <2>1, <2>2 DEF Marked, Known
  <2>4. Below(T, b)
    BY <2>1, <2>2 DEF Marked, Below
  <2> QED
    BY <2>3, <2>4 DEF Marked
<1> QED
  BY <1>1 DEF Holds

(* A binding in the innermost scope, for the rest of it or an arm.          *)
LEMMA DefineExtends ==
  ASSUME NEW fs \in Seq(Frame), fs # <<>>, NEW n \in AllNames, NEW mode \in Modes, NEW b \in Int
  PROVE  ExtendedTo(fs, Define(fs, n, Binding(mode, b)), b, b + 1)
<1> DEFINE bnd == Binding(mode, b)  gs == Define(fs, n, bnd)  l == Len(fs)
<1>1. bnd \in BindingType /\ bnd.id = b /\ ~bnd.moved
  BY BindingIs
<1> HIDE DEF bnd
<1>2. /\ gs \in Seq(Frame) /\ Len(gs) = Len(fs) /\ l \in DOMAIN fs
      /\ \A i \in DOMAIN fs : i # l => gs[i] = fs[i]
      /\ DOMAIN gs[l] = {n} \cup DOMAIN fs[l] /\ gs[l][n] = bnd
      /\ \A k \in DOMAIN fs[l] : k # n => gs[l][k] = fs[l][k]
  BY <1>1, DefineIs DEF Frame
<1>3. DOMAIN gs = DOMAIN fs
  BY <1>2, SeqFacts
<1> HIDE DEF gs, l
<1>4. ASSUME NEW i \in DOMAIN gs, NEW x \in DOMAIN gs[i]
      PROVE  Old(fs, gs, i, x) \/ (i = l /\ x = n)
  <2>1. CASE i # l
    BY <1>2, <1>3, <2>1 DEF Old
  <2>2. CASE i = l /\ x # n
    BY <1>2, <1>3, <2>2 DEF Old
  <2> QED
    BY <2>1, <2>2
<1>5. gs[l][n].id \in b..(b + 1 - 1) /\ ~gs[l][n].moved
  BY <1>1, <1>2
<1>6. ExtendedTo(fs, gs, b, b + 1)
  BY <1>4, <1>5 DEF ExtendedTo
<1> QED
  BY <1>6 DEF gs, bnd

LEMMA HoldsDefine ==
  ASSUME NEW fs \in Seq(Frame), fs # <<>>, NEW sc \in Seq(Scope), NEW L, NEW b \in Int, NEW Sets,
         Holds(fs, sc, L, b, Sets), NEW n \in AllNames, NEW mode \in Modes
  PROVE  /\ Holds(Define(fs, n, Binding(mode, b)), Define(sc, n, b), L, b + 1, Sets)
         /\ Holds(Define(fs, n, Binding(mode, b)), sc, L \cup {b}, b + 1, Sets)
<1> DEFINE bnd == Binding(mode, b)  gs == Define(fs, n, bnd)  rc == Define(sc, n, b)
           l == Len(fs)
<1>1. bnd \in BindingType /\ bnd.id = b
  BY BindingIs
<1>2. Linked(fs, sc, L) /\ Below(L, b)
  BY DEF Holds, Fine
<1>3. ExtendedTo(fs, gs, b, b + 1)
  BY DefineExtends
<1> HIDE DEF bnd
<1>4. /\ gs \in Seq(Frame) /\ Len(gs) = l /\ l \in DOMAIN fs
      /\ \A i \in DOMAIN fs : i # l => gs[i] = fs[i]
      /\ DOMAIN gs[l] = {n} \cup DOMAIN fs[l] /\ gs[l][n] = bnd
      /\ \A k \in DOMAIN fs[l] : k # n => gs[l][k] = fs[l][k]
  BY <1>1, DefineIs DEF Frame
<1>5. Len(sc) = l /\ sc # <<>>
  BY <1>2 DEF Linked
<1>6. /\ Len(rc) = l
      /\ \A i \in DOMAIN sc : i # l => rc[i] = sc[i]
      /\ DOMAIN rc[l] = {n} \cup DOMAIN sc[l] /\ rc[l][n] = b
      /\ \A k \in DOMAIN sc[l] : k # n => rc[l][k] = sc[l][k]
  BY <1>5, DefineIs DEF Scope
<1>7. DOMAIN gs = DOMAIN fs /\ DOMAIN sc = DOMAIN fs
  BY <1>4, <1>5, SeqFacts
<1>8. \A i \in DOMAIN fs : /\ DOMAIN sc[i] \subseteq DOMAIN fs[i]
                           /\ \A k \in DOMAIN fs[i] : fs[i][k].id \in L \/
                                 (k \in DOMAIN sc[i] /\ sc[i][k] = fs[i][k].id)
  BY <1>2 DEF Linked
<1> HIDE DEF gs, rc, l
<1>9. Linked(gs, rc, L)
  <2>1. ASSUME NEW i \in DOMAIN gs
        PROVE  /\ DOMAIN rc[i] \subseteq DOMAIN gs[i]
               /\ \A k \in DOMAIN gs[i] :
                     gs[i][k].id \in L \/ (k \in DOMAIN rc[i] /\ rc[i][k] = gs[i][k].id)
    <3>1. CASE i # l
      <4>1. gs[i] = fs[i] /\ rc[i] = sc[i]
        BY <1>4, <1>6, <1>7, <3>1
      <4> QED
        BY <1>7, <1>8, <4>1
    <3>2. CASE i = l
      <4>1. DOMAIN rc[l] \subseteq DOMAIN gs[l]
        BY <1>4, <1>6, <1>8
      <4>2. ASSUME NEW k \in DOMAIN gs[l]
            PROVE  gs[l][k].id \in L \/ (k \in DOMAIN rc[l] /\ rc[l][k] = gs[l][k].id)
        <5>1. CASE k = n
          BY <1>1, <1>4, <1>6, <5>1
        <5>2. CASE k # n
          <6>1. k \in DOMAIN fs[l] /\ gs[l][k] = fs[l][k]
            BY <1>4, <5>2
          <6>2. fs[l][k].id \in L \/ (k \in DOMAIN sc[l] /\ sc[l][k] = fs[l][k].id)
            BY <1>4, <1>8, <6>1
          <6> QED
            BY <1>6, <5>2, <6>1, <6>2
        <5> QED
          BY <5>1, <5>2
      <4> QED
        BY <3>2, <4>1, <4>2
    <3> QED
      BY <3>1, <3>2
  <2> QED
    BY <1>4, <1>6, <2>1 DEF Linked
<1>10. Linked(gs, sc, L \cup {b})
  <2>1. ASSUME NEW i \in DOMAIN gs
        PROVE  /\ DOMAIN sc[i] \subseteq DOMAIN gs[i]
               /\ \A k \in DOMAIN gs[i] :
                     gs[i][k].id \in L \cup {b} \/ (k \in DOMAIN sc[i] /\ sc[i][k] = gs[i][k].id)
    <3>1. CASE i # l
      <4>1. gs[i] = fs[i]
        BY <1>4, <1>7, <3>1
      <4> QED
        BY <1>7, <1>8, <4>1
    <3>2. CASE i = l
      <4>1. DOMAIN sc[l] \subseteq DOMAIN gs[l]
        BY <1>4, <1>8
      <4>2. ASSUME NEW k \in DOMAIN gs[l]
            PROVE  gs[l][k].id \in L \cup {b} \/ (k \in DOMAIN sc[l] /\ sc[l][k] = gs[l][k].id)
        <5>1. CASE k = n
          BY <1>1, <1>4, <5>1
        <5>2. CASE k # n
          <6>1. k \in DOMAIN fs[l] /\ gs[l][k] = fs[l][k]
            BY <1>4, <5>2
          <6> QED
            BY <1>4, <1>8, <6>1
        <5> QED
          BY <5>1, <5>2
      <4> QED
        BY <3>2, <4>1, <4>2
    <3> QED
      BY <3>1, <3>2
  <2> QED
    BY <1>4, <1>5, <2>1 DEF Linked
<1>11. b <= b + 1 /\ b + 1 \in Int /\ Below(L, b + 1) /\ Below(L \cup {b}, b + 1)
  <2>1. ASSUME NEW id \in L PROVE id \in Int /\ id < b + 1
    <3>1. id \in Int /\ id < b
      BY <1>2 DEF Below
    <3> QED
      BY <3>1
  <2> QED
    BY <2>1 DEF Below
<1>12. Holds(gs, rc, L, b + 1, Sets)
  BY <1>3, <1>9, <1>11, HoldsExtended DEF gs
<1>13. Holds(gs, sc, L \cup {b}, b + 1, Sets)
  BY <1>3, <1>10, <1>11, HoldsExtended DEF gs
<1> QED
  BY <1>12, <1>13 DEF gs, rc, bnd

(* A scope is opened ...                                                    *)
Entered(ids, modes) == [n \in DOMAIN ids |-> Binding(modes[n], ids[n])]

LEMMA HoldsAppend ==
  ASSUME NEW fs \in Seq(Frame), NEW sc \in Seq(Scope), NEW L, NEW b \in Int, NEW d \in Int, b <= d,
         NEW Sets, Holds(fs, sc, L, b, Sets), NEW ids \in Scope, NEW modes,
         \A n \in DOMAIN ids : modes[n] \in Modes /\ ids[n] \in b..(d - 1),
         \A n, k \in DOMAIN ids : ids[n] = ids[k] => n = k
  PROVE  Holds(Append(fs, Entered(ids, modes)), Append(sc, ids), L, d, Sets)
<1> DEFINE f == Entered(ids, modes)  gs == Append(fs, f)  rc == Append(sc, ids)  l == Len(fs)
<1>1. /\ f \in Frame /\ DOMAIN f = DOMAIN ids
      /\ \A n \in DOMAIN ids : f[n].id = ids[n] /\ ~f[n].moved
  BY EnteredIs DEF Entered
<1> HIDE DEF f
<1>2. /\ gs \in Seq(Frame) /\ Len(gs) = l + 1 /\ gs[l + 1] = f
      /\ \A i \in DOMAIN fs : gs[i] = fs[i]
  BY <1>1, AppendIs
<1>3. Linked(fs, sc, L) /\ Below(L, b)
  BY DEF Holds, Fine
<1>4. Len(sc) = l
  BY <1>3 DEF Linked
<1>5. /\ Len(rc) = l + 1 /\ rc[l + 1] = ids
      /\ \A i \in DOMAIN sc : rc[i] = sc[i]
  BY <1>4, AppendIs
<1>6. l \in Nat /\ DOMAIN fs = 1..l /\ DOMAIN sc = 1..l /\ DOMAIN gs = 1..(l + 1)
  BY <1>2, <1>4, SeqFacts
<1> HIDE DEF gs, rc, l
<1>7. \A i \in DOMAIN gs : i \in DOMAIN fs \/ i = l + 1
  BY <1>6
<1>8. ASSUME NEW i \in DOMAIN gs, NEW n \in DOMAIN gs[i]
      PROVE  Old(fs, gs, i, n) \/ (i = l + 1 /\ n \in DOMAIN ids)
  <2>1. CASE i \in DOMAIN fs
    BY <1>2, <2>1 DEF Old
  <2>2. CASE i = l + 1
    BY <1>1, <1>2, <2>2
  <2> QED
    BY <1>7, <2>1, <2>2
<1>9. ExtendedTo(fs, gs, b, d)
  <2>1. ASSUME NEW i \in DOMAIN gs, NEW n \in DOMAIN gs[i], ~Old(fs, gs, i, n)
        PROVE  i = l + 1 /\ n \in DOMAIN ids /\ gs[i][n].id = ids[n] /\ ~gs[i][n].moved
    BY <1>1, <1>2, <1>8, <2>1
  <2> QED
    BY <2>1 DEF ExtendedTo
<1>10. Linked(gs, rc, L)
  <2>1. ASSUME NEW i \in DOMAIN gs
        PROVE  /\ DOMAIN rc[i] \subseteq DOMAIN gs[i]
               /\ \A n \in DOMAIN gs[i] :
                     gs[i][n].id \in L \/ (n \in DOMAIN rc[i] /\ rc[i][n] = gs[i][n].id)
    <3>1. CASE i \in DOMAIN fs
      <4>1. gs[i] = fs[i] /\ rc[i] = sc[i]
        BY <1>2, <1>5, <1>6, <3>1
      <4> QED
        BY <1>3, <3>1, <4>1 DEF Linked
    <3>2. CASE i = l + 1
      BY <1>1, <1>2, <1>5, <3>2
    <3> QED
      BY <1>7, <3>1, <3>2
  <2> QED
    BY <1>2, <1>5, <2>1 DEF Linked
<1>11. Below(L, d)
  <2>1. ASSUME NEW id \in L PROVE id \in Int /\ id < d
    <3>1. id \in Int /\ id < b
      BY <1>3 DEF Below
    <3> QED
      BY <3>1
  <2> QED
    BY <2>1 DEF Below
<1> QED
  BY <1>9, <1>10, <1>11, HoldsExtended DEF gs, rc, f

(* ... and closed.                                                          *)
LEMMA HoldsFront ==
  ASSUME NEW fs \in Seq(Frame), fs # <<>>, NEW sc \in Seq(Scope), NEW L, NEW b \in Int,
         NEW Sets, Holds(fs, sc, L, b, Sets)
  PROVE  /\ Holds(Front(fs), Front(sc), L, b, Sets)
         /\ Front(fs) \in Seq(Frame) /\ Front(sc) \in Seq(Scope)
<1> DEFINE gs == Front(fs)  rc == Front(sc)  l == Len(fs)
<1>1. Linked(fs, sc, L) /\ Below(L, b)
  BY DEF Holds, Fine
<1>2. Len(sc) = l /\ sc # <<>>
  BY <1>1 DEF Linked
<1>3. /\ gs \in Seq(Frame) /\ Len(gs) = l - 1
      /\ \A i \in 1..(l - 1) : i \in DOMAIN fs /\ gs[i] = fs[i]
  BY FrontIs
<1>4. /\ rc \in Seq(Scope) /\ Len(rc) = l - 1
      /\ \A i \in 1..(l - 1) : rc[i] = sc[i]
  BY <1>2, FrontIs
<1>5. DOMAIN gs = 1..(l - 1)
  BY <1>3, SeqFacts
<1> HIDE DEF gs, rc, l
<1>6. ExtendedTo(fs, gs, b, b)
  <2>1. ASSUME NEW i \in DOMAIN gs, NEW n \in DOMAIN gs[i] PROVE Old(fs, gs, i, n)
    BY <1>3, <1>5 DEF Old
  <2> QED
    BY <2>1 DEF ExtendedTo
<1>7. Linked(gs, rc, L)
  <2>1. ASSUME NEW i \in DOMAIN gs
        PROVE  /\ DOMAIN rc[i] \subseteq DOMAIN gs[i]
               /\ \A n \in DOMAIN gs[i] :
                     gs[i][n].id \in L \/ (n \in DOMAIN rc[i] /\ rc[i][n] = gs[i][n].id)
    <3>1. i \in DOMAIN fs /\ gs[i] = fs[i] /\ rc[i] = sc[i]
      BY <1>3, <1>4, <1>5
    <3> QED
      BY <1>1, <3>1 DEF Linked
  <2> QED
    BY <1>3, <1>4, <2>1 DEF Linked
<1>8. Holds(gs, rc, L, b, Sets)
  BY <1>1, <1>6, <1>7, HoldsExtended
<1> QED
  BY <1>3, <1>4, <1>8 DEF gs, rc

-----------------------------------------------------------------------------
(* What is accepted uses nothing that is gone: the steps.                   *)

(* A name means the same to checker and source, but where it is hidden.     *)
LEMMA LinkedAgrees ==
  ASSUME NEW v, v.frames \in Seq(Frame), v.env \in Seq(Scope),
         Linked(v.frames, v.env, v.leftover)
  PROVE  Agree(v)
<1> DEFINE fs == v.frames  sc == v.env
<1> SUFFICES ASSUME NEW n, ~Hidden(v, n) PROVE Found(fs, n) = Denotes(sc, n)
  BY DEF Agree
<1>1. fs \in Seq(Frame) /\ sc \in Seq(Scope) /\ Linked(fs, sc, v.leftover)
  OBVIOUS
<1>2. Found(fs, n) \cap v.leftover = {}
  BY DEF Hidden
<1> HIDE DEF fs, sc
<1>3. DOMAIN sc = DOMAIN fs
  BY <1>1, SeqFacts DEF Linked
<1>4. \A i \in DOMAIN sc : n \in DOMAIN sc[i] => n \in DOMAIN fs[i]
  BY <1>1, <1>3 DEF Linked
<1>5. CASE ~Bound(fs, n)
  <2>1. ~Bound(sc, n)
    BY <1>3, <1>4, <1>5 DEF Bound, Holders
  <2> QED
    BY <1>5, <2>1 DEF Found, Denotes
<1>6. CASE Bound(fs, n)
  <2> DEFINE k == FrameOf(fs, n)
  <2>1. /\ k \in DOMAIN fs /\ n \in DOMAIN fs[k]
        /\ \A j \in DOMAIN fs : n \in DOMAIN fs[j] => j <= k
    BY <1>1, <1>6, FrameOfIs
  <2>2. Found(fs, n) = {fs[k][n].id}
    BY <1>6 DEF Found, Lookup
  <2> HIDE DEF k
  <2>3. n \in DOMAIN sc[k] /\ sc[k][n] = fs[k][n].id
    BY <1>1, <1>2, <2>1, <2>2 DEF Linked
  <2>4. Bound(sc, n) /\ FrameOf(sc, n) = k
    BY <1>1, <1>3, <1>4, <2>1, <2>3, FrameOfUnique
  <2>5. Denotes(sc, n) = {sc[k][n]}
    BY <2>4 DEF Denotes, Lookup
  <2> QED
    BY <2>2, <2>3, <2>5
<1>7. Found(fs, n) = Denotes(sc, n)
  BY <1>5, <1>6
<1> QED
  BY <1>7 DEF fs, sc

(* What an arm finds, and what is meant there.                              *)
LEMMA DefineFinds ==
  ASSUME NEW fs \in Seq(Frame), fs # <<>>, NEW n \in AllNames, NEW bnd \in BindingType, NEW x
  PROVE  Found(Define(fs, n, bnd), x) = IF x = n THEN {bnd.id} ELSE Found(fs, x)
<1> DEFINE gs == Define(fs, n, bnd)  l == Len(fs)
<1>1. /\ gs \in Seq(Frame) /\ Len(gs) = l /\ l \in DOMAIN fs
      /\ \A i \in DOMAIN fs : i # l => gs[i] = fs[i]
      /\ DOMAIN gs[l] = {n} \cup DOMAIN fs[l] /\ gs[l][n] = bnd
      /\ \A k \in DOMAIN fs[l] : k # n => gs[l][k] = fs[l][k]
  BY DefineIs DEF Frame
<1>2. l \in Nat /\ DOMAIN gs = 1..l /\ DOMAIN fs = 1..l
  BY <1>1, SeqFacts
<1> HIDE DEF gs, l
<1>3. CASE x = n
  <2>1. l \in DOMAIN gs /\ n \in DOMAIN gs[l]
        /\ \A j \in DOMAIN gs : n \in DOMAIN gs[j] => j <= l
    BY <1>1, <1>2
  <2>2. Bound(gs, n) /\ FrameOf(gs, n) = l
    BY <1>1, <2>1, FrameOfUnique
  <2>3. Found(gs, n) = {gs[l][n].id}
    BY <2>2 DEF Found, Lookup
  <2> QED
    BY <1>1, <1>3, <2>3 DEF gs
<1>4. CASE x # n
  <2>1. \A i \in DOMAIN fs : x \in DOMAIN gs[i] <=> x \in DOMAIN fs[i]
    BY <1>1, <1>4
  <2>2. DOMAIN gs = DOMAIN fs
    BY <1>2
  <2>3. FrameOf(gs, x) = FrameOf(fs, x) /\ (Bound(gs, x) <=> Bound(fs, x))
    BY <2>1, <2>2, FrameOfSame
  <2>4. CASE ~Bound(fs, x)
    BY <1>4, <2>3, <2>4 DEF Found, gs
  <2>5. CASE Bound(fs, x)
    <3> DEFINE k == FrameOf(fs, x)
    <3>1. k \in DOMAIN fs /\ x \in DOMAIN fs[k]
      BY <2>5, FrameOfIs
    <3> HIDE DEF k
    <3>2. gs[k][x] = fs[k][x]
      BY <1>1, <1>4, <3>1
    <3>3. Found(gs, x) = {gs[k][x].id} /\ Found(fs, x) = {fs[k][x].id}
      BY <2>3, <2>5 DEF Found, Lookup, k
    <3> QED
      BY <1>4, <3>2, <3>3 DEF gs
  <2> QED
    BY <2>4, <2>5
<1> QED
  BY <1>3, <1>4

LEMMA AppendDenotes ==
  ASSUME NEW sc \in Seq(Scope), NEW s \in Scope, NEW n, DOMAIN s = {n}, NEW x
  PROVE  Denotes(Append(sc, s), x) = IF x = n THEN {s[n]} ELSE Denotes(sc, x)
<1> DEFINE rc == Append(sc, s)  l == Len(sc)
<1>1. /\ rc \in Seq(Scope) /\ Len(rc) = l + 1 /\ rc[l + 1] = s
      /\ \A i \in DOMAIN sc : rc[i] = sc[i]
  BY AppendIs
<1>2. l \in Nat /\ DOMAIN rc = 1..(l + 1) /\ DOMAIN sc = 1..l
  BY <1>1, SeqFacts
<1> HIDE DEF rc, l
<1>3. CASE x = n
  <2>1. l + 1 \in DOMAIN rc /\ n \in DOMAIN rc[l + 1]
        /\ \A j \in DOMAIN rc : n \in DOMAIN rc[j] => j <= l + 1
    BY <1>1, <1>2
  <2>2. Bound(rc, n) /\ FrameOf(rc, n) = l + 1
    BY <1>1, <2>1, FrameOfUnique
  <2>3. Denotes(rc, n) = {rc[l + 1][n]}
    BY <2>2 DEF Denotes, Lookup
  <2> QED
    BY <1>1, <1>3, <2>3 DEF rc
<1>4. CASE x # n
  <2>1. ASSUME NEW i \in DOMAIN rc, x \in DOMAIN rc[i]
        PROVE  i \in DOMAIN sc /\ rc[i] = sc[i] /\ x \in DOMAIN sc[i]
    <3>1. i # l + 1
      BY <1>1, <1>4, <2>1
    <3>2. i \in DOMAIN sc
      BY <1>2, <3>1
    <3> QED
      BY <1>1, <2>1, <3>2
  <2>2. CASE ~Bound(sc, x)
    <3>1. ~Bound(rc, x)
      BY <2>1, <2>2 DEF Bound, Holders
    <3> QED
      BY <1>4, <2>2, <3>1 DEF Denotes, rc
  <2>3. CASE Bound(sc, x)
    <3> DEFINE k == FrameOf(sc, x)
    <3>1. /\ k \in DOMAIN sc /\ x \in DOMAIN sc[k]
          /\ \A j \in DOMAIN sc : x \in DOMAIN sc[j] => j <= k
      BY <2>3, FrameOfIs
    <3> HIDE DEF k
    <3>2. k \in DOMAIN rc /\ x \in DOMAIN rc[k] /\ rc[k] = sc[k]
      BY <1>1, <1>2, <3>1
    <3>3. Bound(rc, x) /\ FrameOf(rc, x) = k
      BY <1>1, <2>1, <3>1, <3>2, FrameOfUnique
    <3>4. Denotes(rc, x) = {rc[k][x]} /\ Denotes(sc, x) = {sc[k][x]}
      BY <2>3, <3>3 DEF Denotes, Lookup, k
    <3> QED
      BY <1>4, <3>2, <3>4 DEF rc
  <2> QED
    BY <2>2, <2>3
<1> QED
  BY <1>3, <1>4

(* The checker and the source after an expression of a state that is safe.  *)
After(c, m) ==
    /\ Grows(Now, c) /\ m \in Meanings
    /\ Holds(c.frames, env, leftover, nextId, Gones(m.path, open))
    /\ c.errors = {} => "followed" \notin m.misused

LEMMA SoundNow ==
  ASSUME TInv, SInv, NEW c, Grows(Now, c)
  PROVE  Sound(View, c, Meaning, nextId)
<1>1. /\ Linked(frames, env, leftover) /\ Separate(frames) /\ IdsBelow(frames, nextId)
      /\ Marked(frames, path.gone, nextId)
      /\ errors = {} => "followed" \notin misused
  BY DEF SInv, Holds, Fine, Gones, AcceptedNeverUsesMoved
<1>2. /\ View.frames = frames /\ View.frames \in Seq(Frame)
      /\ View.env = env /\ View.env \in Seq(Scope) /\ View.leftover = leftover
  BY ViewIs
<1>3. Agree(View)
  BY <1>1, <1>2, LinkedAgrees
<1>4. /\ Now \in Checker /\ Now.frames = frames /\ Now.errors = errors
      /\ Meaning.path = path /\ Meaning.misused = misused
  BY NowIs
<1>5. SameShape(frames, frames)
  BY <1>4, GrowsSelf DEF Grows
<1>6. Sound(View, Now, Meaning, nextId)
  BY <1>1, <1>2, <1>3, <1>4, <1>5 DEF Sound
<1> QED
  BY <1>2, <1>4, <1>6, SoundGrows

LEMMA HoldsAfter ==
  ASSUME TInv, SInv, NEW c, NEW m \in Meanings, Grows(Now, c), Sound(View, c, m, nextId)
  PROVE  After(c, m)
<1>1. Now \in Checker /\ Now.frames = frames
  BY NowIs
<1>2. /\ frames \in Seq(Frame) /\ c.frames \in Seq(Frame) /\ SameShape(frames, c.frames)
  BY <1>1 DEF Grows, Checker
<1>3. Holds(c.frames, env, leftover, nextId, Gones(path, open))
  BY <1>2, HoldsSame DEF SInv
<1>4. Marked(c.frames, m.path.gone, nextId)
  BY DEF Sound
<1>5. Holds(c.frames, env, leftover, nextId, Gones(m.path, open))
  BY <1>3, <1>4 DEF Holds, Gones
<1>6. c.errors = {} => "followed" \notin m.misused
  BY DEF Sound
<1> QED
  BY <1>5, <1>6 DEF After

LEMMA ExprAfter ==
  ASSUME TInv, SInv, NEW c, Grows(Now, c), NEW e \in Exprs
  PROVE  After(Infer(c, e), Mean(View, Meaning, e))
<1>1. Sound(View, c, Meaning, nextId)
  BY SoundNow
<1>2. c \in Checker /\ Now \in Checker
  BY NowIs DEF Grows
<1>3. /\ View.frames \in Seq(Frame) /\ View.env \in Seq(Scope) /\ Meaning \in Meanings
  BY ViewIs, NowIs
<1>4. /\ Sound(View, Infer(c, e), Mean(View, Meaning, e), nextId)
      /\ Grows(c, Infer(c, e)) /\ Mean(View, Meaning, e) \in Meanings
  BY <1>1, <1>2, <1>3, ExprSound
<1>5. Grows(Now, Infer(c, e))
  BY <1>2, <1>4, GrowsFurther
<1> QED
  BY <1>4, <1>5, HoldsAfter

LEMMA NowGrows == ASSUME TInv PROVE Grows(Now, Now)
BY NowIs, GrowsSelf

(* A statement that binds nothing.                                          *)
LEMMA StmtSafe ==
  ASSUME TInv, NEW c, NEW m, After(c, m), Becomes(c), UNCHANGED <<open, env, nextId, leftover>>,
         path'.gone \subseteq m.path.gone,
         "followed" \in misused' => "followed" \in m.misused
  PROVE  SInv'
<1>1. /\ Holds(c.frames, env, leftover, nextId, Gones(m.path, open))
      /\ c.errors = {} => "followed" \notin m.misused
  BY DEF After
<1>2. frames' = c.frames /\ errors' = c.errors
  BY DEF Becomes
<1>3. \A T \in Gones(path', open) : \E R, S \in Gones(m.path, open) : T \subseteq R \cup S
  BY DEF Gones
<1>4. Holds(c.frames, env, leftover, nextId, Gones(path', open))
  BY <1>1, <1>3, HoldsWithin
<1>5. Holds(frames', env', leftover', nextId', Gones(path', open'))
  BY <1>2, <1>4
<1>6. AcceptedNeverUsesMoved'
  BY <1>1, <1>2 DEF AcceptedNeverUsesMoved
<1> QED
  BY <1>5, <1>6 DEF SInv

LEMMA EvaluateSafe ==
  ASSUME TInv, SInv, NEW e \in Exprs, NEW how \in {"expr", "defer", "return"}, Evaluate(e, how)
  PROVE  SInv'
<1> DEFINE c == Infer(Now, e)  m == Mean(View, Meaning, e)
<1>1. After(c, m)
  BY NowGrows, ExprAfter
<1>2. /\ Becomes(c) /\ UNCHANGED <<open, env, nextId, leftover>>
      /\ Means(m) \/ Means(Defer(m, e)) \/ Means(Ending(m))
  BY DEF Evaluate
<1> HIDE DEF c, m
<1>3. m \in Meanings
  BY <1>1 DEF After
<1>4. /\ Defer(m, e).path.gone = m.path.gone /\ Defer(m, e).misused = m.misused
      /\ Ending(m).path = m.path
      /\ "followed" \in Ending(m).misused => "followed" \in m.misused
  BY <1>3, DeferIs, EndingIs DEF TInv
<1>5. path'.gone = m.path.gone /\ ("followed" \in misused' => "followed" \in m.misused)
  BY <1>2, <1>4 DEF Means
<1> QED
  BY <1>1, <1>2, <1>5, StmtSafe

LEMMA AssignSafe ==
  ASSUME TInv, SInv, NEW n \in Names, NEW e \in Exprs, Assign(n, e)
  PROVE  SInv'
<1> DEFINE d == Fail(Now, "MutateImmutable", Bound(frames, n) /\ ~Lookup(frames, n).mutable)
           c == Infer(d, e)  m == Mean(View, Meaning, e)
<1>1. Grows(Now, d)
  <2>1. "MutateImmutable" \in ErrorKinds
    BY DEF ErrorKinds
  <2> QED
    BY <2>1, NowIs, FailGrows
<1>2. /\ Becomes(c) /\ UNCHANGED <<open, env, nextId, leftover>> /\ Means(Restore(m, n))
  BY DEF Assign
<1> HIDE DEF d
<1>3. After(c, m)
  BY <1>1, ExprAfter
<1> HIDE DEF c, m
<1>4. Restore(m, n).path.gone \subseteq m.path.gone /\ Restore(m, n).misused = m.misused
  BY <1>3, RestoreIs DEF After
<1>5. path'.gone \subseteq m.path.gone /\ misused' = m.misused
  BY <1>2, <1>4 DEF Means
<1> QED
  BY <1>2, <1>3, <1>5, StmtSafe

LEMMA AssignToSafe ==
  ASSUME TInv, SInv, NEW n \in Names, NEW e \in Exprs, AssignTo(n, e)
  PROVE  SInv'
<1> DEFINE c == Infer(Now, e)  m == Mean(View, Meaning, e)  k == Use(View, m, n, "target")
<1>1. After(c, m)
  BY NowGrows, ExprAfter
<1>2. Becomes(c) /\ UNCHANGED <<open, env, nextId, leftover>> /\ Means(k)
  BY DEF AssignTo
<1> HIDE DEF c, m
<1>3. "target" \in Places /\ "target" \notin Visited
  BY DEF Places, Visited, Unvisited
<1>4. ~Followed(View, m, n, "target")
  BY <1>3, WayIs DEF Followed
<1>5. /\ k.path = m.path
      /\ "followed" \in k.misused => "followed" \in m.misused
  BY <1>1, <1>3, <1>4, ViewIs, UseIs DEF After
<1>6. path'.gone = m.path.gone /\ ("followed" \in misused' => "followed" \in m.misused)
  BY <1>2, <1>5 DEF Means
<1> QED
  BY <1>1, <1>2, <1>6, StmtSafe

LEMMA AfterFrames ==
  ASSUME TInv, NEW c, NEW m, After(c, m)
  PROVE  /\ c.frames \in Seq(Frame) /\ c.frames # <<>> /\ c \in Checker
         /\ env \in Seq(Scope) /\ nextId \in Int
         /\ m \in Meanings
         /\ Holds(c.frames, env, leftover, nextId, Gones(m.path, open))
         /\ c.errors = {} => "followed" \notin m.misused
BY InferredFrames DEF After, Grows, TInv

LEMMA BindSafe ==
  ASSUME TInv, SInv, NEW n \in Names, NEW mode \in Modes, NEW e \in Exprs, Bind(n, mode, e)
  PROVE  SInv'
<1> DEFINE c == Infer(Now, e)  m == Mean(View, Meaning, e)
           gs == Define(c.frames, n, Binding(mode, nextId))
<1>1. After(c, m)
  BY NowGrows, ExprAfter
<1>2. /\ c.frames \in Seq(Frame) /\ c.frames # <<>> /\ c \in Checker
      /\ env \in Seq(Scope) /\ nextId \in Int
      /\ Holds(c.frames, env, leftover, nextId, Gones(m.path, open))
      /\ c.errors = {} => "followed" \notin m.misused
  BY <1>1, AfterFrames
<1>3. /\ frames' = gs /\ errors' = c.errors /\ path' = m.path /\ misused' = m.misused
      /\ env' = Define(env, n, nextId) /\ nextId' = nextId + 1 /\ UNCHANGED <<open, leftover>>
  BY <1>2, WithFrames DEF Bind, Becomes, Means
<1> HIDE DEF c, m
<1>4. n \in AllNames
  BY DEF AllNames
<1>5. Holds(gs, Define(env, n, nextId), leftover, nextId + 1, Gones(m.path, open))
  BY <1>2, <1>4, HoldsDefine
<1> HIDE DEF gs
<1>6. Holds(frames', env', leftover', nextId', Gones(path', open'))
  BY <1>3, <1>5
<1>7. AcceptedNeverUsesMoved'
  BY <1>2, <1>3 DEF AcceptedNeverUsesMoved
<1> QED
  BY <1>6, <1>7 DEF SInv

(* The arm of a match, where the payload is meant.                          *)
LEMMA ArmAgrees ==
  ASSUME NEW fs \in Seq(Frame), fs # <<>>, NEW sc \in Seq(Scope), NEW L, Linked(fs, sc, L),
         NEW n \in AllNames, NEW bnd \in BindingType, NEW s \in Scope,
         DOMAIN s = {n}, s[n] = bnd.id,
         NEW v, v.frames = Define(fs, n, bnd), v.env = Append(sc, s), v.leftover = L
  PROVE  Agree(v)
<1> DEFINE u == [frames |-> fs, env |-> sc, leftover |-> L]
<1>1. u.frames = fs /\ u.env = sc /\ u.leftover = L
  OBVIOUS
<1> HIDE DEF u
<1>2. Agree(u)
  BY <1>1, LinkedAgrees
<1>3. ASSUME NEW x, ~Hidden(v, x) PROVE Found(v.frames, x) = Denotes(v.env, x)
  <2>1. Found(v.frames, x) = IF x = n THEN {bnd.id} ELSE Found(fs, x)
    BY DefineFinds
  <2>2. Denotes(v.env, x) = IF x = n THEN {s[n]} ELSE Denotes(sc, x)
    BY AppendDenotes
  <2>3. CASE x = n
    BY <2>1, <2>2, <2>3
  <2>4. CASE x # n
    <3>1. ~Hidden(u, x)
      BY <1>1, <1>3, <2>1, <2>4 DEF Hidden
    <3>2. Found(fs, x) = Denotes(sc, x)
      BY <1>1, <1>2, <3>1 DEF Agree
    <3> QED
      BY <2>1, <2>2, <2>4, <3>2
  <2> QED
    BY <2>3, <2>4
<1> QED
  BY <1>3 DEF Agree

LEMMA ArmSound ==
  ASSUME TInv, SInv, NEW c, NEW m, After(c, m), NEW n \in Payloads, NEW arm, NEW v,
         arm \in Checker, arm.frames = Define(c.frames, n, Binding("read", nextId)),
         arm.errors = c.errors, v.frames = arm.frames, v.leftover = leftover,
         v.env = Append(env, [k \in {n} |-> nextId])
  PROVE  /\ v.env \in Seq(Scope)
         /\ Sound(v, arm, m, nextId + 1)
         /\ Holds(arm.frames, env, leftover \cup {nextId}, nextId + 1, Gones(m.path, open))
<1> DEFINE bnd == Binding("read", nextId)  s == [k \in {n} |-> nextId]
           Sets == Gones(m.path, open)  gs == Define(c.frames, n, bnd)  rc == Define(env, n, nextId)
<1>1. /\ c.frames \in Seq(Frame) /\ c.frames # <<>> /\ c \in Checker
      /\ env \in Seq(Scope) /\ nextId \in Int
      /\ Holds(c.frames, env, leftover, nextId, Sets)
      /\ c.errors = {} => "followed" \notin m.misused
  BY AfterFrames
<1>2. n \in AllNames /\ "read" \in Modes
  BY DEF AllNames, Modes
<1>3. bnd \in BindingType /\ bnd.id = nextId
  BY <1>1, <1>2, BindingIs
<1>4. s \in Scope /\ v.env \in Seq(Scope) /\ DOMAIN s = {n} /\ s[n] = nextId
  BY <1>2, ArmScope
<1>5. arm.frames = gs /\ v.env = Append(env, s)
  OBVIOUS
<1> HIDE DEF Sets, s
<1>6. /\ Holds(gs, rc, leftover, nextId + 1, Sets)
      /\ Holds(gs, env, leftover \cup {nextId}, nextId + 1, Sets)
  BY <1>1, <1>2, HoldsDefine
<1> HIDE DEF gs, rc
<1>7. Linked(c.frames, env, leftover)
  BY <1>1 DEF Holds, Fine
<1>8. v.frames = Define(c.frames, n, bnd)
  BY <1>5 DEF gs
<1> HIDE DEF bnd
<1>9. s[n] = bnd.id
  BY <1>3, <1>4
<1>10. Agree(v)
  BY <1>1, <1>2, <1>3, <1>4, <1>5, <1>7, <1>8, <1>9, ArmAgrees
<1>11. SameShape(v.frames, arm.frames)
  BY GrowsSelf DEF Grows
<1>12. m.path.gone \in Sets
  BY DEF Sets, Gones
<1>13. /\ Separate(arm.frames) /\ IdsBelow(arm.frames, nextId + 1)
       /\ Marked(arm.frames, m.path.gone, nextId + 1)
  BY <1>5, <1>6, <1>12 DEF Holds, Fine
<1>14. Sound(v, arm, m, nextId + 1)
  BY <1>1, <1>10, <1>11, <1>13 DEF Sound
<1> QED
  BY <1>4, <1>5, <1>6, <1>14 DEF Sets

LEMMA MatchSafe ==
  ASSUME TInv, SInv, NEW e \in Exprs, NEW n \in Payloads, NEW body \in Exprs, Match(e, n, body)
  PROVE  SInv'
<1> DEFINE c == Infer(Now, e)  m == Mean(View, Meaning, e)
           gs == Define(c.frames, n, Binding("read", nextId))
           arm == [c EXCEPT !.frames = gs]
           v == [View EXCEPT !.frames = arm.frames, !.env = Append(@, [k \in {n} |-> nextId])]
           d == Infer(arm, body)  l == Mean(v, m, body)
<1>1. After(c, m)
  BY NowGrows, ExprAfter
<1>2. /\ Becomes(d) /\ Means(l) /\ nextId' = nextId + 1
      /\ leftover' = leftover \cup {nextId} /\ UNCHANGED <<open, env>>
  BY DEF Match
<1>3. /\ c.frames \in Seq(Frame) /\ c.frames # <<>> /\ c \in Checker /\ m \in Meanings
      /\ nextId \in Int
  BY <1>1, AfterFrames
<1>4. v.env = Append(env, [k \in {n} |-> nextId]) /\ v.leftover = leftover /\ v.frames = arm.frames
  BY DEF View
<1> HIDE DEF c, m, v, d, l
<1>5. gs \in Seq(Frame)
  <2>1. Binding("read", nextId) \in BindingType /\ n \in AllNames
    <3>1. "read" \in Modes
      BY DEF Modes
    <3> QED
      BY <1>3, <3>1, BindingIs DEF AllNames
  <2> QED
    BY <1>3, <2>1, DefineIs DEF Frame
<1>6. arm \in Checker /\ arm.frames = gs /\ arm.errors = c.errors
  <2> HIDE DEF gs
  <2>1. arm = [frames |-> gs, errors |-> c.errors]
    BY <1>3 DEF Checker
  <2> QED
    BY <1>3, <1>5, <2>1 DEF Checker
<1> HIDE DEF arm
<1>7. /\ v.env \in Seq(Scope)
      /\ Sound(v, arm, m, nextId + 1)
      /\ Holds(arm.frames, env, leftover \cup {nextId}, nextId + 1, Gones(m.path, open))
  BY <1>1, <1>4, <1>6, ArmSound
<1> HIDE DEF gs
<1>8. v.frames \in Seq(Frame)
  BY <1>4, <1>5, <1>6
<1>9. Sound(v, d, l, nextId + 1) /\ Grows(arm, d)
  BY <1>3, <1>6, <1>7, <1>8, ExprSound DEF d, l
<1>10. arm.frames \in Seq(Frame) /\ d.frames \in Seq(Frame) /\ SameShape(arm.frames, d.frames)
  BY <1>6, <1>9 DEF Grows, Checker
<1>11. Holds(d.frames, env, leftover \cup {nextId}, nextId + 1, Gones(m.path, open))
  BY <1>7, <1>10, HoldsSame
<1>12. Marked(d.frames, l.path.gone, nextId + 1)
  BY <1>9 DEF Sound
<1>13. Holds(d.frames, env, leftover \cup {nextId}, nextId + 1, Gones(l.path, open))
  BY <1>11, <1>12 DEF Holds, Gones
<1>14. frames' = d.frames /\ errors' = d.errors /\ path' = l.path /\ misused' = l.misused
  BY <1>2 DEF Becomes, Means
<1>15. Holds(frames', env', leftover', nextId', Gones(path', open'))
  BY <1>2, <1>13, <1>14
<1>16. AcceptedNeverUsesMoved'
  BY <1>9, <1>14 DEF AcceptedNeverUsesMoved, Sound
<1> QED
  BY <1>15, <1>16 DEF SInv

(* A block is entered.                                                      *)
LEMMA StillMarked ==
  ASSUME TInv, SInv, NEW c, Grows(Now, c)
  PROVE  Marked(c.frames, path.gone, nextId)
<1>1. Now \in Checker /\ Now.frames = frames
  BY NowIs
<1>2. /\ frames \in Seq(Frame) /\ c.frames \in Seq(Frame) /\ SameShape(frames, c.frames)
  BY <1>1 DEF Grows, Checker
<1>3. Marked(frames, path.gone, nextId)
  BY DEF SInv, Holds, Gones
<1> QED
  BY <1>2, <1>3, MarkedSame

LEMMA NowAfter ==
  ASSUME TInv, SInv
  PROVE  After(Now, Meaning)
<1>1. Grows(Now, Now) /\ Meaning \in Meanings
  BY NowIs, NowGrows
<1>2. Sound(View, Now, Meaning, nextId)
  BY <1>1, SoundNow
<1> QED
  BY <1>1, <1>2, HoldsAfter

LEMMA GonesAppend ==
  ASSUME NEW o \in Seq(OpenType), NEW x \in OpenType, NEW p
  PROVE  Gones(p, Append(o, x)) \subseteq Gones(p, o) \cup {x.before.gone}
<1> DEFINE l == Append(o, x)
<1>1. /\ l \in Seq(OpenType) /\ Len(l) = Len(o) + 1
      /\ \A i \in DOMAIN o : l[i] = o[i]
      /\ l[Len(o) + 1] = x
  <2> HIDE DEF OpenType
  <2> QED
    BY AppendIs
<1> HIDE DEF l
<1>2. Len(o) \in Nat /\ DOMAIN o = 1..Len(o) /\ DOMAIN l = 1..(Len(o) + 1)
  BY <1>1, SeqFacts
<1>3. \A i \in DOMAIN l : i \in DOMAIN o \/ i = Len(o) + 1
  BY <1>2
<1>4. Gones(p, l) \subseteq Gones(p, o) \cup {x.before.gone}
  BY <1>1, <1>3 DEF Gones
<1> QED
  BY <1>4 DEF l

LEMMA EnterSafe ==
  ASSUME TInv, NEW c, NEW m, After(c, m), NEW kind \in BlockKinds, NEW ids \in Scope, NEW modes,
         NEW before \in Paths, Marked(c.frames, before.gone, nextId),
         Enter(kind, modes, ids, c.frames, before),
         nextId' \in Int, nextId <= nextId',
         \A n \in DOMAIN ids : modes[n] \in Modes /\ ids[n] \in nextId..(nextId' - 1),
         \A n, k \in DOMAIN ids : ids[n] = ids[k] => n = k,
         errors' = c.errors, path'.gone = m.path.gone, leftover' = leftover,
         "followed" \in misused' => "followed" \in m.misused
  PROVE  SInv'
<1> DEFINE Sets == Gones(m.path, open) \cup {before.gone}
           x == [kind |-> kind, outer |-> nextId, before |-> before]
<1>1. /\ c.frames \in Seq(Frame) /\ c.frames # <<>> /\ c \in Checker
      /\ env \in Seq(Scope) /\ nextId \in Int
      /\ Holds(c.frames, env, leftover, nextId, Gones(m.path, open))
      /\ c.errors = {} => "followed" \notin m.misused
  BY AfterFrames
<1>2. Holds(c.frames, env, leftover, nextId, Sets)
  BY <1>1 DEF Holds
<1>3. /\ frames' = Append(c.frames, Entered(ids, modes)) /\ env' = Append(env, ids)
      /\ open' = Append(open, x)
  BY DEF Enter, Entered
<1>4. x \in OpenType /\ x.before = before
  BY <1>1 DEF OpenType
<1>5. open \in Seq(OpenType)
  BY DEF TInv
<1> HIDE DEF x, Sets
<1>6. Holds(frames', env', leftover', nextId', Sets)
  <2> DEFINE d == nextId'
  <2>1. /\ d \in Int /\ nextId <= d
        /\ \A n \in DOMAIN ids : modes[n] \in Modes /\ ids[n] \in nextId..(d - 1)
    OBVIOUS
  <2> HIDE DEF d
  <2>2. Holds(Append(c.frames, Entered(ids, modes)), Append(env, ids), leftover, d, Sets)
    BY <1>1, <1>2, <2>1, HoldsAppend
  <2> QED
    BY <1>3, <2>2 DEF d
<1>7. Gones(path', open') \subseteq Gones(path', open) \cup {before.gone}
  BY <1>3, <1>4, <1>5, GonesAppend
<1>8. Gones(path', open) = Gones(m.path, open)
  BY DEF Gones
<1>9. Gones(path', open') \subseteq Sets
  BY <1>7, <1>8 DEF Sets
<1>10. Holds(frames', env', leftover', nextId', Gones(path', open'))
  BY <1>6, <1>9 DEF Holds
<1>11. AcceptedNeverUsesMoved'
  BY <1>1 DEF AcceptedNeverUsesMoved
<1> QED
  BY <1>10, <1>11 DEF SInv

LEMMA OpenFnSafe ==
  ASSUME TInv, SInv, NEW ps \in Params, OpenFn(ps)
  PROVE  SInv'
<1> DEFINE names == {ps[i].name : i \in DOMAIN ps}
           ids == [n \in names |-> nextId + ParamOf(ps, n)]
           modes == [n \in names |-> ps[ParamOf(ps, n)].mode]
<1>1. /\ Enter("fn", modes, ids, frames, path)
      /\ nextId' = nextId + Len(ps) + 1
      /\ path' = [path EXCEPT !.due = {}]
      /\ UNCHANGED <<errors, leftover, misused>>
  BY DEF OpenFn
<1>2. /\ ids \in Scope /\ DOMAIN ids = names
      /\ \A n \in names : /\ modes[n] \in Modes
                          /\ ids[n] = nextId + ParamOf(ps, n)
                          /\ ParamOf(ps, n) \in 1..Len(ps)
                          /\ ps[ParamOf(ps, n)].name = n
      /\ Len(ps) \in Nat
  BY OpenFnIds
<1> HIDE DEF names, ids, modes
<1>3. nextId \in Int /\ path \in Paths /\ "fn" \in BlockKinds
  BY DEF TInv, BlockKinds
<1>4. nextId' \in Int /\ nextId <= nextId'
  BY <1>1, <1>2, <1>3
<1>5. ASSUME NEW n \in DOMAIN ids PROVE modes[n] \in Modes /\ ids[n] \in nextId..(nextId' - 1)
  BY <1>1, <1>2, <1>3
<1>6. ASSUME NEW n \in DOMAIN ids, NEW k \in DOMAIN ids, ids[n] = ids[k] PROVE n = k
  <2>1. ParamOf(ps, n) = ParamOf(ps, k)
    BY <1>2, <1>3, <1>6
  <2> QED
    BY <1>2, <2>1
<1>7. path'.gone = path.gone
  BY <1>1, <1>3 DEF Paths
<1>8. /\ Now.frames = frames /\ Now.errors = errors
      /\ Meaning.path = path /\ Meaning.misused = misused
  BY NowIs
<1>9. After(Now, Meaning)
  BY NowAfter
<1>10. Marked(Now.frames, path.gone, nextId)
  BY StillMarked, NowGrows
<1> HIDE DEF Now, Meaning
<1>11. Enter("fn", modes, ids, Now.frames, path)
  BY <1>1, <1>8
<1>12. /\ errors' = Now.errors /\ path'.gone = Meaning.path.gone /\ leftover' = leftover
       /\ "followed" \in misused' => "followed" \in Meaning.misused
  BY <1>1, <1>7, <1>8
<1> QED
  BY <1>2, <1>3, <1>4, <1>5, <1>6, <1>9, <1>10, <1>11, <1>12, EnterSafe

LEMMA OpenLoopSafe ==
  ASSUME TInv, SInv, NEW e \in Exprs, NEW S \in SUBSET Names, \A n, k \in S : n = k,
         OpenLoop(S, e)
  PROVE  SInv'
<1> DEFINE c == Infer(Now, e)  m == Mean(View, Meaning, e)
           modes == [n \in S |-> "read"]
           ids == [n \in S |-> nextId]
           before == IF S = {} THEN path ELSE path'
<1>1. /\ Means(m) /\ errors' = c.errors
      /\ Enter("loop", modes, ids, c.frames, before)
      /\ nextId' = nextId + 1 /\ UNCHANGED leftover
  BY DEF OpenLoop, AtStmt
<1>2. After(c, m)
  BY NowGrows, ExprAfter
<1>3. DOMAIN ids = S /\ \A n \in S : ids[n] = nextId
  OBVIOUS
<1>4. ids \in Scope /\ \A n \in DOMAIN ids : modes[n] \in Modes
  BY <1>3, OneIds
<1> HIDE DEF c, m, modes, ids
<1>5. nextId \in Int /\ path \in Paths /\ "loop" \in BlockKinds
  BY DEF TInv, BlockKinds
<1>6. path' = m.path /\ misused' = m.misused /\ m.path \in Paths
  BY <1>1, <1>2 DEF Means, After, Meanings
<1>7. nextId' \in Int /\ nextId <= nextId' /\ \A n \in DOMAIN ids : ids[n] \in nextId..(nextId' - 1)
  BY <1>1, <1>3, <1>5
<1>8. \A n, k \in DOMAIN ids : ids[n] = ids[k] => n = k
  BY <1>3
<1>9. Marked(c.frames, before.gone, nextId) /\ before \in Paths
  <2>1. Marked(c.frames, path.gone, nextId)
    BY <1>2, StillMarked DEF After
  <2>2. Marked(c.frames, path'.gone, nextId)
    BY <1>2, <1>6 DEF After, Holds, Gones
  <2> QED
    BY <1>5, <1>6, <2>1, <2>2
<1> HIDE DEF before
<1>10. /\ errors' = c.errors /\ path'.gone = m.path.gone /\ leftover' = leftover
       /\ "followed" \in misused' => "followed" \in m.misused
  BY <1>1, <1>6
<1> QED
  BY <1>1, <1>2, <1>4, <1>5, <1>7, <1>8, <1>9, <1>10, EnterSafe

LEMMA OpenThenSafe ==
  ASSUME TInv, SInv, NEW e \in Exprs, OpenThen(e)
  PROVE  SInv'
<1> DEFINE c == Infer(Now, e)  m == Mean(View, Meaning, e)
<1>1. /\ Means(m) /\ errors' = c.errors
      /\ Enter("then", NoBindings, NoBindings, c.frames, path')
      /\ nextId' = nextId + 1 /\ UNCHANGED leftover
  BY DEF OpenThen, AtStmt
<1>2. After(c, m)
  BY NowGrows, ExprAfter
<1> HIDE DEF c, m
<1>3. nextId \in Int /\ "then" \in BlockKinds
  BY DEF TInv, BlockKinds
<1>4. path' = m.path /\ misused' = m.misused /\ m.path \in Paths
  BY <1>1, <1>2 DEF Means, After, Meanings
<1>5. nextId' \in Int /\ nextId <= nextId'
  BY <1>1, <1>3
<1>6. NoBindings \in Scope /\ DOMAIN NoBindings = {}
  BY NoBindingsIs
<1>7. Marked(c.frames, path'.gone, nextId)
  BY <1>2, <1>4 DEF After, Holds, Gones
<1>8. /\ \A n \in DOMAIN NoBindings :
            NoBindings[n] \in Modes /\ NoBindings[n] \in nextId..(nextId' - 1)
      /\ \A n, k \in DOMAIN NoBindings : NoBindings[n] = NoBindings[k] => n = k
  BY <1>6
<1>9. /\ errors' = c.errors /\ path'.gone = m.path.gone /\ leftover' = leftover /\ path' \in Paths
      /\ "followed" \in misused' => "followed" \in m.misused
  BY <1>1, <1>4
<1> QED
  BY <1>1, <1>2, <1>3, <1>5, <1>6, <1>7, <1>8, <1>9, EnterSafe

(* A block is left.                                                         *)
LEMMA LeaveSafe ==
  ASSUME TInv, NEW fs \in Seq(Frame), fs # <<>>,
         Holds(fs, env, leftover, nextId, Gones(path, open)),
         open # <<>>, frames' = Front(fs), env' = Front(env), open' = Front(open),
         UNCHANGED <<nextId, leftover>>,
         path'.gone \subseteq path.gone \cup Last(open).before.gone,
         AcceptedNeverUsesMoved'
  PROVE  SInv'
<1> DEFINE Sets == Gones(path, open)  o == Front(open)
<1>1. env \in Seq(Scope) /\ open \in Seq(OpenType) /\ nextId \in Int
  BY DEF TInv
<1>2. Holds(Front(fs), Front(env), leftover, nextId, Sets)
  <2>1. Holds(fs, env, leftover, nextId, Sets)
    OBVIOUS
  <2> HIDE DEF Sets
  <2> QED
    BY <1>1, <2>1, HoldsFront
<1>3. /\ o \in Seq(OpenType) /\ Len(o) = Len(open) - 1
      /\ \A i \in 1..(Len(open) - 1) : i \in DOMAIN open /\ o[i] = open[i]
      /\ Last(open) = open[Len(open)] /\ Len(open) \in DOMAIN open
  <2> HIDE DEF OpenType
  <2> QED
    BY <1>1, FrontIs
<1> HIDE DEF o
<1>4. \A i \in DOMAIN o : i \in DOMAIN open /\ o[i] = open[i]
  BY <1>3, SeqFacts
<1>5. ASSUME NEW T \in Gones(path', o) PROVE \E R, S \in Sets : T \subseteq R \cup S
  <2>1. CASE T = path'.gone
    <3> DEFINE R == path.gone  S == Last(open).before.gone
    <3>1. R \in Sets /\ S \in Sets
      BY <1>3 DEF Gones
    <3> HIDE DEF Sets
    <3>2. T \subseteq R \cup S
      BY <2>1
    <3> QED
      BY <3>1, <3>2
  <2>2. CASE T \in {o[i].before.gone : i \in DOMAIN o}
    BY <1>4, <2>2 DEF Gones
  <2> QED
    BY <2>1, <2>2 DEF Gones
<1> HIDE DEF Sets
<1>6. Holds(Front(fs), Front(env), leftover, nextId, Gones(path', o))
  <2> DEFINE Others == Gones(path', o)
  <2>1. \A T \in Others : \E R, S \in Sets : T \subseteq R \cup S
    BY <1>5
  <2> HIDE DEF Others
  <2>2. Holds(Front(fs), Front(env), leftover, nextId, Others)
    BY <1>2, <2>1, HoldsWithin
  <2> QED
    BY <2>2 DEF Others
<1>7. Holds(frames', env', leftover', nextId', Gones(path', open'))
  BY <1>6 DEF o
<1> QED
  BY <1>7 DEF SInv

LEMMA CloseFnSafe ==
  ASSUME TInv, SInv, CloseFn
  PROVE  SInv'
<1>1. /\ open # <<>> /\ open' = Front(open) /\ env' = Front(env) /\ frames' = Front(Again.frames)
      /\ errors' = Again.errors
      /\ UNCHANGED <<nextId, leftover>> /\ Means(Ending(Meaning))
  BY CloseFnIs
<1>2. Grows(Now, Again)
  BY AgainGrows
<1>3. Sound(View, Again, Meaning, nextId) /\ Meaning \in Meanings
  BY <1>2, SoundNow, NowIs
<1>4. After(Again, Meaning)
  BY <1>2, <1>3, HoldsAfter
<1>5. /\ Again.frames \in Seq(Frame) /\ Again.frames # <<>>
      /\ Holds(Again.frames, env, leftover, nextId, Gones(Meaning.path, open))
      /\ Again.errors = {} => "followed" \notin Meaning.misused
  BY <1>4, AfterFrames
<1>6. Meaning.path = path /\ Meaning.misused = misused
  BY NowIs
<1> HIDE DEF Meaning, Again
<1>7. /\ Ending(Meaning).path = Meaning.path
      /\ "followed" \in Ending(Meaning).misused => "followed" \in Meaning.misused
  BY <1>3, EndingIs
<1>8. path' = path /\ ("followed" \in misused' => "followed" \in misused)
  BY <1>1, <1>6, <1>7 DEF Means
<1>9. AcceptedNeverUsesMoved'
  BY <1>1, <1>5, <1>6, <1>8 DEF AcceptedNeverUsesMoved
<1>10. path'.gone \subseteq path.gone \cup Last(open).before.gone
  BY <1>8
<1> QED
  BY <1>1, <1>5, <1>6, <1>9, <1>10, LeaveSafe

LEMMA CloseLoopSafe ==
  ASSUME TInv, SInv, CloseLoop
  PROVE  SInv'
<1> DEFINE again == MovedAgain # {}
<1>1. /\ open # <<>> /\ frames' = Front(frames) /\ env' = Front(env) /\ open' = Front(open)
      /\ UNCHANGED <<errors, nextId, leftover>>
      /\ Means(Noted(Meaning, "turn", again))
  BY DEF CloseLoop, TopIs, Leave
<1>2. again \in BOOLEAN /\ "turn" \in Ways
  BY DEF Ways
<1> HIDE DEF again
<1>3. Meaning.path = path /\ Meaning.misused = misused /\ Meaning \in Meanings
  BY NowIs
<1> HIDE DEF Meaning
<1>4. /\ Noted(Meaning, "turn", again).path = Meaning.path
      /\ "followed" \in Noted(Meaning, "turn", again).misused => "followed" \in Meaning.misused
  BY <1>2, <1>3, NotedIs
<1>5. path' = path /\ ("followed" \in misused' => "followed" \in misused)
  BY <1>1, <1>3, <1>4 DEF Means
<1>6. AcceptedNeverUsesMoved'
  BY <1>1, <1>5 DEF SInv, AcceptedNeverUsesMoved
<1>7. frames \in Seq(Frame) /\ frames # <<>>
  BY Sizes DEF TInv
<1>8. Holds(frames, env, leftover, nextId, Gones(path, open))
  BY DEF SInv
<1>9. path'.gone \subseteq path.gone \cup Last(open).before.gone
  BY <1>5
<1> QED
  BY <1>1, <1>6, <1>7, <1>8, <1>9, LeaveSafe

LEMMA CloseIfSafe ==
  ASSUME TInv, SInv, CloseIf
  PROVE  SInv'
<1>1. /\ open # <<>> /\ frames' = Front(frames) /\ env' = Front(env) /\ open' = Front(open)
      /\ UNCHANGED <<errors, nextId, leftover, misused>>
      /\ path' = Either(path, Last(open).before)
  BY DEF CloseIf, TopIs, Leave
<1>2. path'.gone = path.gone \cup Last(open).before.gone
  BY <1>1 DEF Either
<1>3. AcceptedNeverUsesMoved'
  BY <1>1 DEF SInv, AcceptedNeverUsesMoved
<1>4. frames \in Seq(Frame) /\ frames # <<>>
  BY Sizes DEF TInv
<1>5. Holds(frames, env, leftover, nextId, Gones(path, open))
  BY DEF SInv
<1> QED
  BY <1>1, <1>2, <1>3, <1>4, <1>5, LeaveSafe

LEMMA OpenElseSafe ==
  ASSUME TInv, SInv, OpenElse
  PROVE  SInv'
<1> DEFINE Sets == Gones(path, open)  f == Front(frames)  s == Front(env)
<1>1. /\ Len(open) \in DOMAIN open /\ Len(open') = Len(open)
      /\ open' \in Seq(OpenType)
      /\ \A i \in 1..(Len(open) - 1) : open'[i] = open[i]
      /\ open'[Len(open)].before = path
      /\ path' = open[Len(open)].before
      /\ UNCHANGED <<errors, nextId, leftover, misused>>
  BY OpenElseIs
<1>2. frames' = Append(f, NoBindings) /\ env' = Append(s, NoBindings)
  BY DEF OpenElse
<1>3. /\ frames \in Seq(Frame) /\ frames # <<>> /\ env \in Seq(Scope) /\ nextId \in Int
      /\ open \in Seq(OpenType)
  BY Sizes DEF TInv
<1>4. Holds(frames, env, leftover, nextId, Sets)
  BY DEF SInv
<1> HIDE DEF Sets
<1>5. Holds(f, s, leftover, nextId, Sets) /\ f \in Seq(Frame) /\ s \in Seq(Scope)
  BY <1>3, <1>4, HoldsFront
<1> HIDE DEF f, s
<1>6. NoBindings \in Scope /\ DOMAIN NoBindings = {}
  BY NoBindingsIs
<1>7. Entered(NoBindings, NoBindings) = NoBindings
  BY <1>6 DEF Entered, NoBindings
<1>8. Holds(Append(f, Entered(NoBindings, NoBindings)), Append(s, NoBindings), leftover, nextId, Sets)
  <2>1. /\ \A n \in DOMAIN NoBindings :
              NoBindings[n] \in Modes /\ NoBindings[n] \in nextId..(nextId - 1)
        /\ \A n, k \in DOMAIN NoBindings : NoBindings[n] = NoBindings[k] => n = k
        /\ nextId <= nextId
    BY <1>3, <1>6
  <2> QED
    BY <1>3, <1>5, <1>6, <2>1, HoldsAppend
<1>9. Holds(frames', env', leftover', nextId', Sets)
  BY <1>1, <1>2, <1>7, <1>8
<1>10. Gones(path', open') \subseteq Sets
  <2>1. /\ Len(open) \in Nat /\ DOMAIN open = 1..Len(open) /\ DOMAIN open' = 1..Len(open)
    BY <1>1, <1>3, SeqFacts
  <2>2. path'.gone \in Sets
    BY <1>1 DEF Sets, Gones
  <2>3. ASSUME NEW i \in DOMAIN open' PROVE open'[i].before.gone \in Sets
    <3>1. CASE i = Len(open)
      BY <1>1, <3>1 DEF Sets, Gones
    <3>2. CASE i # Len(open)
      <4>1. i \in 1..(Len(open) - 1) /\ i \in DOMAIN open
        BY <2>1, <3>2
      <4> QED
        BY <1>1, <4>1 DEF Sets, Gones
    <3> QED
      BY <3>1, <3>2
  <2> QED
    BY <2>2, <2>3 DEF Gones
<1>11. Holds(frames', env', leftover', nextId', Gones(path', open'))
  BY <1>9, <1>10 DEF Holds
<1>12. AcceptedNeverUsesMoved'
  BY <1>1 DEF SInv, AcceptedNeverUsesMoved
<1> QED
  BY <1>11, <1>12 DEF SInv

-----------------------------------------------------------------------------
(* The theorems.                                                            *)

LEMMA InitSafe == Init => SInv
<1> SUFFICES ASSUME Init PROVE SInv
  OBVIOUS
<1>1. /\ frames = <<NoBindings>> /\ env = <<NoBindings>> /\ leftover = {} /\ nextId = 1
      /\ open = <<>> /\ path.gone = {} /\ misused = {}
  BY DEF Init, NoPath
<1>2. DOMAIN NoBindings = {}
  BY NoBindingsIs
<1>3. \A i \in DOMAIN frames : frames[i] = NoBindings /\ env[i] = NoBindings
  BY <1>1
<1>4. Len(env) = Len(frames)
  BY <1>1
<1>5. Gones(path, open) = {{}}
  BY <1>1 DEF Gones
<1>6. Linked(frames, env, leftover)
  BY <1>2, <1>3, <1>4 DEF Linked
<1>7. Separate(frames) /\ IdsBelow(frames, nextId)
  BY <1>2, <1>3 DEF Separate, IdsBelow
<1>8. Below(leftover, nextId) /\ Marked(frames, {}, nextId)
  BY <1>1 DEF Below, Marked, Known
<1> QED
  BY <1>1, <1>5, <1>6, <1>7, <1>8 DEF SInv, Holds, Fine, AcceptedNeverUsesMoved

LEMMA SafeStep == TInv /\ SInv /\ [Next]_vars => SInv'
<1> SUFFICES ASSUME TInv, SInv, [Next]_vars PROVE SInv'
  OBVIOUS
<1>1. CASE \E n \in Names, e \in Exprs : Let(n, e) \/ Var(n, e) \/ Assign(n, e) \/ AssignTo(n, e)
  <2>1. "read" \in Modes /\ "mut" \in Modes
    BY DEF Modes
  <2> QED
    BY <1>1, <2>1, BindSafe, AssignSafe, AssignToSafe DEF Let, Var
<1>2. CASE \E e \in Exprs, how \in {"expr", "defer", "return"} : Evaluate(e, how)
  BY <1>2, EvaluateSafe
<1>3. CASE \E e, body \in Exprs, n \in Payloads : Match(e, n, body)
  BY <1>3, MatchSafe
<1>4. CASE \E ps \in Params : OpenFn(ps)
  BY <1>4, OpenFnSafe
<1>5. CASE \E e \in Exprs, n \in Names, for \in BOOLEAN : OpenLoop(IF for THEN {n} ELSE {}, e)
  <2>1. PICK e \in Exprs, n \in Names, for \in BOOLEAN : OpenLoop(IF for THEN {n} ELSE {}, e)
    BY <1>5
  <2> DEFINE S == IF for THEN {n} ELSE {}
  <2>2. S \in SUBSET Names /\ (\A x, k \in S : x = k) /\ OpenLoop(S, e)
    BY <2>1
  <2> HIDE DEF S
  <2> QED
    BY <2>2, OpenLoopSafe
<1>6. CASE \E e \in Exprs : OpenThen(e)
  BY <1>6, OpenThenSafe
<1>7. CASE CloseFn
  BY <1>7, CloseFnSafe
<1>8. CASE CloseLoop
  BY <1>8, CloseLoopSafe
<1>9. CASE OpenElse
  BY <1>9, OpenElseSafe
<1>10. CASE CloseIf
  BY <1>10, CloseIfSafe
<1>11. CASE EndDefs \/ UNCHANGED vars
  <2>1. UNCHANGED <<open, frames, errors, env, nextId, leftover, path, misused>>
    BY <1>11 DEF EndDefs, vars, checker, meaning
  <2> QED
    BY <2>1 DEF SInv, AcceptedNeverUsesMoved
<1> QED
  BY <1>1, <1>2, <1>3, <1>4, <1>5, <1>6, <1>7, <1>8, <1>9, <1>10, <1>11
     DEF Next, Stmt, Scoping

LEMMA SafeScopes == TInv /\ SInv => ScopesBalanced
<1> SUFFICES ASSUME TInv, SInv PROVE ScopesBalanced
  OBVIOUS
<1>1. Linked(frames, env, leftover)
  BY DEF SInv, Holds, Fine
<1>2. /\ frames \in Seq(Frame) /\ env \in Seq(Scope)
      /\ Len(frames) = Len(open) + 1 /\ Len(env) = Len(frames)
      /\ zone = "def" => frames[1] = NoBindings
  BY DEF TInv
<1>3. DOMAIN env = DOMAIN frames
  BY <1>2, SeqFacts
<1>4. ASSUME NEW i \in DOMAIN env, NEW n \in DOMAIN env[i]
      PROVE  n \in DOMAIN frames[i] /\ frames[i][n].id \in {env[i][n]} \cup leftover
  BY <1>1, <1>3 DEF Linked
<1> QED
  BY <1>2, <1>4 DEF ScopesBalanced

(* One frame per open block; the frame of a block has what the source binds *)
(* there, in every file (ScopesBalanced).                                   *)
THEOREM ScopesAreBalanced == Spec => []ScopesBalanced
BY InitTypes, InitSafe, TypesStep, SafeStep, SafeScopes, PTL DEF Spec

(* In every file the checker accepts, a use of a value given away is one of *)
(* those that Ways names: of what is used where the checker follows names   *)
(* and moves, none was given away (AcceptedNeverUsesMoved).                 *)
THEOREM AcceptedIsSafe == Spec => []AcceptedNeverUsesMoved
<1>1. SInv => AcceptedNeverUsesMoved
  BY DEF SInv
<1> QED
  BY <1>1, InitTypes, InitSafe, TypesStep, SafeStep, PTL DEF Spec
=============================================================================
